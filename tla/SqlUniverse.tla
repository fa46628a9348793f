----------------------------- MODULE SqlUniverse -----------------------------
(***************************************************************************)
(* The bounded universe of SqlType values of crates/dbt-xdbc/src/sql/      *)
(* types.rs that the models of the round trip and of the metadata bridge   *)
(* draw their types from: the types a caller builds from the CONSTANTS,    *)
(* and the Arrow DataTypes whose _from_arrow_type image they also use.     *)
(***************************************************************************)
EXTENDS SqlRender, SqlArrow

CONSTANTS
    Dialects,     \* the backends the run renders for
    Precisions,   \* Option<u8> precisions and lengths: None and numbers
    Scales,       \* Option<i8> scales
    OtherWords,   \* the single words of Other(..) types
    FieldNames,   \* plain struct field names
    Depth,        \* how deep Array / Struct / Map nest
    TzSpecs,      \* the TimeZoneSpecs of the constructed Time / Timestamp types
    NestOther,    \* whether an Other(..) may sit inside a composite
    ArrowLeaves   \* the Arrow DataType variants of the Arrow fields

ASSUME DialectsAssumption == Dialects \subseteq Backends
ASSUME PrecisionAssumption == Precisions \subseteq (U8 \cup {None}) /\ Scales \subseteq I8
ASSUME DepthAssumption == Depth \in Nat
ASSUME TzAssumption == TzSpecs \subseteq TimeZoneSpecs /\ NestOther \in BOOLEAN

-----------------------------------------------------------------------------
(* The universe of SqlType values.                                         *)
Opt(S) == S \cup {None}

TimeZoneFree ==
    {Scalar(k) : k \in ScalarKinds}
      \cup {FloatT(p) : p \in Precisions}
      \cup {NumericT(k, ps) : k \in {"Numeric", "BigNumeric"},
              ps \in Opt({[p |-> p, s |-> s] : p \in Precisions \ {None},
                                                s \in Opt(Scales)})}
      \cup {CharT(k, n) : k \in {"Char", "Varchar"}, n \in Precisions}
      \cup {IntervalT(q) : q \in Opt({[start |-> s, end |-> e] :
                                        s \in DateTimeFields, e \in Opt(DateTimeFields)})}
      \cup {OtherT(<<w>>) : w \in OtherWords}
      \cup {ArrayT(None), StructT(None), MapT(None)}

\* A TIME the code builds never has an Unspecified time zone: the parser
\* turns it into Without (parse_inner's TIME arm) and _from_arrow_type
\* writes Without.
Temporal ==
    {TimeT("Time", p, tz) : p \in Precisions, tz \in TzSpecs \ {"Unspecified"}}
      \cup {TimeT("Timestamp", p, tz) : p \in Precisions, tz \in TzSpecs}

\* The composites one level above the types S.
Nest(T) ==
    LET S == IF NestOther THEN T ELSE {x \in T : x.k # "Other"} IN
    {ArrayT(x) : x \in S}
      \cup {StructT(<<>>)}
      \cup {StructT(<<Field(f, x, nl)>>) : f \in FieldNames, x \in S, nl \in BOOLEAN}
      \cup {StructT(<<Field(f, x, TRUE), Field(g, Scalar("Integer"), FALSE)>>) :
              f \in FieldNames, g \in FieldNames, x \in S}
      \cup {MapT([key |-> Scalar("Text"), val |-> x]) : x \in S}

TypesUpTo[n \in Nat] ==
    IF n = 0 THEN TimeZoneFree \cup Temporal
    ELSE TypesUpTo[n - 1] \cup Nest(TypesUpTo[n - 1])

Universe == TypesUpTo[Depth]

\* Arrow DataTypes without children, of the variants in ArrowLeaves.
ArrowScalars ==
    LET units == {"Second", "Millisecond", "Microsecond", "Nanosecond"}
        all == {[dt |-> l] : l \in ArrowLeaves}
                 \cup {[dt |-> "Decimal128", p |-> p, s |-> s] :
                         p \in Precisions \ {None}, s \in Scales}
                 \cup {[dt |-> "Time32", unit |-> u] : u \in {"Second", "Millisecond"}}
                 \cup {[dt |-> "Time64", unit |-> u] : u \in {"Microsecond", "Nanosecond"}}
                 \cup {[dt |-> "Duration", unit |-> u] : u \in units}
                 \cup {[dt |-> "Timestamp", unit |-> u, tz |-> z] :
                         u \in units, z \in BOOLEAN}
                 \cup {[dt |-> "Interval", unit |-> u] :
                         u \in {"YearMonth", "DayTime", "MonthDayNano"}}
        withData == {"Decimal128", "Time32", "Time64", "Duration", "Timestamp", "Interval"}
    IN {x \in all : x.dt \in ArrowLeaves /\ (x.dt \in withData <=> DOMAIN x # {"dt"})}

\* The Arrow fields' types: the scalars, a Struct of one field of them and
\* a Dictionary of them.  (Arrow itself has no Time32 of micro- or
\* nanoseconds and no Time64 of seconds or milliseconds.)
ArrowTypes ==
    LET children == IF NestOther THEN ArrowScalars
                    ELSE {x \in ArrowScalars : FromArrowType("Generic", x).k # "Other"}
    IN ArrowScalars
      \cup {[dt |-> "Struct", fields |-> <<[name |-> f, type |-> x, nullable |-> nl]>>] :
              f \in FieldNames, x \in children, nl \in BOOLEAN}
      \cup {[dt |-> "Dictionary", values |-> x] : x \in ArrowScalars}

=============================================================================
