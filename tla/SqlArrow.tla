------------------------------ MODULE SqlArrow ------------------------------
(***************************************************************************)
(* SqlType::_from_arrow_type of crates/dbt-xdbc/src/sql/types.rs, the     *)
(* best-effort mapping SqlType::from_field falls back to when an Arrow     *)
(* field carries no type metadata.  An Arrow DataType is a record whose   *)
(* `dt` names the variant; TimeUnit and IntervalUnit are strings.          *)
(***************************************************************************)
EXTENDS SqlParse

\* The result of a call that panics (todo!() or unreachable!()).
Panic == [k |-> "panic"]

\* `if tz.is_some() { With } else { Without }`.
TzOf(hasTz) == IF hasTz THEN "With" ELSE "Without"

\* The precision of a Timestamp / Time of a TimeUnit.
UnitPrecision(u) ==
    CASE u = "Second" -> None [] u = "Millisecond" -> 3
      [] u = "Microsecond" -> 6 [] OTHER -> 9

\* SqlType::_from_arrow_type.  A Struct's fields are mapped one by one; a
\* panic in any of them is a panic of the whole call.
RECURSIVE FromArrowType(_, _)
FromArrowType(backend, a) ==
    CASE a.dt = "Null" -> CharT("Varchar", None)
      [] a.dt = "Boolean" -> Scalar("Boolean")
      [] a.dt \in {"Int8", "UInt8", "Int16"} -> Scalar("SmallInt")
      [] a.dt \in {"UInt16", "Int32"} -> Scalar("Integer")
      [] a.dt \in {"UInt32", "Int64", "UInt64"} -> Scalar("BigInt")
      [] a.dt \in {"Float16", "Float32"} -> Scalar("Real")
      [] a.dt = "Float64" -> Scalar("Double")
      [] a.dt \in {"Decimal128", "Decimal256"} -> NumericT("Numeric", [p |-> a.p, s |-> a.s])
      [] a.dt \in {"Utf8View", "Utf8"} -> CharT("Varchar", None)
      [] a.dt = "LargeUtf8" -> Scalar("Text")
      [] a.dt \in {"Binary", "LargeBinary", "BinaryView", "FixedSizeBinary"} -> Scalar("Binary")
      [] a.dt \in {"Date32", "Date64"} -> Scalar("Date")
      [] a.dt = "Time32" /\ a.unit \in {"Second", "Millisecond"} ->
            TimeT("Time", UnitPrecision(a.unit), "Without")
      [] a.dt = "Time64" /\ a.unit \in {"Microsecond", "Nanosecond"} ->
            TimeT("Time", UnitPrecision(a.unit), "Without")
      [] a.dt \in {"Time32", "Time64"} -> Panic                   \* unreachable!
      [] a.dt = "Timestamp" -> TimeT("Timestamp", UnitPrecision(a.unit), TzOf(a.tz))
      [] a.dt = "Duration" -> Panic                               \* todo!()
      [] a.dt = "Interval" ->
            CASE a.unit = "YearMonth" -> IntervalT([start |-> "YEAR", end |-> "MONTH"])
              [] a.unit = "DayTime" -> IntervalT([start |-> "DAY", end |-> "MILLISECOND"])
              [] OTHER -> IntervalT([start |-> "MONTH", end |-> "NANOSECOND"])
      [] a.dt \in {"List", "LargeList", "ListView", "LargeListView"} -> ArrayT(None)
      [] a.dt = "FixedSizeList" -> OtherT(<<"ARRAY">>)
      [] a.dt = "Struct" ->
            LET fs == [i \in DOMAIN a.fields |->
                         Field(a.fields[i].name,
                               FromArrowType(backend, a.fields[i].type),
                               a.fields[i].nullable)]
            IN IF \E i \in DOMAIN fs : fs[i].ty = Panic THEN Panic ELSE StructT(fs)
      [] a.dt = "Union" -> OtherT(<<"UNION">>)
      [] a.dt = "Map" -> MapT(None)
      [] OTHER -> FromArrowType(backend, a.values)  \* Dictionary, RunEndEncoded

=============================================================================
