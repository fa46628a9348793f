------------------------------ MODULE SqlTypes ------------------------------
(***************************************************************************)
(* The data of crates/dbt-xdbc/src/sql/types.rs: backends, date/time      *)
(* fields, time-zone specs and SqlType values, and the non-recursive       *)
(* pieces of the renderer (DateTimeField::write, from_precision, the two   *)
(* TimeZoneSpec writers and is_with_time_zone).                            *)
(*                                                                         *)
(* Rendered text is a sequence of lexemes: a word (a number written with  *)
(* `{p}` is the word ToString(p)), one of the punctuation characters      *)
(* ( ) [ ] < > , or Sp, one space.  Words never touch (the renderer        *)
(* always separates them by a space or glues them into one word), so two  *)
(* renderings are the same string exactly when their lexeme sequences are *)
(* equal, and the tokenizer's output is the lexeme sequence without its   *)
(* spaces.  Keywords are written in their canonical upper case; the       *)
(* parser's case-insensitive `eqi` is equality on them.                    *)
(***************************************************************************)
EXTENDS Integers, Sequences, TLC

CONSTANT None   \* Option::None of any payload, a value of no other type

\* Backend, from crates/dbt-xdbc (Generic stands for Generic { .. }).
Backends == {"Postgres", "Redshift", "RedshiftODBC", "Snowflake", "BigQuery",
             "Databricks", "DatabricksODBC", "Salesforce", "Generic"}

\* `Postgres | Redshift | RedshiftODBC`, the match arm the code repeats.
PgFamily == {"Postgres", "Redshift", "RedshiftODBC"}

\* `Databricks | DatabricksODBC`.
DbxFamily == {"Databricks", "DatabricksODBC"}

\* One space of rendered text.
Sp == " "

Punct == {"(", ")", "[", "]", "<", ">", ","}

\* The DateTimeField variants, named by their Display form.
DateTimeFields == {"YEAR", "MONTH", "DAY", "HOUR", "MINUTE", "SECOND",
                   "MILLISECOND", "MICROSECOND", "NANOSECOND"}

TimeZoneSpecs == {"Local", "With", "Without", "Unspecified"}

\* The widths of the integers the parser reads with next_int::<T>(); a
\* usize length is read over the lengths the model renders.
U8 == 0..255
I8 == -128..127
Usize == 0..300

\* `write!(out, "{n}")` of a number: its decimal word.
Num(n) == ToString(n)

-----------------------------------------------------------------------------
(* DateTimeField::write: on the PostgreSQL family the sub-second fields    *)
(* are SECOND(p); everywhere else a field is its Display name.             *)
DateTimeFieldWrite(f, d) ==
    IF d \in PgFamily /\ f \in {"MILLISECOND", "MICROSECOND", "NANOSECOND"}
    THEN <<"SECOND", "(",
           CASE f = "MILLISECOND" -> "3" [] f = "MICROSECOND" -> "6" [] OTHER -> "9",
           ")">>
    ELSE <<f>>

\* DateTimeField::from_precision.
FromPrecision(p) ==
    CASE p \in 0..2 -> "SECOND"
      [] p \in 3..5 -> "MILLISECOND"
      [] p \in 6..8 -> "MICROSECOND"
      [] OTHER      -> "NANOSECOND"

\* The long clause " WITH [LOCAL] TIME ZONE" / " WITHOUT TIME ZONE".
TzClause(tz) ==
    CASE tz = "Local"   -> <<Sp, "WITH", Sp, "LOCAL", Sp, "TIME", Sp, "ZONE">>
      [] tz = "With"    -> <<Sp, "WITH", Sp, "TIME", Sp, "ZONE">>
      [] tz = "Without" -> <<Sp, "WITHOUT", Sp, "TIME", Sp, "ZONE">>
      [] OTHER          -> <<>>

\* TimeZoneSpec::write_with_leading_space.
WriteWithLeadingSpace(tz, d) ==
    IF \/ d = "BigQuery" /\ tz \in {"Without", "Unspecified"}
       \/ d \in PgFamily /\ tz = "Without"
    THEN <<>>
    ELSE TzClause(tz)

\* TimeZoneSpec::write_single_token_suffix: the text glued to the keyword.
\* The debug_asserts of the BigQuery, PostgreSQL and Databricks arms are
\* SuffixAssertFails; a release build renders as below.
SingleTokenSuffix(tz, d) ==
    CASE d = "BigQuery"                                  -> ""
      [] d \in PgFamily /\ tz \in {"Local", "With"}      -> "TZ"
      [] d \in PgFamily                                  -> ""
      [] d \in DbxFamily /\ tz = "Without"               -> "_NTZ"
      [] d \in DbxFamily                                 -> ""
      [] tz = "Local"                                    -> "_LTZ"
      [] tz = "With"                                     -> "_TZ"
      [] tz = "Without"                                  -> "_NTZ"
      [] OTHER                                           -> ""

\* The debug_assert!s of write_single_token_suffix that fail.
SuffixAssertFails(tz, d) ==
    \/ d = "BigQuery" /\ tz \in {"Local", "With"}
    \/ d \in PgFamily /\ tz = "Local"
    \/ d \in DbxFamily /\ tz = "Local"

\* TimeZoneSpec::is_with_time_zone (a release build: the Snowflake arm's
\* debug_assert!(false) is IsWithTzAssertFails).
IsWithTimeZone(tz, d) ==
    CASE d = "Databricks" /\ tz \in {"Unspecified", "With", "Local"} -> TRUE
      [] d = "Snowflake" /\ tz = "Unspecified"                      -> FALSE
      [] OTHER -> tz \in {"With", "Local"}

IsWithTzAssertFails(tz, d) == d = "Snowflake" /\ tz = "Unspecified"

-----------------------------------------------------------------------------
(* SqlType values.  Every variant is a record whose `k` names it; the      *)
(* payload fields follow the enum.  Option payloads are None or a value.   *)
Scalar(k) == [k |-> k]
FloatT(p) == [k |-> "Float", p |-> p]
NumericT(k, ps) == [k |-> k, ps |-> ps]          \* k: Numeric or BigNumeric
CharT(k, len) == [k |-> k, len |-> len]          \* k: Char or Varchar
TimeT(k, p, tz) == [k |-> k, p |-> p, tz |-> tz] \* k: Time or Timestamp
IntervalT(q) == [k |-> "Interval", q |-> q]
ArrayT(inner) == [k |-> "Array", inner |-> inner]
StructT(fs) == [k |-> "Struct", fields |-> fs]
MapT(kv) == [k |-> "Map", kv |-> kv]
OtherT(s) == [k |-> "Other", s |-> s]
Field(name, ty, nullable) == [name |-> name, ty |-> ty, nullable |-> nullable]

\* The variants without a payload.
ScalarKinds == {"Boolean", "TinyInt", "SmallInt", "Integer", "BigInt", "Real",
                "Double", "Text", "Clob", "Blob", "Binary", "Date", "DateTime",
                "Json", "Jsonb", "Geometry", "Geography", "Variant", "Void"}

\* The Other payload the parser builds from its first word w and the tokens
\* it gathers after it: `w` then ` {tok}` for each.
OtherPayload(w, toks) ==
    <<w>> \o [i \in 1..(2 * Len(toks)) |->
                 IF i % 2 = 1 THEN Sp ELSE toks[i \div 2]]

\* The tokenizer: the rendered text without its spaces.
Tokenize(s) == SelectSeq(s, LAMBDA x : x # Sp)

=============================================================================
