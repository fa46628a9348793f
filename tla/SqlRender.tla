------------------------------ MODULE SqlRender ------------------------------
(***************************************************************************)
(* SqlType::write of crates/dbt-xdbc/src/sql/types.rs: the dialect-aware   *)
(* renderer.  The code is one match on (backend, self) whose first         *)
(* matching arm wins; the dialect blocks are the operators below, each     *)
(* with the set of variants it has an arm for, and every other pair falls  *)
(* through to the generic arms.                                            *)
(***************************************************************************)
EXTENDS SqlTypes

\* `write!(out, "{p}")` of an optional precision: `(p)` or nothing.
OptParen(p) == IF p = None THEN <<>> ELSE <<"(", Num(p), ")">>

\* `NAME`, `NAME(p)` or `NAME(p, s)` of an Option<(u8, Option<i8>)>.
PrecScale(name, ps) ==
    CASE ps = None     -> <<name>>
      [] ps.s = None   -> <<name, "(", Num(ps.p), ")">>
      [] OTHER         -> <<name, "(", Num(ps.p), ",", Sp, Num(ps.s), ")">>

\* Ident::display for the plain identifiers the model uses as field names.
IdentDisplay(name, d) == <<name>>

-----------------------------------------------------------------------------
(* BigQuery {{{ *)
BigQueryKinds == {"Boolean", "TinyInt", "SmallInt", "Integer", "BigInt", "Real",
                  "Float", "Double", "Char", "Varchar", "Text", "Clob", "Blob",
                  "Binary", "Time", "Timestamp"}

WriteBigQuery(t, d) ==
    CASE t.k = "Boolean" -> <<"BOOL">>
      [] t.k \in {"TinyInt", "SmallInt", "Integer", "BigInt"} -> <<"INT64">>
      [] t.k \in {"Real", "Float", "Double"} -> <<"FLOAT64">>
      [] t.k \in {"Char", "Varchar", "Text", "Clob"} -> <<"STRING">>
      [] t.k \in {"Blob", "Binary"} -> <<"BYTES">>
      [] t.k = "Time" -> <<"TIME">> \o WriteWithLeadingSpace(t.tz, d)
      [] OTHER -> <<"TIMESTAMP">> \o WriteWithLeadingSpace(t.tz, d)

(* Snowflake {{{ *)
SnowflakeKinds == {"Float", "Numeric", "BigNumeric", "Clob", "Blob", "Time",
                   "Timestamp", "DateTime"}

WriteSnowflake(t, d) ==
    CASE t.k = "Float" -> <<"FLOAT">>
      [] t.k \in {"Numeric", "BigNumeric"} -> PrecScale("NUMBER", t.ps)
      [] t.k = "Clob" -> <<"TEXT">>
      [] t.k = "Blob" -> <<"BINARY">>
      [] t.k = "Time" ->
            <<"TIME">> \o OptParen(t.p)
              \o (IF t.tz \in {"Unspecified", "Without"} THEN <<>>
                  ELSE WriteWithLeadingSpace(t.tz, d))
      [] t.k = "Timestamp" ->
            <<"TIMESTAMP" \o SingleTokenSuffix(t.tz, d)>> \o OptParen(t.p)
      [] OTHER -> <<"TIMESTAMP_NTZ">>

(* PostgreSQL {{{ *)
PgKinds == {"TinyInt", "Binary", "Blob", "DateTime", "Timestamp", "Float", "Clob"}

\* Array(Some(inner)) is PostgreSQL's too; its arm recurses, in Write.
PgArray(t) == t.k = "Array" /\ t.inner # None

WritePostgres(t, d) ==
    CASE t.k = "TinyInt" -> <<"SMALLINT">>
      [] t.k \in {"Binary", "Blob"} -> <<"BYTEA">>
      [] t.k = "DateTime" -> <<"TIMESTAMP">>
      [] t.k = "Timestamp" /\ t.p # None ->
            <<"TIMESTAMP", "(", Num(t.p), ")">> \o WriteWithLeadingSpace(t.tz, d)
      [] t.k = "Timestamp" -> <<"TIMESTAMP" \o SingleTokenSuffix(t.tz, d)>>
      [] t.k = "Float" -> <<"REAL">>
      [] OTHER -> <<"TEXT">>

(* Databricks {{{ *)
DbxKinds == {"Binary", "Blob", "Clob", "Text", "Varchar", "Numeric", "BigNumeric",
             "Real", "Float", "Double", "DateTime", "Timestamp"}

WriteDatabricks(t, d) ==
    CASE t.k \in {"Binary", "Blob"} -> <<"BINARY">>
      [] t.k \in {"Clob", "Text", "Varchar"} -> <<"STRING">>
      [] t.k \in {"Numeric", "BigNumeric"} -> PrecScale("DECIMAL", t.ps)
      [] t.k \in {"Real", "Float"} -> <<"FLOAT">>
      [] t.k = "Double" -> <<"DOUBLE">>
      [] t.k = "DateTime" -> <<"TIMESTAMP_NTZ">>
      [] OTHER -> <<"TIMESTAMP" \o SingleTokenSuffix(t.tz, d)>>

-----------------------------------------------------------------------------
(* Generic SQL / fallback, the arms without a payload to recurse on. *)
GenericScalar(t, d) ==
    CASE t.k = "Boolean" -> <<"BOOLEAN">>
      [] t.k = "TinyInt" -> <<"TINYINT">>
      [] t.k = "SmallInt" -> <<"SMALLINT">>
      [] t.k = "Integer" -> <<"INT">>
      [] t.k = "BigInt" -> <<"BIGINT">>
      [] t.k = "Real" -> <<"REAL">>
      [] t.k = "Float" -> <<"FLOAT">> \o OptParen(t.p)
      [] t.k = "Double" -> <<"DOUBLE", Sp, "PRECISION">>
      [] t.k = "Numeric" -> PrecScale("NUMERIC", t.ps)
      [] t.k = "BigNumeric" -> PrecScale("BIGNUMERIC", t.ps)
      [] t.k \in {"Char", "Varchar"} ->
            <<IF t.k = "Char" THEN "CHAR" ELSE "VARCHAR">>
              \o (IF t.len = None \/ t.len = 0 THEN <<>> ELSE <<"(", Num(t.len), ")">>)
      [] t.k = "Text" -> <<"TEXT">>
      [] t.k = "Clob" -> <<"CLOB">>
      [] t.k = "Blob" -> <<"BLOB">>
      [] t.k = "Binary" -> <<"BINARY">>
      [] t.k = "Date" -> <<"DATE">>
      [] t.k = "Time" -> <<"TIME">> \o OptParen(t.p) \o WriteWithLeadingSpace(t.tz, d)
      [] t.k = "DateTime" -> <<"DATETIME">>
      [] t.k = "Timestamp" ->
            <<"TIMESTAMP">> \o OptParen(t.p) \o WriteWithLeadingSpace(t.tz, d)
      [] t.k = "Interval" /\ t.q = None -> <<"INTERVAL">>
      [] t.k = "Interval" /\ t.q.end = None ->
            <<"INTERVAL", Sp>> \o DateTimeFieldWrite(t.q.start, d)
      [] t.k = "Interval" ->
            <<"INTERVAL", Sp, t.q.start, Sp, "TO", Sp>> \o DateTimeFieldWrite(t.q.end, d)
      [] t.k = "Json" -> <<"JSON">>
      [] t.k = "Jsonb" -> <<"JSONB">>
      [] t.k = "Geometry" -> <<"GEOMETRY">>
      [] t.k = "Geography" -> <<"GEOGRAPHY">>
      [] t.k = "Array" -> <<"ARRAY">>
      [] t.k = "Struct" -> <<"STRUCT">>
      [] t.k = "Map" -> <<"MAP">>
      [] t.k = "Variant" -> <<"VARIANT">>
      [] t.k = "Void" -> <<"VOID">>
      [] OTHER -> t.s

\* The payload-carrying variants whose generic arms recurse.
Composite(t) ==
    \/ t.k = "Array" /\ t.inner # None
    \/ t.k = "Struct" /\ t.fields # None
    \/ t.k = "Map" /\ t.kv # None

RECURSIVE Write(_, _), WriteFields(_, _, _)

\* The fields of a Struct(Some(fields)) from the i-th on: `name type [NOT NULL]`
\* separated by ", ".
WriteFields(fs, i, d) ==
    IF i > Len(fs) THEN <<>>
    ELSE (IF i > 1 THEN <<",", Sp>> ELSE <<>>)
           \o IdentDisplay(fs[i].name, d) \o <<Sp>> \o Write(fs[i].ty, d)
           \o (IF fs[i].nullable THEN <<>> ELSE <<Sp, "NOT", Sp, "NULL">>)
           \o WriteFields(fs, i + 1, d)

\* SqlType::write.
Write(t, d) ==
    CASE d = "BigQuery" /\ t.k \in BigQueryKinds -> WriteBigQuery(t, d)
      [] d = "Snowflake" /\ t.k \in SnowflakeKinds -> WriteSnowflake(t, d)
      [] d \in PgFamily /\ t.k \in PgKinds -> WritePostgres(t, d)
      [] d \in PgFamily /\ PgArray(t) -> Write(t.inner, d) \o <<"[", "]">>
      [] d \in DbxFamily /\ t.k \in DbxKinds -> WriteDatabricks(t, d)
      [] Composite(t) /\ t.k = "Array" -> <<"ARRAY", "<">> \o Write(t.inner, d) \o <<">">>
      [] Composite(t) /\ t.k = "Struct" ->
            (IF d \in PgFamily THEN <<"(">> ELSE <<"STRUCT", "<">>)
              \o WriteFields(t.fields, 1, d)
              \o (IF d \in PgFamily THEN <<")">> ELSE <<">">>)
      [] Composite(t) ->
            <<"MAP", "<">> \o Write(t.kv.key, d) \o <<",", Sp>> \o Write(t.kv.val, d) \o <<">">>
      [] OTHER -> GenericScalar(t, d)

=============================================================================
