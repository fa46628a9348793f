------------------------------ MODULE SqlField ------------------------------
(***************************************************************************)
(* The metadata bridge of crates/dbt-xdbc/src/sql/types.rs: an Arrow Field *)
(* crossing from the system that wrote a schema to the one that reads it.  *)
(* A producer (a driver, a CSV reader, another backend's adapter) writes a *)
(* field: its DataType, its nullability flag and, under metadata keys of   *)
(* its choice, the rendering of a SqlType in its own dialect.  A reader   *)
(* then calls SqlType::from_field for its backend, which looks the keys up *)
(* in the backend's priority order (metadata_type_candidate_keys), parses *)
(* the first hit, or falls back to _from_arrow_type.  SqlType::to_field,   *)
(* the writer of the code itself, panics before it writes anything.        *)
(*                                                                         *)
(* The variable `written` is a history of what the producer meant: for    *)
(* every key, the type, the dialect it was rendered for and whether a     *)
(* NOT NULL suffix follows.  The field carries only the rendered text.    *)
(***************************************************************************)
EXTENDS SqlUniverse, Functions

CONSTANT FallbackTypes   \* the types written under the generic key "type"
                         \* beside a dialect's own key

ASSUME FallbackAssumption == FallbackTypes \subseteq Universe

VARIABLES
    phase,    \* "produce", "written", "read" or "to_field_panicked"
    field,    \* the Arrow Field: [dt, nullable, meta]
    written,  \* key -> [ty, by, notnull], what each metadata text stands for
    reader,   \* the backend that calls from_field
    result    \* what from_field returned

vars == <<phase, field, written, reader, result>>

-----------------------------------------------------------------------------
(* The metadata keys, as in the code.                                      *)

\* metadata_type_candidate_keys: the keys a backend reads, in priority order.
MetadataTypeCandidateKeys(d) ==
    CASE d \in {"Postgres", "Salesforce"} -> <<"POSTGRES:type", "type">>
      [] d = "Snowflake" -> <<"SNOWFLAKE:type", "type">>
      [] d = "BigQuery" -> <<"BIGQUERY:type", "type">>
      [] d \in DbxFamily -> <<"DBX:type", "type_text", "type">>
      [] d \in {"Redshift", "RedshiftODBC"} -> <<"REDSHIFT:type", "type">>
      [] OTHER -> <<"SQL:type", "type">>

\* metadata_key: the key a backend writes, the first of its list.
MetadataKey(d) == MetadataTypeCandidateKeys(d)[1]

\* A type_string_from_field that returns the last key found instead of the first.
TypeStringFromFieldLast(d, f) ==
    LET hits == SelectSeq(MetadataTypeCandidateKeys(d), LAMBDA k : k \in DOMAIN f.meta)
    IN IF hits = <<>> THEN None ELSE f.meta[hits[Len(hits)]]

\* type_string_from_field: the text under the first of the backend's keys
\* the field's metadata has (find_map), or None.
TypeStringFromField(d, f) ==
    LET hits == SelectSeq(MetadataTypeCandidateKeys(d), LAMBDA k : k \in DOMAIN f.meta)
    IN IF hits = <<>> THEN None ELSE f.meta[Head(hits)]

-----------------------------------------------------------------------------
(* from_field and to_field.                                                *)

\* SqlType::from_field: parse the metadata text and OR its nullability with
\* the field's; a parse error is returned (`?`), there is no fallback then.
\* Without metadata, _from_arrow_type on the field's DataType.
FromField(d, f) ==
    LET s == TypeStringFromField(d, f) IN
    IF s = None
    THEN LET t == FromArrowType(d, f.dt) IN
         IF t = Panic THEN Panic ELSE Ok([ty |-> t, nullable |-> f.nullable], <<>>)
    ELSE Bind(ParseString(s, d), LAMBDA p, r :
              Ok([ty |-> p.ty, nullable |-> p.nullable \/ f.nullable], r))

-----------------------------------------------------------------------------
(* What producers write.                                                   *)

NotNull == <<Sp, "NOT", Sp, "NULL">>

\* The text of a metadata entry: the type rendered for its dialect, maybe
\* followed by NOT NULL.
MetaText(e) == Write(e.ty, e.by) \o (IF e.notnull THEN NotNull ELSE <<>>)

Entries == [ty : Universe, by : Dialects, notnull : BOOLEAN]

\* A producer writes one entry under a key of its dialect's list, or its
\* own key and the generic "type" both, or no metadata at all.
Writings ==
    {<<>>}
      \cup UNION {{k :> e : k \in Range(MetadataTypeCandidateKeys(e.by))} : e \in Entries}
      \cup {(MetadataKey(e.by) :> e) @@ ("type" :> e2) :
              e \in Entries,
              e2 \in [ty : FallbackTypes, by : Dialects, notnull : {FALSE}]}

-----------------------------------------------------------------------------
Init ==
    /\ phase = "produce"
    /\ field = None
    /\ written = <<>>
    /\ reader = None
    /\ result = None

\* A producer writes the field.  from_field never looks at the DataType of a
\* field that has metadata it reads, so such fields all carry Utf8.
Produce ==
    /\ phase = "produce"
    /\ \E w \in Writings, nl \in BOOLEAN :
         \E dt \in IF w = <<>> THEN ArrowTypes ELSE {[dt |-> "Utf8"]} :
            /\ written' = w
            /\ field' = [dt |-> dt, nullable |-> nl,
                         meta |-> [k \in DOMAIN w |-> MetaText(w[k])]]
    /\ phase' = "written"
    /\ UNCHANGED <<reader, result>>

\* SqlType::to_field: _pick_best_arrow_type is todo!(), so the call panics
\* before the metadata is attached.
ToField ==
    /\ phase = "produce"
    /\ \E d \in Dialects : reader' = d
    /\ phase' = "to_field_panicked"
    /\ UNCHANGED <<field, written, result>>

\* A backend reads the field with SqlType::from_field.
ReadField ==
    /\ phase = "written"
    /\ \E d \in Dialects :
         /\ reader' = d
         /\ result' = FromField(d, field)
    /\ phase' = "read"
    /\ UNCHANGED <<field, written>>

Next == Produce \/ ToField \/ ReadField

Spec == Init /\ [][Next]_vars

(* A type written under the reader's own write key, by the reader's        *)
(* backend or by one that shares the key, comes back from from_field as a  *)
(* type that renders on the writer's backend as the written one did: the   *)
(* own key wins over the generic fallbacks (type_string_from_field's order) *)
(* and the reader's parser reads the writer's text without error.          *)
SpecificKeyRespected ==
    phase = "read" /\ MetadataKey(reader) \in DOMAIN written =>
        LET e == written[MetadataKey(reader)] IN
        /\ result # Panic
        /\ result.ok
        /\ Write(result.v.ty, e.by) = Write(e.ty, e.by)

(* from_field is lossless about nullability: a field the producer marked   *)
(* non-nullable, whose metadata says nothing about NULL, is read back as   *)
(* non-nullable (the doc comment of from_field calls the metadata path a   *)
(* lossless conversion).                                                   *)
NonNullableKept ==
    /\ phase = "read"
    /\ ~field.nullable
    /\ written # <<>>
    /\ \A k \in DOMAIN written : ~written[k].notnull
    => result # Panic /\ (result.ok => ~result.v.nullable)

(* from_field returns Ok or Err for every field: its Result type reports   *)
(* the failures, it does not panic.                                        *)
FromFieldTotal ==
    phase = "read" => result # Panic

=============================================================================
