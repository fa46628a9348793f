---------------------------- MODULE SqlRoundTrip ----------------------------
(***************************************************************************)
(* The round trip of crates/dbt-xdbc/src/sql/types.rs that the test        *)
(* helper assert_roundtrip performs for one SqlType on one backend: render *)
(* the type (SqlType::to_string), parse the text back (SqlType::parse,     *)
(* unwrap), render the parsed type again.  The types come from a bounded   *)
(* universe built from the CONSTANTS; the renderer and the parser are the  *)
(* operators of SqlRender and SqlParse.                                    *)
(***************************************************************************)
EXTENDS SqlUniverse

VARIABLES
    dialect,   \* the backend of this round trip
    ty,        \* the SqlType under test
    phase,     \* where assert_roundtrip is
    text,      \* ty.to_string(backend)
    parsed,    \* SqlType::parse(backend, text)
    rerendered \* parsed.to_string(backend)

vars == <<dialect, ty, phase, text, parsed, rerendered>>

-----------------------------------------------------------------------------
\* The type under test is one a caller builds, or the one from_field
\* returns for an Arrow field without type metadata (_from_arrow_type).
Init ==
    /\ dialect \in Dialects
    /\ \/ ty \in Universe
       \/ \E a \in ArrowTypes : ty = FromArrowType(dialect, a)
    /\ phase = IF ty = Panic THEN "arrow_panicked" ELSE "render"
    /\ text = <<>>
    /\ parsed = None
    /\ rerendered = <<>>

\* let rendered = ty.to_string(backend)
Render ==
    /\ phase = "render"
    /\ text' = Write(ty, dialect)
    /\ phase' = "parse"
    /\ UNCHANGED <<dialect, ty, parsed, rerendered>>

\* let (parsed, _nullable) = SqlType::parse(backend, s).unwrap()
ParseBack ==
    /\ phase = "parse"
    /\ parsed' = ParseString(text, dialect)
    /\ phase' = IF parsed'.ok THEN "rerender" ELSE "parse_panicked"
    /\ UNCHANGED <<dialect, ty, text, rerendered>>

\* parsed.to_string(backend)
Rerender ==
    /\ phase = "rerender"
    /\ rerendered' = Write(parsed.v.ty, dialect)
    /\ phase' = "done"
    /\ UNCHANGED <<dialect, ty, text, parsed>>

Next == Render \/ ParseBack \/ Rerender

Spec == Init /\ [][Next]_vars

(* The round-trip law of assert_roundtrip: whatever type the code holds,   *)
(* SqlType::parse accepts its rendering on the same backend (the unwrap    *)
(* does not panic) and the parsed type renders to the same text.           *)
RoundTrip ==
    /\ phase # "parse_panicked"
    /\ phase = "done" => rerendered = text

(* Rendering and parsing back keep what a TIME / TIMESTAMP means: the      *)
(* parsed type is of the same kind and TimeZoneSpec::is_with_time_zone     *)
(* answers the same for it on the backend.                                 *)
TimeZonePreserved ==
    phase = "done" /\ ty.k \in {"Time", "Timestamp"} =>
        /\ parsed.v.ty.k = ty.k
        /\ IsWithTimeZone(parsed.v.ty.tz, dialect) = IsWithTimeZone(ty.tz, dialect)

=============================================================================
