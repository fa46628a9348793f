---------------------------- MODULE ResolveSeeds ----------------------------
(***************************************************************************)
(* The loop of resolve_seeds (crates/dbt-parser/src/resolve/               *)
(* resolve_seeds.rs): every seed file of a package becomes a DbtSeed,      *)
(* keyed by "seed.<package>.<name>", in the map of enabled or of disabled  *)
(* seeds.  A file's properties entry (from a schema YAML) is found by the  *)
(* seed's name and removed from the map when used.  The effective config   *)
(* is the project's, overridden by the properties', overridden in turn by  *)
(* the root project's when the package is not the root.                   *)
(*                                                                         *)
(* The package name is fixed, so a unique_id is a seed name.  A path is    *)
(* abstracted to what the code reads of it: its extension (a lower-case    *)
(* word and whether it was written in upper case), its file stem and the   *)
(* stem of its parent directory.  A config is abstracted to its `enabled`  *)
(* option.  The helpers the loop calls from other crates (insert_ref, the  *)
(* serde and relation helpers that may fail with `?`) are choices of       *)
(* their outcomes.                                                         *)
(***************************************************************************)
EXTENDS Naturals, Sequences, FiniteSets

CONSTANTS
    None,       \* Option::None
    Names,      \* file stems and directory names
    Exts,       \* the lower-cased extensions of the files
    Files,      \* the packages' possible seed_files, a set of sequences
    PropsIn     \* the possible seed_properties maps

VARIABLES
    files,      \* package.seed_files
    isRoot,     \* package_name == root_project.name
    props,      \* seed_properties, the entries not yet removed
    i,          \* the loop's position in files
    seeds,      \* id -> index of the file the DbtSeed was built from
    disabled,   \* the same for disabled_seeds
    dupErrors,  \* duplicate_errors, by seed name
    refs,       \* ids insert_ref registered in refs_and_sources
    shown,      \* ids whose insert_ref error was shown
    tests,      \* ids whose tests were persisted into collected_tests
    patched,    \* indexes of the files that received a properties entry
    outcome     \* "running", "ok" or "err"

vars == <<files, isRoot, props, i, seeds, disabled, dupErrors, refs, shown,
          tests, patched, outcome>>

Opt(S) == S \cup {None}

\* A seed file: extension (lower-cased word, upper-case flag), file stem,
\* parent directory stem, and the `enabled` of the project config and of
\* the root project's config for its path.
FileRecs == [ext : Exts, upper : BOOLEAN, stem : Names, dir : Names,
             proj : Opt(BOOLEAN), root : Opt(BOOLEAN)]

\* A MinimalPropertiesEntry: the `enabled` of its config, and whether other
\* YAML files declared the same seed (duplicate_paths non-empty).
PropRecs == [enabled : Opt(BOOLEAN), dup : BOOLEAN]

ASSUME NoneAssumption == None \notin BOOLEAN
ASSUME FilesAssumption == Files \subseteq Seq(FileRecs)
ASSUME PropsAssumption ==
    \A p \in PropsIn : DOMAIN p \subseteq Names /\ \A n \in DOMAIN p : p[n] \in PropRecs

-----------------------------------------------------------------------------
\* Mutant: the extension compared without to_ascii_lowercase.
AcceptedCaseSensitive(f) == ~f.upper /\ f.ext \in {"csv", "parquet", "json"}

\* path.extension().to_ascii_lowercase(), compared with the three kinds.
Accepted(f) == f.ext \in {"csv", "parquet", "json"}

\* The seed name: the parent directory's stem for a parquet file (a
\* parquet seed is a directory of parts), the file stem otherwise.
SeedName(f) == IF f.ext = "parquet" THEN f.dir ELSE f.stem

\* Option::or of two `enabled`s: DbtConfig::default_to keeps a set field.
DefaultTo(x, y) == IF x = None THEN y ELSE x

\* An IsEnabled that lets the properties override the root project's config.
IsEnabledPropsLast(f, pe, root) ==
    LET base == IF root THEN f.proj ELSE DefaultTo(f.root, f.proj)
        eff == IF pe = None THEN base ELSE DefaultTo(pe.enabled, base)
    IN eff # FALSE

\* The effective `enabled` of a file given its properties entry (or None),
\* then is_enabled(): a config that does not say is enabled.
IsEnabled(f, pe, root) ==
    LET fromProps == IF pe = None THEN f.proj ELSE DefaultTo(pe.enabled, f.proj)
        eff == IF root THEN fromProps ELSE DefaultTo(f.root, fromProps)
    IN eff # FALSE

\* A lookup that leaves the entry in the map (`get` for `remove`).
RemoveKeyKeep(m, k) == m

\* BTreeMap::remove.
RemoveKey(m, k) == [n \in DOMAIN m \ {k} |-> m[n]]

\* A map insert that replaces the value of a present key.
Insert(m, k, v) == [n \in DOMAIN m \cup {k} |-> IF n = k THEN v ELSE m[n]]

-----------------------------------------------------------------------------
Init ==
    /\ files \in Files
    /\ isRoot \in BOOLEAN
    /\ props \in PropsIn
    /\ i = 1
    /\ seeds = <<>> /\ disabled = <<>>
    /\ dupErrors = {} /\ refs = {} /\ shown = {} /\ tests = {}
    /\ patched = {}
    /\ outcome = "running"

\* A file whose extension is not csv, parquet or json: `continue`.
Skip ==
    /\ outcome = "running"
    /\ i <= Len(files)
    /\ ~Accepted(files[i])
    /\ i' = i + 1
    /\ UNCHANGED <<files, isRoot, props, seeds, disabled, dupErrors, refs, shown,
                   tests, patched, outcome>>

\* One accepted file, the whole loop body.  Its `?`s fail "before" the
\* insert_ref (the properties' deserialisation, the column processing, the
\* read of the file for its checksum, the relation helper), or at the
\* persist of the tests of an enabled seed, "after" the insert into seeds.
Resolve ==
    /\ outcome = "running"
    /\ i <= Len(files)
    /\ Accepted(files[i])
    /\ LET f == files[i]
           n == SeedName(f)
           pe == IF n \in DOMAIN props THEN props[n] ELSE None
           on == IsEnabled(f, pe, isRoot)
       IN
       /\ props' = RemoveKey(props, n)
       /\ dupErrors' = IF pe # None /\ pe.dup THEN dupErrors \cup {n} ELSE dupErrors
       /\ patched' = IF pe # None THEN patched \cup {i} ELSE patched
       /\ \E fail \in IF on THEN {"none", "before", "after"} ELSE {"none", "before"} :
            IF fail = "before"
            THEN /\ outcome' = "err"
                 /\ UNCHANGED <<i, seeds, disabled, refs, shown, tests>>
            ELSE /\ \E ok \in BOOLEAN :
                      /\ refs' = IF ok THEN refs \cup {n} ELSE refs
                      /\ shown' = IF ok THEN shown ELSE shown \cup {n}
                 /\ seeds' = IF on THEN Insert(seeds, n, i) ELSE seeds
                 /\ disabled' = IF on THEN disabled ELSE Insert(disabled, n, i)
                 /\ tests' = IF on /\ fail = "none" THEN tests \cup {n} ELSE tests
                 /\ outcome' = IF fail = "after" THEN "err" ELSE "running"
                 /\ i' = i + 1
    /\ UNCHANGED <<files, isRoot>>

\* After the loop: trigger_duplicate_errors fails on any duplicate.
Finish ==
    /\ outcome = "running"
    /\ i > Len(files)
    /\ outcome' = IF dupErrors = {} THEN "ok" ELSE "err"
    /\ UNCHANGED <<files, isRoot, props, i, seeds, disabled, dupErrors, refs,
                   shown, tests, patched>>

Next == Skip \/ Resolve \/ Finish

Spec == Init /\ [][Next]_vars

-----------------------------------------------------------------------------
(* A properties entry configures one seed file: once a file has taken the  *)
(* entry of its name (seed_properties.remove), no later file of the same   *)
(* name, say a.csv beside a parquet directory a/, is given it again.       *)
PropertiesUsedOnce ==
    \A j, k \in patched : j # k => SeedName(files[j]) # SeedName(files[k])

(* The root project has the last word on a package's seeds: a seed file    *)
(* the root project's config disables, in a package other than the root,  *)
(* is never resolved as an enabled seed, whatever its properties say       *)
(* (root_config.default_to(&properties_config)).                           *)
RootOverrides ==
    \A n \in DOMAIN seeds : ~(~isRoot /\ files[seeds[n]].root = FALSE)

(* When resolve_seeds returns Ok, no seed file was lost: every file whose  *)
(* extension is csv, parquet or json in any case (the comment "Validate    *)
(* that path extension is one of csv, parquet, or json") has a DbtSeed     *)
(* under its unique_id in seeds or disabled_seeds and a ref registered or  *)
(* its insert_ref error shown, and the tests of every enabled seed were    *)
(* persisted into collected_tests.                                         *)
ResolvedAll ==
    outcome = "ok" =>
        /\ \A j \in 1..Len(files) :
              files[j].ext \in {"csv", "parquet", "json"} =>
                  LET n == SeedName(files[j]) IN
                  n \in (DOMAIN seeds \cup DOMAIN disabled) \cap (refs \cup shown)
        /\ DOMAIN seeds \subseteq tests

=============================================================================
