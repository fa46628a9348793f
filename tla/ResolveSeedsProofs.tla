------------------------- MODULE ResolveSeedsProofs -------------------------
(***************************************************************************)
(* Proofs, for every package, properties map and outcome of the helpers,   *)
(* of the two properties the resolve_seeds run checks.                     *)
(***************************************************************************)
EXTENDS ResolveSeeds, TLAPS

\* The names of the files that took a properties entry are no longer keys
\* of seed_properties.
PatchedRemoved == \A j \in patched : SeedName(files[j]) \notin DOMAIN props

\* The inductive strengthening of PropertiesUsedOnce.
IInv == PatchedRemoved /\ PropertiesUsedOnce

(* BTreeMap::remove leaves every key but the removed one. *)
LEMMA RemoveKeyDomain ==
    ASSUME NEW m, NEW k
    PROVE  DOMAIN RemoveKey(m, k) = DOMAIN m \ {k}
BY DEF RemoveKey

(* A properties entry configures at most one seed file, in every run of    *)
(* resolve_seeds: seed_properties.remove takes the entry of a name away    *)
(* before a later file of that name looks it up.                           *)
THEOREM PropertiesUsedOnceInv == Spec => []PropertiesUsedOnce
<1>1. Init => IInv
  BY DEF Init, IInv, PatchedRemoved, PropertiesUsedOnce
<1>2. IInv /\ [Next]_vars => IInv'
  <2> SUFFICES ASSUME IInv, [Next]_vars PROVE IInv'
    OBVIOUS
  <2>1. CASE Skip
    BY <2>1 DEF Skip, IInv, PatchedRemoved, PropertiesUsedOnce
  <2>2. CASE Resolve
    <3> DEFINE n == SeedName(files[i])
               pe == IF n \in DOMAIN props THEN props[n] ELSE None
    <3>1. /\ props' = RemoveKey(props, n)
          /\ patched' = IF pe # None THEN patched \cup {i} ELSE patched
          /\ files' = files
      BY <2>2 DEF Resolve
    <3>2. DOMAIN props' = DOMAIN props \ {n}
      BY <3>1, RemoveKeyDomain
    <3>3. pe # None => n \in DOMAIN props
      OBVIOUS
    <3>4. PatchedRemoved'
      BY <3>1, <3>2, <3>3 DEF IInv, PatchedRemoved
    <3>5. PropertiesUsedOnce'
      BY <3>1, <3>3 DEF IInv, PatchedRemoved, PropertiesUsedOnce
    <3> QED
      BY <3>4, <3>5 DEF IInv
  <2>3. CASE Finish
    BY <2>3 DEF Finish, IInv, PatchedRemoved, PropertiesUsedOnce
  <2>4. CASE UNCHANGED vars
    BY <2>4 DEF vars, IInv, PatchedRemoved, PropertiesUsedOnce
  <2> QED
    BY <2>1, <2>2, <2>3, <2>4 DEF Next
<1>3. IInv => PropertiesUsedOnce
  BY DEF IInv
<1> QED
  BY <1>1, <1>2, <1>3, PTL DEF Spec

\* The inductive strengthening of RootOverrides: whether the package is the
\* root is fixed and a Boolean.
RInv == RootOverrides /\ isRoot \in BOOLEAN

(* A file the root project's config disables is not enabled, whatever its  *)
(* properties and project config say, in a package other than the root.   *)
LEMMA RootDisables ==
    ASSUME NEW f, NEW pe, NEW root \in BOOLEAN,
           ~root, f.root = FALSE
    PROVE  ~IsEnabled(f, pe, root)
BY NoneAssumption DEF IsEnabled, DefaultTo

(* In every run of resolve_seeds, no seed file that the root project's     *)
(* config disables in a dependency package is in the map of enabled seeds *)
(* (root_config.default_to(&properties_config) lets the root win).        *)
THEOREM RootOverridesInv == Spec => []RootOverrides
<1>1. Init => RInv
  BY DEF Init, RInv, RootOverrides
<1>2. RInv /\ [Next]_vars => RInv'
  <2> SUFFICES ASSUME RInv, [Next]_vars PROVE RInv'
    OBVIOUS
  <2>1. CASE Skip
    BY <2>1 DEF Skip, RInv, RootOverrides
  <2>2. CASE Resolve
    <3> DEFINE f == files[i]
               n == SeedName(f)
               pe == IF n \in DOMAIN props THEN props[n] ELSE None
               on == IsEnabled(f, pe, isRoot)
    <3>1. /\ files' = files
          /\ isRoot' = isRoot
          /\ \/ seeds' = seeds
             \/ on /\ seeds' = Insert(seeds, n, i)
      BY <2>2 DEF Resolve
    <3>2. CASE seeds' = seeds
      BY <3>1, <3>2 DEF RInv, RootOverrides
    <3>3. CASE on /\ seeds' = Insert(seeds, n, i)
      <4>1. ~(~isRoot /\ files[i].root = FALSE)
        BY <3>3, RootDisables DEF RInv
      <4>2. /\ DOMAIN seeds' = DOMAIN seeds \cup {n}
            /\ seeds'[n] = i
            /\ \A x \in DOMAIN seeds \ {n} : seeds'[x] = seeds[x]
        <5>1. /\ DOMAIN Insert(seeds, n, i) = DOMAIN seeds \cup {n}
              /\ Insert(seeds, n, i)[n] = i
              /\ \A x \in DOMAIN seeds \ {n} : Insert(seeds, n, i)[x] = seeds[x]
          BY DEF Insert
        <5> QED
          BY <3>3, <5>1
      <4>3. ASSUME NEW x \in DOMAIN seeds'
            PROVE  ~(~isRoot' /\ files'[seeds'[x]].root = FALSE)
        <5>1. CASE x = n
          BY <3>1, <4>1, <4>2, <5>1
        <5>2. CASE x # n
          BY <3>1, <4>2, <5>2 DEF RInv, RootOverrides
        <5> QED
          BY <5>1, <5>2
      <4> QED
        BY <3>1, <4>3 DEF RInv, RootOverrides
    <3> QED
      BY <3>1, <3>2, <3>3
  <2>3. CASE Finish
    BY <2>3 DEF Finish, RInv, RootOverrides
  <2>4. CASE UNCHANGED vars
    BY <2>4 DEF vars, RInv, RootOverrides
  <2> QED
    BY <2>1, <2>2, <2>3, <2>4 DEF Next
<1>3. RInv => RootOverrides
  BY DEF RInv
<1> QED
  BY <1>1, <1>2, <1>3, PTL DEF Spec

-----------------------------------------------------------------------------
\* The seed names of the files before the loop's position that were resolved:
\* each has a DbtSeed and a ref registered or its error shown.
Resolved(j) ==
    Accepted(files[j]) =>
        SeedName(files[j]) \in (DOMAIN seeds \cup DOMAIN disabled) \cap (refs \cup shown)

\* The inductive strengthening of ResolvedAll: the loop's position stays in
\* range, Ok comes only after the last file, and until an error every file
\* passed is resolved and every enabled seed has its tests.
DInv ==
    /\ files \in Seq(FileRecs)
    /\ i \in 1..Len(files) + 1
    /\ outcome \in {"running", "ok", "err"}
    /\ outcome = "ok" => i = Len(files) + 1
    /\ outcome # "err" =>
          /\ \A j \in 1..(i - 1) : Resolved(j)
          /\ DOMAIN seeds \subseteq tests

(* A map insert adds its key to the map's keys.                            *)
LEMMA InsertDomain ==
    ASSUME NEW m, NEW k, NEW v
    PROVE  DOMAIN Insert(m, k, v) = DOMAIN m \cup {k}
BY DEF Insert

(* One pass of the loop body that does not fail resolves the file it is at: *)
(* its seed is in seeds or disabled_seeds, its ref registered or the error  *)
(* shown, and an enabled seed's tests persisted.                            *)
LEMMA ResolveOk ==
    ASSUME NEW f, NEW n, NEW on \in BOOLEAN,
           NEW ok \in BOOLEAN,
           refs' = IF ok THEN refs \cup {n} ELSE refs,
           shown' = IF ok THEN shown ELSE shown \cup {n},
           seeds' = IF on THEN Insert(seeds, n, i) ELSE seeds,
           disabled' = IF on THEN disabled ELSE Insert(disabled, n, i),
           tests' = IF on THEN tests \cup {n} ELSE tests
    PROVE  /\ n \in (DOMAIN seeds' \cup DOMAIN disabled') \cap (refs' \cup shown')
           /\ DOMAIN seeds \cup DOMAIN disabled \subseteq DOMAIN seeds' \cup DOMAIN disabled'
           /\ refs \cup shown \subseteq refs' \cup shown'
           /\ (DOMAIN seeds \subseteq tests => DOMAIN seeds' \subseteq tests')
<1>1. DOMAIN Insert(seeds, n, i) = DOMAIN seeds \cup {n}
      /\ DOMAIN Insert(disabled, n, i) = DOMAIN disabled \cup {n}
  BY InsertDomain
<1> QED
  BY <1>1

(* When resolve_seeds returns Ok, no seed file was lost: in every run, for *)
(* every package, properties map and outcome of the helpers, every csv,    *)
(* parquet or json file has its DbtSeed in seeds or disabled_seeds and its *)
(* ref registered or its error shown, and every enabled seed's tests were  *)
(* persisted: a persist that fails after an insert makes the result Err.  *)
THEOREM ResolvedAllInv == Spec => []ResolvedAll
<1>1. Init => DInv
  BY FilesAssumption DEF Init, DInv
<1>2. DInv /\ [Next]_vars => DInv'
  <2> SUFFICES ASSUME DInv, [Next]_vars PROVE DInv'
    OBVIOUS
  <2>0. Len(files) \in Nat /\ i \in Nat
    BY DEF DInv
  <2>1. CASE Skip
    BY <2>0, <2>1 DEF Skip, DInv, Resolved
  <2>2. CASE Resolve
    <3> DEFINE f == files[i]
               n == SeedName(f)
               pe == IF n \in DOMAIN props THEN props[n] ELSE None
               on == IsEnabled(f, pe, isRoot)
    <3>1. /\ outcome = "running" /\ i <= Len(files) /\ Accepted(f) /\ files' = files
          /\ (i' = i \/ i' = i + 1)
          /\ outcome' \in {"running", "err"}
      BY <2>2 DEF Resolve
    <3>2. CASE outcome' = "err"
      BY <2>0, <3>1, <3>2 DEF DInv
    <3>3. CASE outcome' # "err"
      <4>0. on \in BOOLEAN
        BY DEF IsEnabled
      <4>1. /\ on \in BOOLEAN
            /\ \E ok \in BOOLEAN :
                  /\ refs' = IF ok THEN refs \cup {n} ELSE refs
                  /\ shown' = IF ok THEN shown ELSE shown \cup {n}
            /\ seeds' = IF on THEN Insert(seeds, n, i) ELSE seeds
            /\ disabled' = IF on THEN disabled ELSE Insert(disabled, n, i)
            /\ tests' = IF on THEN tests \cup {n} ELSE tests
            /\ i' = i + 1
            /\ outcome' = "running"
        BY <2>2, <3>3, <4>0 DEF Resolve
      <4>2. /\ n \in (DOMAIN seeds' \cup DOMAIN disabled') \cap (refs' \cup shown')
            /\ DOMAIN seeds \cup DOMAIN disabled \subseteq DOMAIN seeds' \cup DOMAIN disabled'
            /\ refs \cup shown \subseteq refs' \cup shown'
            /\ (DOMAIN seeds \subseteq tests => DOMAIN seeds' \subseteq tests')
        BY <4>1, ResolveOk
      <4>3. ASSUME NEW j \in 1..(i' - 1) PROVE Resolved(j)'
        <5>1. CASE j < i
          <6>1. Resolved(j)
            BY <2>0, <3>1, <5>1 DEF DInv
          <6> QED
            BY <3>1, <4>2, <6>1 DEF Resolved
        <5>2. CASE j = i
          BY <3>1, <4>2, <5>2 DEF Resolved
        <5> QED
          BY <2>0, <4>1, <5>1, <5>2
      <4> QED
        BY <2>0, <3>1, <4>1, <4>2, <4>3 DEF DInv
    <3> QED
      BY <3>2, <3>3
  <2>3. CASE Finish
    BY <2>0, <2>3 DEF Finish, DInv, Resolved
  <2>4. CASE UNCHANGED vars
    BY <2>4 DEF vars, DInv, Resolved
  <2> QED
    BY <2>1, <2>2, <2>3, <2>4 DEF Next
<1>3. DInv => ResolvedAll
  BY DEF DInv, Resolved, ResolvedAll, Accepted
<1> QED
  BY <1>1, <1>2, <1>3, PTL DEF Spec

=============================================================================
