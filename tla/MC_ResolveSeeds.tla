--------------------------- MODULE MC_ResolveSeeds ---------------------------
(* Model values and bounds for ResolveSeeds. *)
EXTENDS ResolveSeeds, TLC

\* The extensions: one of each kind the loop accepts, and one it skips.
MCExts == {"csv", "parquet", "json", "txt"}

\* The files of the instance: two names, a project config that leaves
\* `enabled` unset or disables, a root config that leaves it unset or
\* disables; csv in either case.
MCFileRecs ==
    {f \in FileRecs : /\ f.upper => f.ext = "csv"
                      /\ f.proj \in {None, FALSE}
                      /\ f.root \in {None, FALSE}}

\* Packages of two seed files.
MCFiles == {<<f, g>> : f, g \in MCFileRecs}

\* Properties for at most one name, saying enabled, disabled or nothing.
MCPropsIn == {<<>>} \cup {n :> e : n \in Names, e \in PropRecs}
=============================================================================
