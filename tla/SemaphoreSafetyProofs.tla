------------------------ MODULE SemaphoreSafetyProofs ------------------------
(***************************************************************************)
(* Permit conservation, the exclusivity of a PermitGuardAll and the        *)
(* refinement of SemaphoreSpec, proved for the model of                    *)
(* crates/dbt-xdbc/src/semaphore.rs for every finite set of threads, every *)
(* `max` > 0, every bound on over-releases and both kinds of               *)
(* compare_exchange_weak.                                                  *)
(***************************************************************************)
EXTENDS SemaphoreProofs, FiniteSetTheorems

-----------------------------------------------------------------------------
(* What a thread's guard holds follows from where the thread is: a thread  *)
(* in `holding` has a guard, a thread about to fetch_add either gives back *)
(* its guard's permits or (unguarded_release) one permit it never took,    *)
(* and a thread anywhere else holds nothing.                               *)
GuardState ==
    \A t \in Threads :
        /\ pc[t] = "holding" => held[t] # 0
        /\ pc[t] = "rel_add" =>
              \/ held[t] # 0 /\ upd[t] = held[t]
              \/ held[t] = 0 /\ upd[t] = 1
        /\ pc[t] \notin {"holding", "rel_add"} => held[t] = 0

\* The inductive invariant behind PermitConservation.
CInv == TypeOK /\ GuardState /\ PermitConservation

\* The left side of PermitConservation's equation.
ConservedCount ==
    a + Cardinality(SingleHolders) + Max * Cardinality(AllHolders)
      + Cardinality(PendingOver)

-----------------------------------------------------------------------------
(* Any set of threads is finite and has a count in Nat; adding a thread    *)
(* not in it counts one more, removing one in it one less.                 *)
LEMMA ThreadSetFinite ==
    ASSUME NEW T \in SUBSET Threads
    PROVE  IsFiniteSet(T) /\ Cardinality(T) \in Nat
BY FiniteThreadsAssumption, FS_Subset, FS_CardinalityType

LEMMA ThreadSetAdd ==
    ASSUME NEW T \in SUBSET Threads, NEW x \in Threads, x \notin T
    PROVE  Cardinality(T \cup {x}) = Cardinality(T) + 1
BY ThreadSetFinite, FS_AddElement

LEMMA ThreadSetRemove ==
    ASSUME NEW T \in SUBSET Threads, NEW x \in T
    PROVE  Cardinality(T \ {x}) = Cardinality(T) - 1
BY ThreadSetFinite, FS_RemoveElement

-----------------------------------------------------------------------------
(* No step of semaphore.rs separates a guard from the code that owns it:   *)
(* only a successful CAS gives a thread permits (and sends it to          *)
(* `holding`), a guard's drop passes exactly its permits to release_impl,  *)
(* and only the fetch_add takes them away.                                 *)
LEMMA GuardStateStep == TypeOK /\ GuardState /\ [Next]_vars => GuardState'
<1> SUFFICES ASSUME TypeOK, GuardState, [Next]_vars PROVE GuardState'
  OBVIOUS
<1>1. CASE UNCHANGED vars
  BY <1>1 DEF GuardState, vars
<1>2. ASSUME NEW t \in Threads, Start(t) PROVE GuardState'
  BY <1>2 DEF Start, GuardState, TypeOK
<1>3. ASSUME NEW t \in Threads, ExtraRelease(t) PROVE GuardState'
  BY <1>3 DEF ExtraRelease, GuardState, TypeOK
<1>4. ASSUME NEW t \in Threads, SpuriousWake(t) PROVE GuardState'
  BY <1>4 DEF SpuriousWake, Sleeping, AfterWait, GuardState, TypeOK
<1>5. ASSUME NEW t \in Threads, Step(t) PROVE GuardState'
  <2>1. CASE AcqWait(t)
    BY <2>1 DEF AcqWait, GuardState, TypeOK
  <2>2. CASE AcqLoad(t)
    BY <2>2 DEF AcqLoad, GuardState, TypeOK
  <2>3. CASE AcqCas(t)
    BY <2>3 DEF AcqCas, CasOk, CasFails, Return, GuardState, TypeOK
  <2>4. CASE TryLoad(t)
    BY <2>4 DEF TryLoad, GuardState, TypeOK
  <2>5. CASE TryCas(t)
    BY <2>5 DEF TryCas, CasOk, CasFails, Return, GuardState, TypeOK
  <2>6. CASE ManyInit(t)
    BY <2>6 DEF ManyInit, GuardState, TypeOK
  <2>7. CASE ManyWait(t)
    BY <2>7 DEF ManyWait, GuardState, TypeOK
  <2>8. CASE ManyLoad(t)
    BY <2>8 DEF ManyLoad, GuardState, TypeOK
  <2>9. CASE ManyCas(t)
    BY <2>9, MaxAssumption DEF ManyCas, CasOk, CasFails, Return, GuardState, TypeOK
  <2>10. CASE Drop(t)
    BY <2>10 DEF Drop, GuardState, TypeOK
  <2>11. CASE RelAdd(t)
    BY <2>11 DEF RelAdd, GuardState, TypeOK
  <2>12. CASE RelWake(t)
    BY <2>12 DEF RelWake, Sleeping, AfterWait, GuardState, TypeOK
  <2> QED
    BY <1>5, <2>1, <2>2, <2>3, <2>4, <2>5, <2>6, <2>7, <2>8, <2>9, <2>10,
       <2>11, <2>12 DEF Step
<1> QED
  BY <1>1, <1>2, <1>3, <1>4, <1>5 DEF Next

\* The three counts of ConservedCount are natural numbers.
LEMMA CountsInNat ==
    /\ Cardinality(SingleHolders) \in Nat
    /\ Cardinality(AllHolders) \in Nat
    /\ Cardinality(PendingOver) \in Nat
<1>1. SingleHolders \in SUBSET Threads /\ AllHolders \in SUBSET Threads
        /\ PendingOver \in SUBSET Threads
  BY DEF SingleHolders, AllHolders, PendingOver
<1> QED
  BY <1>1, ThreadSetFinite

-----------------------------------------------------------------------------
(* A step that moves no permit leaves the count alone: `a`, the guards and *)
(* the over-releases are unchanged, and no unguarded_release enters or     *)
(* leaves its fetch_add.                                                   *)
LEMMA QuietStep ==
    ASSUME a' = a, held' = held, extra' = extra, PendingOver' = PendingOver
    PROVE  ConservedCount' = ConservedCount
BY DEF ConservedCount, SingleHolders, AllHolders

(* A successful CAS of acquire or try_acquire takes one permit off `a` and *)
(* gives it to the caller's new guard: the count does not change.         *)
LEMMA AcquireOneStep ==
    ASSUME TypeOK, GuardState, NEW t \in Threads, pc[t] \in {"acq_cas", "try_cas"},
           CasOk(t, 1), held' = [held EXCEPT ![t] = 1],
           pc' = [pc EXCEPT ![t] = "holding"], UNCHANGED extra
    PROVE  ConservedCount' = ConservedCount
<1>0. a \in Nat
  BY DEF TypeOK
<1>1. held[t] = 0 /\ t \notin SingleHolders /\ t \notin AllHolders
  BY MaxAssumption DEF GuardState, SingleHolders, AllHolders
<1>2. PendingOver' = PendingOver
  BY DEF PendingOver, TypeOK
<1>3. a' = a - 1
  BY DEF CasOk, TypeOK
<1>4. CASE Max = 1
  <2>1. SingleHolders' = SingleHolders /\ AllHolders' = AllHolders \cup {t}
    BY <1>1, <1>4 DEF SingleHolders, AllHolders, TypeOK
  <2>2. Cardinality(AllHolders') = Cardinality(AllHolders) + 1
    BY <1>1, <2>1, ThreadSetAdd DEF AllHolders
  <2> QED
    BY <1>0, <1>2, <1>3, <1>4, <2>1, <2>2, CountsInNat DEF ConservedCount
<1>5. CASE Max # 1
  <2>1. SingleHolders' = SingleHolders \cup {t} /\ AllHolders' = AllHolders
    BY <1>1, <1>5 DEF SingleHolders, AllHolders, TypeOK
  <2>2. Cardinality(SingleHolders') = Cardinality(SingleHolders) + 1
    BY <1>1, <2>1, ThreadSetAdd DEF SingleHolders
  <2> QED
    BY <1>0, <1>2, <1>3, <2>1, <2>2, CountsInNat, MaxAssumption DEF ConservedCount
<1> QED
  BY <1>4, <1>5

(* A successful CAS of acquire_many takes all `max` permits for one        *)
(* PermitGuardAll: the count does not change.                              *)
LEMMA AcquireAllStep ==
    ASSUME TypeOK, GuardState, NEW t \in Threads, pc[t] = "many_cas",
           CasOk(t, Max), held' = [held EXCEPT ![t] = Max],
           pc' = [pc EXCEPT ![t] = "holding"], UNCHANGED extra
    PROVE  ConservedCount' = ConservedCount
<1>0. a \in Nat
  BY DEF TypeOK
<1>1. held[t] = 0 /\ t \notin AllHolders
  BY MaxAssumption DEF GuardState, AllHolders
<1>2. PendingOver' = PendingOver
  BY DEF PendingOver, TypeOK
<1>3. SingleHolders' = SingleHolders /\ AllHolders' = AllHolders \cup {t}
  BY <1>1, MaxAssumption DEF SingleHolders, AllHolders, TypeOK
<1>4. Cardinality(AllHolders') = Cardinality(AllHolders) + 1
  BY <1>1, <1>3, ThreadSetAdd DEF AllHolders
<1>5. a' = a - Max
  BY DEF CasOk, TypeOK
<1> QED
  BY <1>0, <1>2, <1>3, <1>4, <1>5, CountsInNat, MaxAssumption DEF ConservedCount

(* release_impl's fetch_add gives back what the guard held, or the one     *)
(* permit of an unguarded_release that is no longer pending: the count    *)
(* does not change.                                                        *)
LEMMA ReleaseStep ==
    ASSUME TypeOK, GuardState, PermitConservation, NEW t \in Threads, RelAdd(t)
    PROVE  ConservedCount' = ConservedCount
<1>0. a \in Nat /\ held[t] \in {0, 1, Max} /\ pc[t] = "rel_add"
  BY DEF TypeOK, PermitConservation, RelAdd
<1>1. CASE held[t] = 0
  <2>1. upd[t] = 1 /\ a' = a + 1
    BY <1>0, <1>1 DEF GuardState, RelAdd
  <2>2. SingleHolders' = SingleHolders /\ AllHolders' = AllHolders
    BY <1>1, MaxAssumption DEF RelAdd, SingleHolders, AllHolders, TypeOK
  <2>3. t \in PendingOver /\ PendingOver' = PendingOver \ {t}
    BY <1>0, <1>1 DEF RelAdd, PendingOver, TypeOK
  <2>4. Cardinality(PendingOver') = Cardinality(PendingOver) - 1
    BY <2>3, ThreadSetRemove DEF PendingOver
  <2> QED
    BY <1>0, <2>1, <2>2, <2>4, CountsInNat, MaxAssumption DEF ConservedCount
<1>2. CASE held[t] = Max
  <2>1. upd[t] = Max /\ a' = a + Max
    BY <1>0, <1>2, MaxAssumption DEF GuardState, RelAdd
  <2>2. SingleHolders' = SingleHolders /\ t \in AllHolders
          /\ AllHolders' = AllHolders \ {t}
    BY <1>2, MaxAssumption DEF RelAdd, SingleHolders, AllHolders, TypeOK
  <2>3. PendingOver' = PendingOver
    BY <1>2, MaxAssumption DEF RelAdd, PendingOver, TypeOK
  <2>4. Cardinality(AllHolders') = Cardinality(AllHolders) - 1
    BY <2>2, ThreadSetRemove DEF AllHolders
  <2> QED
    BY <1>0, <2>1, <2>2, <2>3, <2>4, CountsInNat, MaxAssumption DEF ConservedCount
<1>3. CASE held[t] = 1 /\ Max # 1
  <2>1. upd[t] = 1 /\ a' = a + 1
    BY <1>0, <1>3 DEF GuardState, RelAdd
  <2>2. AllHolders' = AllHolders /\ t \in SingleHolders
          /\ SingleHolders' = SingleHolders \ {t}
    BY <1>3, MaxAssumption DEF RelAdd, SingleHolders, AllHolders, TypeOK
  <2>3. PendingOver' = PendingOver
    BY <1>3 DEF RelAdd, PendingOver, TypeOK
  <2>4. Cardinality(SingleHolders') = Cardinality(SingleHolders) - 1
    BY <2>2, ThreadSetRemove DEF SingleHolders
  <2> QED
    BY <1>0, <2>1, <2>2, <2>3, <2>4, CountsInNat, MaxAssumption DEF ConservedCount
<1> QED
  BY <1>0, <1>1, <1>2, <1>3

(* An unguarded_release without a permit counts one more over-release and  *)
(* one more pending fetch_add: the equation keeps both sides level.        *)
LEMMA OverReleaseStep ==
    ASSUME TypeOK, GuardState, NEW t \in Threads, ExtraRelease(t)
    PROVE  ConservedCount' = ConservedCount + 1 /\ extra' = extra + 1
<1>1. t \notin PendingOver /\ PendingOver' = PendingOver \cup {t}
  BY DEF ExtraRelease, PendingOver, GuardState, TypeOK
<1>2. Cardinality(PendingOver') = Cardinality(PendingOver) + 1
  BY <1>1, ThreadSetAdd DEF PendingOver
<1>3. SingleHolders' = SingleHolders /\ AllHolders' = AllHolders /\ a' = a
  BY DEF ExtraRelease, SingleHolders, AllHolders
<1> QED
  BY <1>2, <1>3, CountsInNat, MaxAssumption DEF ConservedCount, ExtraRelease, TypeOK

\* Every guard holds one permit or all `max`.
HeldKinds == \A t \in Threads : held[t] \in {0, 1, Max}

LEMMA ConservationSplit == PermitConservation <=> HeldKinds /\ ConservedCount = Max + extra
BY DEF PermitConservation, HeldKinds, ConservedCount

(* No step gives a guard a number of permits other than 1 or `max`.        *)
LEMMA HeldKindsStep == TypeOK /\ HeldKinds /\ [Next]_vars => HeldKinds'
<1> SUFFICES ASSUME TypeOK, HeldKinds, [Next]_vars PROVE HeldKinds'
  OBVIOUS
<1>1. CASE UNCHANGED vars
  BY <1>1 DEF HeldKinds, vars
<1>2. ASSUME NEW t \in Threads, Start(t) PROVE HeldKinds'
  BY <1>2 DEF Start, HeldKinds
<1>3. ASSUME NEW t \in Threads, ExtraRelease(t) PROVE HeldKinds'
  BY <1>3 DEF ExtraRelease, HeldKinds
<1>4. ASSUME NEW t \in Threads, SpuriousWake(t) PROVE HeldKinds'
  BY <1>4 DEF SpuriousWake, HeldKinds
<1>5. ASSUME NEW t \in Threads, Step(t) PROVE HeldKinds'
  <2>1. CASE AcqWait(t)
    BY <2>1 DEF AcqWait, HeldKinds, TypeOK
  <2>2. CASE AcqLoad(t)
    BY <2>2 DEF AcqLoad, HeldKinds, TypeOK
  <2>3. CASE AcqCas(t)
    BY <2>3 DEF AcqCas, CasOk, CasFails, Return, HeldKinds, TypeOK
  <2>4. CASE TryLoad(t)
    BY <2>4 DEF TryLoad, HeldKinds, TypeOK
  <2>5. CASE TryCas(t)
    BY <2>5 DEF TryCas, CasOk, CasFails, Return, HeldKinds, TypeOK
  <2>6. CASE ManyInit(t)
    BY <2>6 DEF ManyInit, HeldKinds, TypeOK
  <2>7. CASE ManyWait(t)
    BY <2>7 DEF ManyWait, HeldKinds, TypeOK
  <2>8. CASE ManyLoad(t)
    BY <2>8 DEF ManyLoad, HeldKinds, TypeOK
  <2>9. CASE ManyCas(t)
    BY <2>9 DEF ManyCas, CasOk, CasFails, Return, HeldKinds, TypeOK
  <2>10. CASE Drop(t)
    BY <2>10 DEF Drop, HeldKinds, TypeOK
  <2>11. CASE RelAdd(t)
    BY <2>11 DEF RelAdd, HeldKinds, TypeOK
  <2>12. CASE RelWake(t)
    BY <2>12 DEF RelWake, Sleeping, AfterWait, HeldKinds, TypeOK
  <2> QED
    BY <1>5, <2>1, <2>2, <2>3, <2>4, <2>5, <2>6, <2>7, <2>8, <2>9, <2>10, <2>11, <2>12 DEF Step
<1> QED
  BY <1>1, <1>2, <1>3, <1>4, <1>5 DEF Next

-----------------------------------------------------------------------------
(* The steps that move permits.                                            *)

\* A step that moves no permit: `a`, the guards and the over-releases stay,
\* and no unguarded_release enters or leaves its fetch_add.
Quiet == a' = a /\ held' = held /\ extra' = extra /\ PendingOver' = PendingOver

\* The successful CAS of acquire or try_acquire, and of acquire_many.
AcquireOne(t) ==
    /\ pc[t] \in {"acq_cas", "try_cas"} /\ CasOk(t, 1)
    /\ held' = [held EXCEPT ![t] = 1] /\ pc' = [pc EXCEPT ![t] = "holding"]
    /\ UNCHANGED extra
AcquireAllOk(t) ==
    /\ pc[t] = "many_cas" /\ CasOk(t, Max)
    /\ held' = [held EXCEPT ![t] = Max] /\ pc' = [pc EXCEPT ![t] = "holding"]
    /\ UNCHANGED extra

Moves(t) == AcquireOne(t) \/ AcquireAllOk(t) \/ RelAdd(t) \/ ExtraRelease(t)

(* Only four steps of semaphore.rs move permits: a successful CAS of       *)
(* acquire/try_acquire or of acquire_many, the fetch_add of release_impl,  *)
(* and the call of an unguarded_release without a permit.  The waits, the  *)
(* loads, a failed compare_exchange_weak, a guard's drop before its        *)
(* fetch_add and the wake_all move none.                                   *)
LEMMA StepKinds == TypeOK /\ GuardState /\ [Next]_vars => Quiet \/ \E u \in Threads : Moves(u)
<1> SUFFICES ASSUME TypeOK, GuardState, [Next]_vars PROVE Quiet \/ \E u \in Threads : Moves(u)
  OBVIOUS
<1>1. CASE UNCHANGED vars
  BY <1>1 DEF vars, Quiet, PendingOver
<1>2. ASSUME NEW t \in Threads, Start(t) PROVE Quiet \/ \E u \in Threads : Moves(u)
  BY <1>2 DEF Start, Quiet, PendingOver, GuardState, TypeOK
<1>3. ASSUME NEW t \in Threads, ExtraRelease(t) PROVE Quiet \/ \E u \in Threads : Moves(u)
  BY <1>3 DEF Moves
<1>4. ASSUME NEW t \in Threads, SpuriousWake(t) PROVE Quiet \/ \E u \in Threads : Moves(u)
  BY <1>4 DEF SpuriousWake, Sleeping, AfterWait, Quiet, PendingOver, GuardState, TypeOK
<1>5. ASSUME NEW t \in Threads, Step(t) PROVE Quiet \/ \E u \in Threads : Moves(u)
  <2>1. CASE AcqWait(t)
    BY <2>1 DEF AcqWait, Quiet, PendingOver, GuardState, TypeOK
  <2>2. CASE AcqLoad(t)
    BY <2>2 DEF AcqLoad, Quiet, PendingOver, GuardState, TypeOK
  <2>3. CASE AcqCas(t)
    <3>1. CASE CasOk(t, 1) /\ held' = [held EXCEPT ![t] = 1] /\ Return(t, "holding")
      BY <2>3, <3>1 DEF AcqCas, AcquireOne, Return, Moves
    <3>2. CASE pc' = [pc EXCEPT ![t] = "acq_wait"] /\ UNCHANGED <<a, held>>
      BY <2>3, <3>2 DEF AcqCas, Return, Quiet, PendingOver, TypeOK
    <3> QED
      BY <2>3, <3>1, <3>2 DEF AcqCas
  <2>4. CASE TryLoad(t)
    BY <2>4 DEF TryLoad, Quiet, PendingOver, GuardState, TypeOK
  <2>5. CASE TryCas(t)
    <3>1. CASE CasOk(t, 1) /\ held' = [held EXCEPT ![t] = 1] /\ Return(t, "holding")
      BY <2>5, <3>1 DEF TryCas, AcquireOne, Return, Moves
    <3>2. CASE Return(t, "idle") /\ UNCHANGED <<a, held>>
      BY <2>5, <3>2 DEF TryCas, Return, Quiet, PendingOver, TypeOK
    <3> QED
      BY <2>5, <3>1, <3>2 DEF TryCas
  <2>6. CASE ManyInit(t)
    BY <2>6 DEF ManyInit, Quiet, PendingOver, GuardState, TypeOK
  <2>7. CASE ManyWait(t)
    BY <2>7 DEF ManyWait, Quiet, PendingOver, GuardState, TypeOK
  <2>8. CASE ManyLoad(t)
    BY <2>8 DEF ManyLoad, Quiet, PendingOver, GuardState, TypeOK
  <2>9. CASE ManyCas(t)
    <3>1. CASE CasOk(t, Max) /\ held' = [held EXCEPT ![t] = Max] /\ Return(t, "holding")
      BY <2>9, <3>1 DEF ManyCas, AcquireAllOk, Return, Moves
    <3>2. CASE pc' = [pc EXCEPT ![t] = "many_wait"] /\ UNCHANGED <<a, held>>
      BY <2>9, <3>2 DEF ManyCas, Return, Quiet, PendingOver, TypeOK
    <3> QED
      BY <2>9, <3>1, <3>2 DEF ManyCas
  <2>10. CASE Drop(t)
    BY <2>10 DEF Drop, Quiet, PendingOver, GuardState, TypeOK
  <2>11. CASE RelAdd(t)
    BY <2>11 DEF Moves
  <2>12. CASE RelWake(t)
    BY <2>12 DEF RelWake, Sleeping, AfterWait, Quiet, PendingOver, GuardState, TypeOK
  <2> QED
    BY <1>5, <2>1, <2>2, <2>3, <2>4, <2>5, <2>6, <2>7, <2>8, <2>9, <2>10, <2>11, <2>12 DEF Step
<1> QED
  BY <1>1, <1>2, <1>3, <1>4, <1>5 DEF Next

(* No interleaving of the loads, compare-exchanges and fetch_adds of the   *)
(* threads changes the count, except an unguarded_release, which raises    *)
(* both sides of the equation by one.                                      *)
LEMMA CountStep ==
    TypeOK /\ GuardState /\ PermitConservation /\ [Next]_vars
      => ConservedCount' = Max + extra'
<1> SUFFICES ASSUME TypeOK, GuardState, PermitConservation, [Next]_vars
             PROVE  ConservedCount' = Max + extra'
  OBVIOUS
<1>0. ConservedCount = Max + extra
  BY ConservationSplit
<1>1. CASE Quiet
  BY <1>0, <1>1, QuietStep DEF Quiet
<1>2. ASSUME NEW t \in Threads, AcquireOne(t) PROVE ConservedCount' = Max + extra'
  BY <1>0, <1>2, AcquireOneStep DEF AcquireOne
<1>3. ASSUME NEW t \in Threads, AcquireAllOk(t) PROVE ConservedCount' = Max + extra'
  BY <1>0, <1>3, AcquireAllStep DEF AcquireAllOk
<1>4. ASSUME NEW t \in Threads, RelAdd(t) PROVE ConservedCount' = Max + extra'
  BY <1>0, <1>4, ReleaseStep DEF RelAdd
<1>5. ASSUME NEW t \in Threads, ExtraRelease(t) PROVE ConservedCount' = Max + extra'
  BY <1>0, <1>5, OverReleaseStep, CountsInNat, MaxAssumption DEF ConservedCount, TypeOK
<1> QED
  BY <1>1, <1>2, <1>3, <1>4, <1>5, StepKinds DEF Moves

-----------------------------------------------------------------------------
(* CInv holds initially and every step of every thread keeps it.           *)
LEMMA CInvInductive == Spec => []CInv
<1>1. Init => CInv
  <2> SUFFICES ASSUME Init PROVE CInv
    OBVIOUS
  <2>1. TypeOK /\ GuardState
    BY MaxAssumption, ExtraAssumption DEF Init, TypeOK, PC, GuardState
  <2>2. SingleHolders = {} /\ AllHolders = {} /\ PendingOver = {}
    BY MaxAssumption DEF Init, SingleHolders, AllHolders, PendingOver
  <2>3. HeldKinds /\ ConservedCount = Max + extra
    BY <2>2, FS_EmptySet, MaxAssumption DEF Init, HeldKinds, ConservedCount
  <2> QED
    BY <2>1, <2>3, ConservationSplit DEF CInv
<1>2. CInv /\ [Next]_vars => CInv'
  <2> SUFFICES ASSUME CInv, [Next]_vars PROVE CInv'
    OBVIOUS
  <2>1. TypeOK' /\ GuardState'
    BY TypeCorrectStep, GuardStateStep DEF CInv
  <2>2. HeldKinds'
    BY HeldKindsStep, ConservationSplit DEF CInv
  <2>3. ConservedCount' = Max + extra'
    BY CountStep DEF CInv
  <2> QED
    BY <2>1, <2>2, <2>3 DEF CInv, PermitConservation, HeldKinds, ConservedCount
<1> QED
  BY <1>1, <1>2, PTL DEF Spec

(* Permit conservation: in every run of semaphore.rs, for every number of  *)
(* threads and permits and whether or not compare_exchange_weak fails      *)
(* spuriously, the available count `a`, the permits held by PermitGuards   *)
(* and PermitGuardAlls, and the unguarded_releases still before their     *)
(* fetch_add always add up to `max` plus the over-releases made.           *)
THEOREM PermitConservationInv == Spec => []PermitConservation
BY CInvInductive, PTL DEF CInv

-----------------------------------------------------------------------------
\* A set of threads with a member counts at least one, with two at least two.
LEMMA ThreadSetOne ==
    ASSUME NEW T \in SUBSET Threads, NEW x \in T
    PROVE  Cardinality(T) >= 1
<1>1. T \ {x} \in SUBSET Threads
  OBVIOUS
<1>2. Cardinality(T \ {x}) \in Nat /\ Cardinality(T) \in Nat
  BY <1>1, ThreadSetFinite
<1>3. Cardinality(T \ {x}) = Cardinality(T) - 1
  BY ThreadSetRemove
<1> QED
  BY <1>2, <1>3

LEMMA ThreadSetTwo ==
    ASSUME NEW T \in SUBSET Threads, NEW x \in T, NEW y \in T, x # y
    PROVE  Cardinality(T) >= 2
<1>1. T \ {x} \in SUBSET Threads /\ y \in T \ {x}
  OBVIOUS
<1>2. Cardinality(T \ {x}) >= 1 /\ Cardinality(T) \in Nat
  BY <1>1, ThreadSetOne, ThreadSetFinite
<1>3. Cardinality(T \ {x}) = Cardinality(T) - 1
  BY ThreadSetRemove
<1> QED
  BY <1>2, <1>3

\* `max` permits counted twice are more than `max`.
LEMMA TwiceMax ==
    ASSUME NEW m \in Nat, NEW k \in Nat, k >= 2
    PROVE  m * k >= m + m
<1>1. k - 2 \in Nat /\ m * (k - 2) \in Nat
  OBVIOUS
<1>2. m * k = m + m + m * (k - 2)
  OBVIOUS
<1> QED
  BY <1>1, <1>2

(* While no unguarded_release has been made, a PermitGuardAll is exclusive: *)
(* a second guard of either kind would make the permits add up to more     *)
(* than `max`.                                                             *)
LEMMA ExclusiveFromCount ==
    TypeOK /\ PermitConservation /\ extra = 0 => ExclusiveAll
<1> SUFFICES ASSUME TypeOK, PermitConservation, extra = 0,
                    NEW t \in Threads, held[t] = Max,
                    NEW u \in Threads \ {t}, held[u] # 0
             PROVE  FALSE
  BY DEF ExclusiveAll
<1>1. HeldKinds /\ ConservedCount = Max
  BY ConservationSplit, MaxAssumption
<1>2. a \in Nat /\ Cardinality(PendingOver) \in Nat
  BY CountsInNat DEF TypeOK
<1>3. CASE held[u] = Max
  <2>1. Cardinality(AllHolders) >= 2 /\ Cardinality(SingleHolders) \in Nat
    BY <1>3, ThreadSetTwo, CountsInNat DEF AllHolders
  <2>2. a + Cardinality(SingleHolders) + Max * Cardinality(AllHolders)
          + Cardinality(PendingOver) >= Max + Max
    <3>1. Max * Cardinality(AllHolders) >= Max + Max
      BY <2>1, CountsInNat, MaxAssumption, TwiceMax
    <3> QED
      BY <1>2, <2>1, <3>1, CountsInNat, MaxAssumption
  <2>3. a + Cardinality(SingleHolders) + Max * Cardinality(AllHolders)
          + Cardinality(PendingOver) = Max
    BY <1>1 DEF ConservedCount
  <2> QED
    BY <2>2, <2>3, MaxAssumption
<1>4. CASE held[u] # Max
  <2>1. Cardinality(AllHolders) >= 1 /\ Cardinality(SingleHolders) >= 1
    BY <1>4, ThreadSetOne DEF SingleHolders, AllHolders
  <2>2. Max * Cardinality(AllHolders) >= Max
    BY <2>1, CountsInNat, MaxAssumption
  <2> QED
    BY <1>1, <1>2, <2>1, <2>2, CountsInNat, MaxAssumption DEF ConservedCount
<1> QED
  BY <1>3, <1>4

(* A PermitGuardAll is exclusive: in every run of the guarded API (no      *)
(* unguarded_release), for every number of threads and permits, while a    *)
(* thread holds all `max` permits no other thread's guard holds one, so    *)
(* acquire_all really waits for every PermitGuard to be dropped.           *)
THEOREM ExclusiveAllInv ==
    ASSUME MaxExtraReleases = 0
    PROVE  Spec => []ExclusiveAll
<1>1. CInv => ExclusiveAll
  BY ExclusiveFromCount DEF CInv, TypeOK
<1> QED
  BY CInvInductive, <1>1, PTL

-----------------------------------------------------------------------------
(* The refinement of SemaphoreSpec.  Abs maps `a` to avail, a thread's     *)
(* guard to holds and the over-releases that have added to extras.         *)

(* An unguarded_release that has not added yet does not count, and it      *)
(* counts once at its fetch_add: the abstract over-release happens there.   *)
LEMMA OverReleaseRefines ==
    ASSUME CInv, NEW t \in Threads, RelAdd(t), held[t] = 0
    PROVE  Abs!AbsOverRelease
<1>1. upd[t] = 1 /\ a' = a + 1 /\ held' = held /\ extra' = extra
  BY DEF CInv, GuardState, RelAdd, TypeOK
<1>2. t \in PendingOver /\ PendingOver' = PendingOver \ {t}
  BY DEF CInv, RelAdd, PendingOver, TypeOK
<1>3. Cardinality(PendingOver') = Cardinality(PendingOver) - 1
      /\ Cardinality(PendingOver) >= 1
  BY <1>2, ThreadSetRemove, ThreadSetOne DEF PendingOver
<1>4. extra \in 0..MaxExtraReleases
  BY DEF CInv, TypeOK
<1> QED
  BY <1>1, <1>3, <1>4, CountsInNat, ExtraAssumption DEF Abs!AbsOverRelease

(* Each step of the code's threads is one step of the atomic semaphore or  *)
(* changes nothing it shows: a successful CAS is an AbsAcquire or          *)
(* AbsAcquireAll, a fetch_add an AbsRelease or AbsOverRelease, and an      *)
(* unguarded_release's call before its fetch_add is a stutter.             *)
LEMMA RefinementStep == CInv /\ [Next]_vars => [Abs!AbsNext]_Abs!absVars
<1> SUFFICES ASSUME CInv, [Next]_vars PROVE [Abs!AbsNext]_Abs!absVars
  OBVIOUS
<1>0. TypeOK /\ GuardState
  BY DEF CInv
<1>1. CASE Quiet
  BY <1>1 DEF Quiet, Abs!absVars
<1>2. ASSUME NEW t \in Threads, AcquireOne(t) PROVE Abs!AbsAcquire(t)
  <2>1. held[t] = 0 /\ a >= 1 /\ a' = a - 1
    BY <1>0, <1>2 DEF AcquireOne, CasOk, GuardState, TypeOK
  <2>2. PendingOver' = PendingOver /\ extra' = extra
    BY <1>0, <1>2 DEF AcquireOne, PendingOver, TypeOK
  <2> QED
    BY <1>2, <2>1, <2>2 DEF AcquireOne, Abs!AbsAcquire
<1>3. ASSUME NEW t \in Threads, AcquireAllOk(t) PROVE Abs!AbsAcquireAll(t)
  <2>1. held[t] = 0 /\ a >= Max /\ a' = a - Max
    BY <1>0, <1>3, MaxAssumption DEF AcquireAllOk, CasOk, GuardState, TypeOK
  <2>2. PendingOver' = PendingOver /\ extra' = extra
    BY <1>0, <1>3 DEF AcquireAllOk, PendingOver, TypeOK
  <2> QED
    BY <1>3, <2>1, <2>2 DEF AcquireAllOk, Abs!AbsAcquireAll
<1>4. ASSUME NEW t \in Threads, RelAdd(t) PROVE Abs!AbsNext
  <2>1. CASE held[t] # 0
    <3>1. held[t] > 0 /\ upd[t] = held[t] /\ a' = a + held[t]
      BY <1>0, <1>4, <2>1 DEF RelAdd, GuardState, TypeOK
    <3>2. PendingOver' = PendingOver /\ extra' = extra
      BY <1>0, <1>4, <2>1 DEF RelAdd, PendingOver, TypeOK
    <3>3. Abs!AbsRelease(t)
      BY <1>4, <3>1, <3>2 DEF RelAdd, Abs!AbsRelease
    <3> QED
      BY <3>3 DEF Abs!AbsNext
  <2>2. CASE held[t] = 0
    BY <1>4, <2>2, OverReleaseRefines DEF Abs!AbsNext
  <2> QED
    BY <2>1, <2>2
<1>5. ASSUME NEW t \in Threads, ExtraRelease(t) PROVE UNCHANGED Abs!absVars
  <2>1. Cardinality(PendingOver') = Cardinality(PendingOver) + 1 /\ extra' = extra + 1
        /\ a' = a /\ held' = held
    <3>1. t \notin PendingOver /\ PendingOver' = PendingOver \cup {t}
      BY <1>0, <1>5 DEF ExtraRelease, PendingOver, GuardState, TypeOK
    <3> QED
      BY <1>5, <3>1, ThreadSetAdd DEF PendingOver, ExtraRelease
  <2> QED
    BY <1>0, <2>1, CountsInNat DEF Abs!absVars, TypeOK
<1> QED
  BY <1>1, <1>2, <1>3, <1>4, <1>5, <1>0, StepKinds DEF Moves, Abs!AbsNext

(* The lock-free semaphore implements the atomic one: for every finite set *)
(* of threads, every `max` > 0 and every bound on over-releases, every run *)
(* of acquire, try_acquire, acquire_many and release_impl's load/CAS/      *)
(* fetch_add loops is, seen through Abs, a run of SemaphoreSpec.           *)
THEOREM Refinement == Spec => Implements
<1>1. Init => Abs!AbsInit
  <2> SUFFICES ASSUME Init PROVE Abs!AbsInit
    OBVIOUS
  <2>1. PendingOver = {}
    BY DEF Init, PendingOver
  <2> QED
    BY <2>1, FS_EmptySet DEF Init, Abs!AbsInit
<1> QED
  BY <1>1, CInvInductive, RefinementStep, PTL DEF Spec, Implements, Abs!AbsSpec

=============================================================================
