------------------------------ MODULE Semaphore ------------------------------
(***************************************************************************)
(* The counting semaphore of crates/dbt-xdbc/src/semaphore.rs.             *)
(*                                                                         *)
(* The semaphore is one AtomicU32 `a` (the available permits) plus the     *)
(* futex primitives of the atomic-wait crate:                              *)
(*   wait(&a, v)  blocks while a = v (the comparison and the sleep are     *)
(*                one atomic step) and may return spuriously;              *)
(*   wake_all(&a) wakes every thread blocked on &a.                        *)
(* Every load, compare_exchange_weak and fetch_add of the code is one step *)
(* of a thread, so the model explores every interleaving of them.  A       *)
(* compare_exchange_weak may fail spuriously even when `a` still holds the *)
(* expected value: that is a nondeterministic failure.  All the accesses   *)
(* are to the one location `a`, whose modification order every thread     *)
(* sees, so a load returns the current value.                              *)
(*                                                                         *)
(* A member of Threads is one guard's worth of work: it idles, starts one  *)
(* of acquire / try_acquire / acquire_all (or their unguarded twins, which *)
(* run the same code), holds what it got, and drops the guard, which runs  *)
(* release_impl.  An unguarded_release by a thread that holds nothing      *)
(* (the over-release the comment on `max` allows) is bounded by            *)
(* MaxExtraReleases.                                                       *)
(***************************************************************************)
EXTENDS Naturals, FiniteSets

CONSTANTS
    Threads,           \* the threads sharing one Semaphore
    Max,               \* the count given to Semaphore::new, i.e. `max`
    MaxExtraReleases,  \* bound on unguarded_release calls without a permit
    WeakCasMayFail     \* whether compare_exchange_weak fails spuriously here

ASSUME ThreadsAssumption == Threads # {}
ASSUME FiniteThreadsAssumption == IsFiniteSet(Threads)
ASSUME MaxAssumption == Max \in Nat \ {0}
ASSUME ExtraAssumption == MaxExtraReleases \in Nat
ASSUME WeakCasAssumption == WeakCasMayFail \in BOOLEAN

VARIABLES
    a,        \* AtomicSemaphoreBase.a: the number of available permits
    pc,       \* where each thread is in the code
    held,     \* permits each thread's guard holds
    old,      \* the local `old` of the loop a thread is in
    insuff,   \* the local `insufficient` of acquire_many
    upd,      \* the `update` argument of a running release_impl
    extra     \* over-releases performed so far

vars == <<a, pc, held, old, insuff, upd, extra>>

PC == {"idle", "holding",
       "acq_wait", "acq_sleep", "acq_load", "acq_cas",
       "try_load", "try_cas",
       "many_init", "many_wait", "many_sleep", "many_load", "many_cas",
       "rel_add", "rel_wake"}

Sleeping == {t \in Threads : pc[t] \in {"acq_sleep", "many_sleep"}}

\* Where a thread resumes when its wait returns: the load after the wait.
AfterWait(p) == IF p = "acq_sleep" THEN "acq_load" ELSE "many_load"

MinNat(x, y) == IF x <= y THEN x ELSE y

Init ==
    /\ a = Max
    /\ pc = [t \in Threads |-> "idle"]
    /\ held = [t \in Threads |-> 0]
    /\ old = [t \in Threads |-> 0]
    /\ insuff = [t \in Threads |-> 0]
    /\ upd = [t \in Threads |-> 0]
    /\ extra = 0

-----------------------------------------------------------------------------
(* try_acquire_impl(old, ask): `old >= ask && a.compare_exchange_weak(old, *)
(* old - ask).is_ok()`.  CasOk is the successful exchange; the exchange    *)
(* fails when `a` moved away from `old` and, being weak, may fail anyway   *)
(* on a target whose CAS is a load-linked/store-conditional pair.          *)
\* Mutant: `old >= ask &&` dropped, so a CAS may take more than is there.
CasOkUnchecked(t, ask) ==
    /\ a = old[t]
    /\ a' = old[t] - ask

\* Mutant: a load followed by a plain store instead of a compare-exchange.
CasOkStore(t, ask) ==
    /\ old[t] >= ask
    /\ a' = old[t] - ask

CasOk(t, ask) ==
    /\ old[t] >= ask
    /\ a = old[t]
    /\ a' = old[t] - ask

CasFails(t, ask) ==
    \/ old[t] < ask
    \/ a # old[t]
    \/ WeakCasMayFail

\* The function a thread is in returns to `p`: its locals go out of scope.
Return(t, p) ==
    /\ pc' = [pc EXCEPT ![t] = p]
    /\ old' = [old EXCEPT ![t] = 0]

\* A thread calls acquire, try_acquire or acquire_all (or an unguarded twin).
Start(t) ==
    /\ pc[t] = "idle"
    /\ \E p \in {"acq_wait", "try_load", "many_init"} : pc' = [pc EXCEPT ![t] = p]
    /\ UNCHANGED <<a, held, old, insuff, upd, extra>>

\* acquire: `atomic_wait::wait(&self.a, 0)` blocks while a = 0.
AcqWait(t) ==
    /\ pc[t] = "acq_wait"
    /\ pc' = [pc EXCEPT ![t] = IF a = 0 THEN "acq_sleep" ELSE "acq_load"]
    /\ UNCHANGED <<a, held, old, insuff, upd, extra>>

\* acquire: `let old = self.a.load(Ordering::Relaxed)`.
AcqLoad(t) ==
    /\ pc[t] = "acq_load"
    /\ old' = [old EXCEPT ![t] = a]
    /\ pc' = [pc EXCEPT ![t] = "acq_cas"]
    /\ UNCHANGED <<a, held, insuff, upd, extra>>

\* acquire: `if self.try_acquire_impl(old, 1) { break; }`, else loop.
AcqCas(t) ==
    /\ pc[t] = "acq_cas"
    /\ \/ /\ CasOk(t, 1)
          /\ held' = [held EXCEPT ![t] = 1]
          /\ Return(t, "holding")
       \/ /\ CasFails(t, 1)
          /\ pc' = [pc EXCEPT ![t] = "acq_wait"]
          /\ UNCHANGED <<a, held, old>>
    /\ UNCHANGED <<insuff, upd, extra>>

\* try_acquire: `let old = self.a.load(Ordering::Acquire)`.
TryLoad(t) ==
    /\ pc[t] = "try_load"
    /\ old' = [old EXCEPT ![t] = a]
    /\ pc' = [pc EXCEPT ![t] = "try_cas"]
    /\ UNCHANGED <<a, held, insuff, upd, extra>>

\* try_acquire: one `try_acquire_impl(old, 1)`; Some(guard) or None.
TryCas(t) ==
    /\ pc[t] = "try_cas"
    /\ \/ /\ CasOk(t, 1)
          /\ held' = [held EXCEPT ![t] = 1]
          /\ Return(t, "holding")
       \/ /\ CasFails(t, 1)
          /\ Return(t, "idle")
          /\ UNCHANGED <<a, held>>
    /\ UNCHANGED <<insuff, upd, extra>>

\* acquire_many(max): `let mut insufficient = (ask - 1).min(self.a.load(..))`.
ManyInit(t) ==
    /\ pc[t] = "many_init"
    /\ insuff' = [insuff EXCEPT ![t] = MinNat(Max - 1, a)]
    /\ pc' = [pc EXCEPT ![t] = "many_wait"]
    /\ UNCHANGED <<a, held, old, upd, extra>>

\* acquire_many: `atomic_wait::wait(&self.a, insufficient)`.
ManyWait(t) ==
    /\ pc[t] = "many_wait"
    /\ pc' = [pc EXCEPT ![t] = IF a = insuff[t] THEN "many_sleep" ELSE "many_load"]
    /\ UNCHANGED <<a, held, old, insuff, upd, extra>>

\* acquire_many: `let old = self.a.load(Ordering::Relaxed)`.
ManyLoad(t) ==
    /\ pc[t] = "many_load"
    /\ old' = [old EXCEPT ![t] = a]
    /\ pc' = [pc EXCEPT ![t] = "many_cas"]
    /\ UNCHANGED <<a, held, insuff, upd, extra>>

\* acquire_many: `try_acquire_impl(old, ask)` or `insufficient = old` and loop.
ManyCas(t) ==
    /\ pc[t] = "many_cas"
    /\ \/ /\ CasOk(t, Max)
          /\ held' = [held EXCEPT ![t] = Max]
          /\ Return(t, "holding")
          /\ insuff' = [insuff EXCEPT ![t] = 0]
       \/ /\ CasFails(t, Max)
          /\ insuff' = [insuff EXCEPT ![t] = old[t]]
          /\ pc' = [pc EXCEPT ![t] = "many_wait"]
          /\ UNCHANGED <<a, held, old>>
    /\ UNCHANGED <<upd, extra>>

\* Mutant: PermitGuardAll's drop calls unguarded_release (one permit).
DropAsRelease(t) ==
    /\ pc[t] = "holding"
    /\ upd' = [upd EXCEPT ![t] = 1]
    /\ pc' = [pc EXCEPT ![t] = "rel_add"]
    /\ UNCHANGED <<a, held, old, insuff, extra>>

\* Dropping a PermitGuard (release_impl(1)) or a PermitGuardAll
\* (release_impl(max)): the guard gives back what it holds.
Drop(t) ==
    /\ pc[t] = "holding"
    /\ upd' = [upd EXCEPT ![t] = held[t]]
    /\ pc' = [pc EXCEPT ![t] = "rel_add"]
    /\ UNCHANGED <<a, held, old, insuff, extra>>

\* unguarded_release by a thread that holds no permit.
ExtraRelease(t) ==
    /\ pc[t] = "idle"
    /\ extra < MaxExtraReleases
    /\ extra' = extra + 1
    /\ upd' = [upd EXCEPT ![t] = 1]
    /\ pc' = [pc EXCEPT ![t] = "rel_add"]
    /\ UNCHANGED <<a, held, old, insuff>>

\* Mutant: the guard's permits are added but the guard is not consumed.
RelAddKeepsHeld(t) ==
    /\ pc[t] = "rel_add"
    /\ old' = [old EXCEPT ![t] = a]
    /\ a' = a + upd[t]
    /\ pc' = [pc EXCEPT ![t] = "rel_wake"]
    /\ UNCHANGED <<held, insuff, upd, extra>>

\* release_impl: `let old = self.a.fetch_add(update, Ordering::Release)`.
RelAdd(t) ==
    /\ pc[t] = "rel_add"
    /\ old' = [old EXCEPT ![t] = a]
    /\ a' = a + upd[t]
    /\ held' = [held EXCEPT ![t] = 0]
    /\ pc' = [pc EXCEPT ![t] = "rel_wake"]
    /\ UNCHANGED <<insuff, upd, extra>>

\* Mutant: wake_one instead of wake_all (one sleeper, chosen freely).
RelWakeOne(t) ==
    /\ pc[t] = "rel_wake"
    /\ \E w \in Threads :
          pc' = [u \in Threads |->
                   IF u = t THEN "idle"
                   ELSE IF old[t] = 0 /\ u = w /\ u \in Sleeping THEN AfterWait(pc[u])
                   ELSE pc[u]]
    /\ old' = [old EXCEPT ![t] = 0]
    /\ upd' = [upd EXCEPT ![t] = 0]
    /\ UNCHANGED <<a, held, insuff, extra>>

\* Mutant: the wake condition tests the count after the add (a fresh load).
RelWakeOnLoad(t) ==
    /\ pc[t] = "rel_wake"
    /\ pc' = [u \in Threads |->
                IF u = t THEN "idle"
                ELSE IF a = 0 /\ u \in Sleeping THEN AfterWait(pc[u])
                ELSE pc[u]]
    /\ old' = [old EXCEPT ![t] = 0]
    /\ upd' = [upd EXCEPT ![t] = 0]
    /\ UNCHANGED <<a, held, insuff, extra>>

\* release_impl: `if old == 0u32 { atomic_wait::wake_all(&self.a) }`.
RelWake(t) ==
    /\ pc[t] = "rel_wake"
    /\ pc' = [u \in Threads |->
                IF u = t THEN "idle"
                ELSE IF old[t] = 0 /\ u \in Sleeping THEN AfterWait(pc[u])
                ELSE pc[u]]
    /\ old' = [old EXCEPT ![t] = 0]
    /\ upd' = [upd EXCEPT ![t] = 0]
    /\ UNCHANGED <<a, held, insuff, extra>>

\* atomic_wait::wait may return without a wake.
SpuriousWake(t) ==
    /\ t \in Sleeping
    /\ pc' = [pc EXCEPT ![t] = AfterWait(pc[t])]
    /\ UNCHANGED <<a, held, old, insuff, upd, extra>>

\* The steps a thread takes once it is inside an operation.  A guard is
\* dropped at the end of its scope, so Drop is among them.
Step(t) ==
    \/ AcqWait(t) \/ AcqLoad(t) \/ AcqCas(t)
    \/ TryLoad(t) \/ TryCas(t)
    \/ ManyInit(t) \/ ManyWait(t) \/ ManyLoad(t) \/ ManyCas(t)
    \/ Drop(t) \/ RelAdd(t) \/ RelWake(t)

Next ==
    \E t \in Threads :
        Start(t) \/ ExtraRelease(t) \/ Step(t) \/ SpuriousWake(t)

\* A thread inside an operation keeps running; callers need not call again
\* and a futex need not wake spuriously, so Start, ExtraRelease and
\* SpuriousWake are not fair.
Fairness == \A t \in Threads : WF_vars(Step(t))

Spec == Init /\ [][Next]_vars /\ Fairness

-----------------------------------------------------------------------------
(* The types of the semaphore's state: the permits a guard holds and the  *)
(* amount a release adds never exceed `max`, and no CAS or fetch_add ever *)
(* takes the count `a` below zero.                                        *)
TypeOK ==
    /\ a \in Nat
    /\ pc \in [Threads -> PC]
    /\ held \in [Threads -> 0..Max]
    /\ old \in [Threads -> Nat]
    /\ insuff \in [Threads -> Nat]
    /\ upd \in [Threads -> 0..Max]
    /\ extra \in 0..MaxExtraReleases

\* The unguarded_release calls without a permit that have not added yet.
PendingOver == {t \in Threads : pc[t] = "rel_add" /\ held[t] = 0}

(* The abstract semaphore of SemaphoreSpec, seen through the code's       *)
(* state: the available count is `a`, a thread holds what its guard holds *)
(* until its fetch_add, and an over-release counts once it has added.     *)
Abs == INSTANCE SemaphoreSpec
           WITH avail <- a, holds <- held,
                extras <- extra - Cardinality(PendingOver)

(* The lock-free acquire, try_acquire, acquire_many and release_impl      *)
(* implement the atomic semaphore: every CAS that succeeds is one          *)
(* AbsAcquire or AbsAcquireAll, every fetch_add one AbsRelease or          *)
(* AbsOverRelease, and every other step of the loops changes nothing the   *)
(* caller can see.                                                         *)
Implements == Abs!AbsSpec

\* The guards holding one permit (a PermitGuard) and those holding all
\* `max` (a PermitGuardAll).  With max = 1 the two kinds coincide and
\* count as AllHolders.
SingleHolders == {t \in Threads : held[t] # 0 /\ held[t] # Max}
AllHolders == {t \in Threads : held[t] = Max}

(* No permit is created or lost by any interleaving of the loads, the weak *)
(* compare-exchanges and the fetch_adds of acquire, try_acquire,           *)
(* acquire_many and release_impl: every guard holds one permit or all      *)
(* `max`, and the available count, the permits the guards hold and the    *)
(* over-releases still to add make up `max` plus the over-releases.       *)
PermitConservation ==
    /\ \A t \in Threads : held[t] \in {0, 1, Max}
    /\ a + Cardinality(SingleHolders) + Max * Cardinality(AllHolders)
         + Cardinality(PendingOver) = Max + extra

(* A PermitGuardAll is exclusive: while a thread holds all `max` permits,  *)
(* no other guard holds one (what test_semaphore_acquire_all relies on).   *)
ExclusiveAll ==
    \A t \in Threads :
        held[t] = Max => \A u \in Threads \ {t} : held[u] = 0

(* No lost wakeup in acquire: a thread asleep in atomic_wait::wait(&a, 0)  *)
(* either would still block (a = 0) or a release_impl that saw old = 0 is  *)
(* about to call wake_all.                                                 *)
NoLostWakeupAcquire ==
    \A t \in Threads :
        pc[t] = "acq_sleep" =>
            \/ a = 0
            \/ \E r \in Threads : pc[r] = "rel_wake" /\ old[r] = 0

(* A thread blocked in acquire() is eventually woken.                      *)
AcquireWakes ==
    \A t \in Threads : (pc[t] = "acq_sleep") ~> (pc[t] # "acq_sleep")

(* A thread blocked in acquire_all() is eventually woken.                  *)
AcquireAllWakes ==
    \A t \in Threads : (pc[t] = "many_sleep") ~> (pc[t] # "many_sleep")

=============================================================================
