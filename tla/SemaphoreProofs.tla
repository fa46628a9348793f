--------------------------- MODULE SemaphoreProofs ---------------------------
(***************************************************************************)
(* Proofs about the model of crates/dbt-xdbc/src/semaphore.rs, for every   *)
(* set of threads, every `max` > 0, every bound on over-releases and both  *)
(* kinds of compare_exchange_weak.                                         *)
(***************************************************************************)
EXTENDS Semaphore, TLAPS

-----------------------------------------------------------------------------
(* Every step of every thread of semaphore.rs keeps the types: TypeOK is   *)
(* inductive on its own.                                                   *)
LEMMA TypeCorrectStep == TypeOK /\ [Next]_vars => TypeOK'
<1> SUFFICES ASSUME TypeOK, [Next]_vars PROVE TypeOK'
  OBVIOUS
<1>1. CASE UNCHANGED vars
  BY <1>1 DEF TypeOK, vars
<1>2. ASSUME NEW t \in Threads, Start(t) PROVE TypeOK'
  BY <1>2 DEF Start, TypeOK, PC
<1>3. ASSUME NEW t \in Threads, ExtraRelease(t) PROVE TypeOK'
  BY <1>3, MaxAssumption, ExtraAssumption DEF ExtraRelease, TypeOK, PC
<1>4. ASSUME NEW t \in Threads, SpuriousWake(t) PROVE TypeOK'
  BY <1>4 DEF SpuriousWake, Sleeping, AfterWait, TypeOK, PC
<1>5. ASSUME NEW t \in Threads, Step(t) PROVE TypeOK'
  <2>1. CASE AcqWait(t)
    BY <2>1 DEF AcqWait, TypeOK, PC
  <2>2. CASE AcqLoad(t)
    BY <2>2 DEF AcqLoad, TypeOK, PC
  <2>3. CASE AcqCas(t)
    BY <2>3, MaxAssumption DEF AcqCas, CasOk, CasFails, Return, TypeOK, PC
  <2>4. CASE TryLoad(t)
    BY <2>4 DEF TryLoad, TypeOK, PC
  <2>5. CASE TryCas(t)
    BY <2>5, MaxAssumption DEF TryCas, CasOk, CasFails, Return, TypeOK, PC
  <2>6. CASE ManyInit(t)
    BY <2>6, MaxAssumption DEF ManyInit, MinNat, TypeOK, PC
  <2>7. CASE ManyWait(t)
    BY <2>7 DEF ManyWait, TypeOK, PC
  <2>8. CASE ManyLoad(t)
    BY <2>8 DEF ManyLoad, TypeOK, PC
  <2>9. CASE ManyCas(t)
    BY <2>9, MaxAssumption DEF ManyCas, CasOk, CasFails, Return, TypeOK, PC
  <2>10. CASE Drop(t)
    BY <2>10 DEF Drop, TypeOK, PC
  <2>11. CASE RelAdd(t)
    BY <2>11, MaxAssumption DEF RelAdd, TypeOK, PC
  <2>12. CASE RelWake(t)
    BY <2>12, MaxAssumption DEF RelWake, AfterWait, TypeOK, PC
  <2> QED
    BY <1>5, <2>1, <2>2, <2>3, <2>4, <2>5, <2>6, <2>7, <2>8, <2>9, <2>10,
       <2>11, <2>12 DEF Step
<1> QED
  BY <1>1, <1>2, <1>3, <1>4, <1>5 DEF Next

(* Type correctness: the loads, compare-exchanges and fetch_adds keep `a`, *)
(* the locals and the guards' permits in range; in particular no CAS takes *)
(* the count below zero, because try_acquire_impl checks `old >= ask` and  *)
(* the exchange only succeeds when `a` still equals `old`.                 *)
THEOREM TypeCorrect == Spec => []TypeOK
<1>1. Init => TypeOK
  BY MaxAssumption, ExtraAssumption DEF Init, TypeOK, PC
<1> QED
  BY <1>1, TypeCorrectStep, PTL DEF Spec

-----------------------------------------------------------------------------
(* The inductive invariant behind NoLostWakeupAcquire: the invariant       *)
(* itself, with the types that make its arithmetic meaningful.             *)
IInv == TypeOK /\ NoLostWakeupAcquire

(* No step puts a thread to sleep in atomic_wait::wait(&a, 0) while `a` is *)
(* non-zero, and no step makes `a` non-zero under a sleeping acquire       *)
(* without leaving a release_impl whose fetch_add saw 0 on its way to       *)
(* wake_all.                                                               *)
LEMMA NoLostWakeupStep == IInv /\ [Next]_vars => NoLostWakeupAcquire'
<1> SUFFICES ASSUME TypeOK, NoLostWakeupAcquire, [Next]_vars,
                    NEW s \in Threads, pc'[s] = "acq_sleep"
             PROVE  a' = 0 \/ \E r \in Threads : pc'[r] = "rel_wake" /\ old'[r] = 0
  BY DEF IInv, NoLostWakeupAcquire
<1>1. CASE UNCHANGED vars
  BY <1>1 DEF vars, NoLostWakeupAcquire
<1>2. ASSUME NEW t \in Threads, Start(t) PROVE
        a' = 0 \/ \E r \in Threads : pc'[r] = "rel_wake" /\ old'[r] = 0
  BY <1>2 DEF Start, NoLostWakeupAcquire, TypeOK
<1>3. ASSUME NEW t \in Threads, ExtraRelease(t) PROVE
        a' = 0 \/ \E r \in Threads : pc'[r] = "rel_wake" /\ old'[r] = 0
  BY <1>3 DEF ExtraRelease, NoLostWakeupAcquire, TypeOK
<1>4. ASSUME NEW t \in Threads, SpuriousWake(t) PROVE
        a' = 0 \/ \E r \in Threads : pc'[r] = "rel_wake" /\ old'[r] = 0
  BY <1>4 DEF SpuriousWake, Sleeping, AfterWait, NoLostWakeupAcquire, TypeOK
<1>5. ASSUME NEW t \in Threads, Step(t) PROVE
        a' = 0 \/ \E r \in Threads : pc'[r] = "rel_wake" /\ old'[r] = 0
  <2>1. CASE AcqWait(t)
    BY <2>1 DEF AcqWait, NoLostWakeupAcquire, TypeOK
  <2>2. CASE AcqLoad(t)
    BY <2>2 DEF AcqLoad, NoLostWakeupAcquire, TypeOK
  <2>3. CASE AcqCas(t)
    BY <2>3 DEF AcqCas, CasOk, CasFails, Return, NoLostWakeupAcquire, TypeOK
  <2>4. CASE TryLoad(t)
    BY <2>4 DEF TryLoad, NoLostWakeupAcquire, TypeOK
  <2>5. CASE TryCas(t)
    BY <2>5 DEF TryCas, CasOk, CasFails, Return, NoLostWakeupAcquire, TypeOK
  <2>6. CASE ManyInit(t)
    BY <2>6 DEF ManyInit, NoLostWakeupAcquire, TypeOK
  <2>7. CASE ManyWait(t)
    BY <2>7 DEF ManyWait, NoLostWakeupAcquire, TypeOK
  <2>8. CASE ManyLoad(t)
    BY <2>8 DEF ManyLoad, NoLostWakeupAcquire, TypeOK
  <2>9. CASE ManyCas(t)
    BY <2>9, MaxAssumption
       DEF ManyCas, CasOk, CasFails, Return, NoLostWakeupAcquire, TypeOK
  <2>10. CASE Drop(t)
    BY <2>10 DEF Drop, NoLostWakeupAcquire, TypeOK
  <2>11. CASE RelAdd(t)
    BY <2>11 DEF RelAdd, NoLostWakeupAcquire, TypeOK
  <2>12. CASE RelWake(t)
    BY <2>12 DEF RelWake, Sleeping, AfterWait, NoLostWakeupAcquire, TypeOK
  <2> QED
    BY <1>5, <2>1, <2>2, <2>3, <2>4, <2>5, <2>6, <2>7, <2>8, <2>9, <2>10,
       <2>11, <2>12 DEF Step
<1> QED
  BY <1>1, <1>2, <1>3, <1>4, <1>5 DEF Next

(* No lost wakeup in acquire: in every run, for every number of threads   *)
(* and permits, a thread asleep in acquire's atomic_wait::wait(&a, 0)      *)
(* either faces a = 0 or has a release_impl that saw old = 0 still to call *)
(* wake_all, so release_impl's `if old == 0` never strands an acquire.     *)
THEOREM NoLostWakeup == Spec => []NoLostWakeupAcquire
<1>1. Init => IInv
  BY MaxAssumption, ExtraAssumption DEF Init, IInv, TypeOK, PC, NoLostWakeupAcquire
<1>2. IInv /\ [Next]_vars => IInv'
  <2> SUFFICES ASSUME IInv, [Next]_vars PROVE IInv'
    OBVIOUS
  <2>1. TypeOK'
    BY TypeCorrectStep DEF IInv
  <2>2. NoLostWakeupAcquire'
    BY NoLostWakeupStep
  <2> QED
    BY <2>1, <2>2 DEF IInv
<1>3. IInv => NoLostWakeupAcquire
  BY DEF IInv
<1> QED
  BY <1>1, <1>2, <1>3, PTL DEF Spec

=============================================================================
