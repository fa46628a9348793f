---------------------------- MODULE SemaphoreSpec ----------------------------
(***************************************************************************)
(* What crates/dbt-xdbc/src/semaphore.rs promises, with every operation    *)
(* one atomic step: a counting semaphore of `max` permits whose acquire    *)
(* takes one, whose acquire_all takes all `max` at once, whose guards give *)
(* back what they took, and whose unguarded_release may also add a permit  *)
(* nobody took (the comment on Semaphore::max allows it).                  *)
(***************************************************************************)
EXTENDS Naturals

CONSTANTS Threads, Max, MaxExtraReleases

VARIABLES
    avail,   \* permits available
    holds,   \* permits each thread's guard holds
    extras   \* over-releases so far

absVars == <<avail, holds, extras>>

AbsInit ==
    /\ avail = Max
    /\ holds = [t \in Threads |-> 0]
    /\ extras = 0

\* Semaphore::acquire / try_acquire succeeding: one permit.
AbsAcquire(t) ==
    /\ holds[t] = 0
    /\ avail >= 1
    /\ avail' = avail - 1
    /\ holds' = [holds EXCEPT ![t] = 1]
    /\ UNCHANGED extras

\* Semaphore::acquire_all: all `max` permits at once.
AbsAcquireAll(t) ==
    /\ holds[t] = 0
    /\ avail >= Max
    /\ avail' = avail - Max
    /\ holds' = [holds EXCEPT ![t] = Max]
    /\ UNCHANGED extras

\* Dropping a PermitGuard or PermitGuardAll.
AbsRelease(t) ==
    /\ holds[t] > 0
    /\ avail' = avail + holds[t]
    /\ holds' = [holds EXCEPT ![t] = 0]
    /\ UNCHANGED extras

\* unguarded_release without a permit.
AbsOverRelease ==
    /\ extras < MaxExtraReleases
    /\ avail' = avail + 1
    /\ extras' = extras + 1
    /\ UNCHANGED holds

AbsNext ==
    \/ \E t \in Threads : AbsAcquire(t) \/ AbsAcquireAll(t) \/ AbsRelease(t)
    \/ AbsOverRelease

AbsSpec == AbsInit /\ [][AbsNext]_absVars

=============================================================================
