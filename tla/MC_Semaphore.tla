---------------------------- MODULE MC_Semaphore ----------------------------
(* Model-checking instances of Semaphore: three threads share a semaphore  *)
(* of two permits, so acquire_all competes with single-permit holders and  *)
(* a third thread can sleep while two others hold and release.             *)
EXTENDS Semaphore, TLC

CONSTANTS t1, t2, t3

MCThreads == {t1, t2, t3}
MCMax == 2
\* guarded use only
MCNoExtra == 0
\* one unguarded_release without a permit
MCOneExtra == 1

\* x86: lock cmpxchg never fails spuriously
MCStrongCas == FALSE
\* targets whose compare_exchange_weak may fail spuriously
MCWeakCas == TRUE

=============================================================================
