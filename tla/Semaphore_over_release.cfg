CONSTANTS
    t1 = t1
    t2 = t2
    t3 = t3
    Threads <- MCThreads
    Max <- MCMax
    MaxExtraReleases <- MCOneExtra
    WeakCasMayFail <- MCWeakCas
SPECIFICATION Spec
INVARIANTS
    PermitConservation
    NoLostWakeupAcquire
PROPERTIES
    Implements
    AcquireWakes
