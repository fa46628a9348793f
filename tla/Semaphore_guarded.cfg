CONSTANTS
    t1 = t1
    t2 = t2
    t3 = t3
    Threads <- MCThreads
    Max <- MCMax
    MaxExtraReleases <- MCNoExtra
    WeakCasMayFail <- MCWeakCas
SPECIFICATION Spec
INVARIANTS
    TypeOK
    PermitConservation
    ExclusiveAll
    NoLostWakeupAcquire
PROPERTIES
    Implements
    AcquireWakes
