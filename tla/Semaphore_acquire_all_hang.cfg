CONSTANTS
    t1 = t1
    t2 = t2
    t3 = t3
    Threads <- MCThreads
    Max <- MCMax
    MaxExtraReleases <- MCNoExtra
    WeakCasMayFail <- MCStrongCas
SPECIFICATION Spec
PROPERTIES
    AcquireAllWakes
