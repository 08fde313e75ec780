CONSTANTS
    GroupWidth = 4
    LoadDivisor = 4
    Hashes <- MCHashes
    Seeds = {0,6}
    Mixed <- MCMixed
    Requests = {0, 7}
    MaxKeys = 7
    MaxCapacity = 15
    MaxExtras = 2
    SizeMax = 31
SPECIFICATION Spec
INVARIANTS
    TypeOK
    EveryProbeEnds
PROPERTIES
    ImplementsKeySet
    RehashEnds
CHECK_DEADLOCK FALSE
