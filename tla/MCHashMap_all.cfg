CONSTANTS
    Threads = {"t1", "t2"}
    Keys <- MCKeys
    Nodes = {n1, n2, n3}
    NumInnerMaps = 2
    Hash <- MCHash
    InitNumBuckets = 1
    ThreadOps <- OpsReKeyBoth
    MaxCount = 2
    LocklessCalls = {}
    ReserveSizes = {}
    NoThread = NoThread
    NoNode = NoNode
SPECIFICATION ReaderFairSpec
VIEW View
SYMMETRY NodeSymmetry
INVARIANTS
    CountCoversLinked
    LoadFactorBound
    SizeInFlight
PROPERTIES
    ReadLockGranted
