CONSTANTS
    Threads = {"t1", "t2"}
    Keys <- MCKeys
    Nodes = {n1, n2, n3, n4}
    NumInnerMaps = 2
    Hash <- MCHash
    InitNumBuckets = 1
    ThreadOps <- OpsBasic
    MaxCount = 3
    LocklessCalls = {"clear"}
    ReserveSizes = {}
    NoThread = NoThread
    NoNode = NoNode
SPECIFICATION Spec
VIEW ViewNoReKey
SYMMETRY NodeSymmetry
INVARIANTS
    TypeOK
    IndexPlacement
    KeysUnique
    PoolAccounting
PROPERTIES
    ImplementsKVMap
