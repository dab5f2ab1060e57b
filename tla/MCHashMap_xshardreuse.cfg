CONSTANTS
    Threads = {"t1", "t2"}
    Keys <- MCKeys
    Nodes = {n1, n2, n3, n4}
    NumInnerMaps = 2
    Hash <- MCHash
    InitNumBuckets = 1
    ThreadOps <- OpsReKeyInsert
    MaxCount = 3
    LocklessCalls = {}
    ReserveSizes = {}
    NoThread = NoThread
    NoNode = NoNode
SPECIFICATION Spec
VIEW View
SYMMETRY NodeSymmetry
INVARIANT
    IndexPlacement
