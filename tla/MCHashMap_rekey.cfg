CONSTANTS
    Threads = {"t1", "t2"}
    Keys <- MCKeys
    Nodes = {n1, n2, n3, n4}
    NumInnerMaps = 1
    Hash <- MCHash
    InitNumBuckets = 1
    ThreadOps <- OpsSingleWriter
    MaxCount = 3
    LocklessCalls = {"clear", "reserve"}
    ReserveSizes = {0, 3}
    NoThread = NoThread
    NoNode = NoNode
SPECIFICATION Spec
VIEW View
SYMMETRY NodeSymmetry
INVARIANTS
    NodesLinkedOnce
    IndexPlacement
    PoolAccounting
    NoDanglingEntry
