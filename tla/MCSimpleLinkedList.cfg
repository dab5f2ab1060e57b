CONSTANTS
    Threads = {"t1", "t2", "t3"}
    Nodes = {n1, n2, n3}
    Keys <- MCKeys
    ThreadOps <- OpsAll
    MaxCalls = 4
    NoNode = NoNode
    NoThread = NoThread
SPECIFICATION FairSpec
INVARIANTS
    KeysUniqueWhenSettled
PROPERTIES
    ImplementsIntrusiveList
    CallsReturn
