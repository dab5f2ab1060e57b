CONSTANTS
    Threads = {"t1", "t2"}
    Nodes = {n1, n2}
    Keys <- MCKeys
    ThreadOps <- OpsAll
    MaxCalls = 3
    NoNode = NoNode
    NoThread = NoThread
SPECIFICATION Spec
INVARIANT
    EraseNodeFindsOwn
