CONSTANTS
    Threads = {t1, t2}
    PageSize = 1
    MaxPages = 5
    MaxCalls = 10
    CounterMod = 256
    CallKinds = {"reserve", "release"}
    NoThread = NoThread
SPECIFICATION Spec
VIEW View
SYMMETRY ThreadSymmetry
INVARIANTS
    FreeListWellFormed
    PageLookupsValid
