CONSTANTS
    Threads = {t1, t2}
    PageSize = 2
    MaxPages = 2
    MaxCalls = 5
    CounterMod = 256
    CallKinds = {"reserve", "release", "prealloc", "clear"}
    NoThread = NoThread
SPECIFICATION FairSpec
INVARIANTS
    TypeOK
    FreeListWellFormed
    SlotsExclusive
    CountAccounting
    PagesWithSpaceListed
    PageLookupsValid
PROPERTIES
    CallsReturn
    ImplementsSlotPool
