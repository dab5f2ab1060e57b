CONSTANTS
    Threads <- MCThreads
    NoThread = NoThread
SPECIFICATION LocksSpec
INVARIANTS
    WordAccounting
    WPWordAccounting
    MRWWordAccounting
PROPERTIES
    ImplementsRWLock
    ReaderProgress
    WPImplementsRWLock
    WPWriterProgress
    MRWImplementsPhaseLock
    MRWReaderProgress
