CONSTANTS
    Threads = {w1, w2}
    NoThread = NoThread
    MaxRetries = 2
SPECIFICATION RetrySpec
PROPERTY
    RetryImplementsRWLock
