\* flushQueue on every client initialize and initializeTestClients can build.
CONSTANTS
    FlagWriterThreads = 0
    FlagQueueCapacity = 1
    FlagRetryThreads = 4
    SizeRatio = 500
    Capacities = {0, 1000, 100000}
    ThreadArgs <- MCThreadArgs
    MaxServices = 2
    MaxFlushes = 2
SPECIFICATION Spec
\* A destroyed or crashed client does nothing more.
CHECK_DEADLOCK FALSE
INVARIANT NoDivideByZero
