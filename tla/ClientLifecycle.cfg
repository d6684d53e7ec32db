\* The flag defaults, capacities and thread arguments callers pass, up to two services.
CONSTANTS
    FlagWriterThreads = 0
    FlagQueueCapacity = 1
    FlagRetryThreads = 4
    SizeRatio = 500
    Capacities = {0, 1000, 6000, 100000}
    ThreadArgs <- MCThreadArgs
    MaxServices = 2
    MaxFlushes = 3
SPECIFICATION Spec
\* A destroyed or crashed client does nothing more.
CHECK_DEADLOCK FALSE
PROPERTY FlushKeepsThreads
