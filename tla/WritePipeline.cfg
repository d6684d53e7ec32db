\* Safety of the write path: one service, two writer threads, two retry
\* threads, queues small enough to fill.
CONSTANTS
    Services = {s1}
    WriterThreads = 2
    RetryThreads = 2
    QueueSize = 2
    RetryQueueSlots = 1
    RetryCapacity = 3
    MaxRetryBatch = 1
    MaxBatch = 2
    MaxPoints = 3
    MaxFlushes = 1
SPECIFICATION Spec
INVARIANT TypeOK
INVARIANT NoSilentLoss
INVARIANT RetryCounterAccounts
INVARIANT ShutdownDrains
\* All threads blocked on empty queues is the idle client: a legal resting state.
CHECK_DEADLOCK FALSE
