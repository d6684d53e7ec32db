\* Safety of the write path with fan-out to a write and a shadow service:
\* one writer and one retry thread each, queues small enough to fill.
CONSTANTS
    Services = {s1, s2}
    WriterThreads = 1
    RetryThreads = 1
    QueueSize = 2
    RetryQueueSlots = 1
    RetryCapacity = 3
    MaxRetryBatch = 1
    MaxBatch = 2
    MaxPoints = 2
    MaxFlushes = 1
SPECIFICATION Spec
INVARIANT NoSilentLoss
INVARIANT RetryCounterAccounts
INVARIANT ShutdownDrains
\* All threads blocked on empty queues is the idle client: a legal resting state.
CHECK_DEADLOCK FALSE
