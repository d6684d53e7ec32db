\* Safety of the write path and termination of stopWriterThreads: one
\* service, two writer threads, two retry threads, a write queue small
\* enough to fill and a retry queue with a slot for every operation that can
\* be pending plus one marker per retry thread.
CONSTANTS
    Services = {s1}
    WriterThreads = 2
    RetryThreads = 2
    QueueSize = 2
    RetryQueueSlots = 5
    RetryCapacity = 3
    MaxRetryBatch = 1
    MaxBatch = 2
    MaxPoints = 3
    MaxFlushes = 1
SPECIFICATION Spec
INVARIANT TypeOK
INVARIANT NoSilentLoss
INVARIANT RetryCounterAccounts
INVARIANT ShutdownDrains
PROPERTY ShutdownCompletes
\* All threads blocked on empty queues is the idle client: a legal resting state.
CHECK_DEADLOCK FALSE
