\* Safety of the write path: one service, two writer threads, two retry
\* threads, queues small enough to fill.
CONSTANTS
    Services = {s1}
    WriterThreads = 2
    RetryThreads = 2
    QueueSize = 2
    RetryQueueSlots = 1
    RetryCapacity = 3
    MaxRetryBatch = 1
    MaxBatch = 2
    MaxPoints = 3
    MaxFlushes = 1
SPECIFICATION Spec
INVARIANT RetryGaugeExact
CHECK_DEADLOCK FALSE
