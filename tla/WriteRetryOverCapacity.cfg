\* Two writer threads of one service racing on the retry-capacity check.
CONSTANTS
    Services = {s1}
    WriterThreads = 2
    RetryThreads = 1
    QueueSize = 2
    RetryQueueSlots = 2
    RetryCapacity = 3
    MaxRetryBatch = 2
    MaxBatch = 2
    MaxPoints = 4
    MaxFlushes = 0
SPECIFICATION Spec
INVARIANT RetryPointsBounded
CHECK_DEADLOCK FALSE
