\* Two retry threads and two failed single-point writes queued for retry.
CONSTANTS
    Services = {s1}
    WriterThreads = 1
    RetryThreads = 2
    QueueSize = 2
    RetryQueueSlots = 2
    RetryCapacity = 3
    MaxRetryBatch = 1
    MaxBatch = 1
    MaxPoints = 2
    MaxFlushes = 0
SPECIFICATION Spec
PROPERTY RetriedInOrder
CHECK_DEADLOCK FALSE
