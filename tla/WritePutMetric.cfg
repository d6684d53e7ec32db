\* The put metric against the points stored: one service, two writer
\* threads and two retry threads, the server dropping part of a request.
CONSTANTS
    Services = {s1}
    WriterThreads = 2
    RetryThreads = 2
    QueueSize = 2
    RetryQueueSlots = 1
    RetryCapacity = 3
    MaxRetryBatch = 1
    MaxBatch = 2
    MaxPoints = 3
    MaxFlushes = 1
SPECIFICATION Spec
INVARIANT PutMetricCountsStored
CHECK_DEADLOCK FALSE
