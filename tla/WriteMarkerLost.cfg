\* stopWriterThreads with a retry queue that can be full of retry
\* operations when the retry markers are written.
CONSTANTS
    Services = {s1}
    WriterThreads = 1
    RetryThreads = 1
    QueueSize = 2
    RetryQueueSlots = 1
    RetryCapacity = 3
    MaxRetryBatch = 1
    MaxBatch = 1
    MaxPoints = 2
    MaxFlushes = 0
SPECIFICATION Spec
PROPERTY ShutdownCompletes
CHECK_DEADLOCK FALSE
