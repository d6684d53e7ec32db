\* futureScanShard, serial (the flag default) and parallel: one shard, up to three read clients, strict.
CONSTANTS
    k1 = k1
    k2 = k2
    h1 = h1
    h2 = h2
    Keys = {k1}
    NumReplicas = 3
    Hosts = {h1}
    Ops = {"scan"}
    ParallelFlags = {FALSE, TRUE}
    StrictModes = {TRUE}
SPECIFICATION Spec
\* A read that has returned and whose callbacks have all run has ended.
CHECK_DEADLOCK FALSE
PROPERTY ReadOnceSpec
PROPERTY ReadCompletes
