\* futureGet: two keys, up to three read clients, two hosts per client, non-strict.
CONSTANTS
    k1 = k1
    k2 = k2
    h1 = h1
    h2 = h2
    Keys = {k1, k2}
    NumReplicas = 3
    Hosts = {h1, h2}
    Ops = {"get"}
    ParallelFlags = {TRUE}
    StrictModes = {FALSE}
SPECIFICATION Spec
\* A read that has returned and whose callbacks have all run has ended.
CHECK_DEADLOCK FALSE
PROPERTY ReadOnceSpec
PROPERTY ReadCompletes
