\* futureGet and futureScanShard, serial and parallel scans, strict and not:
\* up to three read clients, two keys spread over two hosts.
CONSTANTS
    k1 = k1
    k2 = k2
    h1 = h1
    h2 = h2
    Keys = {k1, k2}
    NumReplicas = 3
    Hosts = {h1, h2}
    Ops = {"get", "scan"}
    ParallelFlags = {FALSE, TRUE}
    StrictModes = {FALSE, TRUE}
SPECIFICATION Spec
\* A read stops once it has returned and its callbacks have run.
CHECK_DEADLOCK FALSE
PROPERTY ReadOnceSpec
PROPERTY ReadCompletes
