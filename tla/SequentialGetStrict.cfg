\* Sequential get over three read services, two keys, strict mode.
CONSTANTS
    k1 = k1
    k2 = k2
    k3 = k3
    Keys = {k1, k2}
    NumReplicas = 3
    SnapshotSizes = {0, 1, 2, 3}
    StrictModes = {TRUE}
SPECIFICATION Spec
INVARIANT TypeOK
INVARIANT KeyMissingNotRetried
INVARIANT FoundOnce
INVARIANT NoKeyForgotten
INVARIANT FailoverRestoresShards
