\* Strict mode with an empty read-client snapshot: get's loop never runs.
CONSTANTS
    k1 = k1
    k2 = k2
    k3 = k3
    Keys = {k1}
    NumReplicas = 2
    SnapshotSizes = {0}
    StrictModes = {TRUE}
SPECIFICATION Spec
INVARIANT StrictNoSilentGap
