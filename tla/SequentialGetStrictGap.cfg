\* Strict mode with at least one read client: does get ever return without
\* a key no service called missing?
CONSTANTS
    k1 = k1
    k2 = k2
    k3 = k3
    Keys = {k1}
    NumReplicas = 2
    SnapshotSizes = {1, 2}
    StrictModes = {TRUE}
SPECIFICATION Spec
INVARIANT StrictNoSilentGap
