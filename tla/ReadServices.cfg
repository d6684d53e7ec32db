\* Refresher and two readers over two services; the adapter changes twice.
CONSTANTS
    s1 = s1
    s2 = s2
    Services = {s1, s2}
    Nearest = s1
    NumShards <- MCNumShards
    Lists <- MCLists
    NumReaders = 2
    MaxAdapterChanges = 2
SPECIFICATION Spec
INVARIANT OverrideResolves
INVARIANT RefreshConsistent
