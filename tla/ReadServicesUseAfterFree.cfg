\* The override loop against a concurrent refresh: one reader, one adapter change.
CONSTANTS
    s1 = s1
    s2 = s2
    Services = {s1, s2}
    Nearest = s1
    NumShards <- MCNumShards
    Lists <- MCLists
    NumReaders = 1
    MaxAdapterChanges = 1
SPECIFICATION Spec
INVARIANT NoUseAfterFree
