\* The refresher against a directory whose validity answers change.
CONSTANTS
    s1 = s1
    s2 = s2
    Services = {s1, s2}
    Nearest = s1
    NumShards <- MCNumShards
    Lists <- MCLists
    NumReaders = 1
    MaxAdapterChanges = 1
SPECIFICATION Spec
PROPERTY RefreshTracksAdapter
