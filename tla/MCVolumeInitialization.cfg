CONSTANTS
    Keys = {v1}
    Values = {"initialized", "estimate", "slow", "bad"}
    MaxTimers = 2
    MaxLate = 1
    Callers = {c1, c2}
    Volumes = {v1}
    ListsState = TRUE
SPECIFICATION PublishFairSpec
INVARIANTS EntriesExpire PublishedInitialized
PROPERTY PublishEnds
