CONSTANTS
    Callers = {c1, c2}
    Tasks = {t1, t2}
    EntryLimits = {1, 2}
    MaxDelay = 1
SPECIFICATION FairSpec
INVARIANTS ChannelsInOnePlace BatchesBounded
PROPERTIES FoundIsTrue ImplementsBatcher CallersAnswered
