CONSTANTS
    Procs = {p1, p2}
    Volumes = {v1, v2}
    Nodes = {n1}
    MultiAttach = {}
    HiddenNames = {}
    NumNames = 1
    NumCards = 1
    MaxPolls = 2
    Batching = FALSE
    MaxCrashes = 0
SPECIFICATION FairSpec
INVARIANTS UnpublishedIsDetached
PROPERTIES HandlersTerminate ImplementsReservation
