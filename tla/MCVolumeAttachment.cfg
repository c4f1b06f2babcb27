CONSTANTS
    Procs = {p1, p2}
    Volumes = {v1, v2}
    Nodes = {n1}
    MultiAttach = {}
    HiddenNames = {1}
    NumNames = 2
    NumCards = 2
    MaxPolls = 2
    Batching = TRUE
    MaxCrashes = 1
SPECIFICATION Spec
SYMMETRY Symmetry
INVARIANTS
    InFlightNamesDistinct
    ReservationHeld
    PublishedIsAttached
PROPERTIES DetachFreesName
