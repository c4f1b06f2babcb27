CONSTANTS
    Procs = {p1, p2}
    Names = {n1}
    Volumes = {v1, v2}
    Parameters <- MCParameters
    MaxSnaps = 2
SPECIFICATION Spec
SYMMETRY Symmetry
INVARIANT OneSnapshot
PROPERTIES OwnSnapshotAsRequested KeptUntilDeleted
