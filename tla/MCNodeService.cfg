CONSTANTS
    Procs = {p1, p2}
    Volumes = {v1, v2}
    Block = {v2}
    Disks = {d1, d2}
    Paths = {x1, x2}
    Lsblk = TRUE
    MaxSize = 2
    None = None
SPECIFICATION Spec
SYMMETRY Symmetry
INVARIANTS MountsAreOwn ViewIsTrue
PROPERTIES FormatsOwnBlank
