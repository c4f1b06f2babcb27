SPECIFICATION FairSpec
CONSTANTS
    Procs = {p1}
    Names = {n1}
    Options <- MCOptions
    MaxToken = 3
    MaxLosses = 1
    GiB = 4
    MaxInt32 = 511
    MaxInt64 = 4095
    DefaultVolumeSize = 16
    Requests <- MCRequests
    Limits <- MCLimits
    ZoneLists = {"za"}
    Source <- MCSource
    WarnOnInvalidTag = TRUE
    MaxVolumeSize = 16
INVARIANTS
    CapacityHonoured
    IOPSWithinLimits
    OnePlace
    MutableTakesPrecedence
    OneVolume
    SameAnswer
PROPERTY
    NotStuck
