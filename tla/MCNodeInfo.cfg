CONSTANTS
    InstanceTypes = {"shared", "metal", "old"}
    NonNitro = {"old"}
    VolumeTable <- MCVolumeTable
    Dedicated = {"metal"}
    CardTable <- MCCardTable
    VolumeAttachLimit <- MCAuto
    ReservedVolumeAttachments <- MCAuto
    Nodes = {n1, n2}
    Followed = {n1}
    Foreign = {}
    AMIVolumes = 2
    MaxCount = 3
    MaxCSI = 1
    MaxChanges = 1
    PatchFails = 2
    Sources <- MCSources
    TypeOf <- MCTypeOf
SPECIFICATION FairSpec
INVARIANT LimitExact
PROPERTY NodesLabelled
