----------------------------- MODULE MCNodeInfo -----------------------------
EXTENDS NodeInfo, TLC

\* A small type with slots shared by volumes and ENIs, and one with slots of its own.
MCVolumeTable == 
    ("shared" :> [max |-> 4, shared |-> TRUE]) @@ ("metal" :> [max |-> 3, shared |-> TRUE])

MCCardTable == ("metal" :> 2)

MCTypeOf == [n \in Nodes |-> IF n = CHOOSE m \in Nodes : TRUE THEN "shared" ELSE "metal"]

\* Not set.
MCAuto == -1

MCSources == <<"imds", "metadata-labeler", "kubernetes">>
=============================================================================
