------------------------------ MODULE NodeInfo ------------------------------
(***************************************************************************)
(* The metadata of a node plugin and NodeGetInfo, which reports to kubelet *)
(* how many volumes its node may have.  The metadata is from IMDS, from    *)
(* the labels of the Node, or from the Node alone; together with the       *)
(* labeler and the tables this is the whole way from the ENIs and volumes  *)
(* of an instance to the limit the scheduler uses.                         *)
(***************************************************************************)
EXTENDS MetadataLabeler, VolumeLimits, Sequences

CONSTANTS Sources,   \* --metadata-sources, in their order
          TypeOf     \* the instance types of the Nodes

SourceNames == {"imds", "metadata-labeler", "kubernetes"}

ASSUME SourcesAssumption == Sources \in Seq(SourceNames) /\ Sources # <<>>

ASSUME TypeOfAssumption == TypeOf \in [Nodes -> InstanceTypes]

VARIABLES md,        \* the Metadata of each node plugin, and (history) the instance it is of
          reported   \* the limit NodeGetInfo has answered, 0 before it is called

vars == <<joined, added, inst, changes, labels, from, job, loop, failed, md, reported>>

NotRunning == [source |-> "none", enis |-> 0, mappings |-> 0, of |-> Fresh]

TypeOK ==
    /\ LabelerTypeOK
    /\ md \in [Nodes -> [source : SourceNames \cup {"none"}, enis : 0..MaxCount,
                         mappings : 0..MaxCount + MaxCSI - 1, of : Instance]]
    /\ reported \in [Nodes -> Nat]

Init ==
    /\ LabelerInit
    /\ md = [n \in Nodes |-> NotRunning]
    /\ reported = [n \in Nodes |-> 0]

-----------------------------------------------------------------------------
(* NewMetadataService *)

\* IMDSInstanceInfo: the block devices of the start of the instance, without the root.
FromIMDS(n) ==
    [source |-> "imds", enis |-> inst[n].enis, mappings |-> AMIVolumes - 1,
     of |-> [inst[n] EXCEPT !.other = AMIVolumes]]

\* KubernetesAPIInstanceInfo with the labels: it waits a while for them.
FromLabels(n) ==
    [source |-> "metadata-labeler", enis |-> labels[n].enis, mappings |-> labels[n].volumes,
     of |-> from[n]]

\* KubernetesAPIInstanceInfo without: one ENI and no other volume.
FromNode(n) ==
    [source |-> "kubernetes", enis |-> 1, mappings |-> 0,
     of |-> [inst[n] EXCEPT !.enis = 1, !.other = 1]]

From(source, n) ==
    CASE source = "imds" -> FromIMDS(n)
      [] source = "metadata-labeler" -> FromLabels(n)
      [] source = "kubernetes" -> FromNode(n)

Available(source, n) == source = "metadata-labeler" => labels[n] # None

\* A plugin starts with the first source that answers; any of them may fail.
NewMetadataService(n) ==
    /\ n \in joined
    /\ md[n] = NotRunning
    /\ \E i \in 1..Len(Sources) :
         Available(Sources[i], n) /\ md' = [md EXCEPT ![n] = From(Sources[i], n)]
    /\ UNCHANGED <<joined, added, inst, changes, labels, from, job, loop, failed, reported>>

-----------------------------------------------------------------------------
(* NodeGetInfo *)

\* UpdateMetadata: IMDS is asked for the ENIs only, the Node alone is not asked again.
Updated(n) ==
    CASE md[n].source = "imds" ->
            [md[n] EXCEPT !.enis = inst[n].enis, !.of.enis = inst[n].enis]
      [] md[n].source = "metadata-labeler" -> FromLabels(n)
      [] md[n].source = "kubernetes" -> md[n]

NodeGetInfo(n) ==
    /\ md[n] # NotRunning
    /\ \/ md' = [md EXCEPT ![n] = Updated(n)]
       \/ UNCHANGED md    \* an error is only logged
    /\ reported' = [reported EXCEPT ![n] =
          GetVolumesLimit(TypeOf[n], md'[n].enis, md'[n].mappings)]
    /\ UNCHANGED labelerVars

Next ==
    \/ LabelerNext /\ UNCHANGED <<md, reported>>
    \/ \E n \in Followed : NewMetadataService(n) \/ NodeGetInfo(n)

Spec == Init /\ [][Next]_vars

\* The two goroutines of the labeler run, and their calls do not take for ever.
Fairness ==
    /\ WF_vars((AddFunc \/ Update("handler")) /\ UNCHANGED <<md, reported>>)
    /\ WF_vars((UpdateLabels \/ Update("loop")) /\ UNCHANGED <<md, reported>>)

FairSpec == Spec /\ Fairness

-----------------------------------------------------------------------------
(* Properties *)

\* The slots of an instance that are left for CSI volumes.
Room(n) ==
    LET limits == GetVolumeLimits(TypeOf[n])
    IN  limits.max - inst[n].other - (IF limits.shared THEN inst[n].enis - 1 ELSE 0)

\* The labeler, the metadata and the limit agree on who counts the root volume and the first
\* ENI: when what a plugin reported was made from the instance as it is, the limit is what is
\* left on the instance, and at least 1 because kubelet takes 0 for no limit.
LimitExact ==
    \A n \in Nodes : reported[n] # 0 /\ md[n].of = inst[n] =>
        /\ reported[n] <= Max({1, Room(n)})
        /\ inst[n].indexed = inst[n].csi => reported[n] = Max({1, Room(n)})

\* Every Node that joins is labelled, by the handler or by the loop, unless a call failed.
NodesLabelled == \A n \in Nodes : n \in joined ~> labels[n] # None \/ failed

\* "continuousUpdateLabels ... updates the metadata labels of each node once every
\* `updateTime` minutes": refuted, a failed update ends the loop, and a Node whose handler
\* failed as well is never labelled.
NodesLabelledAgain == \A n \in Nodes : n \in joined ~> labels[n] # None

\* The instance only grows here, so a label that goes down is an older count written over a
\* newer one: refuted, the handler and the loop do not exclude one another.
LabelsNeverGoBack ==
    [][\A n \in Nodes : labels'[n].enis >= labels[n].enis]_vars
=============================================================================
