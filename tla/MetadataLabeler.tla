-------------------------- MODULE MetadataLabeler ---------------------------
(***************************************************************************)
(* The metadata labeler of the controller (pkg/cloud/metadata/labels.go):  *)
(* labels on every Node with the ENIs and the volumes of its instance that *)
(* are not CSI volumes.  A loop labels all Nodes at the start and at every *)
(* tick, a handler of the Node informer labels a Node that joins; both may *)
(* be at it for the same Node.                                             *)
(***************************************************************************)
EXTENDS Integers, FiniteSets, FiniteSetsExt

CONSTANTS Nodes,
          Followed,     \* bound: the Nodes whose instances change and whose plugins run
          Foreign,      \* Nodes with an instance ID that is not EC2's, "s.i-..."
          AMIVolumes,   \* the volumes an instance starts with, the root volume included
          MaxCount,     \* bound: ENIs, and volumes outside of CSI, of an instance
          MaxCSI,       \* bound: its CSI volumes
          MaxChanges,   \* bound: changes of instances
          PatchFails    \* patchFails: failed patches that fail an update

ASSUME NodesAssumption == Followed \subseteq Nodes /\ Foreign \subseteq Nodes

ASSUME BoundsAssumption ==
    /\ AMIVolumes \in 1..MaxCount
    /\ MaxCount \in Nat \ {0} /\ MaxCSI \in Nat /\ MaxChanges \in Nat /\ PatchFails \in Nat \ {0}

VARIABLES joined,   \* the Nodes there are
          added,    \* those AddFunc was called for
          inst,     \* EC2: their instances
          changes,  \* how often instances changed
          labels,   \* the labels of the Nodes
          from,     \* history: the instances the labels were made from
          job,      \* the update each worker is at
          loop,     \* where continuousUpdateLabels is
          failed    \* history: some call has failed

labelerVars == <<joined, added, inst, changes, labels, from, job, loop, failed>>

\* ENIs, volumes outside of CSI with the root volume, CSI volumes, and how many of those
\* are in the index of the PV informer.
Instance == [enis : 1..MaxCount, other : 1..MaxCount, csi : 0..MaxCSI, indexed : 0..MaxCSI]

Counts == [enis : 0..MaxCount, volumes : 0..MaxCount + MaxCSI - 1]

None == [enis |-> -1, volumes |-> -1]

Labels == Counts \cup {None}

Workers == {"loop", "handler"}

\* `nodes`: the Nodes to be labelled, as they were when they were listed (`old`); `found`:
\* their instances as described.
Job == [pc : {"idle", "describe", "patch"}, nodes : SUBSET Nodes,
        old : [Nodes -> Labels], found : [Nodes -> Instance], failures : 0..PatchFails]

Fresh == [enis |-> 1, other |-> AMIVolumes, csi |-> 0, indexed |-> 0]

Idle == [pc |-> "idle", nodes |-> {}, old |-> [n \in Nodes |-> None],
         found |-> [n \in Nodes |-> Fresh], failures |-> 0]

LabelerTypeOK ==
    /\ added \subseteq joined /\ joined \subseteq Nodes
    /\ inst \in [Nodes -> Instance] /\ \A n \in Nodes : inst[n].indexed <= inst[n].csi
    /\ changes \in 0..MaxChanges
    /\ labels \in [Nodes -> Labels]
    /\ from \in [Nodes -> Instance]
    /\ job \in [Workers -> Job]
    /\ loop \in {"run", "stopped"}
    /\ failed \in BOOLEAN

LabelerInit ==
    /\ joined = {}
    /\ added = {}
    /\ inst = [n \in Nodes |-> Fresh]
    /\ changes = 0
    /\ labels = [n \in Nodes |-> None]
    /\ from = [n \in Nodes |-> Fresh]
    /\ job = [w \in Workers |-> Idle]
    /\ loop = "run"
    /\ failed = FALSE

-----------------------------------------------------------------------------
(* Instances *)

\* An ENI or a volume is attached, or a PV is seen by the informer.
Change(n) ==
    /\ changes < MaxChanges
    /\ changes' = changes + 1
    /\ \/ inst[n].enis < MaxCount /\ inst' = [inst EXCEPT ![n].enis = @ + 1]
       \/ inst[n].other < MaxCount /\ inst' = [inst EXCEPT ![n].other = @ + 1]
       \/ inst[n].csi < MaxCSI /\ inst' = [inst EXCEPT ![n].csi = @ + 1]
    /\ UNCHANGED <<joined, added, labels, from, job, loop, failed>>

Index(n) ==
    /\ inst[n].indexed < inst[n].csi
    /\ inst' = [inst EXCEPT ![n].indexed = @ + 1]
    /\ UNCHANGED <<joined, added, changes, labels, from, job, loop, failed>>

-----------------------------------------------------------------------------
(* updateMetadataEC2 *)

\* The volumes of an instance that the informer does not know of.
GetNonCSIManagedVolumes(found) == found.other + found.csi - found.indexed

\* getMetadata; patchSingleNode takes zeros for an instance that is not in the map.
CountsOf(n, found) ==
    IF n \in Foreign THEN [enis |-> 0, volumes |-> 0]
    ELSE [enis |-> found.enis, volumes |-> GetNonCSIManagedVolumes(found) - 1]

Assign(w, nodes) ==
    job' = [job EXCEPT ![w] = [pc |-> "describe", nodes |-> nodes,
                               old |-> [n \in Nodes |-> IF n \in nodes THEN labels[n] ELSE None],
                               found |-> Idle.found, failures |-> 0]]

\* A Node is done with, and the update with the last one.
Without(w, n) ==
    IF job[w].nodes = {n} THEN Idle
    ELSE [job[w] EXCEPT !.nodes = @ \ {n}, !.old[n] = None, !.found[n] = Fresh]

\* The DescribeInstances call, with the index of the informer at that time.
GetInstancesPatching(w) == [n \in Nodes |-> IF n \in job[w].nodes THEN inst[n] ELSE Fresh]

\* One instance that is not found, or a Node without an ID, fails the update of all Nodes.
Describe(w) ==
    /\ job[w].pc = "describe"
    /\ \/ /\ job' = [job EXCEPT ![w].pc = "patch", ![w].found = GetInstancesPatching(w)]
          /\ UNCHANGED <<loop, failed>>
       \/ /\ job' = [job EXCEPT ![w] = Idle]
          /\ loop' = IF w = "loop" THEN "stopped" ELSE loop
          /\ failed' = TRUE
    /\ UNCHANGED <<joined, added, inst, changes, labels, from>>

\* The strategic merge patch holds the labels that differ from those of the listed Node.
Merged(old, new, now) ==
    [enis |-> IF old.enis = new.enis THEN now.enis ELSE new.enis,
     volumes |-> IF old.volumes = new.volumes THEN now.volumes ELSE new.volumes]

\* Wrong: only a Node that has the labels is patched.
PatchExisting(w, n) ==
    LET new == CountsOf(n, job[w].found[n])
    IN  /\ job[w].pc = "patch"
        /\ n \in job[w].nodes
        /\ IF labels[n] = None THEN UNCHANGED <<labels, from>>
           ELSE /\ labels' = [labels EXCEPT ![n] = new]
                /\ from' = [from EXCEPT ![n] = job[w].found[n]]
        /\ job' = [job EXCEPT ![w] = Without(w, n)]
        /\ UNCHANGED <<joined, added, inst, changes, loop, failed>>

\* A worker of patchNodes patches a Node.
PatchSingleNode(w, n) ==
    LET new == CountsOf(n, job[w].found[n])
        now == Merged(job[w].old[n], new, labels[n])
        found == job[w].found[n]
    IN  /\ job[w].pc = "patch"
        /\ n \in job[w].nodes
        /\ labels' = [labels EXCEPT ![n] = now]
        /\ from' = [from EXCEPT ![n] =
              [enis |-> IF now.enis = new.enis THEN found.enis ELSE @.enis,
               other |-> IF now.volumes = new.volumes THEN found.other ELSE @.other,
               csi |-> IF now.volumes = new.volumes THEN found.csi ELSE @.csi,
               indexed |-> IF now.volumes = new.volumes THEN found.indexed ELSE @.indexed]]
        /\ job' = [job EXCEPT ![w] = Without(w, n)]
        /\ UNCHANGED <<joined, added, inst, changes, loop, failed>>

\* A patch fails.  With the PatchFails-th one the update has failed, which ends the loop for
\* good, but the workers go on with the Nodes that are left.
PatchSingleNodeFails(w, n) ==
    LET failures == Min({job[w].failures + 1, PatchFails})
    IN  /\ job[w].pc = "patch"
        /\ n \in job[w].nodes
        /\ failed' = TRUE
        /\ loop' = IF w = "loop" /\ failures = PatchFails THEN "stopped" ELSE loop
        /\ job' = [job EXCEPT ![w] = IF job[w].nodes = {n} THEN Idle
                                     ELSE [Without(w, n) EXCEPT !.failures = failures]]
        /\ UNCHANGED <<joined, added, inst, changes, labels, from>>

-----------------------------------------------------------------------------
(* continuousUpdateLabels and patchNewNodes *)

\* updateLabels, first when the caches are synced, then at every tick.
UpdateLabels ==
    /\ loop # "stopped"
    /\ job["loop"].pc = "idle"
    /\ joined # {}
    /\ Assign("loop", joined)
    /\ UNCHANGED <<joined, added, inst, changes, labels, from, loop, failed>>

Join(n) ==
    /\ n \notin joined
    /\ joined' = joined \cup {n}
    /\ UNCHANGED <<added, inst, changes, labels, from, job, loop, failed>>

\* patchNewNodes: AddFunc is called for the Nodes there are and for each one that joins, one
\* after the other, and without regard to the loop.
AddFunc ==
    /\ job["handler"].pc = "idle"
    /\ \E n \in joined \ added :
         /\ added' = added \cup {n}
         /\ Assign("handler", {n})
    /\ UNCHANGED <<joined, inst, changes, labels, from, loop, failed>>

Update(w) == Describe(w) \/ \E n \in Nodes : PatchSingleNode(w, n)

LabelerNext ==
    \/ \E n \in Followed : Change(n) \/ Index(n)
    \/ \E n \in Nodes : Join(n)
    \/ UpdateLabels \/ AddFunc
    \/ \E w \in Workers : Update(w) \/ \E n \in Nodes : PatchSingleNodeFails(w, n)
=============================================================================
