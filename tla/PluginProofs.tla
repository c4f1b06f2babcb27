---------------------------- MODULE PluginProofs ----------------------------
(***************************************************************************)
(* What the plugins say and do besides the lives of volumes: the limit     *)
(* NodeGetInfo reports is exact, for every instance type, any number of    *)
(* Nodes and every order of metadata sources; the taint watcher and the    *)
(* preStop hook respect a drain, for any number of attempts of the backoff *)
(* and any VolumeAttachments of the Node; the expiring cache of volume     *)
(* statuses keeps nothing forever, and what is published on its word is    *)
(* initialized, for any callers, volumes and delays.                       *)
(***************************************************************************)
EXTENDS NodeInfo, NodeLifecycle, VolumeInitialization, TLAPS

-----------------------------------------------------------------------------
(* NodeGetInfo: the inductive invariant *)

\* An instance as EC2 or the labeler knows it: the informer has no volumes that are not there.
Sound(i) == i.indexed <= i.csi

\* What a worker has found is sound, and a label it has seen is still there.
JobRight(w, n) ==
    /\ Sound(job[w].found[n])
    /\ job[w].old[n] # None => labels[n] # None

\* The labels of a Node are those of the instance they are said to be from.
LabelRight(n) ==
    /\ Sound(from[n])
    /\ labels[n] # None /\ n \notin Foreign =>
         /\ labels[n].enis = from[n].enis
         /\ labels[n].volumes = GetNonCSIManagedVolumes(from[n]) - 1

\* Metadata counts the ENIs of its instance and, but for volumes the informer does not know
\* of, the volumes outside of CSI without the root volume.
Matches(m) ==
    /\ m.enis = m.of.enis
    /\ m.of.other - 1 <= m.mappings
    /\ m.of.indexed = m.of.csi => m.mappings = m.of.other - 1

PluginRight(n) ==
    /\ md[n].source = "none" => md[n] = NotRunning /\ reported[n] = 0
    /\ md[n].source # "none" => Matches(md[n]) /\ n \in Followed
    /\ md[n].source = "metadata-labeler" => labels[n] # None
    /\ reported[n] # 0 => reported[n] = GetVolumesLimit(TypeOf[n], md[n].enis, md[n].mappings)

LabelerInv ==
    /\ \A w \in Workers, n \in Nodes : JobRight(w, n)
    /\ \A n \in Nodes : LabelRight(n)

IInv == TypeOK /\ LabelerInv /\ \A n \in Nodes : PluginRight(n)

-----------------------------------------------------------------------------
(* Instances, labels and jobs *)

\* The larger of 1 and a number.
LEMMA MaxOne ==
    ASSUME NEW x \in Int
    PROVE  Max({1, x}) = IF x <= 1 THEN 1 ELSE x
<1> DEFINE m == IF x <= 1 THEN 1 ELSE x
<1>1. m \in {1, x} /\ \A y \in {1, x} : m >= y
  OBVIOUS
<1>2. \A z \in {1, x} : (\A y \in {1, x} : z >= y) => z = m
  OBVIOUS
<1> QED
  BY <1>1, <1>2, Zenon DEF Max

\* The bounds are numbers, and an instance starts within them.
LEMMA FreshType == Fresh \in Instance /\ Sound(Fresh) /\ None.enis = -1 /\ None.volumes = -1
<1> QED
  BY BoundsAssumption DEF Fresh, Instance, Sound, None

\* A worker without an update.
LEMMA IdleRight ==
    /\ Idle \in Job
    /\ \A n \in Nodes : Sound(Idle.found[n]) /\ Idle.old[n] = None
<1>1. [n \in Nodes |-> None] \in [Nodes -> Labels] /\ [n \in Nodes |-> Fresh] \in [Nodes -> Instance]
  BY Zenon, FreshType DEF Labels
<1> DEFINE o == [n \in Nodes |-> None]
           f == [n \in Nodes |-> Fresh]
<1>2. /\ Idle = [pc |-> "idle", nodes |-> {}, old |-> o, found |-> f, failures |-> 0]
      /\ \A n \in Nodes : o[n] = None /\ f[n] = Fresh
  BY Zenon DEF Idle
<1>3. o \in [Nodes -> Labels] /\ f \in [Nodes -> Instance]
  BY Zenon, <1>1
<1> HIDE DEF o, f
<1>4. 0 \in 0..PatchFails
  BY BoundsAssumption
<1> QED
  BY Zenon, <1>2, <1>3, <1>4, FreshType DEF Job

\* Labels that are on a Node stay there, and those of its instance are counted right.
Stays == \A n \in Nodes : labels[n] # None => labels'[n] # None

\* A worker goes on with an update that is right.
LEMMA JobChanges ==
    ASSUME LabelerTypeOK, LabelerInv, Stays, NEW w \in Workers, NEW r \in Job,
           \A n \in Nodes : Sound(r.found[n]) /\ (r.old[n] # None => labels[n] # None),
           job' = [job EXCEPT ![w] = r]
    PROVE  job' \in [Workers -> Job] /\ \A v \in Workers, n \in Nodes : JobRight(v, n)'
<1>1. job \in [Workers -> Job]
  BY Zenon DEF LabelerTypeOK
<1>2. job' \in [Workers -> Job] /\ job'[w] = r /\ \A v \in Workers : v # w => job'[v] = job[v]
  BY Zenon, <1>1
<1>3. ASSUME NEW v \in Workers, NEW n \in Nodes
      PROVE  JobRight(v, n)'
  <2>1. Sound(job[v].found[n]) /\ (job[v].old[n] # None => labels[n] # None)
    BY Zenon DEF LabelerInv, JobRight
  <2>2. job'[v] = r \/ job'[v] = job[v]
    BY <1>2, Zenon
  <2>3. Sound(job'[v].found[n]) /\ (job'[v].old[n] # None => labels'[n] # None)
    BY <2>1, <2>2, Zenon DEF Stays
  <2> QED
    BY <2>3, Zenon DEF JobRight, Sound
<1> QED
  BY <1>2, <1>3, Zenon

\* The jobs stay as they are.
LEMMA JobsStay ==
    ASSUME LabelerInv, Stays, UNCHANGED job
    PROVE  \A v \in Workers, n \in Nodes : JobRight(v, n)'
<1> SUFFICES ASSUME NEW v \in Workers, NEW n \in Nodes
             PROVE  JobRight(v, n)'
  BY Zenon
<1>1. Sound(job[v].found[n]) /\ (job[v].old[n] # None => labels[n] # None)
  BY Zenon DEF LabelerInv, JobRight
<1>2. Sound(job'[v].found[n]) /\ (job'[v].old[n] # None => labels'[n] # None)
  BY <1>1, Zenon DEF Stays
<1> QED
  BY <1>2, Zenon DEF JobRight, Sound

\* The labels stay as they are.
LEMMA LabelsStay ==
    ASSUME LabelerInv, UNCHANGED <<labels, from>>
    PROVE  Stays /\ \A n \in Nodes : LabelRight(n)'
<1> QED
  BY Zenon DEF LabelerInv, LabelRight, Stays, Sound, GetNonCSIManagedVolumes

\* A worker is done with a Node.
LEMMA WithoutRight ==
    ASSUME LabelerTypeOK, LabelerInv, NEW w \in Workers, NEW n \in Nodes
    PROVE  /\ Without(w, n) \in Job
           /\ \A m \in Nodes : /\ Sound(Without(w, n).found[m])
                               /\ Without(w, n).old[m] # None => labels[m] # None
<1>1. CASE job[w].nodes = {n}
  BY <1>1, IdleRight, Zenon DEF Without
<1>2. CASE job[w].nodes # {n}
  <2> DEFINE o == [job[w].old EXCEPT ![n] = None]
             f == [job[w].found EXCEPT ![n] = Fresh]
  <2>1. job[w] \in Job
    BY Zenon DEF LabelerTypeOK
  <2>2. o \in [Nodes -> Labels] /\ f \in [Nodes -> Instance]
    BY Zenon, <2>1, FreshType DEF Job, Labels
  <2>3. \A m \in Nodes : Sound(f[m]) /\ (o[m] # None => labels[m] # None)
    <3> SUFFICES ASSUME NEW m \in Nodes
                 PROVE  Sound(f[m]) /\ (o[m] # None => labels[m] # None)
      BY Zenon
    <3>1. Sound(job[w].found[m]) /\ (job[w].old[m] # None => labels[m] # None)
      BY Zenon DEF LabelerInv, JobRight
    <3>2. (f[m] = Fresh \/ f[m] = job[w].found[m]) /\ (o[m] = None \/ o[m] = job[w].old[m])
      BY Zenon, <2>1 DEF Job
    <3> QED
      BY <3>1, <3>2, FreshType, Zenon
  <2>4. /\ Without(w, n) = [job[w] EXCEPT !.nodes = @ \ {n}, !.old = o, !.found = f]
    BY Zenon, <1>2, <2>1 DEF Without, Job
  <2> HIDE DEF o, f
  <2>5. Without(w, n) \in Job /\ Without(w, n).old = o /\ Without(w, n).found = f
    BY <2>1, <2>2, <2>4 DEF Job
  <2> QED
    BY <2>3, <2>5, Zenon
<1> QED
  BY Zenon, <1>1, <1>2

-----------------------------------------------------------------------------
(* The steps of the labeler *)

\* What a step of the labeler keeps.
Kept == LabelerTypeOK' /\ LabelerInv' /\ Stays

\* A step that leaves the labels and gives a worker an update that is right.
LEMMA JobStep ==
    ASSUME LabelerTypeOK, LabelerInv, NEW w \in Workers, NEW r \in Job,
           \A n \in Nodes : Sound(r.found[n]) /\ (r.old[n] # None => labels[n] # None),
           job' = [job EXCEPT ![w] = r], UNCHANGED <<inst, changes, labels, from>>,
           added' \subseteq joined', joined' \subseteq Nodes,
           loop' \in {"run", "stopped"}, failed' \in BOOLEAN
    PROVE  Kept
<1>1. Stays /\ \A n \in Nodes : LabelRight(n)'
  BY LabelsStay, Zenon
<1>2. job' \in [Workers -> Job] /\ \A v \in Workers, n \in Nodes : JobRight(v, n)'
  BY <1>1, JobChanges, Zenon
<1>3. /\ inst' \in [Nodes -> Instance] /\ \A n \in Nodes : inst'[n].indexed <= inst'[n].csi
      /\ changes' \in 0..MaxChanges
      /\ labels' \in [Nodes -> Labels]
      /\ from' \in [Nodes -> Instance]
  BY Zenon DEF LabelerTypeOK
<1>4. LabelerTypeOK'
  BY <1>2, <1>3, Zenon DEF LabelerTypeOK
<1>5. LabelerInv'
  BY <1>1, <1>2, Zenon DEF LabelerInv
<1> QED
  BY <1>1, <1>4, <1>5, Zenon DEF Kept

\* Only an instance changes.
LEMMA InstanceStep ==
    ASSUME LabelerTypeOK, LabelerInv, NEW n \in Nodes, NEW i \in Instance, Sound(i),
           inst' = [inst EXCEPT ![n] = i], changes' \in 0..MaxChanges,
           UNCHANGED <<joined, added, labels, from, job, loop, failed>>
    PROVE  Kept
<1>1. Stays /\ \A m \in Nodes : LabelRight(m)'
  BY LabelsStay, Zenon
<1>2. \A v \in Workers, m \in Nodes : JobRight(v, m)'
  BY <1>1, JobsStay, Zenon
<1>3. inst \in [Nodes -> Instance] /\ \A m \in Nodes : inst[m].indexed <= inst[m].csi
  BY Zenon DEF LabelerTypeOK
<1>4. /\ inst' \in [Nodes -> Instance]
      /\ \A m \in Nodes : inst'[m] = i \/ inst'[m] = inst[m]
  BY Zenon, <1>3
<1>5. \A m \in Nodes : inst'[m].indexed <= inst'[m].csi
  BY <1>3, <1>4, Zenon DEF Sound
<1>6. LabelerTypeOK'
  BY <1>4, <1>5, Zenon DEF LabelerTypeOK
<1>7. LabelerInv'
  BY <1>1, <1>2, Zenon DEF LabelerInv
<1> QED
  BY <1>1, <1>6, <1>7, Zenon DEF Kept

\* An ENI or a volume is attached.
LEMMA ChangeKeeps ==
    ASSUME LabelerTypeOK, LabelerInv, NEW n \in Nodes, Change(n)
    PROVE  Kept
<1>1. inst \in [Nodes -> Instance] /\ inst[n].indexed <= inst[n].csi /\ changes \in 0..MaxChanges
  BY Zenon DEF LabelerTypeOK
<1>2. changes' \in 0..MaxChanges
  BY <1>1, BoundsAssumption DEF Change
<1>3. inst[n] \in Instance /\ MaxCount \in Nat /\ MaxCSI \in Nat
  BY Zenon, <1>1, BoundsAssumption
<1>4. PICK i \in Instance : Sound(i) /\ inst' = [inst EXCEPT ![n] = i]
  <2>1. CASE inst[n].enis < MaxCount /\ inst' = [inst EXCEPT ![n].enis = @ + 1]
    <3> DEFINE i == [inst[n] EXCEPT !.enis = @ + 1]
    <3>1. i \in Instance /\ Sound(i)
      BY <1>1, <1>3, <2>1 DEF Instance, Sound
    <3>2. inst' = [inst EXCEPT ![n] = i]
      BY <2>1, Zenon
    <3> QED
      BY <3>1, <3>2, Zenon
  <2>2. CASE inst[n].other < MaxCount /\ inst' = [inst EXCEPT ![n].other = @ + 1]
    <3> DEFINE i == [inst[n] EXCEPT !.other = @ + 1]
    <3>1. i \in Instance /\ Sound(i)
      BY <1>1, <1>3, <2>2 DEF Instance, Sound
    <3>2. inst' = [inst EXCEPT ![n] = i]
      BY <2>2, Zenon
    <3> QED
      BY <3>1, <3>2, Zenon
  <2>3. CASE inst[n].csi < MaxCSI /\ inst' = [inst EXCEPT ![n].csi = @ + 1]
    <3> DEFINE i == [inst[n] EXCEPT !.csi = @ + 1]
    <3>1. i \in Instance /\ Sound(i)
      BY <1>1, <1>3, <2>3 DEF Instance, Sound
    <3>2. inst' = [inst EXCEPT ![n] = i]
      BY <2>3, Zenon
    <3> QED
      BY <3>1, <3>2, Zenon
  <2> QED
    BY <2>1, <2>2, <2>3, Zenon DEF Change
<1> QED
  BY <1>2, <1>4, InstanceStep, Zenon DEF Change

\* The informer sees a PV.
LEMMA IndexKeeps ==
    ASSUME LabelerTypeOK, LabelerInv, NEW n \in Nodes, Index(n)
    PROVE  Kept
<1>1. inst \in [Nodes -> Instance] /\ inst[n].indexed <= inst[n].csi /\ changes \in 0..MaxChanges
  BY Zenon DEF LabelerTypeOK
<1>2. inst[n] \in Instance /\ MaxCSI \in Nat
  BY Zenon, <1>1, BoundsAssumption
<1> DEFINE i == [inst[n] EXCEPT !.indexed = @ + 1]
<1>3. i \in Instance /\ Sound(i)
  BY <1>1, <1>2 DEF Instance, Sound, Index
<1>4. inst' = [inst EXCEPT ![n] = i]
  BY Zenon DEF Index
<1>5. changes' \in 0..MaxChanges
  BY <1>1, Zenon DEF Index
<1> HIDE DEF i
<1> QED
  BY <1>3, <1>4, <1>5, InstanceStep, Zenon DEF Index

\* A Node joins.
LEMMA JoinKeeps ==
    ASSUME LabelerTypeOK, LabelerInv, NEW n \in Nodes, Join(n)
    PROVE  Kept
<1>1. Stays /\ \A m \in Nodes : LabelRight(m)'
  BY LabelsStay, Zenon DEF Join
<1>2. \A v \in Workers, m \in Nodes : JobRight(v, m)'
  BY <1>1, JobsStay, Zenon DEF Join
<1>3. added' \subseteq joined' /\ joined' \subseteq Nodes
  BY Zenon DEF Join, LabelerTypeOK
<1>4. LabelerTypeOK'
  BY <1>3, Zenon DEF LabelerTypeOK, Join
<1>5. LabelerInv'
  BY <1>1, <1>2, Zenon DEF LabelerInv
<1> QED
  BY <1>1, <1>4, <1>5, Zenon DEF Kept

\* An update is begun with the Nodes as they are listed.
LEMMA AssignKeeps ==
    ASSUME LabelerTypeOK, LabelerInv, NEW w \in Workers, NEW nodes \in SUBSET Nodes,
           Assign(w, nodes), added' \subseteq joined', joined' \subseteq Nodes,
           UNCHANGED <<inst, changes, labels, from, loop, failed>>
    PROVE  Kept
<1> DEFINE o == [n \in Nodes |-> IF n \in nodes THEN labels[n] ELSE None]
           r == [pc |-> "describe", nodes |-> nodes, old |-> o, found |-> Idle.found, failures |-> 0]
<1>1. labels \in [Nodes -> Labels]
  BY Zenon DEF LabelerTypeOK
<1>2. o \in [Nodes -> Labels] /\ \A n \in Nodes : o[n] # None => labels[n] # None
  BY Zenon, <1>1 DEF Labels
<1>3. job' = [job EXCEPT ![w] = r]
  BY Zenon DEF Assign
<1>4. Idle.found \in [Nodes -> Instance]
  BY Zenon, IdleRight DEF Job
<1>5. 0 \in 0..PatchFails
  BY BoundsAssumption
<1> HIDE DEF o
<1>6. r \in Job /\ r.found = Idle.found /\ r.old = o
  BY Zenon, <1>2, <1>4, <1>5 DEF Job
<1>7. \A n \in Nodes : Sound(r.found[n]) /\ (r.old[n] # None => labels[n] # None)
  BY <1>2, <1>6, IdleRight, Zenon
<1>8. loop' \in {"run", "stopped"} /\ failed' \in BOOLEAN
  BY Zenon DEF LabelerTypeOK
<1> HIDE DEF r
<1> QED
  BY <1>3, <1>6, <1>7, <1>8, JobStep, Zenon

\* updateLabels and AddFunc.
LEMMA BeginKeeps ==
    ASSUME LabelerTypeOK, LabelerInv, UpdateLabels \/ AddFunc
    PROVE  Kept
<1>1. joined \subseteq Nodes /\ added \subseteq joined
  BY Zenon DEF LabelerTypeOK
<1>2. CASE UpdateLabels
  <2>1. added' \subseteq joined' /\ joined' \subseteq Nodes /\ joined \in SUBSET Nodes
    BY Zenon, <1>1, <1>2 DEF UpdateLabels
  <2>2. "loop" \in Workers
    BY Zenon DEF Workers
  <2> QED
    BY <1>2, <2>1, <2>2, AssignKeeps, Zenon DEF UpdateLabels
<1>3. CASE AddFunc
  <2>1. PICK n \in joined \ added : added' = added \cup {n} /\ Assign("handler", {n})
    BY <1>3, Zenon DEF AddFunc
  <2>2. joined' = joined
    BY <1>3, Zenon DEF AddFunc
  <2>3. added' \subseteq joined' /\ joined' \subseteq Nodes /\ {n} \in SUBSET Nodes
    BY Zenon, <1>1, <2>1, <2>2
  <2>4. "handler" \in Workers
    BY Zenon DEF Workers
  <2> QED
    BY <1>3, <2>1, <2>3, <2>4, AssignKeeps, Zenon DEF AddFunc
<1> QED
  BY Zenon, <1>2, <1>3

\* The instances of an update are described, or one of them cannot be.
LEMMA DescribeKeeps ==
    ASSUME LabelerTypeOK, LabelerInv, NEW w \in Workers, Describe(w)
    PROVE  Kept
<1>1. job \in [Workers -> Job] /\ job[w] \in Job
  BY Zenon DEF LabelerTypeOK
<1>2. added' \subseteq joined' /\ joined' \subseteq Nodes /\ UNCHANGED <<inst, changes, labels, from>>
  BY Zenon DEF LabelerTypeOK, Describe
<1>3. CASE /\ job' = [job EXCEPT ![w].pc = "patch", ![w].found = GetInstancesPatching(w)]
           /\ UNCHANGED <<loop, failed>>
  <2> DEFINE f == GetInstancesPatching(w)
             r == [job[w] EXCEPT !.pc = "patch", !.found = f]
  <2>1. /\ inst \in [Nodes -> Instance]
        /\ \A n \in Nodes : inst[n].indexed <= inst[n].csi
    BY Zenon DEF LabelerTypeOK
  <2>2. f \in [Nodes -> Instance] /\ \A n \in Nodes : f[n] = inst[n] \/ f[n] = Fresh
    BY Zenon, <2>1, FreshType DEF GetInstancesPatching
  <2>3. \A n \in Nodes : Sound(f[n])
    BY <2>1, <2>2, FreshType, Zenon DEF Sound
  <2> HIDE DEF f
  <2>4. job' = [job EXCEPT ![w] = r]
    BY Zenon, <1>1, <1>3 DEF f
  <2>5. r \in Job /\ r.found = f /\ r.old = job[w].old
    BY Zenon, <1>1, <2>2 DEF Job
  <2>6. \A n \in Nodes : Sound(r.found[n]) /\ (r.old[n] # None => labels[n] # None)
    BY <2>3, <2>5, Zenon DEF LabelerInv, JobRight
  <2>7. loop' \in {"run", "stopped"} /\ failed' \in BOOLEAN
    BY <1>3, Zenon DEF LabelerTypeOK
  <2> HIDE DEF r
  <2> QED
    BY <1>2, <2>4, <2>5, <2>6, <2>7, JobStep, Zenon
<1>4. CASE /\ job' = [job EXCEPT ![w] = Idle]
           /\ loop' = IF w = "loop" THEN "stopped" ELSE loop
           /\ failed' = TRUE
  <2>1. loop' \in {"run", "stopped"} /\ failed' \in BOOLEAN
    BY <1>4, Zenon DEF LabelerTypeOK
  <2> QED
    BY <1>2, <1>4, <2>1, IdleRight, JobStep, Zenon
<1> QED
  BY <1>3, <1>4, Zenon DEF Describe

\* A patch fails.
LEMMA PatchFailsKeeps ==
    ASSUME LabelerTypeOK, LabelerInv, NEW w \in Workers, NEW n \in Nodes, PatchSingleNodeFails(w, n)
    PROVE  Kept
<1> DEFINE failures == Min({job[w].failures + 1, PatchFails})
           r == IF job[w].nodes = {n} THEN Idle ELSE [Without(w, n) EXCEPT !.failures = failures]
<1>1. job \in [Workers -> Job] /\ job[w] \in Job
  BY Zenon DEF LabelerTypeOK
<1>2. added' \subseteq joined' /\ joined' \subseteq Nodes /\ UNCHANGED <<inst, changes, labels, from>>
  BY Zenon DEF LabelerTypeOK, PatchSingleNodeFails
<1>3. failures \in 0..PatchFails
  <2>1. job[w].failures \in 0..PatchFails /\ PatchFails \in Nat
    BY Zenon, <1>1, BoundsAssumption DEF Job
  <2>2. PICK a \in Nat : a = job[w].failures + 1
    BY <2>1
  <2> DEFINE m == IF a <= PatchFails THEN a ELSE PatchFails
  <2>3. m \in {a, PatchFails} /\ \A y \in {a, PatchFails} : m =< y
    BY <2>1, <2>2
  <2>4. \A z \in {a, PatchFails} : (\A y \in {a, PatchFails} : z =< y) => z = m
    BY <2>1, <2>2
  <2>5. Min({a, PatchFails}) = m
    BY <2>3, <2>4, Zenon DEF Min
  <2> QED
    BY <2>1, <2>2, <2>5
<1> HIDE DEF failures
<1>4. r \in Job /\ \A m \in Nodes : Sound(r.found[m]) /\ (r.old[m] # None => labels[m] # None)
  <2>1. CASE job[w].nodes = {n}
    BY <2>1, IdleRight, Zenon
  <2>2. CASE job[w].nodes # {n}
    <3> DEFINE q == Without(w, n)
    <3>1. q \in Job /\ \A m \in Nodes : Sound(q.found[m]) /\ (q.old[m] # None => labels[m] # None)
      BY WithoutRight, Zenon
    <3> HIDE DEF q
    <3>2. r = [q EXCEPT !.failures = failures]
      BY <2>2, Zenon DEF q
    <3> HIDE DEF r
    <3>3. r \in Job /\ r.found = q.found /\ r.old = q.old
      BY Zenon, <1>3, <3>1, <3>2 DEF Job
    <3> QED
      BY <3>1, <3>3, Zenon
  <2> QED
    BY Zenon, <2>1, <2>2
<1>5. job' = [job EXCEPT ![w] = r]
  BY Zenon DEF PatchSingleNodeFails, failures
<1>6. loop' \in {"run", "stopped"} /\ failed' \in BOOLEAN
  BY Zenon DEF LabelerTypeOK, PatchSingleNodeFails
<1> HIDE DEF r
<1> QED
  BY <1>2, <1>4, <1>5, <1>6, JobStep, Zenon

\* The counts of an instance: what getMetadata labels a Node with.
LEMMA CountsRight ==
    ASSUME NEW n \in Nodes, NEW i \in Instance, Sound(i)
    PROVE  /\ CountsOf(n, i) \in Counts
           /\ GetNonCSIManagedVolumes(i) \in Nat
           /\ n \notin Foreign => /\ CountsOf(n, i).enis = i.enis
                                  /\ CountsOf(n, i).volumes = GetNonCSIManagedVolumes(i) - 1
<1> QED
  BY BoundsAssumption DEF CountsOf, Counts, Instance, Sound, GetNonCSIManagedVolumes

\* A patch merged into the labels: a label keeps what it is only if it was listed as the new
\* count, and then it is there.
LEMMA MergedRight ==
    ASSUME NEW old \in Labels, NEW new \in Counts, NEW now \in Labels, old # None => now # None
    PROVE  /\ Merged(old, new, now) \in Counts
           /\ Merged(old, new, now) # None
           /\ Merged(old, new, now).enis # new.enis => now # None /\ Merged(old, new, now).enis = now.enis
           /\ Merged(old, new, now).volumes # new.volumes =>
                now # None /\ Merged(old, new, now).volumes = now.volumes
<1>1. /\ MaxCount \in Nat /\ MaxCSI \in Nat /\ None.enis = -1 /\ None.volumes = -1
      /\ new.enis \in 0..MaxCount /\ new.volumes \in 0..MaxCount + MaxCSI - 1
  BY Zenon, BoundsAssumption DEF None, Counts
<1>2. now # None => now.enis \in 0..MaxCount /\ now.volumes \in 0..MaxCount + MaxCSI - 1
  BY Zenon DEF Labels, Counts
<1>3. (old.enis = new.enis \/ old.volumes = new.volumes) => now # None
  BY <1>1
<1> DEFINE e == IF old.enis = new.enis THEN now.enis ELSE new.enis
           v == IF old.volumes = new.volumes THEN now.volumes ELSE new.volumes
<1>4. /\ e \in 0..MaxCount /\ v \in 0..MaxCount + MaxCSI - 1
      /\ e # new.enis => now # None /\ e = now.enis
      /\ v # new.volumes => now # None /\ v = now.volumes
  BY <1>1, <1>2, <1>3, Zenon
<1> HIDE DEF e, v
<1>5. Merged(old, new, now) = [enis |-> e, volumes |-> v]
  BY Zenon DEF Merged, e, v
<1>6. Merged(old, new, now) \in Counts /\ Merged(old, new, now).enis = e /\ Merged(old, new, now).volumes = v
  BY <1>4, <1>5 DEF Counts
<1>7. Merged(old, new, now) # None
  BY <1>1, <1>4, <1>6
<1> QED
  BY <1>4, <1>6, <1>7, Zenon

\* A Node is patched.
LEMMA PatchKeeps ==
    ASSUME LabelerTypeOK, LabelerInv, NEW w \in Workers, NEW n \in Nodes, PatchSingleNode(w, n)
    PROVE  Kept
<1> DEFINE found == job[w].found[n]
           new == CountsOf(n, found)
           now == Merged(job[w].old[n], new, labels[n])
           f == from[n]
           g == [enis |-> IF now.enis = new.enis THEN found.enis ELSE f.enis,
                 other |-> IF now.volumes = new.volumes THEN found.other ELSE f.other,
                 csi |-> IF now.volumes = new.volumes THEN found.csi ELSE f.csi,
                 indexed |-> IF now.volumes = new.volumes THEN found.indexed ELSE f.indexed]
<1>1. /\ job \in [Workers -> Job] /\ job[w] \in Job /\ labels \in [Nodes -> Labels]
      /\ from \in [Nodes -> Instance]
  BY Zenon DEF LabelerTypeOK
<1>2. labels' = [labels EXCEPT ![n] = now] /\ from' = [from EXCEPT ![n] = g]
  BY Zenon DEF PatchSingleNode
<1>3. job' = [job EXCEPT ![w] = Without(w, n)] /\ UNCHANGED <<joined, added, inst, changes, loop, failed>>
  BY Zenon DEF PatchSingleNode
<1>4. /\ found \in Instance /\ job[w].old[n] \in Labels /\ f \in Instance /\ labels[n] \in Labels
  BY Zenon, <1>1 DEF Job
<1>5. Sound(found) /\ Sound(f) /\ (job[w].old[n] # None => labels[n] # None)
  BY Zenon DEF LabelerInv, JobRight, LabelRight
<1>6. labels[n] # None /\ n \notin Foreign =>
         labels[n].enis = f.enis /\ labels[n].volumes = GetNonCSIManagedVolumes(f) - 1
  BY Zenon DEF LabelerInv, LabelRight
<1> HIDE DEF found, f
<1>7. /\ new \in Counts
      /\ n \notin Foreign => new.enis = found.enis /\ new.volumes = GetNonCSIManagedVolumes(found) - 1
  BY <1>4, <1>5, CountsRight, Zenon
<1> HIDE DEF new
<1>8. /\ now \in Counts /\ now # None
      /\ now.enis # new.enis => labels[n] # None /\ now.enis = labels[n].enis
      /\ now.volumes # new.volumes => labels[n] # None /\ now.volumes = labels[n].volumes
  BY <1>4, <1>5, <1>7, MergedRight, Zenon
<1> HIDE DEF now
<1>9. g \in Instance /\ Sound(g)
  BY Zenon, <1>4, <1>5 DEF Instance, Sound
<1>10. n \notin Foreign => now.enis = g.enis
  BY Zenon, <1>6, <1>7, <1>8
<1>11. n \notin Foreign => now.volumes = GetNonCSIManagedVolumes(g) - 1
  <2>1. CASE now.volumes = new.volumes
    <3>1. GetNonCSIManagedVolumes(g) = GetNonCSIManagedVolumes(found)
      BY Zenon, <2>1 DEF GetNonCSIManagedVolumes
    <3> QED
      BY <1>7, <2>1, <3>1, Zenon
  <2>2. CASE now.volumes # new.volumes
    <3>1. GetNonCSIManagedVolumes(g) = GetNonCSIManagedVolumes(f)
      BY Zenon, <2>2 DEF GetNonCSIManagedVolumes
    <3> QED
      BY <1>6, <1>8, <2>2, <3>1, Zenon
  <2> QED
    BY Zenon, <2>1, <2>2
<1> HIDE DEF g
<1>12. /\ labels' \in [Nodes -> Labels] /\ labels'[n] = now
       /\ from' \in [Nodes -> Instance] /\ from'[n] = g
       /\ \A m \in Nodes : m # n => labels'[m] = labels[m] /\ from'[m] = from[m]
  BY Zenon, <1>1, <1>2, <1>8, <1>9 DEF Labels
<1>13. Stays
  BY <1>8, <1>12, Zenon DEF Stays
<1>14. ASSUME NEW m \in Nodes
       PROVE  LabelRight(m)'
  <2>1. CASE m = n
    <3>1. /\ Sound(from'[m])
          /\ m \notin Foreign => labels'[m].enis = from'[m].enis
          /\ m \notin Foreign => labels'[m].volumes = GetNonCSIManagedVolumes(from'[m]) - 1
      BY <1>9, <1>10, <1>11, <1>12, <2>1, Zenon
    <3> QED
      BY <3>1, Zenon DEF LabelRight, Sound, GetNonCSIManagedVolumes
  <2>2. CASE m # n
    <3>1. labels'[m] = labels[m] /\ from'[m] = from[m] /\ LabelRight(m)
      BY <1>12, <2>2, Zenon DEF LabelerInv
    <3> QED
      BY <3>1, Zenon DEF LabelRight, Sound, GetNonCSIManagedVolumes
  <2> QED
    BY Zenon, <2>1, <2>2
<1>15. job' \in [Workers -> Job] /\ \A v \in Workers, m \in Nodes : JobRight(v, m)'
  BY <1>3, <1>13, WithoutRight, JobChanges, Zenon
<1>16. LabelerTypeOK'
  BY <1>3, <1>12, <1>15, Zenon DEF LabelerTypeOK
<1>17. LabelerInv'
  BY <1>14, <1>15, Zenon DEF LabelerInv
<1> QED
  BY <1>13, <1>16, <1>17, Zenon DEF Kept

\* Every step of the labeler.
LEMMA LabelerKeeps ==
    ASSUME LabelerTypeOK, LabelerInv, LabelerNext
    PROVE  Kept
<1>1. Followed \subseteq Nodes
  BY Zenon, NodesAssumption
<1>2. ASSUME NEW n \in Followed, Change(n) \/ Index(n)
      PROVE  Kept
  BY Zenon, <1>1, <1>2, ChangeKeeps, IndexKeeps
<1>3. ASSUME NEW n \in Nodes, Join(n)
      PROVE  Kept
  BY <1>3, JoinKeeps, Zenon
<1>4. ASSUME NEW w \in Workers, Update(w)
      PROVE  Kept
  BY <1>4, DescribeKeeps, PatchKeeps, Zenon DEF Update
<1>5. ASSUME NEW w \in Workers, NEW n \in Nodes, PatchSingleNodeFails(w, n)
      PROVE  Kept
  BY <1>5, PatchFailsKeeps, Zenon
<1> QED
  BY <1>2, <1>3, <1>4, <1>5, BeginKeeps, Zenon DEF LabelerNext

-----------------------------------------------------------------------------
(* The limit *)

\* The tables give a number of attachments for every instance type.
LEMMA LimitsType ==
    ASSUME NEW t \in InstanceTypes
    PROVE  GetVolumeLimits(t).max \in Nat
<1>1. CASE t \in NonNitro
  BY Zenon, <1>1 DEF GetVolumeLimits
<1>2. CASE t \notin NonNitro /\ t \in DOMAIN VolumeTable
  <2>1. VolumeTable[t] \in [max : Nat, shared : BOOLEAN]
    BY Zenon, <1>2, TablesAssumption
  <2>2. GetVolumeLimits(t) = [VolumeTable[t] EXCEPT !.shared = @ /\ t \notin Dedicated]
    BY <1>2, Zenon DEF GetVolumeLimits
  <2> DEFINE b == VolumeTable[t].shared /\ t \notin Dedicated
  <2>3. GetVolumeLimits(t) = [VolumeTable[t] EXCEPT !.shared = b]
    BY <2>2, Zenon
  <2> HIDE DEF b
  <2> QED
    BY Zenon, <2>1, <2>3
<1>3. CASE t \notin NonNitro /\ t \notin DOMAIN VolumeTable
  BY Zenon, <1>3 DEF GetVolumeLimits
<1> QED
  BY Zenon, <1>1, <1>2, <1>3

\* getVolumesLimit answers a number.
LEMMA LimitType ==
    ASSUME NEW t \in InstanceTypes, NEW enis \in Int, NEW mappings \in Int
    PROVE  GetVolumesLimit(t, enis, mappings) \in Nat
<1> DEFINE max == GetVolumeLimits(t).max
           shared == GetVolumeLimits(t).shared
<1>1. max \in Nat
  BY LimitsType, Zenon
<1>2. Reserved(mappings) \in Int
  BY OptionsAssumption DEF Reserved
<1>3. GetVolumesLimit(t, enis, mappings) =
        IF VolumeAttachLimit >= 0 THEN VolumeAttachLimit
        ELSE IF max - Reserved(mappings) - (IF shared THEN enis - 1 ELSE 0) <= 0 THEN 1
        ELSE max - Reserved(mappings) - (IF shared THEN enis - 1 ELSE 0)
  BY Zenon DEF GetVolumesLimit
<1> HIDE DEF max, shared
<1> QED
  BY <1>1, <1>2, <1>3, OptionsAssumption

\* The limit made from metadata that counts an instance is the room that is left on it.
LEMMA LimitIsRoom ==
    ASSUME VolumeAttachLimit = -1, ReservedVolumeAttachments = -1, NEW n \in Nodes,
           TypeOK, Matches(md[n]), md[n].of = inst[n]
    PROVE  LET limit == GetVolumesLimit(TypeOf[n], md[n].enis, md[n].mappings)
           IN  /\ limit <= Max({1, Room(n)})
               /\ inst[n].indexed = inst[n].csi => limit = Max({1, Room(n)})
<1> DEFINE max == GetVolumeLimits(TypeOf[n]).max
           shared == GetVolumeLimits(TypeOf[n]).shared
           limit == GetVolumesLimit(TypeOf[n], md[n].enis, md[n].mappings)
           e == md[n].enis
           m == md[n].mappings
           o == inst[n].other
           x == IF shared THEN e - 1 ELSE 0
<1>1. max \in Nat
  BY Zenon, LimitsType, TypeOfAssumption
<1>2. e \in Int /\ m \in Int /\ o \in Int
  BY BoundsAssumption DEF TypeOK, LabelerTypeOK, Instance
<1>3. e = inst[n].enis /\ o - 1 <= m /\ (inst[n].indexed = inst[n].csi => m = o - 1)
  BY Zenon DEF Matches
<1>4. limit = IF VolumeAttachLimit >= 0 THEN VolumeAttachLimit
              ELSE IF max - Reserved(m) - x <= 0 THEN 1 ELSE max - Reserved(m) - x
  BY Zenon DEF GetVolumesLimit
<1>5. Reserved(m) = m + 1
  BY Zenon DEF Reserved
<1>6. Room(n) = max - o - x
  BY <1>3, Zenon DEF Room
<1> HIDE DEF max, shared, limit, e, m, o
<1>7. x \in Int
  BY <1>2
<1> HIDE DEF x
<1>8. PICK r \in Int : r = Room(n)
  BY <1>1, <1>2, <1>6, <1>7
<1>9. Max({1, r}) = IF r <= 1 THEN 1 ELSE r
  BY MaxOne, Zenon
<1>10. limit <= (IF r <= 1 THEN 1 ELSE r) /\ (m = o - 1 => limit = IF r <= 1 THEN 1 ELSE r)
  BY <1>1, <1>2, <1>3, <1>4, <1>5, <1>6, <1>7, <1>8
<1>11. limit <= Max({1, Room(n)}) /\ (m = o - 1 => limit = Max({1, Room(n)}))
  BY <1>8, <1>9, <1>10, Zenon
<1> QED
  BY <1>3, <1>11, Zenon DEF limit, e, m

-----------------------------------------------------------------------------
(* The metadata of the plugins *)

MdType == [source : SourceNames \cup {"none"}, enis : 0..MaxCount,
           mappings : 0..MaxCount + MaxCSI - 1, of : Instance]

\* Metadata as a source gives it.
Proper(m) == m \in MdType /\ m.source # "none" /\ Matches(m)

\* From IMDS.
LEMMA IMDSProper ==
    ASSUME LabelerTypeOK, NEW n \in Nodes
    PROVE  Proper(FromIMDS(n)) /\ FromIMDS(n).source = "imds"
<1>1. inst[n] \in Instance
  BY Zenon DEF LabelerTypeOK
<1> DEFINE o == [inst[n] EXCEPT !.other = AMIVolumes]
<1>2. o \in Instance /\ o.enis = inst[n].enis /\ o.other = AMIVolumes
  BY Zenon, <1>1, BoundsAssumption DEF Instance
<1> HIDE DEF o
<1>3. FromIMDS(n) = [source |-> "imds", enis |-> inst[n].enis, mappings |-> AMIVolumes - 1, of |-> o]
  BY Zenon DEF FromIMDS, o
<1>4. /\ inst[n].enis \in 0..MaxCount /\ AMIVolumes - 1 \in 0..MaxCount + MaxCSI - 1
      /\ AMIVolumes \in Int
  BY <1>1, BoundsAssumption DEF Instance
<1>5. FromIMDS(n) \in MdType
  BY <1>2, <1>3, <1>4 DEF MdType, SourceNames
<1>6. Matches(FromIMDS(n)) /\ FromIMDS(n).source = "imds"
  BY <1>2, <1>3, <1>4 DEF Matches
<1> QED
  BY Zenon, <1>5, <1>6 DEF Proper

\* From the labels of a Node whose instance is EC2's.
LEMMA LabelsProper ==
    ASSUME LabelerTypeOK, LabelerInv, NEW n \in Nodes, n \notin Foreign, labels[n] # None
    PROVE  Proper(FromLabels(n)) /\ FromLabels(n).source = "metadata-labeler"
<1>1. labels[n] \in Counts /\ from[n] \in Instance
  BY Zenon DEF LabelerTypeOK, Labels
<1>2. /\ Sound(from[n]) /\ labels[n].enis = from[n].enis
      /\ labels[n].volumes = GetNonCSIManagedVolumes(from[n]) - 1
  BY Zenon DEF LabelerInv, LabelRight
<1>3. FromLabels(n) \in MdType /\ FromLabels(n).source = "metadata-labeler"
  BY Zenon, <1>1 DEF FromLabels, MdType, Counts, SourceNames
<1>4. Matches(FromLabels(n))
  BY <1>1, <1>2, BoundsAssumption DEF Matches, FromLabels, Sound, GetNonCSIManagedVolumes, Instance
<1> QED
  BY Zenon, <1>3, <1>4 DEF Proper

\* From the Node alone.
LEMMA NodeProper ==
    ASSUME LabelerTypeOK, NEW n \in Nodes
    PROVE  Proper(FromNode(n)) /\ FromNode(n).source = "kubernetes"
<1>1. inst[n] \in Instance
  BY Zenon DEF LabelerTypeOK
<1> DEFINE i == [inst[n] EXCEPT !.enis = 1]
           o == [i EXCEPT !.other = 1]
<1>0. 1 \in 1..MaxCount
  BY BoundsAssumption
<1>1a. i \in Instance /\ i.enis = 1
  BY Zenon, <1>0, <1>1 DEF Instance
<1> HIDE DEF i
<1>2. o \in Instance /\ o.enis = 1 /\ o.other = 1
  BY Zenon, <1>0, <1>1a DEF Instance
<1> HIDE DEF o
<1>3. FromNode(n) = [source |-> "kubernetes", enis |-> 1, mappings |-> 0, of |-> o]
  BY Zenon DEF FromNode, o, i
<1>4. 1 \in 0..MaxCount /\ 0 \in 0..MaxCount + MaxCSI - 1
  BY BoundsAssumption
<1>5. FromNode(n) \in MdType
  BY <1>2, <1>3, <1>4 DEF MdType, SourceNames
<1>6. Matches(FromNode(n)) /\ FromNode(n).source = "kubernetes"
  BY <1>2, <1>3 DEF Matches
<1> QED
  BY Zenon, <1>5, <1>6 DEF Proper

\* Whatever source answers a plugin that starts.
LEMMA FromProper ==
    ASSUME LabelerTypeOK, LabelerInv, NEW n \in Nodes, n \notin Foreign,
           NEW source \in SourceNames, Available(source, n)
    PROVE  Proper(From(source, n)) /\ (From(source, n).source = "metadata-labeler" => labels[n] # None)
<1>1. CASE source = "imds"
  BY Zenon, <1>1, IMDSProper DEF From
<1>2. CASE source = "metadata-labeler"
  BY Zenon, <1>2, LabelsProper DEF From, Available
<1>3. CASE source = "kubernetes"
  BY Zenon, <1>3, NodeProper DEF From
<1> QED
  BY Zenon, <1>1, <1>2, <1>3 DEF SourceNames

\* And what UpdateMetadata makes of it.
LEMMA UpdatedProper ==
    ASSUME LabelerTypeOK, LabelerInv, NEW n \in Nodes, n \notin Foreign,
           Proper(md[n]), md[n].source = "metadata-labeler" => labels[n] # None
    PROVE  Proper(Updated(n)) /\ (Updated(n).source = "metadata-labeler" => labels[n] # None)
<1>1. CASE md[n].source = "imds"
  <2> DEFINE e == inst[n].enis
             o == [md[n].of EXCEPT !.enis = e]
             m == [md[n] EXCEPT !.enis = e]
             u == [m EXCEPT !.of = o]
  <2>1. e \in 0..MaxCount /\ e \in 1..MaxCount
    BY BoundsAssumption DEF LabelerTypeOK, Instance
  <2>2. md[n] \in MdType /\ md[n].of \in Instance
    BY Zenon DEF Proper, MdType
  <2> HIDE DEF e
  <2>3. /\ o \in Instance /\ o.enis = e /\ o.other = md[n].of.other
        /\ o.csi = md[n].of.csi /\ o.indexed = md[n].of.indexed
    BY Zenon, <2>1, <2>2 DEF Instance
  <2>4. /\ m \in MdType /\ m.enis = e /\ m.mappings = md[n].mappings /\ m.source = "imds"
        /\ m.of = md[n].of
    BY Zenon, <1>1, <2>1, <2>2 DEF MdType
  <2>5. Updated(n) = [md[n] EXCEPT !.enis = inst[n].enis, !.of.enis = inst[n].enis]
    BY Zenon, <1>1 DEF Updated
  <2>6. Updated(n) = u
    BY Zenon, <2>2, <2>5 DEF MdType, e
  <2> HIDE DEF o, m
  <2>7. u \in MdType /\ u.enis = e /\ u.mappings = md[n].mappings /\ u.source = "imds" /\ u.of = o
    BY Zenon, <2>3, <2>4 DEF MdType
  <2> HIDE DEF u
  <2>8. Matches(u)
    BY <2>3, <2>7, Zenon DEF Matches, Proper
  <2> QED
    BY Zenon, <2>6, <2>7, <2>8 DEF Proper
<1>2. CASE md[n].source = "metadata-labeler"
  BY Zenon, <1>2, LabelsProper DEF Updated
<1>3. CASE md[n].source = "kubernetes"
  BY Zenon, <1>3 DEF Updated
<1> QED
  BY Zenon, <1>1, <1>2, <1>3 DEF Proper, MdType, SourceNames

\* The plugin of a Node goes on with proper metadata and a limit made from it.
LEMMA PluginStep ==
    ASSUME TypeOK, \A k \in Nodes : PluginRight(k), UNCHANGED labels,
           NEW n \in Followed, NEW m, NEW limit \in Nat,
           Proper(m), m.source = "metadata-labeler" => labels[n] # None,
           limit # 0 => limit = GetVolumesLimit(TypeOf[n], m.enis, m.mappings),
           md' = [md EXCEPT ![n] = m], reported' = [reported EXCEPT ![n] = limit]
    PROVE  /\ md' \in [Nodes -> MdType] /\ reported' \in [Nodes -> Nat]
           /\ \A k \in Nodes : PluginRight(k)'
<1>1. md \in [Nodes -> MdType] /\ reported \in [Nodes -> Nat] /\ n \in Nodes
  BY Zenon, NodesAssumption DEF TypeOK, MdType
<1>2. m \in MdType /\ m.source # "none" /\ Matches(m)
  BY Zenon DEF Proper
<1>3. /\ md' \in [Nodes -> MdType] /\ md'[n] = m /\ reported' \in [Nodes -> Nat] /\ reported'[n] = limit
      /\ \A k \in Nodes : k # n => md'[k] = md[k] /\ reported'[k] = reported[k]
  BY Zenon, <1>1, <1>2
<1>4. ASSUME NEW k \in Nodes
      PROVE  PluginRight(k)'
  <2>1. CASE k = n
    BY <1>2, <1>3, <2>1, Zenon DEF PluginRight, Matches
  <2>2. CASE k # n
    <3>1. md'[k] = md[k] /\ reported'[k] = reported[k] /\ labels' = labels /\ PluginRight(k)
      BY <1>3, <2>2, Zenon
    <3> QED
      BY <3>1, Zenon DEF PluginRight, Matches
  <2> QED
    BY Zenon, <2>1, <2>2
<1> QED
  BY <1>3, <1>4, Zenon

\* A plugin starts.
LEMMA NewMetadataKeeps ==
    ASSUME IInv, Followed \cap Foreign = {}, NEW n \in Followed, NewMetadataService(n)
    PROVE  IInv'
<1>1. n \in Nodes /\ n \notin Foreign
  BY Zenon, NodesAssumption
<1>2. TypeOK /\ LabelerTypeOK /\ LabelerInv /\ (\A k \in Nodes : PluginRight(k))
  BY Zenon DEF IInv, TypeOK
<1>3. PICK i \in 1..Len(Sources) :
         Available(Sources[i], n) /\ md' = [md EXCEPT ![n] = From(Sources[i], n)]
  BY Zenon DEF NewMetadataService
<1>4. Sources[i] \in SourceNames
  BY SourcesAssumption
<1> DEFINE m == From(Sources[i], n)
<1>5. Proper(m) /\ (m.source = "metadata-labeler" => labels[n] # None)
  BY <1>1, <1>2, <1>3, <1>4, FromProper, Zenon
<1>6. md[n].source = "none" /\ reported[n] = 0
  BY <1>1, <1>2 DEF NewMetadataService, PluginRight, NotRunning
<1>7. reported' = [reported EXCEPT ![n] = 0]
  BY Zenon, <1>2, <1>6 DEF TypeOK, NewMetadataService
<1> HIDE DEF m
<1>8. md' = [md EXCEPT ![n] = m] /\ UNCHANGED labels
  BY <1>3, Zenon DEF m, NewMetadataService
<1>9. /\ md' \in [Nodes -> MdType] /\ reported' \in [Nodes -> Nat]
      /\ \A k \in Nodes : PluginRight(k)'
  BY Zenon, <1>2, <1>5, <1>7, <1>8, PluginStep
<1>10. UNCHANGED labelerVars
  BY Zenon DEF NewMetadataService, labelerVars
<1>11. LabelerTypeOK' /\ LabelerInv'
  BY <1>2, <1>10, Zenon DEF labelerVars, LabelerTypeOK, LabelerInv, JobRight, LabelRight, Sound,
     GetNonCSIManagedVolumes
<1> QED
  BY <1>9, <1>11, Zenon DEF IInv, TypeOK, MdType

\* NodeGetInfo, with the metadata refreshed or not.
LEMMA NodeGetInfoKeeps ==
    ASSUME IInv, Followed \cap Foreign = {}, NEW n \in Followed, NodeGetInfo(n)
    PROVE  IInv'
<1>1. n \in Nodes /\ n \notin Foreign
  BY Zenon, NodesAssumption
<1>2. TypeOK /\ LabelerTypeOK /\ LabelerInv /\ (\A k \in Nodes : PluginRight(k))
  BY Zenon DEF IInv, TypeOK
<1>3. md \in [Nodes -> MdType] /\ reported \in [Nodes -> Nat]
  BY Zenon, <1>2 DEF TypeOK, MdType
<1>4. Proper(md[n]) /\ (md[n].source = "metadata-labeler" => labels[n] # None)
  BY Zenon, <1>1, <1>2, <1>3 DEF NodeGetInfo, PluginRight, Proper
<1>5. PICK m : /\ Proper(m) /\ (m.source = "metadata-labeler" => labels[n] # None)
               /\ md' = [md EXCEPT ![n] = m]
  <2>1. CASE md' = [md EXCEPT ![n] = Updated(n)]
    BY <1>1, <1>2, <1>4, <2>1, UpdatedProper, Zenon
  <2>2. CASE UNCHANGED md
    <3>1. md' = [md EXCEPT ![n] = md[n]]
      BY Zenon, <1>3, <2>2
    <3> QED
      BY <1>4, <3>1, Zenon
  <2> QED
    BY <2>1, <2>2, Zenon DEF NodeGetInfo
<1>6. md'[n] = m /\ m.enis \in Int /\ m.mappings \in Int /\ TypeOf[n] \in InstanceTypes
  <2>1. m \in MdType /\ MaxCount \in Nat /\ MaxCSI \in Nat
    BY Zenon, <1>5, BoundsAssumption DEF Proper
  <2>2. m.enis \in Int /\ m.mappings \in Int
    BY <2>1 DEF MdType
  <2>3. md'[n] = m
    BY <1>1, <1>3, <1>5, Zenon
  <2> QED
    BY Zenon, <1>1, <2>2, <2>3, TypeOfAssumption
<1> DEFINE limit == GetVolumesLimit(TypeOf[n], m.enis, m.mappings)
<1>7. limit \in Nat
  BY <1>6, LimitType, Zenon
<1>8. reported' = [reported EXCEPT ![n] = limit]
  BY <1>6, Zenon DEF NodeGetInfo
<1>9. UNCHANGED labelerVars
  BY Zenon DEF NodeGetInfo
<1>10. UNCHANGED labels
  BY <1>9, Zenon DEF labelerVars
<1>11. limit # 0 => limit = GetVolumesLimit(TypeOf[n], m.enis, m.mappings)
  OBVIOUS
<1> HIDE DEF limit
<1>12. /\ md' \in [Nodes -> MdType] /\ reported' \in [Nodes -> Nat]
       /\ \A k \in Nodes : PluginRight(k)'
  BY Zenon, <1>2, <1>5, <1>7, <1>8, <1>10, <1>11, PluginStep
<1>13. LabelerTypeOK' /\ LabelerInv'
  BY <1>2, <1>9, Zenon DEF labelerVars, LabelerTypeOK, LabelerInv, JobRight, LabelRight, Sound,
     GetNonCSIManagedVolumes
<1> QED
  BY <1>12, <1>13, Zenon DEF IInv, TypeOK, MdType

-----------------------------------------------------------------------------
(* Theorems *)

\* The invariant holds when the plugins and the labeler start.
LEMMA InitRight ==
    ASSUME Init
    PROVE  IInv
<1>1. LabelerTypeOK
  <2>1. [n \in Nodes |-> Fresh] \in [Nodes -> Instance] /\ [n \in Nodes |-> None] \in [Nodes -> Labels]
    BY Zenon, FreshType DEF Labels
  <2>2. inst \in [Nodes -> Instance] /\ from \in [Nodes -> Instance] /\ labels \in [Nodes -> Labels]
    BY <2>1, Zenon DEF Init, LabelerInit
  <2>3. \A n \in Nodes : inst[n].indexed <= inst[n].csi
    BY FreshType, Zenon DEF Init, LabelerInit, Sound
  <2>4. job \in [Workers -> Job]
    BY Zenon, IdleRight DEF Init, LabelerInit
  <2>5. changes \in 0..MaxChanges
    BY BoundsAssumption DEF Init, LabelerInit
  <2>6. added \subseteq joined /\ joined \subseteq Nodes
    BY Zenon DEF Init, LabelerInit
  <2>7. loop \in {"run", "stopped"} /\ failed \in BOOLEAN
    BY Zenon DEF Init, LabelerInit
  <2> QED
    BY <2>2, <2>3, <2>4, <2>5, <2>6, <2>7, Zenon DEF LabelerTypeOK
<1>2. LabelerInv
  BY FreshType, IdleRight, Zenon DEF Init, LabelerInit, LabelerInv, JobRight, LabelRight
<1>3. NotRunning \in MdType /\ NotRunning.source = "none"
  <2>1. 0 \in 0..MaxCount /\ 0 \in 0..MaxCount + MaxCSI - 1
    BY BoundsAssumption
  <2> QED
    BY Zenon, <2>1, FreshType DEF NotRunning, MdType
<1>4. md \in [Nodes -> MdType] /\ reported \in [Nodes -> Nat]
  BY Zenon, <1>3 DEF Init
<1>5. \A n \in Nodes : PluginRight(n)
  <2> SUFFICES ASSUME NEW n \in Nodes
               PROVE  PluginRight(n)
    BY Zenon
  <2>1. md[n] = NotRunning /\ md[n].source = "none" /\ reported[n] = 0
    BY <1>3, Zenon DEF Init
  <2> QED
    BY Zenon, <2>1 DEF PluginRight
<1> QED
  BY <1>1, <1>2, <1>4, <1>5, Zenon DEF IInv, TypeOK, MdType

\* Steps of the labeler leave the plugins alone, and the labels they rely on stay.
LEMMA LabelerStep ==
    ASSUME IInv, LabelerNext, UNCHANGED <<md, reported>>
    PROVE  IInv'
<1>1. Kept
  BY LabelerKeeps, Zenon DEF IInv, TypeOK
<1>2. \A n \in Nodes : PluginRight(n)'
  <2> SUFFICES ASSUME NEW n \in Nodes
               PROVE  PluginRight(n)'
    BY Zenon
  <2>1. md' = md /\ reported' = reported /\ (labels[n] # None => labels'[n] # None) /\ PluginRight(n)
    BY <1>1, Zenon DEF Kept, Stays, IInv
  <2> QED
    BY <2>1, Zenon DEF PluginRight, Matches
<1> QED
  BY <1>1, <1>2, Zenon DEF IInv, TypeOK, Kept

\* The labeler and the plugins keep the invariant when every Node whose plugin runs has an
\* instance ID of EC2.
THEOREM NodeInfoInvariant ==
    ASSUME Followed \cap Foreign = {}
    PROVE  Spec => []IInv
<1>1. Init => IInv
  BY Zenon, InitRight
<1>2. IInv /\ [Next]_vars => IInv'
  <2> SUFFICES ASSUME IInv, [Next]_vars
               PROVE  IInv'
    OBVIOUS
  <2>1. ASSUME NEW n \in Followed, NewMetadataService(n) \/ NodeGetInfo(n)
        PROVE  IInv'
    BY <2>1, NewMetadataKeeps, NodeGetInfoKeeps, Zenon
  <2>2. CASE UNCHANGED vars
    BY <2>2, Zenon DEF vars, IInv, TypeOK, LabelerTypeOK, LabelerInv, JobRight, LabelRight, Sound,
       GetNonCSIManagedVolumes, PluginRight, Matches
  <2> QED
    BY <2>1, <2>2, LabelerStep, Zenon DEF Next
<1> QED
  BY <1>1, <1>2, PTL DEF Spec

\* The limit kubelet is told is the room that is left on the instance, whenever it was made
\* from the instance as it is: the labeler, the metadata and getVolumesLimit count the root
\* volume and the first ENI exactly once between them, for every instance type and any
\* interleaving of the loop, the handler and the plugins.  Neither option overrides the limit.
THEOREM LimitAlwaysExact ==
    ASSUME VolumeAttachLimit = -1, ReservedVolumeAttachments = -1, Followed \cap Foreign = {}
    PROVE  Spec => []LimitExact
<1>1. IInv => LimitExact
  <2> SUFFICES ASSUME IInv, NEW n \in Nodes, reported[n] # 0, md[n].of = inst[n]
               PROVE  /\ reported[n] <= Max({1, Room(n)})
                      /\ inst[n].indexed = inst[n].csi => reported[n] = Max({1, Room(n)})
    BY Zenon DEF LimitExact
  <2>1. /\ TypeOK /\ Matches(md[n])
        /\ reported[n] = GetVolumesLimit(TypeOf[n], md[n].enis, md[n].mappings)
    BY Zenon DEF IInv, PluginRight
  <2> QED
    BY <2>1, LimitIsRoom, Zenon
<1>2. Spec => []IInv
  BY Zenon, NodeInfoInvariant
<1> QED
  BY <1>1, <1>2, PTL

-----------------------------------------------------------------------------
(* The taint watcher and the preStop hook of a node pod: invariants *)

\* Whoever is about to patch the Node has seen that the CSINode is complete.
PatchesWhenAllocatable == \A t \in Threads : attempt[t].pc = "patch" => allocatable

\* A drain taint stays until the drain is over.
DrainSeen == drained => "drain" \in taints

WatcherInv ==
    /\ WatcherTypeOK
    /\ RemovedWhenAllocatable
    /\ PatchesWhenAllocatable
    /\ OneAttempt
    /\ DrainSeen

\* Only a check that found no VolumeAttachment closes the channel.
HookInv ==
    /\ closed => listed
    /\ hook \in {"close", "finished"} => listed
    /\ handler = "close" => listed

-----------------------------------------------------------------------------
(* The taint watcher *)

\* The records an attempt starts with.
LEMMA AttemptRecords ==
    /\ NoAttempt \in Attempt /\ NoAttempt.pc = "idle"
    /\ \A node \in SUBSET Taints, left \in 0..Steps :
          [pc |-> "check", node |-> node, left |-> left] \in Attempt
    /\ Steps \in 0..Steps
BY StepsAssumption DEF NoAttempt, Attempt

\* A step of one thread in attemptTaintRemoval: what it may do to its attempt and the mutex.
AttemptStep(t) ==
    /\ attempt' \in [Threads -> Attempt]
    /\ \A u \in Threads : u # t => attempt'[u] = attempt[u]
    /\ \/ attempt'[t].pc = "idle" /\ mutex' = "free"
       \/ attempt'[t].pc # "idle" /\ mutex' = mutex

\* An attempt ends.
LEMMA EndStep ==
    ASSUME WatcherTypeOK, NEW t \in Threads, End(t)
    PROVE  AttemptStep(t) /\ attempt'[t].pc = "idle"
BY Zenon, AttemptRecords DEF End, AttemptStep, WatcherTypeOK

\* An attempt is repeated, or the backoff is over.
LEMMA RetryStep ==
    ASSUME WatcherTypeOK, NEW t \in Threads, NEW node \in SUBSET Taints, Retry(t, node)
    PROVE  AttemptStep(t) /\ attempt'[t].pc # "patch"
<1>1. CASE attempt[t].left > 1
  <2> DEFINE r == [pc |-> "check", node |-> node, left |-> attempt[t].left - 1]
  <2>1. attempt' = [attempt EXCEPT ![t] = r] /\ mutex' = mutex
    BY Zenon, <1>1 DEF Retry
  <2>2. attempt[t].left - 1 \in 0..Steps
    BY <1>1, StepsAssumption DEF WatcherTypeOK, Attempt
  <2>3. r \in Attempt /\ r.pc = "check"
    BY Zenon, <2>2, AttemptRecords
  <2> HIDE DEF r
  <2> QED
    BY Zenon, <2>1, <2>3 DEF AttemptStep, WatcherTypeOK
<1>2. CASE ~(attempt[t].left > 1)
  <2>1. End(t)
    BY Zenon, <1>2 DEF Retry
  <2> QED
    BY Zenon, <2>1, EndStep DEF AttemptStep
<1> QED
  BY Zenon, <1>1, <1>2

\* An attempt goes on.
LEMMA GotoStep ==
    ASSUME WatcherTypeOK, NEW t \in Threads, NEW pc \in {"patch", "refresh"}, Goto(t, pc)
    PROVE  AttemptStep(t) /\ attempt'[t].pc = pc
<1> DEFINE r == [attempt[t] EXCEPT !.pc = pc]
<1>1. attempt' = [attempt EXCEPT ![t] = r] /\ mutex' = mutex
  BY Zenon DEF Goto
<1>2. r \in Attempt /\ r.pc = pc
  BY Zenon DEF WatcherTypeOK, Attempt
<1> HIDE DEF r
<1> QED
  BY Zenon, <1>1, <1>2 DEF AttemptStep, WatcherTypeOK

\* The thread that holds the mutex takes a step, and may have the taint removed.
LEMMA AttemptKeeps ==
    ASSUME WatcherInv, NEW t \in Threads, attempt[t].pc # "idle", AttemptStep(t),
           attempt'[t].pc = "patch" => allocatable,
           \/ taints' = taints
           \/ allocatable /\ taints' = taints \ {NotReady},
           UNCHANGED <<exists, allocatable, seen, main, cancelled, drained>>
    PROVE  WatcherInv'
<1>1. WatcherTypeOK'
  BY Zenon DEF WatcherInv, WatcherTypeOK, AttemptStep, Taints
<1>2. RemovedWhenAllocatable' /\ DrainSeen'
  BY Zenon DEF WatcherInv, RemovedWhenAllocatable, DrainSeen, NotReady
<1>3. PatchesWhenAllocatable'
  BY Zenon DEF WatcherInv, PatchesWhenAllocatable, AttemptStep
<1>4. OneAttempt'
  <2>1. mutex = t /\ t # "free"
    BY Zenon DEF WatcherInv, OneAttempt, Threads
  <2> QED
    BY <2>1 DEF WatcherInv, OneAttempt, AttemptStep, Threads
<1> QED
  BY Zenon, <1>1, <1>2, <1>3, <1>4 DEF WatcherInv

\* A step of an attempt, failures of the API server included.
LEMMA TryKeeps ==
    ASSUME WatcherInv, NEW t \in Threads, Try(t) \/ ApiFails(t), UNCHANGED drained
    PROVE  WatcherInv'
<1>1. /\ WatcherTypeOK /\ attempt[t].node \in SUBSET Taints /\ taints \in SUBSET Taints
      /\ attempt[t].pc = "patch" => allocatable
  BY Zenon DEF WatcherInv, WatcherTypeOK, Attempt, PatchesWhenAllocatable
<1>2. UNCHANGED <<exists, allocatable, seen, main, cancelled, drained>> /\ attempt[t].pc # "idle"
  BY Zenon DEF Try, CheckAllocatable, Patch, Refresh, Abandon, ApiFails
<1>3. CASE CheckAllocatable(t)
  <2>1. taints' = taints
    BY Zenon, <1>3 DEF CheckAllocatable
  <2>2. CASE allocatable
    BY Zenon, <1>1, <1>2, <1>3, <2>1, <2>2, GotoStep, AttemptKeeps DEF CheckAllocatable
  <2>3. CASE ~allocatable
    <3>1. Retry(t, attempt[t].node) \/ Goto(t, "refresh")
      BY Zenon, <1>3, <2>3 DEF CheckAllocatable
    <3>2. AttemptStep(t) /\ attempt'[t].pc # "patch"
      BY Zenon, <1>1, <3>1, GotoStep, RetryStep
    <3> QED
      BY Zenon, <1>2, <2>1, <3>2, AttemptKeeps
  <2> QED
    BY Zenon, <2>2, <2>3
<1>4. CASE Patch(t)
  <2>1. CASE exists /\ taints = attempt[t].node
    <3>1. End(t) /\ allocatable /\ taints' = taints \ {NotReady}
      BY Zenon, <1>1, <1>4, <2>1 DEF Patch
    <3> QED
      BY Zenon, <1>1, <1>2, <3>1, EndStep, AttemptKeeps
  <2>2. CASE ~(exists /\ taints = attempt[t].node)
    <3>1. Goto(t, "refresh") /\ taints' = taints
      BY Zenon, <1>4, <2>2 DEF Patch
    <3>2. AttemptStep(t) /\ attempt'[t].pc # "patch"
      BY Zenon, <1>1, <3>1, GotoStep
    <3> QED
      BY Zenon, <1>2, <3>1, <3>2, AttemptKeeps
  <2> QED
    BY Zenon, <2>1, <2>2
<1>5. CASE Refresh(t)
  <2>1. Retry(t, taints) \/ End(t) \/ Retry(t, attempt[t].node)
    BY Zenon, <1>5 DEF Refresh
  <2>2. AttemptStep(t) /\ attempt'[t].pc # "patch"
    BY Zenon, <1>1, <2>1, RetryStep, EndStep
  <2> QED
    BY Zenon, <1>2, <1>5, <2>2, AttemptKeeps DEF Refresh
<1>6. CASE Abandon(t)
  <2>1. AttemptStep(t) /\ attempt'[t].pc = "idle" /\ taints' = taints
    BY Zenon, <1>1, <1>6, EndStep DEF Abandon
  <2> QED
    BY Zenon, <1>2, <2>1, AttemptKeeps
<1>7. CASE ApiFails(t)
  <2>1. AttemptStep(t) /\ attempt'[t].pc # "patch"
    BY Zenon, <1>1, <1>7, RetryStep DEF ApiFails
  <2>2. taints' = taints \/ (allocatable /\ taints' = taints \ {NotReady})
    BY Zenon, <1>1, <1>7 DEF ApiFails
  <2> QED
    BY Zenon, <1>2, <2>1, <2>2, AttemptKeeps
<1> QED
  BY Zenon, <1>3, <1>4, <1>5, <1>6, <1>7 DEF Try

\* An attempt begins only when no other is under way.
LEMMA AttemptBeginKeeps ==
    ASSUME WatcherInv, NEW t \in Threads, NEW node \in SUBSET Taints, Begin(t, node),
           main' \in {"sync", "scan", "watch", "last", "chance", "leaving", "done"},
           UNCHANGED <<taints, exists, allocatable, seen, cancelled, drained>>
    PROVE  WatcherInv'
<1>1. CASE NotReady \in node /\ mutex = "free"
  <2> DEFINE r == [pc |-> "check", node |-> node, left |-> Steps]
  <2>1. mutex' = t /\ attempt' = [attempt EXCEPT ![t] = r]
    BY Zenon, <1>1 DEF Begin
  <2>2. r \in Attempt /\ r.pc = "check"
    BY Zenon, AttemptRecords
  <2> HIDE DEF r
  <2>3. WatcherTypeOK'
    BY Zenon, <2>1, <2>2 DEF WatcherInv, WatcherTypeOK
  <2>4. RemovedWhenAllocatable' /\ PatchesWhenAllocatable' /\ DrainSeen'
    BY Zenon, <2>1, <2>2 DEF WatcherInv, WatcherTypeOK, RemovedWhenAllocatable, PatchesWhenAllocatable, DrainSeen
  <2>5. OneAttempt'
    BY Zenon, <1>1, <2>1, <2>2 DEF WatcherInv, WatcherTypeOK, OneAttempt, Threads
  <2> QED
    BY Zenon, <2>3, <2>4, <2>5 DEF WatcherInv
<1>2. CASE ~(NotReady \in node /\ mutex = "free")
  <2>1. UNCHANGED <<attempt, mutex>>
    BY Zenon, <1>2 DEF Begin
  <2> QED
    BY Zenon, <2>1 DEF WatcherInv, WatcherTypeOK, RemovedWhenAllocatable, PatchesWhenAllocatable,
                OneAttempt, DrainSeen
<1> QED
  BY Zenon, <1>1, <1>2

\* Steps that leave the attempts alone, but for the copy of the Node.
LEMMA WatchKeeps ==
    ASSUME WatcherInv, WatcherTypeOK', UNCHANGED mutex,
           \A t \in Threads : attempt'[t].pc = attempt[t].pc, allocatable => allocatable',
           \/ UNCHANGED <<taints, drained>>
           \/ taints' = taints \cup {"drain"}
    PROVE  WatcherInv'
BY DEF WatcherInv, RemovedWhenAllocatable, PatchesWhenAllocatable, OneAttempt, DrainSeen, NotReady

\* Every step of the watcher keeps its invariant.
LEMMA WatcherKeeps ==
    ASSUME WatcherInv, WatcherNext, UNCHANGED drained
    PROVE  WatcherInv'
<1>1. CASE SetAllocatable \/ Watch \/ Forbidden \/ Sync \/ Timeout \/ Leave
  <2>1. UNCHANGED <<taints, exists, attempt, mutex>> /\ (allocatable => allocatable')
    BY <1>1 DEF SetAllocatable, Watch, Forbidden, Sync, Timeout, Leave
  <2>2. WatcherTypeOK'
    <3>1. CASE SetAllocatable
      BY Zenon, <2>1, <3>1 DEF SetAllocatable, WatcherInv, WatcherTypeOK
    <3>2. CASE Watch
      BY Zenon, <2>1, <3>2 DEF Watch, Observed, WatcherInv, WatcherTypeOK
    <3>3. CASE Forbidden \/ Leave
      BY Zenon, <2>1, <3>3 DEF Forbidden, Leave, WatcherInv, WatcherTypeOK
    <3>4. CASE Sync \/ Timeout
      BY Zenon, <2>1, <3>4 DEF Sync, Timeout, WatcherInv, WatcherTypeOK
    <3> QED
      BY Zenon, <1>1, <3>1, <3>2, <3>3, <3>4
  <2> QED
    BY Zenon, <2>1, <2>2, WatchKeeps
<1>2. seen \in SUBSET Taints /\ attempt["main"].node \in SUBSET Taints /\ main \in
        {"sync", "scan", "watch", "last", "chance", "leaving", "done"}
      /\ "main" \in Threads /\ "informer" \in Threads
  BY Zenon DEF WatcherInv, WatcherTypeOK, Attempt, Threads
<1>3. CASE Notify
  BY Zenon, <1>2, <1>3, AttemptBeginKeeps DEF Notify
<1>4. CASE Scan
  BY Zenon, <1>2, <1>4, AttemptBeginKeeps DEF Scan
<1>5. CASE LastChance
  BY Zenon, <1>2, <1>5, AttemptBeginKeeps DEF LastChance
<1>6. CASE GetNode
  <2>1. UNCHANGED <<taints, exists, allocatable, seen, mutex, cancelled>>
    BY Zenon, <1>6 DEF GetNode
  <2>2. main' \in {"chance", "leaving"}
    BY Zenon, <1>6 DEF GetNode
  <2>3. attempt' = [attempt EXCEPT !["main"].node = taints] \/ attempt' = attempt
    BY Zenon, <1>6 DEF GetNode
  <2>4. attempt' \in [Threads -> Attempt] /\ \A t \in Threads : attempt'[t].pc = attempt[t].pc
    BY <2>3 DEF WatcherInv, WatcherTypeOK, Attempt
  <2>5. WatcherTypeOK'
    BY Zenon, <2>1, <2>2, <2>4 DEF WatcherInv, WatcherTypeOK
  <2> QED
    BY Zenon, <2>1, <2>4, <2>5, WatchKeeps
<1>7. ASSUME NEW t \in Threads, Try(t) \/ ApiFails(t) PROVE WatcherInv'
  BY Zenon, <1>7, TryKeeps
<1> QED
  BY Zenon, <1>1, <1>3, <1>4, <1>5, <1>6, <1>7 DEF WatcherNext

-----------------------------------------------------------------------------
(* The preStop hook *)

\* Every step keeps what the hook knows of the VolumeAttachments.
LEMMA HookKeeps ==
    ASSUME HookInv, [LifecycleNext]_allVars
    PROVE  HookInv'
<1>1. CASE UNCHANGED hookVars
  BY Zenon, <1>1 DEF hookVars, HookInv
<1>2. CASE LookAtNode
  BY Zenon, <1>2 DEF LookAtNode, Look, HookInv
<1>3. CASE Hook
  <2>1. CASE FirstList
    BY <2>1, Zenon DEF FirstList, NoneLeft, HookInv
  <2>2. CASE FirstClose
    BY <2>2, Zenon DEF FirstClose, HookInv
  <2>3. CASE Wait
    BY <2>3, Zenon DEF Wait, HookInv
  <2> QED
    BY Zenon, <1>3, <2>1, <2>2, <2>3 DEF Hook
<1>4. CASE Informer
  <2>1. CASE InformerList \/ HandlerClose
    BY <2>1 DEF InformerList, HandlerClose, HookInv
  <2>3. CASE HandlerList
    <3>1. UNCHANGED <<hook, closed>>
      BY Zenon, <2>3 DEF HandlerList
    <3>2. CASE /\ handler' = IF NoneLeft THEN "close" ELSE "idle"
               /\ listed' = (listed \/ attached = {})
      <4>1. (listed => listed') /\ (attached = {} => listed')
        BY <3>2, Zenon
      <4>2. handler' = "close" => attached = {}
        BY Zenon, <3>2 DEF NoneLeft
      <4> QED
        BY <3>1, <4>1, <4>2, Zenon DEF HookInv
    <3>3. CASE handler' = "idle" /\ UNCHANGED listed
      BY Zenon, <3>1, <3>3 DEF HookInv
    <3> QED
      BY <2>3, <3>2, <3>3, Zenon DEF HandlerList
  <2>2. ASSUME NEW a \in Attachments, Deleted(a) \/ Tombstone(a) PROVE HookInv'
    BY <2>2 DEF Deleted, Tombstone, HookInv
  <2> QED
    BY Zenon, <1>4, <2>1, <2>2, <2>3 DEF Informer, Inform
<1>5. CASE Start
  BY Zenon, <1>5 DEF Start, HookInv
<1>6. ASSUME NEW a \in Attachments, DeleteAttachment(a) \/ AttachmentUpdated(a) PROVE HookInv'
  BY <1>6 DEF DeleteAttachment, AttachmentUpdated, HookInv
<1>7. (WatcherNext /\ UNCHANGED <<drained, hookVars>>) \/ Drain \/ DeleteNode \/ UNCHANGED allVars
        => UNCHANGED hookVars
  BY Zenon DEF Drain, DeleteNode, allVars
<1> QED
  BY Zenon, <1>1, <1>2, <1>3, <1>4, <1>5, <1>6, <1>7 DEF LifecycleNext

-----------------------------------------------------------------------------
(* The theorems *)

\* Every step keeps the invariant of the watcher: a drain only adds its taint.
LEMMA NextKeeps ==
    ASSUME WatcherInv, [LifecycleNext]_allVars
    PROVE  WatcherInv'
<1>1. CASE WatcherNext /\ UNCHANGED <<drained, hookVars>>
  BY Zenon, <1>1, WatcherKeeps
<1>2. CASE UNCHANGED <<taints, exists, drained, watcherVars>> \/ DeleteNode
  <2>1. UNCHANGED <<taints, drained, allocatable, seen, main, attempt, mutex, cancelled>>
    BY Zenon, <1>2 DEF watcherVars, DeleteNode
  <2>2. exists' = exists \/ exists' = FALSE
    BY Zenon, <1>2 DEF DeleteNode
  <2>3. WatcherTypeOK'
    BY Zenon, <2>1, <2>2 DEF WatcherInv, WatcherTypeOK
  <2> QED
    BY Zenon, <2>1, <2>3, WatchKeeps
<1>3. CASE Drain
  <2>1. UNCHANGED <<exists, allocatable, seen, main, attempt, mutex, cancelled>> /\ taints' = taints \cup {"drain"}
    BY Zenon, <1>3 DEF Drain, watcherVars
  <2>2. WatcherTypeOK'
    BY Zenon, <2>1 DEF WatcherInv, WatcherTypeOK, Taints
  <2> QED
    BY Zenon, <2>1, <2>2, WatchKeeps
<1> QED
  BY Zenon, <1>1, <1>2, <1>3 DEF LifecycleNext, LookAtNode, Hook, Informer, DeleteNode, allVars

\* The invariant of the watcher is inductive.
THEOREM WatcherInvariant == LifecycleSpec => []WatcherInv
<1>1. LifecycleInit => WatcherInv
  <2> SUFFICES ASSUME LifecycleInit PROVE WatcherInv
    OBVIOUS
  <2>1. WatcherTypeOK /\ \A t \in Threads : attempt[t].pc = "idle"
    BY Zenon, AttemptRecords DEF LifecycleInit, WatcherInit, WatcherTypeOK, Taints
  <2> QED
    BY Zenon, <2>1 DEF LifecycleInit, WatcherInit, WatcherInv, RemovedWhenAllocatable, PatchesWhenAllocatable,
                OneAttempt, DrainSeen, Threads
<1> QED
  BY <1>1, NextKeeps, PTL DEF LifecycleSpec

\* From the moment a node is drained until it is not, the hook does not skip the wait: the
\* watcher's patch never undoes the taint of a drain that came after its copy of the Node.
THEOREM DrainNeverSkipped == LifecycleSpec => DrainNotSkipped
<1>1. ASSUME WatcherInv, [LifecycleNext]_allVars
      PROVE  [drained /\ hook # "skipped" => hook' # "skipped"]_allVars
  <2> SUFFICES ASSUME LifecycleNext, drained, hook # "skipped" PROVE hook' # "skipped"
    BY Zenon, <1>1
  <2>1. CASE UNCHANGED hookVars
    BY Zenon, <2>1 DEF hookVars
  <2>2. CASE LookAtNode
    BY Zenon, <1>1, <2>2 DEF LookAtNode, Look, WatcherInv, DrainSeen
  <2>3. CASE Hook
    BY Zenon, <2>3 DEF Hook, FirstList, FirstClose, Wait
  <2>4. CASE Informer
    BY Zenon, <2>4 DEF Informer, Inform, InformerList, HandlerList, HandlerClose, Deleted, Tombstone
  <2>5. CASE Start \/ \E a \in Attachments : DeleteAttachment(a) \/ AttachmentUpdated(a)
    BY Zenon, <2>5 DEF Start, DeleteAttachment, AttachmentUpdated
  <2>6. (WatcherNext /\ UNCHANGED <<drained, hookVars>>) \/ Drain \/ DeleteNode => UNCHANGED hookVars
    BY Zenon DEF Drain, DeleteNode
  <2> QED
    BY Zenon, <2>1, <2>2, <2>3, <2>4, <2>5, <2>6 DEF LifecycleNext
<1> QED
  BY <1>1, WatcherInvariant, PTL DEF LifecycleSpec, DrainNotSkipped

\* The taint agent-not-ready stays on the Node until the CSINode says how many volumes the
\* node may have, whichever of the two threads removes it and whatever calls fail.
THEOREM RemovedOnlyWhenAllocatable == LifecycleSpec => []RemovedWhenAllocatable
<1>1. WatcherInv => RemovedWhenAllocatable
  BY Zenon DEF WatcherInv
<1> QED
  BY <1>1, WatcherInvariant, PTL

\* One thread at a time is in attemptTaintRemoval, and the mutex says which.
THEOREM AlwaysOneAttempt == LifecycleSpec => []OneAttempt
<1>1. WatcherInv => OneAttempt
  BY Zenon DEF WatcherInv
<1> QED
  BY <1>1, WatcherInvariant, PTL

\* A hook that waited and finished has seen that no VolumeAttachment of the Node was left.
THEOREM AlwaysFinishedAfterAll == LifecycleSpec => []FinishedAfterAll
<1>1. LifecycleInit => HookInv
  BY Zenon DEF LifecycleInit, HookInit, HookInv
<1>2. HookInv => FinishedAfterAll
  BY Zenon DEF HookInv, FinishedAfterAll
<1> QED
  BY <1>1, <1>2, HookKeeps, PTL DEF LifecycleSpec

-----------------------------------------------------------------------------
(* VolumeInitialization: entries of a cache expire, and a publish waits long enough *)

\* EC2 has initialized the volume, if it lists the state of those it has not.
Usable(v) == ListsState => status[v] # "initializing"

\* A status in the cache of the publishes is one that EC2 has said.
CacheTruthful ==
    which = "volumeInitializations" =>
        \A v \in Volumes : Present(v) =>
            /\ values[v].value # "bad"
            /\ values[v].value = "initialized" => Usable(v)

\* So are the status on its way to a publish, and the one it was answered with.
CallTruthful(c) ==
    /\ call[c].pc # "idle" => which = "volumeInitializations"
    /\ call[c].said \in {"initialized", "other"} => Usable(call[c].vol)
    /\ call[c].pc = "parse" => call[c].said # "none"
    /\ call[c].ok => Usable(call[c].vol)

Publishes ==
    [pc : {"idle", "look", "wait", "describe", "parse"}, vol : Volumes, asap : BOOLEAN,
     said : {"none", "initialized", "other", "estimate", "slow"}, done : BOOLEAN, ok : BOOLEAN]

PublishInv ==
    /\ PublishTypeOK
    /\ EntriesExpire
    /\ CacheTruthful
    /\ \A c \in Callers : CallTruthful(c)

-----------------------------------------------------------------------------
(* The cache *)

\* There is no timer 0, and the value of an entry that is not there is a value.
LEMMA NoTimer == 0 \notin Timers /\ Absent \in [value : Values, timer : Timers \cup {0}]
<1>1. (CHOOSE v \in Values : TRUE) \in Values
  BY CacheAssumption
<1> QED
  BY <1>1, TimersAssumption DEF Timers, Absent

\* An access to an entry starts its timer.
LEMMA ResetExpires ==
    ASSUME CacheTypeOK, NEW k \in Keys, Present(k), Reset(k)
    PROVE  /\ armed' \in [Keys -> SUBSET Timers] /\ late' = late /\ touched' \in [Keys -> BOOLEAN]
           /\ values[k].timer \in armed'[k]
           /\ \A j \in Keys : j # k => armed'[j] = armed[j]
<1>1. values[k].timer \in Timers
  BY DEF CacheTypeOK, Present
<1>2. touched' \in [Keys -> BOOLEAN]
  <2> DEFINE b == late[k][values[k].timer] > 0
  <2>1. b \in BOOLEAN
    OBVIOUS
  <2>2. touched' = [touched EXCEPT ![k] = b] /\ touched \in [Keys -> BOOLEAN]
    BY DEF Reset, CacheTypeOK
  <2> HIDE DEF b
  <2> QED
    BY <2>1, <2>2, Zenon
<1> QED
  BY <1>1, <1>2 DEF Reset, CacheTypeOK

\* Get keeps the types and leaves no entry without a timer.
LEMMA GetExpires ==
    ASSUME CacheTypeOK, EntriesExpire, NEW k \in Keys, Get(k)
    PROVE  CacheTypeOK' /\ EntriesExpire' /\ values' = values
<1>1. CASE Present(k)
  <2>1. Reset(k) /\ values' = values
    BY <1>1 DEF Get
  <2> QED
    BY <1>1, <2>1, ResetExpires DEF CacheTypeOK, EntriesExpire, Present
<1>2. CASE ~Present(k)
  BY <1>2 DEF Get, cacheVars, CacheTypeOK, EntriesExpire, Present
<1> QED
  BY <1>1, <1>2

\* So does Set, which changes no other entry.
LEMMA SetExpires ==
    ASSUME CacheTypeOK, EntriesExpire, NEW k \in Keys, NEW v \in Values, Set(k, v)
    PROVE  /\ CacheTypeOK' /\ EntriesExpire'
           /\ values'[k].value = v
           /\ \A j \in Keys : j # k => values'[j] = values[j]
<1>1. CASE Present(k)
  <2>1. Reset(k) /\ values' = [values EXCEPT ![k].value = v]
    BY <1>1 DEF Set
  <2>2. /\ values' \in [Keys -> [value : Values, timer : Timers \cup {0}]]
        /\ values'[k].value = v /\ values'[k].timer = values[k].timer
        /\ \A j \in Keys : j # k => values'[j] = values[j]
    BY <2>1 DEF CacheTypeOK
  <2>3. /\ armed' \in [Keys -> SUBSET Timers] /\ late' = late /\ touched' \in [Keys -> BOOLEAN]
        /\ values[k].timer \in armed'[k]
        /\ \A j \in Keys : j # k => armed'[j] = armed[j]
    BY <1>1, <2>1, ResetExpires
  <2> QED
    BY Zenon, <2>2, <2>3 DEF CacheTypeOK, EntriesExpire, Present
<1>2. CASE ~Present(k)
  <2>1. PICK t \in Timers \ armed[k] :
          /\ late[k][t] = 0
          /\ values' = [values EXCEPT ![k] = [value |-> v, timer |-> t]]
          /\ armed' = [armed EXCEPT ![k] = @ \cup {t}]
          /\ touched' = [touched EXCEPT ![k] = FALSE]
          /\ UNCHANGED late
    BY <1>2 DEF Set
  <2> QED
    BY <2>1, NoTimer DEF CacheTypeOK, EntriesExpire, Present
<1> QED
  BY <1>1, <1>2

\* So does Remove.
LEMMA RemoveExpires ==
    ASSUME CacheTypeOK, EntriesExpire, NEW k \in Keys, Remove(k)
    PROVE  /\ CacheTypeOK' /\ EntriesExpire'
           /\ \A j \in Keys : Present(j)' => values'[j] = values[j]
BY NoTimer DEF CacheTypeOK, EntriesExpire, Remove, Present, Absent

\* So do a timer that goes off, whose goroutine is now late, and the late goroutine, which
\* deletes what it finds.
LEMMA ClockExpires ==
    ASSUME CacheTypeOK, EntriesExpire, NEW k \in Keys, NEW t \in Timers, Clock(k, t)
    PROVE  /\ CacheTypeOK' /\ EntriesExpire'
           /\ \A j \in Keys : Present(j)' => values'[j] = values[j]
<1>1. CASE GoOff(k, t)
  <2>1. late[k][t] \in 0..MaxLate /\ late[k][t] < MaxLate
    BY <1>1 DEF GoOff, CacheTypeOK
  <2>2. CacheTypeOK'
    BY <1>1, <2>1, TimersAssumption DEF GoOff, CacheTypeOK
  <2> QED
    BY <1>1, <2>1, <2>2, NoTimer, TimersAssumption DEF GoOff, CacheTypeOK, EntriesExpire, Present
<1>2. CASE Delete(k, t)
  <2>1. late[k][t] \in 0..MaxLate /\ late[k][t] > 0
    BY <1>2 DEF Delete, CacheTypeOK
  <2>2. CacheTypeOK'
    BY <1>2, <2>1, NoTimer, TimersAssumption DEF Delete, CacheTypeOK
  <2> QED
    BY <1>2, <2>1, <2>2, NoTimer, TimersAssumption
       DEF Delete, CacheTypeOK, EntriesExpire, Present, Absent
<1> QED
  BY <1>1, <1>2 DEF Clock

-----------------------------------------------------------------------------
(* The publishes *)

\* A caller that has no call.
LEMMA IdlePublish == NoPublish \in Publishes /\ NoPublish.pc = "idle" /\ NoPublish.said = "none" /\ ~NoPublish.ok
<1> DEFINE w == CHOOSE v \in Volumes : TRUE
<1>1. w \in Volumes
  BY CacheAssumption
<1>2. NoPublish = [pc |-> "idle", vol |-> w, asap |-> FALSE, said |-> "none", done |-> FALSE, ok |-> FALSE]
  BY Zenon DEF NoPublish
<1> HIDE DEF w
<1> QED
  BY <1>1, <1>2 DEF Publishes

\* The first state.
LEMMA PublishInitInv == PublishInit => PublishInv
<1> SUFFICES ASSUME PublishInit PROVE PublishInv
  OBVIOUS
<1>1. CacheTypeOK /\ \A k \in Keys : ~Present(k)
  BY NoTimer, TimersAssumption DEF PublishInit, CacheInit, CacheTypeOK, Present, Absent
<1>2. NoPublish.vol \in Volumes
  BY CacheAssumption DEF NoPublish
<1>3. PublishTypeOK
  BY <1>1, <1>2 DEF PublishInit, PublishTypeOK, NoPublish
<1> QED
  BY <1>1, <1>3, CacheAssumption DEF PublishInit, PublishInv, EntriesExpire, CacheTruthful, CallTruthful, NoPublish

\* What EC2 says of a volume has one of four forms, and those taken for "initialized" only when
\* it is.
LEMMA SaysTruth ==
    ASSUME PublishTypeOK, NEW v \in Volumes, NEW said \in Says(v)
    PROVE  /\ said \in {"initialized", "other", "estimate", "slow"}
           /\ said \in {"initialized", "other"} => Usable(v)
<1>1. status[v] \in {"initializing", "late", "initialized"}
  BY DEF PublishTypeOK
<1> QED
  BY <1>1, ListsStateAssumption DEF Says, Usable

\* A step that gives a publish a record that is right, and nothing but the cache besides.
LEMMA CallChanges ==
    ASSUME PublishInv, NEW c \in Callers, NEW r \in Publishes, call' = [call EXCEPT ![c] = r],
           UNCHANGED <<which, status>>, r.pc # "idle" => which = "volumeInitializations",
           r.said \in {"initialized", "other"} => Usable(r.vol),
           r.pc = "parse" => r.said # "none", r.ok => Usable(r.vol)
    PROVE  call' \in [Callers -> Publishes] /\ \A d \in Callers : CallTruthful(d)'
<1>1. call \in [Callers -> Publishes]
  BY DEF PublishInv, PublishTypeOK, Publishes
<1>2. ASSUME NEW d \in Callers PROVE CallTruthful(d)'
  BY <1>1 DEF PublishInv, CallTruthful, Usable
<1> QED
  BY <1>1, <1>2

\* Answering a publish.
LEMMA AnswerTruthful ==
    ASSUME PublishInv, NEW c \in Callers, UNCHANGED <<which, status>>,
           \/ Answer(c, FALSE)
           \/ Answer(c, TRUE) /\ Usable(call[c].vol)
    PROVE  call' \in [Callers -> Publishes] /\ \A d \in Callers : CallTruthful(d)'
<1>1. call[c].vol \in Volumes
  BY DEF PublishInv, PublishTypeOK
<1>2. NoPublish \in Publishes /\ NoPublish.pc = "idle" /\ NoPublish.said = "none" /\ ~NoPublish.ok
  BY IdlePublish
<1>3. CASE Answer(c, FALSE)
  <2> DEFINE r == [NoPublish EXCEPT !.vol = call[c].vol, !.ok = FALSE]
  <2>1. r \in Publishes /\ r.pc = "idle" /\ r.said = "none" /\ r.vol = call[c].vol /\ r.ok = FALSE
    BY Zenon, <1>1, <1>2 DEF Publishes
  <2>2. call' = [call EXCEPT ![c] = r]
    BY <1>3, Zenon DEF Answer
  <2> HIDE DEF r
  <2> QED
    BY Zenon, <1>3, <2>1, <2>2, CallChanges
<1>4. CASE Answer(c, TRUE) /\ Usable(call[c].vol)
  <2> DEFINE r == [NoPublish EXCEPT !.vol = call[c].vol, !.ok = TRUE]
  <2>1. r \in Publishes /\ r.pc = "idle" /\ r.said = "none" /\ r.vol = call[c].vol /\ r.ok = TRUE
    BY Zenon, <1>1, <1>2 DEF Publishes
  <2>2. call' = [call EXCEPT ![c] = r]
    BY <1>4, Zenon DEF Answer
  <2> HIDE DEF r
  <2> QED
    BY Zenon, <1>4, <2>1, <2>2, CallChanges
<1> QED
  BY Zenon, <1>3, <1>4

\* No publish is answered or told anything: what EC2 has said stays true.
LEMMA CallsKeep ==
    ASSUME PublishInv, UNCHANGED <<which, call>>,
           \A v \in Volumes : status[v] # "initializing" => status'[v] # "initializing"
    PROVE  call' \in [Callers -> Publishes] /\ \A d \in Callers : CallTruthful(d)'
<1>1. call \in [Callers -> Publishes] /\ \A d \in Callers : call[d].vol \in Volumes
  BY DEF PublishInv, PublishTypeOK, Publishes
<1> QED
  BY <1>1 DEF PublishInv, CallTruthful, Usable

\* A step that leaves the cache alone.
LEMMA CacheKeeps ==
    ASSUME PublishInv, UNCHANGED <<values, armed, late, touched, which>>,
           \A v \in Volumes : status[v] # "initializing" => status'[v] # "initializing"
    PROVE  CacheTypeOK' /\ EntriesExpire' /\ CacheTruthful'
BY DEF PublishInv, PublishTypeOK, CacheTypeOK, EntriesExpire, CacheTruthful, Present, Usable

\* A step that puts nothing in the cache.
LEMMA CacheShrinks ==
    ASSUME PublishInv, CacheTypeOK', UNCHANGED <<which, status>>,
           \A v \in Volumes : Present(v)' => values'[v] = values[v]
    PROVE  CacheTruthful'
BY DEF PublishInv, PublishTypeOK, CacheTypeOK, CacheTruthful, Present, Usable

\* Looking the status up.
LEMMA LookKeeps ==
    ASSUME PublishInv, NEW c \in Callers, IsVolumeInitialized(c)
    PROVE  PublishInv'
<1> DEFINE v == call[c].vol
<1>1. v \in Volumes /\ v \in Keys /\ which = "volumeInitializations" /\ call[c] \in Publishes
  BY CacheAssumption DEF PublishInv, PublishTypeOK, IsVolumeInitialized, CallTruthful, Publishes
<1>2. CacheTypeOK' /\ EntriesExpire' /\ values' = values
  BY <1>1, GetExpires DEF IsVolumeInitialized, PublishInv, PublishTypeOK
<1>3. UNCHANGED <<which, status>>
  BY DEF IsVolumeInitialized
<1>4. CacheTruthful'
  BY <1>2, <1>3, CacheShrinks
<1>5. call' \in [Callers -> Publishes] /\ \A d \in Callers : CallTruthful(d)'
  <2>1. CASE ~Present(v)
    <3> DEFINE r == [call[c] EXCEPT !.pc = "describe", !.asap = TRUE]
    <3>1. call' = [call EXCEPT ![c] = r]
      BY Zenon, <2>1 DEF IsVolumeInitialized, PublishInv, PublishTypeOK
    <3> QED
      BY ZenonT(60), <1>1, <1>3, <3>1, CallChanges DEF Publishes, PublishInv, CallTruthful
  <2>2. CASE Present(v)
    <3>1. values[v].value \in {"initialized", "estimate", "slow"}
      BY <1>1, <2>2, CacheAssumption DEF PublishInv, PublishTypeOK, CacheTypeOK, CacheTruthful
    <3>2. CASE values[v].value = "initialized"
      BY Zenon, <1>1, <1>3, <2>2, <3>2, AnswerTruthful DEF IsVolumeInitialized, PublishInv, CacheTruthful
    <3>3. CASE values[v].value = "slow"
      <4> DEFINE r == [call[c] EXCEPT !.pc = "describe", !.asap = FALSE]
      <4>1. call' = [call EXCEPT ![c] = r]
        BY Zenon, <2>2, <3>3 DEF IsVolumeInitialized, PublishInv, PublishTypeOK
      <4> QED
        BY ZenonT(60), <1>1, <1>3, <4>1, CallChanges DEF Publishes, PublishInv, CallTruthful
    <3>4. CASE values[v].value = "estimate"
      <4> DEFINE r == [call[c] EXCEPT !.pc = "wait"]
      <4>1. call' = [call EXCEPT ![c] = r]
        BY <2>2, <3>4 DEF IsVolumeInitialized, PublishInv, PublishTypeOK, Go
      <4> QED
        BY ZenonT(60), <1>1, <1>3, <4>1, CallChanges DEF Publishes, PublishInv, CallTruthful
    <3> QED
      BY <3>1, <3>2, <3>3, <3>4
  <2> QED
    BY <2>1, <2>2
<1> QED
  BY <1>2, <1>3, <1>4, <1>5 DEF PublishInv, PublishTypeOK, Publishes

\* Waiting and describing.
LEMMA WaitKeeps ==
    ASSUME PublishInv, NEW c \in Callers,
           \/ WaitUntilTimeOrContext(c) \/ DescribeVolumeStatus(c)
           \/ DescribeVolumeStatusFails(c) \/ ContextDone(c)
    PROVE  PublishInv'
<1>1. UNCHANGED <<values, armed, late, touched, which, status>>
  BY Zenon DEF WaitUntilTimeOrContext, DescribeVolumeStatus, DescribeVolumeStatusFails, ContextDone
<1>2. CacheTypeOK' /\ EntriesExpire' /\ CacheTruthful'
  BY <1>1, CacheKeeps
<1>3. call[c] \in Publishes /\ call[c].vol \in Volumes /\ CallTruthful(c)
      /\ call \in [Callers -> Publishes]
  BY DEF PublishInv, PublishTypeOK, Publishes
<1>4. call' \in [Callers -> Publishes] /\ \A d \in Callers : CallTruthful(d)'
  <2>1. CASE WaitUntilTimeOrContext(c) /\ call[c].done
    BY Zenon, <1>1, <2>1, AnswerTruthful DEF WaitUntilTimeOrContext
  <2>2. CASE WaitUntilTimeOrContext(c) /\ ~call[c].done
    <3> DEFINE r == [call[c] EXCEPT !.pc = "describe", !.asap = TRUE]
    <3>1. call' = [call EXCEPT ![c] = r]
      BY Zenon, <1>3, <2>2 DEF WaitUntilTimeOrContext
    <3> QED
      BY Zenon, <1>1, <1>3, <2>2, <3>1, CallChanges DEF Publishes, CallTruthful, WaitUntilTimeOrContext
  <2>3. CASE DescribeVolumeStatus(c)
    <3>1. PICK said \in Says(call[c].vol) : call' = [call EXCEPT ![c].pc = "parse", ![c].said = said]
      BY Zenon, <2>3 DEF DescribeVolumeStatus
    <3>2. /\ said \in {"initialized", "other", "estimate", "slow"}
          /\ said \in {"initialized", "other"} => Usable(call[c].vol)
      BY <1>3, SaysTruth DEF PublishInv
    <3> DEFINE r == [call[c] EXCEPT !.pc = "parse", !.said = said]
    <3>3. call' = [call EXCEPT ![c] = r]
      BY Zenon, <1>3, <3>1
    <3>4. /\ r \in Publishes /\ r.pc = "parse" /\ r.said = said /\ r.vol = call[c].vol
          /\ r.ok = call[c].ok /\ call[c].pc = "describe"
      BY Zenon, <1>3, <2>3, <3>2 DEF Publishes, DescribeVolumeStatus
    <3> HIDE DEF r
    <3> QED
      BY Zenon, <1>1, <1>3, <3>2, <3>3, <3>4, CallChanges DEF CallTruthful
  <2>4. CASE DescribeVolumeStatusFails(c)
    BY Zenon, <1>1, <2>4, AnswerTruthful DEF DescribeVolumeStatusFails
  <2>5. CASE ContextDone(c)
    <3> DEFINE r == [call[c] EXCEPT !.done = TRUE]
    <3>1. call' = [call EXCEPT ![c] = r]
      BY <1>3, <2>5 DEF ContextDone
    <3>2. /\ r \in Publishes /\ r.pc = call[c].pc /\ r.said = call[c].said
          /\ r.vol = call[c].vol /\ r.ok = call[c].ok
      BY Zenon, <1>3 DEF Publishes
    <3> HIDE DEF r
    <3> QED
      BY ZenonT(60), <1>1, <1>3, <3>1, <3>2, CallChanges DEF CallTruthful
  <2> QED
    BY <2>1, <2>2, <2>3, <2>4, <2>5
<1> QED
  BY <1>1, <1>2, <1>4 DEF PublishInv, PublishTypeOK, Publishes

\* An answer of EC2 goes into the cache, and to the publish.
LEMMA ParseKeeps ==
    ASSUME PublishInv, NEW c \in Callers, Parse(c)
    PROVE  PublishInv'
<1> DEFINE v == call[c].vol
           said == call[c].said
<1>1. /\ v \in Keys /\ v \in Volumes /\ said \in {"initialized", "other", "estimate", "slow"}
      /\ call[c] \in Publishes /\ CallTruthful(c) /\ call[c].pc = "parse"
      /\ call \in [Callers -> Publishes] /\ UNCHANGED <<which, status>>
  BY CacheAssumption DEF PublishInv, PublishTypeOK, Publishes, Parse, CallTruthful
<1> DEFINE kept == IF said \in {"estimate", "slow"} THEN said ELSE "initialized"
<1>2. /\ Set(v, kept) /\ kept \in Values \ {"bad"}
      /\ kept = "initialized" => said \in {"initialized", "other"}
  BY <1>1, CacheAssumption DEF Parse, IsVolumeStatusInitializing
<1> HIDE DEF kept
<1>3. /\ CacheTypeOK' /\ EntriesExpire'
      /\ values'[v].value = kept
      /\ \A j \in Keys : j # v => values'[j] = values[j]
  BY <1>1, <1>2, SetExpires DEF PublishInv, PublishTypeOK
<1>4. CacheTruthful'
  BY <1>1, <1>2, <1>3, CacheAssumption DEF PublishInv, CacheTruthful, Present, CallTruthful, Usable
<1>5. call' \in [Callers -> Publishes] /\ \A d \in Callers : CallTruthful(d)'
  <2>1. CASE said \in {"estimate", "slow"}
    <3> DEFINE r == [call[c] EXCEPT !.pc = "look", !.said = "none", !.asap = FALSE]
    <3>1. call' = [call EXCEPT ![c] = r]
      BY Zenon, <1>1, <2>1 DEF Parse, IsVolumeStatusInitializing
    <3> QED
      BY Zenon, <1>1, <3>1, CallChanges DEF Publishes, CallTruthful
  <2>2. CASE said \in {"initialized", "other"} /\ said \notin {"estimate", "slow"}
    BY Zenon, <1>1, <2>2, AnswerTruthful DEF Parse, IsVolumeStatusInitializing, CallTruthful
  <2> QED
    BY Zenon, <1>1, <2>1, <2>2
<1> QED
  BY <1>1, <1>3, <1>4, <1>5 DEF PublishInv, PublishTypeOK, Publishes

\* A publish that begins.
LEMMA PublishKeeps ==
    ASSUME PublishInv, NEW c \in Callers, NEW v \in Volumes, Publish(c, v)
    PROVE  PublishInv'
<1>1. UNCHANGED <<values, armed, late, touched, which, status>> /\ which = "volumeInitializations"
  BY DEF Publish
<1>2. CacheTypeOK' /\ EntriesExpire' /\ CacheTruthful'
  BY <1>1, CacheKeeps
<1> DEFINE r == [NoPublish EXCEPT !.pc = "look", !.vol = v]
<1>3. call' = [call EXCEPT ![c] = r]
  BY DEF Publish
<1>4. r \in Publishes /\ r.pc = "look" /\ r.said = "none" /\ ~r.ok
  BY Zenon, IdlePublish DEF Publishes
<1> HIDE DEF r
<1>5. call' \in [Callers -> Publishes] /\ \A d \in Callers : CallTruthful(d)'
  BY Zenon, <1>1, <1>3, <1>4, CallChanges
<1> QED
  BY <1>1, <1>2, <1>5 DEF PublishInv, PublishTypeOK, Publishes

\* EC2, the other users of the cache, and time.
LEMMA OthersKeep ==
    ASSUME PublishInv, NEW v \in Volumes, Initialize(v) \/ UseID(v) \/ Pass(v)
    PROVE  PublishInv'
<1>1. CASE Initialize(v)
  <2>1. /\ UNCHANGED <<values, armed, late, touched, which, call>>
        /\ status' \in [Volumes -> {"initializing", "late", "initialized"}]
        /\ \A w \in Volumes : status[w] # "initializing" => status'[w] # "initializing"
    BY <1>1 DEF Initialize, PublishInv, PublishTypeOK
  <2>2. CacheTypeOK' /\ EntriesExpire' /\ CacheTruthful'
    BY <2>1, CacheKeeps
  <2>3. call' \in [Callers -> Publishes] /\ \A d \in Callers : CallTruthful(d)'
    BY <2>1, CallsKeep
  <2> QED
    BY <2>1, <2>2, <2>3 DEF PublishInv, PublishTypeOK, Publishes
<1>2. ASSUME CacheTypeOK', EntriesExpire', CacheTruthful', UNCHANGED <<which, call, status>>
      PROVE  PublishInv'
  <2>1. call' \in [Callers -> Publishes] /\ \A d \in Callers : CallTruthful(d)'
    BY <1>2, CallsKeep
  <2> QED
    BY <1>2, <2>1 DEF PublishInv, PublishTypeOK, Publishes
<1>3. CASE UseID(v)
  <2>1. /\ which = "likelyNotFoundVolumeIDs" /\ UNCHANGED <<which, call, status>>
        /\ Get(v) \/ Set(v, "bad") \/ Remove(v)
    BY <1>3 DEF UseID
  <2>2. CacheTypeOK' /\ EntriesExpire'
    BY <2>1, CacheAssumption, GetExpires, SetExpires, RemoveExpires DEF PublishInv, PublishTypeOK
  <2> QED
    BY <1>2, <2>1, <2>2 DEF CacheTruthful
<1>4. CASE Pass(v)
  <2>1. PICK t \in Timers : Clock(v, t) /\ UNCHANGED <<which, call, status>>
    BY <1>4 DEF Pass
  <2>2. /\ CacheTypeOK' /\ EntriesExpire'
        /\ \A j \in Keys : Present(j)' => values'[j] = values[j]
    BY <2>1, CacheAssumption, ClockExpires DEF PublishInv, PublishTypeOK
  <2>3. CacheTruthful'
    BY <2>1, <2>2, CacheAssumption, CacheShrinks
  <2> QED
    BY <1>2, <2>1, <2>2, <2>3
<1> QED
  BY <1>1, <1>3, <1>4

-----------------------------------------------------------------------------
(* The theorems *)

\* The invariant is inductive.
THEOREM VolumeInitializationInvariant == PublishSpec => []PublishInv
<1>1. ASSUME PublishInv, [PublishNext]_publishVars PROVE PublishInv'
  <2>1. CASE PublishNext
    <3>1. ASSUME NEW c \in Callers, Step(c) \/ ContextDone(c) PROVE PublishInv'
      BY <1>1, <3>1, LookKeeps, WaitKeeps, ParseKeeps DEF Step
    <3>2. ASSUME NEW c \in Callers, NEW v \in Volumes, Publish(c, v) PROVE PublishInv'
      BY <1>1, <3>2, PublishKeeps
    <3>3. ASSUME NEW v \in Volumes, Initialize(v) \/ UseID(v) \/ Pass(v) PROVE PublishInv'
      BY <1>1, <3>3, OthersKeep
    <3> QED
      BY <2>1, <3>1, <3>2, <3>3 DEF PublishNext
  <2>2. CASE UNCHANGED publishVars
    <3>1. UNCHANGED <<values, armed, late, touched, which, call, status>>
      BY <2>2 DEF publishVars
    <3>2. CacheTypeOK' /\ EntriesExpire' /\ CacheTruthful'
      BY <1>1, <3>1, CacheKeeps
    <3>3. call' \in [Callers -> Publishes] /\ \A d \in Callers : CallTruthful(d)'
      BY <1>1, <3>1, CallsKeep
    <3> QED
      BY <1>1, <3>1, <3>2, <3>3 DEF PublishInv, PublishTypeOK, Publishes
  <2> QED
    BY <1>1, <2>1, <2>2
<1> QED
  BY <1>1, PublishInitInv, PTL DEF PublishSpec

\* Whatever the order of accesses, timers and late goroutines of the expiring cache, an
\* entry has a timer that runs or a goroutine that is about to delete it.
THEOREM EntriesAlwaysExpire == PublishSpec => []EntriesExpire
<1>1. PublishInv => EntriesExpire
  BY DEF PublishInv
<1> QED
  BY <1>1, VolumeInitializationInvariant, PTL

\* A publish that waits for the initialization of its volume succeeds only when EC2 has
\* initialized it, with the cache and its expiry between them, if EC2 lists the state of the
\* volumes that it initializes.
THEOREM PublishedAlwaysInitialized == ListsState /\ PublishSpec => []PublishedInitialized
<1> SUFFICES ASSUME ListsState PROVE PublishSpec => []PublishedInitialized
  OBVIOUS
<1>1. PublishInv => PublishedInitialized
  BY DEF PublishInv, CallTruthful, Usable, PublishedInitialized
<1> QED
  BY <1>1, VolumeInitializationInvariant, PTL
=============================================================================
