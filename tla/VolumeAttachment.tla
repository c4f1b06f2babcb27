-------------------------- MODULE VolumeAttachment --------------------------
(***************************************************************************)
(* ControllerPublishVolume and ControllerUnpublishVolume, end to end: the  *)
(* controller's inFlight keys, AttachDisk and DetachDisk, the device       *)
(* manager, WaitForAttachmentState, and the part of EC2 they talk to.      *)
(*                                                                         *)
(* Each gRPC handler is a process of Procs.  Every EC2 call is a step of   *)
(* its own, so that what a handler read from DescribeInstances or          *)
(* DescribeVolumes may be stale when the handler uses it.                  *)
(***************************************************************************)
EXTENDS DeviceManager

CONSTANTS Procs,        \* gRPC handlers running at the same time
          Nodes,        \* instances
          MultiAttach,  \* volumes that may be attached to several nodes
          HiddenNames,  \* names taken in the AMI that DescribeInstances does not report
          MaxPolls,     \* attachmentBackoff.Steps
          Batching,     \* the option --batching: Describe calls go through batchers
          MaxCrashes    \* bound on controller restarts

ASSUME MaxPollsAssumption == MaxPolls \in Nat \ {0}

ASSUME BatchingAssumption == Batching \in BOOLEAN

ASSUME MaxCrashesAssumption == MaxCrashes \in Nat

ASSUME SomeVolumeAndNode == Volumes # {} /\ Nodes # {}

ASSUME MultiAttachAssumption == MultiAttach \subseteq Volumes

VARIABLES locks,     \* ControllerService.inFlight: keys volumeID+nodeID
          inFlight,  \* deviceManager.inFlight
          badNames,  \* cloud.likelyBadDeviceNames
          h,         \* the handlers' local state
          ec2,       \* EC2: attachment of a volume to a node
          volumes,   \* EC2: volumes that exist
          instances, \* EC2: instances that exist
          crashes

vars == <<locks, inFlight, badNames, h, ec2, volumes, instances, crashes>>

AttachmentStates == {"detached", "attaching", "attached", "detaching"}

Attachment == [state : AttachmentStates, at : Entry]

Detached == [state |-> "detached", at |-> NoEntry]

Pcs == {"idle", "getInstance", "device", "call", "wait", "stuck", "reattach",
        "release", "init", "reply"}

NoMappings == [v \in Volumes |-> NoEntry]

\* A handler: `snap` is the instance it described, `dev` its Device, `seen` the
\* variable `attachment` that verifyVolumeFunc captures, `polls` the backoff steps
\* used, `ok` whether the RPC is going to succeed.
Handler == [pc : Pcs, op : {"attach", "detach"}, vol : Volumes, node : Nodes,
            snap : [Volumes -> Entry], dev : Device, tainted : BOOLEAN,
            polls : 0..MaxPolls, seen : Entry, ok : BOOLEAN]

Fresh(op, v, n) == [pc |-> "getInstance", op |-> op, vol |-> v, node |-> n,
                    snap |-> NoMappings, dev |-> NoDevice, tainted |-> FALSE,
                    polls |-> 0, seen |-> NoEntry, ok |-> FALSE]

Idle == [Fresh("attach", CHOOSE v \in Volumes : TRUE, CHOOSE n \in Nodes : TRUE)
            EXCEPT !.pc = "idle"]

TypeOK ==
    /\ locks \subseteq Volumes \X Nodes
    /\ inFlight \in [Nodes -> [Volumes -> Entry]]
    /\ badNames \in [Nodes -> SUBSET Names]
    /\ h \in [Procs -> Handler]
    /\ ec2 \in [Nodes -> [Volumes -> Attachment]]
    /\ volumes \subseteq Volumes
    /\ instances \subseteq Nodes
    /\ crashes \in 0..MaxCrashes

Init ==
    /\ locks = {}
    /\ inFlight = [n \in Nodes |-> NoMappings]
    /\ badNames = [n \in Nodes |-> {}]
    /\ h = [p \in Procs |-> Idle]
    /\ ec2 = [n \in Nodes |-> [v \in Volumes |-> Detached]]
    /\ volumes = Volumes
    /\ instances = Nodes
    /\ crashes = 0

-----------------------------------------------------------------------------
(* EC2, as this code uses it *)

NamesTaken(n) == {ec2[n][v].at.name : v \in Volumes} \cup HiddenNames

\* AttachVolume can take effect: volume and instance exist, volume and name are free.
CanAttach(n, v, d) ==
    /\ v \in volumes
    /\ n \in instances
    /\ d \notin NamesTaken(n)
    /\ ec2[n][v] = Detached
    /\ v \notin MultiAttach => \A m \in Nodes : ec2[m][v] = Detached

\* On a multi-card instance EC2 uses card 0 when the request names none.
Attached(d, card) == [state |-> "attaching",
                      at |-> [name |-> d,
                              card |-> IF NumCards > 1 /\ card = NoCard THEN 0 ELSE card]]

DoAttach(n, v, d, card) == ec2' = [ec2 EXCEPT ![n][v] = Attached(d, card)]

DoDetach(n, v) == ec2' = [ec2 EXCEPT ![n][v].state = "detaching"]

FinishAttach(n, v) ==
    /\ ec2[n][v].state = "attaching"
    /\ ec2' = [ec2 EXCEPT ![n][v].state = "attached"]
    /\ UNCHANGED <<locks, inFlight, badNames, h, volumes, instances, crashes>>

FinishDetach(n, v) ==
    /\ ec2[n][v].state = "detaching"
    /\ ec2' = [ec2 EXCEPT ![n][v] = Detached]
    /\ UNCHANGED <<locks, inFlight, badNames, h, volumes, instances, crashes>>

\* An instance goes away, with its attachments.
TerminateInstance(n) ==
    /\ n \in instances
    /\ instances' = instances \ {n}
    /\ ec2' = [ec2 EXCEPT ![n] = [v \in Volumes |-> Detached]]
    /\ UNCHANGED <<locks, inFlight, badNames, h, volumes, crashes>>

-----------------------------------------------------------------------------
(* The controller *)

\* internal.InFlight.Insert: FALSE when the key is there already.
Insert(v, n) == <<v, n>> \notin locks

\* The RPC enters; when the key is in flight it answers Aborted and changes nothing.
Start(p, op, v, n) ==
    /\ h[p].pc = "idle"
    /\ Insert(v, n)
    /\ locks' = locks \cup {<<v, n>>}
    /\ h' = [h EXCEPT ![p] = Fresh(op, v, n)]
    /\ UNCHANGED <<inFlight, badNames, ec2, volumes, instances, crashes>>

ControllerPublishVolume(p, v, n) == Start(p, "attach", v, n)

ControllerUnpublishVolume(p, v, n) == Start(p, "detach", v, n)

\* The deferred inFlight.Delete, and the answer.
Reply(p) ==
    /\ h[p].pc = "reply"
    /\ locks' = locks \ {<<h[p].vol, h[p].node>>}
    /\ h' = [h EXCEPT ![p] = Idle]
    /\ UNCHANGED <<inFlight, badNames, ec2, volumes, instances, crashes>>

\* DeleteVolume: one EC2 call, refused while the volume is attached anywhere.
DeleteVolume(v) ==
    /\ v \in volumes
    /\ \A n \in Nodes : ec2[n][v] = Detached
    /\ volumes' = volumes \ {v}
    /\ UNCHANGED <<locks, inFlight, badNames, h, ec2, instances, crashes>>

\* The controller process dies; everything it kept in memory is gone.
Crash ==
    /\ crashes < MaxCrashes
    /\ crashes' = crashes + 1
    /\ locks' = {}
    /\ inFlight' = [n \in Nodes |-> NoMappings]
    /\ badNames' = [n \in Nodes |-> {}]
    /\ h' = [p \in Procs |-> Idle]
    /\ UNCHANGED <<ec2, volumes, instances>>

\* The expiring cache drops the likely bad names of a node.
ExpireBadNames(n) ==
    /\ badNames[n] # {}
    /\ badNames' = [badNames EXCEPT ![n] = {}]
    /\ UNCHANGED <<locks, inFlight, h, ec2, volumes, instances, crashes>>

-----------------------------------------------------------------------------
(* AttachDisk and DetachDisk *)

\* getInstance: the mappings as they are now; or ErrNotFound, which the controller turns
\* into the success of a detach; or another error.  No device is held yet.  In a batch
\* ErrNotFound also stands for a call that failed, the one for a single remembered ID
\* (NotFoundIsTrue of BatchedDescribe).
GetInstance(p) ==
    /\ h[p].pc = "getInstance"
    /\ \/ /\ h[p].node \in instances
          /\ h' = [h EXCEPT ![p].pc = "device",
                            ![p].snap = [v \in Volumes |-> ec2[h[p].node][v].at]]
       \/ /\ Batching \/ h[p].node \notin instances
          /\ h' = [h EXCEPT ![p].pc = "reply", ![p].ok = (h[p].op = "detach")]
       \/ h' = [h EXCEPT ![p].pc = "reply"]
    /\ UNCHANGED <<locks, inFlight, badNames, ec2, volumes, instances, crashes>>

\* AttachDisk: dm.NewDevice on the described instance; an assigned device skips the
\* AttachVolume call.
AttachNewDevice(p) ==
    LET n == h[p].node
        v == h[p].vol
        devs == NewDevice(h[p].snap, inFlight[n], v, badNames[n])
    IN  /\ h[p].pc = "device" /\ h[p].op = "attach"
        /\ \/ \E dev \in devs :
                /\ inFlight' = [inFlight EXCEPT ![n] = AddInFlight(inFlight[n], v, dev)]
                /\ h' = [h EXCEPT ![p].pc = IF dev.assigned THEN "wait" ELSE "call",
                                  ![p].dev = dev, ![p].snap = NoMappings]
           \/ /\ devs = {}
              /\ h' = [h EXCEPT ![p].pc = "reply", ![p].snap = NoMappings]
              /\ UNCHANGED inFlight
        /\ UNCHANGED <<locks, badNames, ec2, volumes, instances, crashes>>

DetachGetDevice(p) ==
    LET n == h[p].node
        v == h[p].vol
    IN  /\ h[p].pc = "device" /\ h[p].op = "detach"
        /\ \E dev \in GetDevice(h[p].snap, inFlight[n], v) :
             h' = [h EXCEPT ![p].pc = "call", ![p].dev = dev, ![p].snap = NoMappings]
        /\ UNCHANGED <<locks, inFlight, badNames, ec2, volumes, instances, crashes>>

\* ec2.AttachVolume: accepted; or refused because the name is in use, which is
\* recorded as likely bad; or failed otherwise, with or without having taken effect
\* (an answer lost to a timeout).  No failure taints the device.
AttachVolume(p) ==
    LET n == h[p].node
        v == h[p].vol
        d == h[p].dev.path
    IN  /\ h[p].pc = "call" /\ h[p].op = "attach"
        /\ \/ /\ CanAttach(n, v, d)
              /\ DoAttach(n, v, d, h[p].dev.card)
              /\ badNames' = [badNames EXCEPT ![n] = @ \ {d}]
              /\ h' = [h EXCEPT ![p].pc = "wait"]
           \/ /\ d \in NamesTaken(n)
              /\ badNames' = [badNames EXCEPT ![n] = @ \cup {d}]
              /\ h' = [h EXCEPT ![p].pc = "release"]
              /\ UNCHANGED ec2
           \/ /\ CanAttach(n, v, d)
              /\ DoAttach(n, v, d, h[p].dev.card)
              /\ h' = [h EXCEPT ![p].pc = "release"]
              /\ UNCHANGED badNames
           \/ /\ h' = [h EXCEPT ![p].pc = "release"]
              /\ UNCHANGED <<badNames, ec2>>
        /\ UNCHANGED <<locks, inFlight, volumes, instances, crashes>>

\* ec2.DetachVolume: accepted; or there is no such attachment, which DetachDisk turns
\* into ErrNotFound and the controller into success; or failed, with or without effect.
DetachVolume(p) ==
    LET n == h[p].node
        v == h[p].vol
    IN  /\ h[p].pc = "call" /\ h[p].op = "detach"
        /\ \/ /\ ec2[n][v] # Detached
              /\ DoDetach(n, v)
              /\ h' = [h EXCEPT ![p].pc = "wait"]
           \/ /\ ec2[n][v] = Detached
              /\ h' = [h EXCEPT ![p].pc = "release", ![p].ok = TRUE]
              /\ UNCHANGED ec2
           \/ /\ ec2[n][v] # Detached
              /\ DoDetach(n, v)
              /\ h' = [h EXCEPT ![p].pc = "release"]
           \/ /\ h' = [h EXCEPT ![p].pc = "release"]
              /\ UNCHANGED ec2
        /\ UNCHANGED <<locks, inFlight, badNames, volumes, instances, crashes>>

-----------------------------------------------------------------------------
(* WaitForAttachmentState: one step is one call of verifyVolumeFunc *)

\* The wait ends with an error: AttachDisk taints the device, DetachDisk does not.
Failed(hp) == [hp EXCEPT !.pc = "release", !.tainted = (hp.op = "attach")]

Succeeded(hp) == [hp EXCEPT !.pc = "release", !.ok = TRUE]

\* Wrong: the backoff starts again at its end.
AgainRestarted(hp) == [hp EXCEPT !.polls = IF @ + 1 < MaxPolls THEN @ + 1 ELSE 0]

\* verifyVolumeFunc returned (false, nil): the backoff allows MaxPolls calls.
Again(hp) == IF hp.polls + 1 < MaxPolls THEN [hp EXCEPT !.polls = @ + 1] ELSE Failed(hp)

\* A single-attach volume that shows two attachments is an error.
MultipleAttachments(v) ==
    v \notin MultiAttach /\ \E m, k \in Nodes : m # k /\ ec2[m][v] # Detached /\ ec2[k][v] # Detached

\* `attachment` keeps its value from an earlier poll when this one finds none.
Captured(hp, a) == IF a = Detached THEN hp.seen ELSE a.at

Mismatch(hp, at) ==
    at # NoEntry /\ \/ at.name # hp.dev.path
                    \/ hp.dev.card # NoCard /\ at.card # hp.dev.card

\* Wrong: an attachment that is still being made counts as made.
VerifyAttachedEarly(hp, a) ==
    LET now == [hp EXCEPT !.seen = Captured(hp, a)]
    IN  IF Mismatch(hp, now.seen) THEN Again(now)
        ELSE IF a.state \in {"attaching", "attached"} THEN Succeeded(now)
        ELSE Again(now)

\* Waiting for "attached", with an attachment that is not stuck.
VerifyAttached(hp, a) ==
    LET now == [hp EXCEPT !.seen = Captured(hp, a)]
    IN  IF Mismatch(hp, now.seen) THEN Again(now)
        ELSE IF hp.dev.assigned /\ a.state = "detached" THEN [now EXCEPT !.pc = "reattach"]
        ELSE IF a.state = "attached" THEN Succeeded(now)
        ELSE Again(now)

\* Wrong: an attachment that is still going away counts as gone.
VerifyDetachedEarly(hp, a) ==
    IF a.state \in {"detached", "detaching"} THEN Succeeded(hp) ELSE Again(hp)

\* Waiting for "detached".
VerifyDetached(hp, a) == IF a.state = "detached" THEN Succeeded(hp) ELSE Again(hp)

\* An attachment in "attaching" for longer than stuckAttachingTimeout is given up.
VerifyStuck(hp, a) ==
    IF a.state = "attaching" THEN {[hp EXCEPT !.pc = "stuck", !.seen = a.at]} ELSE {}

Verify(hp, a) ==
    IF MultipleAttachments(hp.vol) THEN {Failed(hp)}
    ELSE IF hp.op = "detach" THEN {VerifyDetached(hp, a)}
    ELSE {VerifyAttached(hp, a)} \cup VerifyStuck(hp, a)

\* The context is done, or DescribeVolumes fails and the error is ignored, or it fails
\* with VolumeNotFound, or the volume is examined.  VolumeNotFound fails a whole batch: it
\* may be about the volume of another RPC.
Wait(p) ==
    LET hp == h[p]
    IN  /\ hp.pc = "wait"
        /\ \/ h' = [h EXCEPT ![p] = Failed(hp)]
           \/ h' = [h EXCEPT ![p] = Again(hp)]
           \/ /\ Batching \/ hp.vol \notin volumes
              /\ h' = [h EXCEPT ![p] = IF hp.op = "detach" THEN Succeeded(hp) ELSE Failed(hp)]
           \/ /\ hp.vol \in volumes
              /\ \E next \in Verify(hp, ec2[hp.node][hp.vol]) : h' = [h EXCEPT ![p] = next]
        /\ UNCHANGED <<locks, inFlight, badNames, ec2, volumes, instances, crashes>>

\* The DetachVolume call for a stuck attachment; the wait fails whatever it answers.
DetachStuck(p) ==
    /\ h[p].pc = "stuck"
    /\ h' = [h EXCEPT ![p] = Failed(h[p])]
    /\ \/ ec2[h[p].node][h[p].vol] # Detached /\ DoDetach(h[p].node, h[p].vol)
       \/ UNCHANGED ec2
    /\ UNCHANGED <<locks, inFlight, badNames, volumes, instances, crashes>>

\* The AttachVolume call for a device DescribeInstances reported and DescribeVolumes
\* did not: the wait fails whatever it answers, so that the RPC is retried.
Reattach(p) ==
    LET n == h[p].node
        v == h[p].vol
        d == h[p].dev.path
    IN  /\ h[p].pc = "reattach"
        /\ h' = [h EXCEPT ![p] = Failed(h[p])]
        /\ \/ CanAttach(n, v, d) /\ DoAttach(n, v, d, h[p].dev.card)
           \/ UNCHANGED ec2
        /\ UNCHANGED <<locks, inFlight, badNames, volumes, instances, crashes>>

\* The deferred device.Release: forced in DetachDisk, skipped for a tainted device in
\* AttachDisk.
ReleaseDevice(p) ==
    LET n == h[p].node
        force == h[p].op = "detach"
    IN  /\ h[p].pc = "release"
        /\ inFlight' = IF h[p].tainted /\ ~force THEN inFlight
                       ELSE [inFlight EXCEPT ![n] = Release(@, h[p].vol, h[p].dev.path)]
        /\ h' = [h EXCEPT ![p].pc = IF h[p].ok /\ ~force THEN "init" ELSE "reply"]
        /\ UNCHANGED <<locks, badNames, ec2, volumes, instances, crashes>>

\* The loop of ControllerPublishVolume that blocks until the volume is initialized when
\* the volume context asks for it; an error of IsVolumeInitialized fails the RPC.
AwaitInitialized(p) ==
    /\ h[p].pc = "init"
    /\ \/ h' = [h EXCEPT ![p].pc = "reply"]
       \/ h' = [h EXCEPT ![p].pc = "reply", ![p].ok = FALSE]
    /\ UNCHANGED <<locks, inFlight, badNames, ec2, volumes, instances, crashes>>

HandlerStep(p) ==
    \/ GetInstance(p)
    \/ AttachNewDevice(p)
    \/ DetachGetDevice(p)
    \/ AttachVolume(p)
    \/ DetachVolume(p)
    \/ Wait(p)
    \/ DetachStuck(p)
    \/ Reattach(p)
    \/ ReleaseDevice(p)
    \/ AwaitInitialized(p)
    \/ Reply(p)

Next ==
    \/ \E p \in Procs, v \in Volumes, n \in Nodes :
          ControllerPublishVolume(p, v, n) \/ ControllerUnpublishVolume(p, v, n)
    \/ \E p \in Procs : HandlerStep(p)
    \/ \E v \in Volumes : DeleteVolume(v)
    \/ \E n \in Nodes : ExpireBadNames(n) \/ TerminateInstance(n)
    \/ \E n \in Nodes, v \in Volumes : FinishAttach(n, v) \/ FinishDetach(n, v)
    \/ Crash

\* A handler that has started runs to its end: goroutines are scheduled, EC2 calls and
\* backoff steps return.
Fairness == \A p \in Procs : WF_vars(HandlerStep(p))

Spec == Init /\ [][Next]_vars

FairSpec == Spec /\ Fairness

-----------------------------------------------------------------------------
(* Properties *)

Holding == {"call", "wait", "stuck", "reattach", "release"}

\* No two volumes in flight on a node have the same device name: "to avoid a race
\* condition where we assign a device mapping and then get a second request before we
\* attach the volume" (deviceManager.inFlight).
InFlightNamesDistinct ==
    \A n \in Nodes : \A v, w \in Volumes :
        v # w /\ inFlight[n][v].name # NoName => inFlight[n][v].name # inFlight[n][w].name

\* From NewDevice to its Release an AttachDisk that allocated a name keeps it: no
\* handler, no retry and no detach of another RPC takes the reservation away.
ReservationHeld ==
    \A p \in Procs :
        h[p].pc \in Holding /\ h[p].op = "attach" /\ ~h[p].dev.assigned
            => inFlight[h[p].node][h[p].vol] = [name |-> h[p].dev.path, card |-> h[p].dev.card]

\* DetachDisk gives the name of its volume back: when its forced release is over, nothing
\* is in flight for the volume, the reservation of an earlier AttachDisk that failed,
\* timed out or left its device tainted included.
DetachFreesName ==
    [][\A p \in Procs :
          h[p].pc = "release" /\ h[p].op = "detach" /\ h'[p].pc = "reply"
              => inFlight'[h[p].node][h[p].vol] = NoEntry]_vars

\* A ControllerPublishVolume that answers success answers the truth: EC2 has the volume
\* attached to the node, at the device path in the answer and on the EBS card that was
\* asked for, unless the instance has been terminated since.
PublishedIsAttached ==
    \A p \in Procs :
        h[p].pc = "reply" /\ h[p].op = "attach" /\ h[p].ok /\ h[p].node \in instances
            => LET a == ec2[h[p].node][h[p].vol]
               IN  /\ a.state = "attached"
                   /\ a.at.name = h[p].dev.path
                   /\ h[p].dev.card \in {a.at.card, NoCard}

\* A ControllerUnpublishVolume that answers success leaves nothing attached, whatever
\* publish RPCs of the same volume were running, failed or timed out before it.  With
\* Batching it is refuted: "not found" may then stand for a call that failed.
UnpublishedIsDetached ==
    \A p \in Procs :
        h[p].pc = "reply" /\ h[p].op = "detach" /\ h[p].ok
            => ec2[h[p].node][h[p].vol] = Detached

\* Every RPC is answered: the waits are bounded by the backoff, and no handler waits
\* for another one.
HandlersTerminate == \A p \in Procs : h[p].pc # "idle" ~> h[p].pc = "idle"

\* What the comment on deviceManager.inFlight promises, for every AttachVolume call the
\* driver makes on a live instance, the one in WaitForAttachmentState included.
AttachCallsUseDistinctNames ==
    \A p, q \in Procs :
        /\ p # q
        /\ h[p].pc \in {"call", "reattach"} /\ h[p].op = "attach"
        /\ h[q].pc \in {"call", "reattach"} /\ h[q].op = "attach"
        /\ h[p].node = h[q].node /\ h[p].node \in instances
        => h[p].dev.path # h[q].dev.path

\* "NewDevice retrieves the device if the device is already assigned" (DeviceManager):
\* AttachDisk makes no new device for a volume its own DescribeInstances reported.
NewDeviceRetrievesAssigned ==
    [][\A p \in Procs :
          /\ h[p].pc = "device" /\ h[p].op = "attach"
          /\ h[p].snap[h[p].vol] # NoEntry
          => h'[p].pc # "call"]_vars

-----------------------------------------------------------------------------
(* The inductive invariant behind the safety properties *)

SameKey(p, q) == h[p].vol = h[q].vol /\ h[p].node = h[q].node

\* A running handler has its key in locks, and no two running handlers share one.
KeysExclusive ==
    /\ \A p \in Procs : h[p].pc # "idle" => <<h[p].vol, h[p].node>> \in locks
    /\ \A p, q \in Procs : p # q /\ h[p].pc # "idle" /\ h[q].pc # "idle" => ~SameKey(p, q)

\* The shape of a handler's record at each place of its code.
HandlerShape(hp) ==
    /\ hp.pc \in Holding /\ hp.op = "attach" => hp.dev.path \in Names
    /\ hp.pc = "call" /\ hp.op = "attach" => ~hp.dev.assigned
    /\ hp.pc \in {"getInstance", "device", "call", "wait", "stuck", "reattach"}
          => ~hp.tainted /\ ~hp.ok
    /\ hp.pc \in {"stuck", "reattach", "init"} => hp.op = "attach"

\* A handler that reserved a name still has it: e is the in-flight entry of its key.
HandlerReserves(hp, e) ==
    hp.pc \in Holding /\ hp.op = "attach" /\ ~hp.dev.assigned
        => e = [name |-> hp.dev.path, card |-> hp.dev.card]

\* What a handler is going to answer is already true when it releases its device: a is
\* EC2's attachment of its key.
HandlerTruthful(hp, a) ==
    hp.pc \in {"release", "init", "reply"} /\ hp.ok =>
        \/ hp.op = "detach" /\ (Batching \/ a = Detached)
        \/ hp.op = "attach" /\ hp.node \notin instances
        \/ /\ hp.op = "attach" /\ a.state = "attached"
           /\ a.at.name = hp.dev.path /\ hp.dev.card \in {a.at.card, NoCard}

\* The name a handler read from DescribeInstances, then the name of its device, is the
\* name in flight, when there is one.
HandlerAgrees(hp, e) ==
    /\ hp.pc = "device" => e.name = NoName \/ hp.snap[hp.vol].name \in {NoName, e.name}
    /\ hp.pc \in Holding => e.name \in {NoName, hp.dev.path}

HandlerInv(hp, e, a) ==
    HandlerShape(hp) /\ HandlerReserves(hp, e) /\ HandlerTruthful(hp, a) /\ HandlerAgrees(hp, e)

\* EC2 names every attachment, and neither a volume nor an instance that is gone has one.
AttachmentShape(n, v, a) ==
    /\ a.state = "detached" => a = Detached
    /\ a.state # "detached" => a.at.name \in Names
    /\ v \notin volumes \/ n \notin instances => a = Detached

\* The handler reserved a name and its AttachVolume has not succeeded (yet).
Trying(hp) == /\ hp.pc \in {"call", "release"} /\ hp.op = "attach"
              /\ ~hp.dev.assigned /\ ~hp.tainted

\* An entry in flight has a name, the one under which EC2 knows the volume, if it does,
\* unless an AttachDisk is trying a new one.
EntryAgrees(n, v, e, a) ==
    /\ e.name = NoName => e = NoEntry
    /\ \/ e.name = NoName
       \/ a = Detached
       \/ a.at.name = e.name
       \/ \E p \in Procs : h[p].node = n /\ h[p].vol = v /\ Trying(h[p])

IInv ==
    /\ TypeOK
    /\ KeysExclusive
    /\ InFlightNamesDistinct
    /\ \A p \in Procs : HandlerInv(h[p], inFlight[h[p].node][h[p].vol], ec2[h[p].node][h[p].vol])
    /\ \A n \in Nodes, v \in Volumes : /\ AttachmentShape(n, v, ec2[n][v])
                                      /\ EntryAgrees(n, v, inFlight[n][v], ec2[n][v])

-----------------------------------------------------------------------------
(* The device manager's inFlight map implements reservations of names *)

Reservations == INSTANCE NameReservation
                    WITH held <- [n \in Nodes |-> [v \in Volumes |-> inFlight[n][v].name]]

\* Whatever interleaving of RPCs, retries, tainted devices and restarts: a name is
\* reserved for one volume of a node at a time, is never replaced while it is reserved,
\* and comes free one volume at a time or all at once in a restart.
ImplementsReservation == Reservations!Spec
=============================================================================
