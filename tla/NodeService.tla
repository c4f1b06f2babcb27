---------------------------- MODULE NodeService -----------------------------
(***************************************************************************)
(* The node plugin on one host: NodeStageVolume, NodePublishVolume, their  *)
(* counterparts and NodeExpandVolume, with the Linux mounter they use.     *)
(* kubelet makes the calls, EC2 attaches and detaches disks, the kernel    *)
(* names them and udev links the names, each in its own time; the plugin   *)
(* or the host may restart between any two steps of a call.                *)
(***************************************************************************)
EXTENDS Naturals, FiniteSets

CONSTANTS Procs,      \* goroutines that serve RPCs
          Volumes,    \* EBS volumes that come to this host
          Block,      \* those published as raw block devices
          Disks,      \* kernel names of disks, as /dev/nvme1n1
          Paths,      \* device names given by the controller, as /dev/xvdba
          Lsblk,      \* does lsblk run here, and print a volume's serial
          MaxSize,    \* bound: the size a volume grows to
          None

ASSUME BlockAssumption == Block \subseteq Volumes

ASSUME LsblkAssumption == Lsblk \in BOOLEAN

ASSUME MaxSizeAssumption == MaxSize \in Nat \ {0}

ASSUME NoneAssumption == None \notin Volumes /\ None \notin Disks /\ None \notin Paths

VARIABLES call,      \* the RPC a goroutine serves
          inFlight,  \* InFlight: the volumes with an RPC in progress
          view,      \* what kubelet believes of a volume, see View
          disk,      \* the kernel: the volume a disk is
          path,      \* EC2: the device name a volume is attached with
          link,      \* udev: where a device name leads
          byId,      \* udev: where /dev/disk/by-id/..._<volume> leads
          size,      \* EC2: the size of a volume
          fs,        \* the size of the file system on a volume, 0 without one
          staging,   \* /proc/mounts: the disk mounted at a volume's staging path
          target,    \* what is mounted at a volume's target path
          broken     \* the target paths whose mount is corrupted

host == <<disk, path, link, byId, size, fs, staging, target, broken>>

vars == <<call, inFlight, view, disk, path, link, byId, size, fs, staging, target, broken>>

Sizes == 1..MaxSize

\* With a question mark: a call was made and no success was received yet.
View == {"out", "stage?", "staged", "publish?", "published", "unpublish?", "unstage?"}

Ops == {"stage", "unstage", "publish", "unpublish", "expand"}

\* `source`: the device found for the volume; `want`: its size when the call began.
Call == [pc : {"find", "check", "format", "mount", "resize", "unmount", "bind"},
         op : Ops, volume : Volumes, source : Disks \cup {None}, want : Sizes]

\* No call is served, and the last one succeeded or did not.
Idle == [pc : {"idle"}, ok : BOOLEAN]

TypeOK ==
    /\ call \in [Procs -> Call \cup Idle]
    /\ inFlight \subseteq Volumes
    /\ view \in [Volumes -> View]
    /\ disk \in [Disks -> Volumes \cup {None}]
    /\ path \in [Volumes -> Paths \cup {None}]
    /\ link \in [Paths -> Disks \cup {None}]
    /\ byId \in [Volumes -> Disks \cup {None}]
    /\ size \in [Volumes -> Sizes]
    /\ fs \in [Volumes -> 0..MaxSize]
    /\ staging \in [Volumes -> Disks \cup {None}]
    /\ target \in [Volumes -> Disks \cup {None, "directory"}]
    /\ broken \subseteq Volumes

\* Some volumes were restored from a snapshot: with a file system, and larger than it.
Init ==
    /\ call = [p \in Procs |-> [pc |-> "idle", ok |-> FALSE]]
    /\ inFlight = {}
    /\ view = [v \in Volumes |-> "out"]
    /\ disk = [d \in Disks |-> None]
    /\ path = [v \in Volumes |-> None]
    /\ link = [x \in Paths |-> None]
    /\ byId = [v \in Volumes |-> None]
    /\ size \in [Volumes -> Sizes]
    /\ fs \in [Volumes -> {0, 1}] /\ \A v \in Block : fs[v] = 0
    /\ staging = [v \in Volumes |-> None]
    /\ target = [v \in Volumes |-> None]
    /\ broken = {}

-----------------------------------------------------------------------------
(* EC2, the kernel and udev *)

Attached(v) == path[v] # None

DiskOf(v) == CHOOSE d \in Disks : disk[d] = v

FreePaths == {x \in Paths : \A v \in Volumes : path[v] # x}

\* The links still lead where they led.
Attach(v) ==
    /\ ~Attached(v)
    /\ \E d \in Disks, x \in FreePaths :
         /\ disk[d] = None
         /\ disk' = [disk EXCEPT ![d] = v]
         /\ path' = [path EXCEPT ![v] = x]
    /\ UNCHANGED <<call, inFlight, view, link, byId, size, fs, staging, target, broken>>

\* The attacher detaches what kubelet has unmounted.
Detach(v) ==
    /\ Attached(v)
    /\ view[v] = "out"
    /\ v \notin inFlight
    /\ disk' = [disk EXCEPT ![DiskOf(v)] = None]
    /\ path' = [path EXCEPT ![v] = None]
    /\ UNCHANGED <<call, inFlight, view, link, byId, size, fs, staging, target, broken>>

\* udev catches up with the disks of a volume and of a name.
Udev(v, x) ==
    /\ byId' = [byId EXCEPT ![v] = IF Attached(v) THEN DiskOf(v) ELSE None]
    /\ link' = [link EXCEPT ![x] = IF \E w \in Volumes : path[w] = x
                                   THEN DiskOf(CHOOSE w \in Volumes : path[w] = x) ELSE None]
    /\ <<byId', link'>> # <<byId, link>>
    /\ UNCHANGED <<call, inFlight, view, disk, path, size, fs, staging, target, broken>>

Grow(v) ==
    /\ size[v] < MaxSize
    /\ size' = [size EXCEPT ![v] = @ + 1]
    /\ UNCHANGED <<call, inFlight, view, disk, path, link, byId, fs, staging, target, broken>>

\* A published volume's mount breaks.
Corrupt(v) ==
    /\ target[v] \in Disks /\ v \notin broken
    /\ broken' = broken \cup {v}
    /\ UNCHANGED <<call, inFlight, view, disk, path, link, byId, size, fs, staging, target>>

-----------------------------------------------------------------------------
(* RPCs *)

\* kubelet stages before it publishes, and unpublishes before it unstages; an answer it
\* has not seen is an uncertain one, and the call or its counterpart may follow.
MayCall(op, v) ==
    CASE op = "stage" -> Attached(v) /\ view[v] \in {"out", "stage?", "staged", "unstage?"}
      [] op = "publish" -> view[v] \in {"staged", "publish?", "published", "unpublish?"}
      [] op = "unpublish" -> view[v] \in {"publish?", "published", "unpublish?"}
      [] op = "unstage" -> view[v] \in {"stage?", "staged", "unstage?"}
      [] op = "expand" -> view[v] = "published"

Asked(op) ==
    CASE op = "stage" -> "stage?"
      [] op = "publish" -> "publish?"
      [] op = "unpublish" -> "unpublish?"
      [] op = "unstage" -> "unstage?"
      [] op = "expand" -> "published"

Granted(op) ==
    CASE op = "stage" -> "staged"
      [] op = "publish" -> "published"
      [] op = "unpublish" -> "staged"
      [] op = "unstage" -> "out"
      [] op = "expand" -> "published"

\* Wrong: a volume with an RPC in progress is given another one.
InsertUnchecked(v) == inFlight' = inFlight \cup {v}

Insert(v) == v \notin inFlight /\ inFlight' = inFlight \cup {v}

\* Where a handler goes first.  Staging a block volume and expanding one do nothing.
FirstStep(op, v) ==
    CASE op = "stage" -> "find"
      [] op = "publish" -> IF v \in Block THEN "find" ELSE "bind"
      [] op \in {"unpublish", "unstage"} -> "unmount"
      [] op = "expand" -> "find"

Nothing(op, v) == v \in Block /\ op \in {"stage", "expand"}

\* NodeStageVolume and the others up to their in-flight key.  What does nothing returns,
\* an expansion only after it has had the key.
Receive(p, op, v) ==
    /\ call[p].pc = "idle"
    /\ MayCall(op, v)
    /\ IF Nothing(op, v)
       THEN /\ op = "expand" => v \notin inFlight
            /\ view' = [view EXCEPT ![v] = Granted(op)]
            /\ UNCHANGED <<call, inFlight>>
       ELSE /\ Insert(v)
            /\ view' = [view EXCEPT ![v] = Asked(op)]
            /\ call' = [call EXCEPT ![p] = [pc |-> FirstStep(op, v), op |-> op, volume |-> v,
                                            source |-> None, want |-> size[v]]]
    /\ UNCHANGED host

Goto(p, pc) == call' = [call EXCEPT ![p].pc = pc] /\ UNCHANGED <<inFlight, view>>

\* The handler returns: the deferred InFlight.Delete.  kubelet may miss the answer, and
\* does not look at it when it has gone on.
Return(p, ok) ==
    LET c == call[p]
    IN  /\ call' = [call EXCEPT ![p] = [pc |-> "idle", ok |-> ok]]
        /\ inFlight' = inFlight \ {c.volume}
        /\ \/ /\ ok /\ view[c.volume] = Asked(c.op)
              /\ view' = [view EXCEPT ![c.volume] = Granted(c.op)]
           \/ UNCHANGED view

Fails(p) == Return(p, FALSE)

-----------------------------------------------------------------------------
(* FindDevicePath *)

\* PathExists and findNvmeVolume: a link to a disk that is gone leads nowhere.
Leads(d) == d # None /\ disk[d] # None

\* lsblk prints the serial of the disk; without it the disk is taken for the volume.
VerifyVolumeSerialMatch(d, v) == Lsblk => disk[d] = v

\* NodeExpandVolume asks for the disk of the mount itself, the others for the device name;
\* a name that leads nowhere is looked up by the ID of the volume.
Named(c) ==
    CASE c.op = "expand" /\ target[c.volume] \in Disks -> target[c.volume]
      [] c.op = "expand" /\ target[c.volume] \notin Disks -> None
      [] c.op # "expand" /\ path[c.volume] = None -> None
      [] OTHER -> link[path[c.volume]]

FindDevicePath(c) == IF Leads(Named(c)) THEN Named(c) ELSE byId[c.volume]

AfterFind(op) ==
    CASE op = "stage" -> "check" [] op = "publish" -> "bind" [] op = "expand" -> "resize"

\* Wrong: a block volume is published from whatever disk is found.
FindBlockUnverified(p) ==
    LET d == FindDevicePath(call[p])
    IN  /\ call[p].pc = "find"
        /\ IF Leads(d) /\ (call[p].volume \in Block \/ disk[d] = call[p].volume)
           THEN /\ call' = [call EXCEPT ![p].pc = AfterFind(call[p].op), ![p].source = d]
                /\ UNCHANGED <<inFlight, view>>
           ELSE Fails(p)
        /\ UNCHANGED host

Find(p) ==
    LET d == FindDevicePath(call[p])
    IN  /\ call[p].pc = "find"
        /\ IF Leads(d) /\ VerifyVolumeSerialMatch(d, call[p].volume)
           THEN /\ call' = [call EXCEPT ![p].pc = AfterFind(call[p].op), ![p].source = d]
                /\ UNCHANGED <<inFlight, view>>
           ELSE Fails(p)
        /\ UNCHANGED host

-----------------------------------------------------------------------------
(* NodeStageVolume *)

\* The directory is made if need be; a volume mounted there already is staged.
Check(p) ==
    LET c == call[p]
    IN  /\ c.pc = "check"
        /\ \/ staging[c.volume] = c.source /\ Return(p, TRUE)
           \/ staging[c.volume] # c.source /\ Goto(p, "format")
           \/ Fails(p)
        /\ UNCHANGED host

\* Wrong: the disk is formatted whatever is on it.
FormatAlways(p) ==
    LET v == disk[call[p].source]
    IN  /\ call[p].pc = "format"
        /\ fs' = [fs EXCEPT ![v] = size[v]] /\ Goto(p, "mount")
        /\ UNCHANGED <<disk, path, link, byId, size, staging, target, broken>>

\* FormatAndMount formats a disk that is blank.
Format(p) ==
    LET v == disk[call[p].source]
    IN  /\ call[p].pc = "format"
        /\ \/ /\ fs' = IF fs[v] = 0 THEN [fs EXCEPT ![v] = size[v]] ELSE fs
              /\ Goto(p, "mount")
           \/ Fails(p) /\ UNCHANGED fs
        /\ UNCHANGED <<disk, path, link, byId, size, staging, target, broken>>

Mount(p) ==
    /\ call[p].pc = "mount"
    /\ \/ /\ staging' = [staging EXCEPT ![call[p].volume] = call[p].source]
          /\ Goto(p, "resize")
       \/ Fails(p) /\ UNCHANGED staging
    /\ UNCHANGED <<disk, path, link, byId, size, fs, target, broken>>

\* NeedResize and Resize, here and in NodeExpandVolume.
Resize(p) ==
    LET v == disk[call[p].source]
    IN  /\ call[p].pc = "resize"
        /\ \/ fs' = [fs EXCEPT ![v] = size[v]] /\ Return(p, TRUE)
           \/ Fails(p) /\ UNCHANGED fs
        /\ UNCHANGED <<disk, path, link, byId, size, staging, target, broken>>

-----------------------------------------------------------------------------
(* NodePublishVolume *)

\* What a bind mount shows: the disk itself, what is mounted at the staging path, or the
\* empty directory that is there.
Shown(c) ==
    IF c.volume \in Block THEN c.source
    ELSE IF staging[c.volume] = None THEN "directory" ELSE staging[c.volume]

\* isMounted: anything that is mounted, unless it is corrupted, is taken for the volume.
IsMounted(v) == target[v] # None /\ v \notin broken

\* A corrupted mount is unmounted and mounted again; the first may succeed and the second
\* fail.
Bind(p) ==
    LET c == call[p]
    IN  /\ c.pc = "bind"
        /\ \/ IsMounted(c.volume) /\ Return(p, TRUE) /\ UNCHANGED <<target, broken>>
           \/ /\ ~IsMounted(c.volume)
              /\ target' = [target EXCEPT ![c.volume] = Shown(c)]
              /\ broken' = broken \ {c.volume}
              /\ Return(p, TRUE)
           \/ /\ c.volume \in broken
              /\ target' = [target EXCEPT ![c.volume] = None]
              /\ broken' = broken \ {c.volume}
              /\ Fails(p)
           \/ Fails(p) /\ UNCHANGED <<target, broken>>
        /\ UNCHANGED <<disk, path, link, byId, size, fs, staging>>

-----------------------------------------------------------------------------
(* NodeUnpublishVolume and NodeUnstageVolume *)

\* Unpublish: unmounting succeeds, there is nothing to unmount, or it fails.
NodeUnpublishVolume(p) ==
    LET v == call[p].volume
    IN  /\ call[p].pc = "unmount" /\ call[p].op = "unpublish"
        /\ \/ /\ target' = [target EXCEPT ![v] = None]
              /\ broken' = broken \ {v}
              /\ Return(p, TRUE)
           \/ Fails(p) /\ UNCHANGED <<target, broken>>
        /\ UNCHANGED <<disk, path, link, byId, size, fs, staging>>

\* Unstage: the same for the staging path, whatever is published.
NodeUnstageVolume(p) ==
    /\ call[p].pc = "unmount" /\ call[p].op = "unstage"
    /\ \/ staging' = [staging EXCEPT ![call[p].volume] = None] /\ Return(p, TRUE)
       \/ Fails(p) /\ UNCHANGED staging
    /\ UNCHANGED <<disk, path, link, byId, size, fs, target, broken>>

-----------------------------------------------------------------------------
(* Restarts *)

\* The plugin restarts: its calls are gone, the mounts stay.
Restart ==
    /\ call' = [p \in Procs |-> [pc |-> "idle", ok |-> FALSE]]
    /\ inFlight' = {}
    /\ UNCHANGED <<view, disk, path, link, byId, size, fs, staging, target, broken>>

\* The host restarts: the mounts are gone too, udev runs, and kubelet starts again.
Reboot ==
    /\ call' = [p \in Procs |-> [pc |-> "idle", ok |-> FALSE]]
    /\ inFlight' = {}
    /\ view' = [v \in Volumes |-> "out"]
    /\ staging' = [v \in Volumes |-> None]
    /\ target' = [v \in Volumes |-> None]
    /\ broken' = {}
    /\ UNCHANGED <<disk, path, link, byId, size, fs>>

Step(p) ==
    \/ Find(p) \/ Check(p) \/ Format(p) \/ Mount(p) \/ Resize(p)
    \/ Bind(p) \/ NodeUnpublishVolume(p) \/ NodeUnstageVolume(p)

Next ==
    \/ \E v \in Volumes : Attach(v) \/ Detach(v) \/ Grow(v) \/ Corrupt(v)
    \/ \E v \in Volumes, x \in Paths : Udev(v, x)
    \/ \E p \in Procs, op \in Ops, v \in Volumes : Receive(p, op, v)
    \/ \E p \in Procs : Step(p)
    \/ Restart
    \/ Reboot

Spec == Init /\ [][Next]_vars

-----------------------------------------------------------------------------
(* Properties *)

\* What kubelet was told is true: from a successful stage to the next unstage the volume's
\* own disk is mounted at the staging path, from a successful publish to the next unpublish
\* it is what the pod sees, and a volume that may be detached is mounted nowhere.
ViewIsTrue ==
    \A v \in Volumes :
        /\ view[v] \in {"staged", "publish?", "published", "unpublish?"} /\ v \notin Block =>
              staging[v] # None /\ disk[staging[v]] = v
        /\ view[v] = "published" =>
              target[v] \in Disks /\ disk[target[v]] = v
        /\ view[v] = "out" => staging[v] = None /\ target[v] = None

\* A volume is never mounted for another one, not even while a call is in progress: a link
\* udev has not updated leads FindDevicePath to a disk whose serial does not match.
MountsAreOwn ==
    \A v \in Volumes :
        /\ staging[v] # None => disk[staging[v]] = v
        /\ target[v] \in Disks => disk[target[v]] = v

\* Data is never formatted away: a file system is made only on a blank volume, for a stage
\* of that very volume, and grows only for a stage or an expansion of it.
FormatsOwnBlank ==
    [][\A v \in Volumes : fs'[v] # fs[v] =>
          \E p \in Procs :
             /\ call[p].pc # "idle" /\ call[p].volume = v
             /\ \/ call[p].pc = "format" /\ fs[v] = 0
                \/ call[p].pc = "resize" /\ fs'[v] > fs[v]]_vars

Succeeds(p) == call[p].pc # "idle" /\ call'[p].pc = "idle" /\ call'[p].ok

\* A stage succeeds only with a file system as large as the volume was when the call began:
\* refuted, a retry after a failed resize finds the volume mounted and succeeds.
StagedFillsVolume ==
    [][\A p \in Procs : Succeeds(p) /\ call[p].op = "stage" =>
          fs'[call[p].volume] >= call[p].want]_vars
=============================================================================
