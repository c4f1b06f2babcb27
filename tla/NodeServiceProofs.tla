------------------------- MODULE NodeServiceProofs --------------------------
(***************************************************************************)
(* What the node plugin mounts, formats and tells kubelet is right on any  *)
(* host where lsblk prints the serials of the disks, for any number of     *)
(* calls, volumes, disks and device names.  That the in-flight keys are    *)
(* exclusive and given back, and that every call ends after a few steps,   *)
(* holds on every host.                                                    *)
(***************************************************************************)
EXTENDS NodeService, TLAPS

\* A volume that EC2 has attached is a disk of the host.
DisksThere == \A v \in Volumes : Attached(v) => \E d \in Disks : disk[d] = v

\* One call at a time is served for a volume.
KeysHeld ==
    \A p, q \in Procs :
        call[p].pc # "idle" =>
            /\ call[p].volume \in inFlight
            /\ call[q].pc # "idle" /\ call[q].volume = call[p].volume => p = q

\* What a call has got to.
CallRight(p) ==
    LET c == call[p]
        v == c.volume
    IN  c.pc # "idle" =>
            /\ \/ view[v] = Asked(c.op)
               \/ v \in Block /\ c.op = "unstage" /\ view[v] = "staged"
            /\ c.pc \in {"check", "format", "mount"} => c.op = "stage"
            /\ c.pc \in {"find", "resize"} => c.op \in {"stage", "publish", "expand"}
            /\ c.pc = "resize" => c.op # "publish"
            /\ c.pc = "bind" => c.op = "publish"
            /\ c.op \in {"stage", "expand"} => v \notin Block
            /\ c.pc \in {"check", "format", "mount", "resize"} \/ (c.pc = "bind" /\ v \in Block) =>
                  c.source \in Disks /\ disk[c.source] = v
            /\ c.pc = "resize" /\ c.op = "stage" => staging[v] = c.source
            /\ c.want <= size[v]

\* What kubelet knows of a volume and where it is mounted.
VolumeRight(v) ==
    /\ staging[v] # None => disk[staging[v]] = v
    /\ target[v] # None => target[v] \in Disks /\ disk[target[v]] = v
    /\ view[v] \in {"staged", "publish?", "published", "unpublish?"} /\ v \notin Block =>
          staging[v] # None
    /\ view[v] = "published" => target[v] # None
    /\ view[v] \in {"out", "stage?", "staged", "unstage?"} => target[v] = None
    /\ view[v] = "out" => staging[v] = None
    /\ fs[v] <= size[v]

IInv ==
    /\ TypeOK
    /\ DisksThere
    /\ KeysHeld
    /\ \A p \in Procs : CallRight(p)
    /\ \A v \in Volumes : VolumeRight(v)

HostTypeOK ==
    /\ disk \in [Disks -> Volumes \cup {None}]
    /\ path \in [Volumes -> Paths \cup {None}]
    /\ link \in [Paths -> Disks \cup {None}]
    /\ byId \in [Volumes -> Disks \cup {None}]
    /\ size \in [Volumes -> Sizes]
    /\ fs \in [Volumes -> 0..MaxSize]
    /\ staging \in [Volumes -> Disks \cup {None}]
    /\ target \in [Volumes -> Disks \cup {None, "directory"}]
    /\ broken \subseteq Volumes

\* The record of a goroutine is that of a call exactly when it serves one.
LEMMA CallRecord ==
    ASSUME TypeOK, NEW p \in Procs
    PROVE  /\ call[p].pc # "idle" => call[p] \in Call /\ call[p].volume \in Volumes /\ call[p].op \in Ops
           /\ call[p].pc = "idle" => call[p] \in Idle
<1>1. call[p] \in Call \cup Idle
  BY Zenon DEF TypeOK
<1> QED
  BY Zenon, <1>1 DEF Call, Idle

\* What the handlers of other volumes rely on is left alone by a step for volume v.
OnlyFor(v) ==
    /\ UNCHANGED <<disk, path, link, byId, size>>
    /\ \A w \in Volumes : w # v => /\ view'[w] = view[w] /\ staging'[w] = staging[w]
                                  /\ target'[w] = target[w] /\ fs'[w] = fs[w]

\* The other calls and the other volumes do not notice a step of a call.
LEMMA OthersUnaware ==
    ASSUME IInv, NEW p \in Procs, call[p].pc # "idle",
           NEW v \in Volumes, v = call[p].volume, OnlyFor(v),
           \A q \in Procs : q # p => call'[q] = call[q]
    PROVE  /\ DisksThere'
           /\ \A q \in Procs : q # p => CallRight(q)'
           /\ \A w \in Volumes : w # v => VolumeRight(w)'
<1>1. DisksThere'
  BY Zenon DEF OnlyFor, IInv, DisksThere, Attached
<1>2. ASSUME NEW q \in Procs, q # p PROVE CallRight(q)'
  <2>1. call'[q] = call[q]
    BY Zenon, <1>2
  <2>2. CASE call[q].pc = "idle"
    BY Zenon, <2>1, <2>2 DEF CallRight
  <2>3. CASE call[q].pc # "idle"
    <3>1. call[q].volume \in Volumes /\ call[q].volume # v
      BY Zenon, <1>2, <2>3, CallRecord DEF IInv, KeysHeld
    <3>2. CallRight(q)
      BY Zenon DEF IInv
    <3>3. /\ view'[call[q].volume] = view[call[q].volume]
          /\ staging'[call[q].volume] = staging[call[q].volume]
          /\ disk' = disk /\ size' = size
      BY Zenon, <3>1 DEF OnlyFor
    <3> QED
      BY Zenon, <2>1, <3>2, <3>3 DEF CallRight
  <2> QED
    BY Zenon, <2>2, <2>3
<1>3. ASSUME NEW w \in Volumes, w # v PROVE VolumeRight(w)'
  BY <1>3 DEF IInv, VolumeRight, OnlyFor
<1> QED
  BY Zenon, <1>1, <1>2, <1>3

\* A handler that returns leaves the invariant, if it leaves its volume right.
LEMMA ReturnKeeps ==
    ASSUME IInv, NEW p \in Procs, call[p].pc # "idle",
           Return(p, TRUE) \/ Return(p, FALSE),
           NEW v \in Volumes, v = call[p].volume,
           HostTypeOK', OnlyFor(v), VolumeRight(v)'
    PROVE  IInv'
<1>1. v \in Volumes /\ call \in [Procs -> Call \cup Idle] /\ view \in [Volumes -> View]
      /\ call[p].op \in Ops /\ inFlight \subseteq Volumes
  BY Zenon, CallRecord DEF IInv, TypeOK
<1>2. PICK r \in Idle : call' = [call EXCEPT ![p] = r]
  <2>1. [pc |-> "idle", ok |-> TRUE] \in Idle /\ [pc |-> "idle", ok |-> FALSE] \in Idle
    BY Zenon DEF Idle
  <2> QED
    BY <2>1, Zenon DEF Return
<1>3. r.pc = "idle"
  BY Zenon DEF Idle
<1>4. /\ call' \in [Procs -> Call \cup Idle] /\ call'[p].pc = "idle"
      /\ \A q \in Procs : q # p => call'[q] = call[q]
  BY Zenon, <1>1, <1>2, <1>3
<1>5. inFlight' = inFlight \ {v}
  BY Zenon DEF Return
<1>6. view' \in [Volumes -> View]
  <2>1. Granted(call[p].op) \in View
    BY Zenon, <1>1 DEF Granted, View, Ops
  <2>2. view' = view \/ view' = [view EXCEPT ![v] = Granted(call[p].op)]
    BY Zenon DEF Return
  <2> QED
    BY Zenon, <1>1, <2>1, <2>2
<1>7. KeysHeld'
  BY <1>1, <1>4, <1>5 DEF IInv, KeysHeld
<1>8. CallRight(p)'
  BY Zenon, <1>4 DEF CallRight
<1>9. TypeOK'
  BY Zenon, <1>1, <1>4, <1>5, <1>6 DEF TypeOK, HostTypeOK
<1>10. /\ DisksThere'
       /\ \A q \in Procs : q # p => CallRight(q)'
       /\ \A w \in Volumes : w # v => VolumeRight(w)'
  BY <1>4, OthersUnaware, Zenon
<1>11. (\A q \in Procs : CallRight(q)') /\ (\A w \in Volumes : VolumeRight(w)')
  BY <1>8, <1>10, Zenon
<1> QED
  BY <1>7, <1>9, <1>10, <1>11, Zenon DEF IInv

\* So does one that goes on.
LEMMA GoesOnKeeps ==
    ASSUME IInv, NEW p \in Procs, call[p].pc # "idle",
           NEW r \in Call, call' = [call EXCEPT ![p] = r], r.volume = call[p].volume,
           UNCHANGED <<inFlight, view>>,
           NEW v \in Volumes, v = call[p].volume,
           HostTypeOK', OnlyFor(v), VolumeRight(v)', CallRight(p)'
    PROVE  IInv'
<1>1. call[p].volume \in Volumes /\ call \in [Procs -> Call \cup Idle]
  BY Zenon, CallRecord DEF IInv, TypeOK
<1>2. /\ call' \in [Procs -> Call \cup Idle] /\ call'[p].volume = call[p].volume
      /\ \A q \in Procs : q # p => call'[q] = call[q]
  BY Zenon, <1>1
<1>3. KeysHeld'
  BY <1>2 DEF IInv, KeysHeld
<1>4. TypeOK'
  BY Zenon, <1>2 DEF TypeOK, HostTypeOK, IInv
<1>5. /\ DisksThere'
      /\ \A q \in Procs : q # p => CallRight(q)'
      /\ \A w \in Volumes : w # v => VolumeRight(w)'
  BY <1>2, OthersUnaware, Zenon
<1>6. (\A q \in Procs : CallRight(q)') /\ (\A w \in Volumes : VolumeRight(w)')
  BY <1>5, Zenon
<1> QED
  BY <1>3, <1>4, <1>5, <1>6, Zenon DEF IInv

-----------------------------------------------------------------------------
(* The steps of a call *)

\* The handler fails without having changed anything, or does nothing and succeeds where
\* the volume already is as asked.
LEMMA FailKeeps ==
    ASSUME IInv, NEW p \in Procs, call[p].pc # "idle", Fails(p), UNCHANGED host
    PROVE  IInv'
<1>1. PICK v \in Volumes : v = call[p].volume
  BY Zenon, CallRecord DEF IInv
<1>2. HostTypeOK' /\ OnlyFor(v) /\ view' = view
  BY Zenon DEF IInv, TypeOK, HostTypeOK, host, OnlyFor, Fails, Return
<1>3. VolumeRight(v)'
  BY Zenon, <1>2 DEF IInv, VolumeRight, host
<1> QED
  BY Zenon, <1>1, <1>2, <1>3, ReturnKeeps DEF Fails

\* Where FindDevicePath may lead.
LEMMA FindType ==
    ASSUME TypeOK, NEW c \in Call
    PROVE  FindDevicePath(c) \in Disks \cup {None}
<1>1. c.volume \in Volumes /\ byId[c.volume] \in Disks \cup {None}
      /\ path[c.volume] \in Paths \cup {None}
  BY Zenon DEF TypeOK, Call
<1>2. Named(c) \in Disks \cup {None}
  BY Zenon, <1>1 DEF Named, TypeOK
<1> QED
  BY Zenon, <1>1, <1>2 DEF FindDevicePath

\* With lsblk, the device found is the disk of the volume.
LEMMA FindKeeps ==
    ASSUME Lsblk, IInv, NEW p \in Procs, Find(p)
    PROVE  IInv'
<1>0. PICK v \in Volumes : v = call[p].volume
  BY Zenon, CallRecord DEF IInv, Find
<1> DEFINE c == call[p]
           d == FindDevicePath(c)
<1>1. c \in Call /\ v = c.volume /\ c.pc = "find" /\ CallRight(p) /\ c.op \in {"stage", "publish", "expand"}
      /\ call \in [Procs -> Call \cup Idle]
  BY Zenon, <1>0, CallRecord DEF Find, IInv, CallRight, TypeOK
<1>2. CASE Leads(d) /\ VerifyVolumeSerialMatch(d, v)
  <2>1. d \in Disks /\ disk[d] = v
    BY Zenon, <1>1, <1>2, FindType DEF Leads, VerifyVolumeSerialMatch, IInv
  <2> DEFINE r == [c EXCEPT !.pc = AfterFind(c.op), !.source = d]
  <2>2. call' = [call EXCEPT ![p] = r] /\ UNCHANGED <<inFlight, view>> /\ UNCHANGED host
    BY Zenon, <1>1, <1>2 DEF Find
  <2>3. AfterFind(c.op) \in {"check", "bind", "resize"}
    BY Zenon, <1>1 DEF AfterFind
  <2>4. /\ r \in Call /\ r.volume = v /\ r.op = c.op /\ r.source = d /\ r.want = c.want
        /\ r.pc = AfterFind(c.op)
    BY Zenon, <1>1, <2>1, <2>3 DEF Call
  <2>5. HostTypeOK' /\ OnlyFor(v) /\ VolumeRight(v)'
    BY Zenon, <1>1, <2>2 DEF IInv, TypeOK, HostTypeOK, host, OnlyFor, VolumeRight
  <2>6. call'[p] = r
    BY Zenon, <1>1, <2>2
  <2> HIDE DEF r
  <2>7. CallRight(p)'
    BY Zenon, <1>1, <2>1, <2>2, <2>4, <2>6 DEF CallRight, AfterFind, host
  <2> QED
    BY Zenon, <1>1, <2>2, <2>4, <2>5, <2>7, GoesOnKeeps
<1>3. CASE ~(Leads(d) /\ VerifyVolumeSerialMatch(d, v))
  <2>1. Fails(p) /\ UNCHANGED host
    BY Zenon, <1>1, <1>3 DEF Find
  <2> QED
    BY Zenon, <1>1, <2>1, FailKeeps
<1> QED
  BY Zenon, <1>2, <1>3

\* What kubelet makes of a success.
LEMMA ReturnView ==
    ASSUME IInv, NEW p \in Procs, NEW v \in Volumes, v = call[p].volume, Return(p, TRUE)
    PROVE  /\ \A w \in Volumes : w # v => view'[w] = view[w]
           /\ \/ view'[v] = view[v]
              \/ view[v] = Asked(call[p].op) /\ view'[v] = Granted(call[p].op)
BY Zenon DEF IInv, TypeOK, Return

\* NodeStageVolume finds the volume mounted at the staging path, or goes on.
LEMMA CheckKeeps ==
    ASSUME IInv, NEW p \in Procs, Check(p)
    PROVE  IInv'
<1>0. PICK v \in Volumes : v = call[p].volume
  BY Zenon, CallRecord DEF IInv, Check
<1> DEFINE c == call[p]
<1>1. /\ c \in Call /\ v = c.volume /\ c.pc = "check" /\ CallRight(p) /\ VolumeRight(v)
      /\ c.op = "stage" /\ c.source \in Disks /\ v \notin Block
      /\ call \in [Procs -> Call \cup Idle] /\ UNCHANGED host
  BY Zenon, <1>0, CallRecord DEF Check, IInv, CallRight, TypeOK
<1>2. HostTypeOK'
  BY Zenon, <1>1 DEF IInv, TypeOK, HostTypeOK, host
<1>3. CASE staging[v] = c.source /\ Return(p, TRUE)
  <2>1. /\ \A w \in Volumes : w # v => view'[w] = view[w]
        /\ view'[v] = view[v] \/ view'[v] = "staged"
        /\ view[v] = "stage?"
    BY Zenon, <1>1, <1>3, ReturnView DEF Granted, Asked, CallRight
  <2>2. OnlyFor(v)
    BY Zenon, <1>1, <2>1 DEF OnlyFor, host
  <2>3. staging[v] # None
    BY Zenon, <1>1, <1>3, NoneAssumption
  <2>4. VolumeRight(v)'
    BY Zenon, <1>1, <2>1, <2>3 DEF VolumeRight, host
  <2> QED
    BY Zenon, <1>1, <1>2, <1>3, <2>2, <2>4, ReturnKeeps
<1>4. CASE Goto(p, "format")
  <2> DEFINE r == [c EXCEPT !.pc = "format"]
  <2>1. call' = [call EXCEPT ![p] = r] /\ UNCHANGED <<inFlight, view>>
    BY Zenon, <1>1, <1>4 DEF Goto
  <2>2. /\ r \in Call /\ r.volume = v /\ r.op = c.op /\ r.source = c.source /\ r.want = c.want
        /\ r.pc = "format" /\ call'[p] = r
    BY Zenon, <1>1, <2>1 DEF Call
  <2> HIDE DEF r
  <2>3. OnlyFor(v) /\ VolumeRight(v)'
    BY Zenon, <1>1, <2>1 DEF OnlyFor, VolumeRight, host
  <2>4. CallRight(p)'
    BY Zenon, <1>1, <2>1, <2>2 DEF CallRight, host
  <2> QED
    BY Zenon, <1>1, <1>2, <2>1, <2>2, <2>3, <2>4, GoesOnKeeps
<1>5. CASE Fails(p)
  BY Zenon, <1>1, <1>5, FailKeeps
<1> QED
  BY Zenon, <1>1, <1>3, <1>4, <1>5 DEF Check

\* FormatAndMount formats the disk of the volume, which is as large as the volume.
LEMMA FormatKeeps ==
    ASSUME IInv, NEW p \in Procs, Format(p)
    PROVE  IInv'
<1>0. PICK v \in Volumes : v = call[p].volume
  BY Zenon, CallRecord DEF IInv, Format
<1> DEFINE c == call[p]
<1>1. /\ c \in Call /\ v = c.volume /\ c.pc = "format" /\ CallRight(p) /\ VolumeRight(v)
      /\ c.op = "stage" /\ c.source \in Disks /\ disk[c.source] = v /\ v \notin Block
      /\ call \in [Procs -> Call \cup Idle]
      /\ UNCHANGED <<disk, path, link, byId, size, staging, target, broken>>
  BY Zenon, <1>0, CallRecord DEF Format, IInv, CallRight, TypeOK
<1>2. CASE Goto(p, "mount") /\ (fs' = fs \/ fs' = [fs EXCEPT ![v] = size[v]])
  <2> DEFINE r == [c EXCEPT !.pc = "mount"]
  <2>1. call' = [call EXCEPT ![p] = r] /\ UNCHANGED <<inFlight, view>>
    BY Zenon, <1>1, <1>2 DEF Goto
  <2>2. /\ r \in Call /\ r.volume = v /\ r.op = c.op /\ r.source = c.source /\ r.want = c.want
        /\ r.pc = "mount" /\ call'[p] = r
    BY Zenon, <1>1, <2>1 DEF Call
  <2> HIDE DEF r
  <2>3. /\ fs \in [Volumes -> 0..MaxSize] /\ size[v] \in 0..MaxSize /\ size[v] \in Nat
        /\ fs' \in [Volumes -> 0..MaxSize]
        /\ (fs'[v] = fs[v] \/ fs'[v] = size[v]) /\ \A w \in Volumes : w # v => fs'[w] = fs[w]
    BY <1>2, MaxSizeAssumption DEF IInv, TypeOK, Sizes
  <2>4. HostTypeOK'
    BY Zenon, <1>1, <2>3 DEF HostTypeOK, IInv, TypeOK
  <2>5. OnlyFor(v) /\ VolumeRight(v)'
    BY <1>1, <2>1, <2>3 DEF OnlyFor, VolumeRight
  <2>6. CallRight(p)'
    BY Zenon, <1>1, <2>1, <2>2 DEF CallRight
  <2> QED
    BY Zenon, <1>1, <2>1, <2>2, <2>4, <2>5, <2>6, GoesOnKeeps
<1>3. CASE Fails(p) /\ UNCHANGED fs
  BY Zenon, <1>1, <1>3, FailKeeps DEF host
<1> QED
  BY Zenon, <1>1, <1>2, <1>3 DEF Format

\* The disk of the volume is mounted at its staging path.
LEMMA MountKeeps ==
    ASSUME IInv, NEW p \in Procs, Mount(p)
    PROVE  IInv'
<1>0. PICK v \in Volumes : v = call[p].volume
  BY Zenon, CallRecord DEF IInv, Mount
<1> DEFINE c == call[p]
<1>1. /\ c \in Call /\ v = c.volume /\ c.pc = "mount" /\ CallRight(p) /\ VolumeRight(v)
      /\ c.op = "stage" /\ c.source \in Disks /\ disk[c.source] = v /\ v \notin Block
      /\ call \in [Procs -> Call \cup Idle]
      /\ UNCHANGED <<disk, path, link, byId, size, fs, target, broken>>
  BY Zenon, <1>0, CallRecord DEF Mount, IInv, CallRight, TypeOK
<1>2. CASE Goto(p, "resize") /\ staging' = [staging EXCEPT ![v] = c.source]
  <2> DEFINE r == [c EXCEPT !.pc = "resize"]
  <2>1. call' = [call EXCEPT ![p] = r] /\ UNCHANGED <<inFlight, view>>
    BY Zenon, <1>1, <1>2 DEF Goto
  <2>2. /\ r \in Call /\ r.volume = v /\ r.op = c.op /\ r.source = c.source /\ r.want = c.want
        /\ r.pc = "resize" /\ call'[p] = r
    BY Zenon, <1>1, <2>1 DEF Call
  <2> HIDE DEF r
  <2>3. /\ staging' \in [Volumes -> Disks \cup {None}]
        /\ staging'[v] = c.source /\ \A w \in Volumes : w # v => staging'[w] = staging[w]
    BY Zenon, <1>1, <1>2 DEF IInv, TypeOK
  <2>4. HostTypeOK'
    BY Zenon, <1>1, <2>3 DEF HostTypeOK, IInv, TypeOK
  <2>5. view[v] = "stage?"
    BY Zenon, <1>1 DEF CallRight, Asked
  <2>6. OnlyFor(v) /\ VolumeRight(v)'
    BY Zenon, <1>1, <2>1, <2>3, <2>5 DEF OnlyFor, VolumeRight
  <2>7. CallRight(p)'
    BY Zenon, <1>1, <2>1, <2>2, <2>3 DEF CallRight
  <2> QED
    BY Zenon, <1>1, <2>1, <2>2, <2>4, <2>6, <2>7, GoesOnKeeps
<1>3. CASE Fails(p) /\ UNCHANGED staging
  BY Zenon, <1>1, <1>3, FailKeeps DEF host
<1> QED
  BY Zenon, <1>1, <1>2, <1>3 DEF Mount

\* A success of NeedResize and Resize, for a stage or an expansion.
LEMMA ResizeKeeps ==
    ASSUME IInv, NEW p \in Procs, Resize(p)
    PROVE  IInv'
<1>0. PICK v \in Volumes : v = call[p].volume
  BY Zenon, CallRecord DEF IInv, Resize
<1> DEFINE c == call[p]
<1>1. /\ c \in Call /\ v = c.volume /\ c.pc = "resize" /\ CallRight(p) /\ VolumeRight(v)
      /\ c.op \in {"stage", "expand"} /\ c.source \in Disks /\ disk[c.source] = v /\ v \notin Block
      /\ UNCHANGED <<disk, path, link, byId, size, staging, target, broken>>
  BY Zenon, <1>0, CallRecord DEF Resize, IInv, CallRight
<1>2. CASE fs' = [fs EXCEPT ![v] = size[v]] /\ Return(p, TRUE)
  <2>1. /\ fs \in [Volumes -> 0..MaxSize] /\ size[v] \in 0..MaxSize /\ size[v] \in Nat
        /\ fs' \in [Volumes -> 0..MaxSize]
        /\ fs'[v] = size[v] /\ \A w \in Volumes : w # v => fs'[w] = fs[w]
    BY <1>2, MaxSizeAssumption DEF IInv, TypeOK, Sizes
  <2>2. HostTypeOK'
    BY Zenon, <1>1, <2>1 DEF HostTypeOK, IInv, TypeOK
  <2>3. /\ \A w \in Volumes : w # v => view'[w] = view[w]
        /\ \/ view'[v] = view[v]
           \/ c.op = "stage" /\ view[v] = "stage?" /\ view'[v] = "staged"
    BY Zenon, <1>1, <1>2, ReturnView DEF Granted, Asked, CallRight
  <2>4. c.op = "stage" => staging[v] # None
    BY Zenon, <1>1, NoneAssumption DEF CallRight
  <2>5. OnlyFor(v) /\ VolumeRight(v)'
    BY <1>1, <2>1, <2>3, <2>4 DEF OnlyFor, VolumeRight
  <2> QED
    BY Zenon, <1>1, <1>2, <2>2, <2>5, ReturnKeeps
<1>3. CASE Fails(p) /\ UNCHANGED fs
  BY Zenon, <1>1, <1>3, FailKeeps DEF host
<1> QED
  BY Zenon, <1>1, <1>2, <1>3 DEF Resize

\* What a bind mount shows a pod is the disk of the volume.
LEMMA ShownIsOwn ==
    ASSUME IInv, NEW p \in Procs, call[p].pc = "bind", NEW v \in Volumes, v = call[p].volume
    PROVE  Shown(call[p]) \in Disks /\ disk[Shown(call[p])] = v
<1>1. CallRight(p) /\ VolumeRight(v) /\ call[p].op = "publish" /\ view[v] = "publish?"
      /\ staging[v] \in Disks \cup {None}
  BY Zenon DEF IInv, CallRight, Asked, TypeOK
<1>2. CASE v \in Block
  BY Zenon, <1>1, <1>2 DEF Shown, CallRight
<1>3. CASE v \notin Block
  BY Zenon, <1>1, <1>3 DEF Shown, VolumeRight
<1> QED
  BY Zenon, <1>2, <1>3

\* NodePublishVolume.
LEMMA BindKeeps ==
    ASSUME IInv, NEW p \in Procs, Bind(p)
    PROVE  IInv'
<1>0. PICK v \in Volumes : v = call[p].volume
  BY Zenon, CallRecord DEF IInv, Bind
<1> DEFINE c == call[p]
<1>1. /\ c \in Call /\ v = c.volume /\ c.pc = "bind" /\ CallRight(p) /\ VolumeRight(v)
      /\ c.op = "publish" /\ view[v] = "publish?"
      /\ UNCHANGED <<disk, path, link, byId, size, fs, staging>>
  BY Zenon, <1>0, CallRecord DEF Bind, IInv, CallRight, Asked
<1>2. ASSUME NEW d \in Disks \cup {None}, d # None => disk[d] = v, broken' \subseteq Volumes,
             \/ target' = [target EXCEPT ![v] = d]
             \/ target' = target /\ d = target[v],
             (Return(p, TRUE) /\ d # None) \/ Fails(p)
      PROVE  IInv'
  <2>1. /\ target' \in [Volumes -> Disks \cup {None, "directory"}]
        /\ target'[v] = d /\ \A w \in Volumes : w # v => target'[w] = target[w]
    BY <1>2 DEF IInv, TypeOK
  <2>2. HostTypeOK'
    BY Zenon, <1>1, <1>2, <2>1 DEF HostTypeOK, IInv, TypeOK
  <2>3. /\ \A w \in Volumes : w # v => view'[w] = view[w]
        /\ view'[v] = view[v] \/ (view'[v] = "published" /\ d # None)
    <3>1. Granted("publish") = "published"
      BY Zenon DEF Granted
    <3>2. CASE Return(p, TRUE) /\ d # None
      BY Zenon, <1>1, <3>1, <3>2, ReturnView
    <3>3. CASE Fails(p)
      BY Zenon, <3>3 DEF Fails, Return
    <3> QED
      BY Zenon, <1>2, <3>2, <3>3
  <2>4. OnlyFor(v) /\ VolumeRight(v)'
    BY Zenon, <1>1, <1>2, <2>1, <2>3 DEF OnlyFor, VolumeRight
  <2> QED
    BY Zenon, <1>1, <1>2, <2>2, <2>4, ReturnKeeps DEF Fails
<1>3. /\ target[v] \in Disks \cup {None} /\ (target[v] # None => disk[target[v]] = v)
      /\ broken \subseteq Volumes
  BY Zenon, <1>1 DEF VolumeRight, IInv, TypeOK
<1>4. CASE ((IsMounted(v) /\ Return(p, TRUE)) \/ Fails(p)) /\ UNCHANGED <<target, broken>>
  BY Zenon, <1>2, <1>3, <1>4 DEF IsMounted
<1>5. CASE target' = [target EXCEPT ![v] = Shown(c)] /\ broken' = broken \ {v} /\ Return(p, TRUE)
  <2>1. Shown(c) \in Disks /\ disk[Shown(c)] = v /\ Shown(c) # None
    BY Zenon, <1>1, ShownIsOwn, NoneAssumption
  <2> QED
    BY Zenon, <1>2, <1>3, <1>5, <2>1
<1>6. CASE target' = [target EXCEPT ![v] = None] /\ broken' = broken \ {v} /\ Fails(p)
  BY Zenon, <1>2, <1>3, <1>6
<1> QED
  BY Zenon, <1>1, <1>4, <1>5, <1>6 DEF Bind

\* NodeUnpublishVolume.
LEMMA UnpublishKeeps ==
    ASSUME IInv, NEW p \in Procs, NodeUnpublishVolume(p)
    PROVE  IInv'
<1>0. PICK v \in Volumes : v = call[p].volume
  BY Zenon, CallRecord DEF IInv, NodeUnpublishVolume
<1>1. /\ v = call[p].volume /\ call[p].pc = "unmount" /\ VolumeRight(v)
      /\ call[p].op = "unpublish" /\ view[v] = "unpublish?"
      /\ UNCHANGED <<disk, path, link, byId, size, fs, staging>>
  BY Zenon, <1>0 DEF NodeUnpublishVolume, IInv, CallRight, Asked
<1>2. CASE target' = [target EXCEPT ![v] = None] /\ broken' = broken \ {v} /\ Return(p, TRUE)
  <2>1. /\ target' \in [Volumes -> Disks \cup {None, "directory"}]
        /\ target'[v] = None /\ \A w \in Volumes : w # v => target'[w] = target[w]
    BY Zenon, <1>2 DEF IInv, TypeOK
  <2>2. HostTypeOK'
    BY Zenon, <1>1, <1>2, <2>1 DEF HostTypeOK, IInv, TypeOK
  <2>3. /\ \A w \in Volumes : w # v => view'[w] = view[w]
        /\ view'[v] = view[v] \/ view'[v] = "staged"
    BY Zenon, <1>1, <1>2, ReturnView DEF Granted
  <2>4. OnlyFor(v) /\ VolumeRight(v)'
    BY Zenon, <1>1, <2>1, <2>3 DEF OnlyFor, VolumeRight
  <2> QED
    BY Zenon, <1>1, <1>2, <2>2, <2>4, ReturnKeeps
<1>3. CASE Fails(p) /\ UNCHANGED <<target, broken>>
  BY Zenon, <1>1, <1>3, FailKeeps DEF host
<1> QED
  BY Zenon, <1>1, <1>2, <1>3 DEF NodeUnpublishVolume

\* NodeUnstageVolume.
LEMMA UnstageKeeps ==
    ASSUME IInv, NEW p \in Procs, NodeUnstageVolume(p)
    PROVE  IInv'
<1>0. PICK v \in Volumes : v = call[p].volume
  BY Zenon, CallRecord DEF IInv, NodeUnstageVolume
<1>1. /\ v = call[p].volume /\ call[p].pc = "unmount" /\ VolumeRight(v) /\ call[p].op = "unstage"
      /\ view[v] = "unstage?" \/ (view[v] = "staged" /\ v \in Block)
      /\ UNCHANGED <<disk, path, link, byId, size, fs, target, broken>>
  <2>1. CallRight(p) /\ VolumeRight(v)
    BY Zenon DEF IInv
  <2>2. call[p].pc # "idle" /\ call[p].op = "unstage" /\ Asked("unstage") = "unstage?"
    BY Zenon DEF NodeUnstageVolume, Asked
  <2> QED
    BY Zenon, <1>0, <2>1, <2>2 DEF NodeUnstageVolume, CallRight
<1>2. CASE staging' = [staging EXCEPT ![v] = None] /\ Return(p, TRUE)
  <2>1. /\ staging' \in [Volumes -> Disks \cup {None}]
        /\ staging'[v] = None /\ \A w \in Volumes : w # v => staging'[w] = staging[w]
    BY Zenon, <1>2 DEF IInv, TypeOK
  <2>2. HostTypeOK'
    BY Zenon, <1>1, <1>2, <2>1 DEF HostTypeOK, IInv, TypeOK
  <2>3. /\ \A w \in Volumes : w # v => view'[w] = view[w]
        /\ view'[v] = view[v] \/ view'[v] = "out"
    BY Zenon, <1>1, <1>2, ReturnView DEF Granted
  <2>4. OnlyFor(v) /\ VolumeRight(v)'
    BY Zenon, <1>1, <2>1, <2>3 DEF OnlyFor, VolumeRight
  <2> QED
    BY Zenon, <1>1, <1>2, <2>2, <2>4, ReturnKeeps
<1>3. CASE Fails(p) /\ UNCHANGED staging
  BY Zenon, <1>1, <1>3, FailKeeps DEF host
<1> QED
  BY Zenon, <1>1, <1>2, <1>3 DEF NodeUnstageVolume

-----------------------------------------------------------------------------
(* kubelet, EC2, udev and restarts *)

\* A call that does nothing: kubelet is told that a block volume is staged.
LEMMA NothingKeeps ==
    ASSUME IInv, NEW op \in Ops, NEW v \in Volumes, MayCall(op, v), Nothing(op, v),
           view' = [view EXCEPT ![v] = Granted(op)], UNCHANGED <<call, inFlight>>, UNCHANGED host
    PROVE  IInv'
<1>1. UNCHANGED <<disk, path, link, byId, size, fs, staging, target, broken>>
  BY Zenon DEF host
<1>2. /\ v \in Block /\ view \in [Volumes -> View]
      /\ \/ view'[v] = "staged" /\ view[v] \in {"out", "stage?", "staged", "unstage?"}
         \/ view'[v] = view[v]
      /\ \A w \in Volumes : w # v => view'[w] = view[w]
      /\ view' \in [Volumes -> View]
  <2>1. CASE op = "stage"
    BY Zenon, <2>1 DEF Nothing, MayCall, Granted, IInv, TypeOK, View
  <2>2. CASE op = "expand"
    BY Zenon, <2>2 DEF Nothing, MayCall, Granted, IInv, TypeOK, View
  <2> QED
    BY Zenon, <2>1, <2>2 DEF Nothing
<1>3. TypeOK' /\ DisksThere' /\ KeysHeld'
  BY <1>1, <1>2 DEF IInv, TypeOK, DisksThere, Attached, KeysHeld
<1>4. ASSUME NEW q \in Procs PROVE CallRight(q)'
  <2>1. CASE call[q].pc = "idle" \/ call[q].volume # v
    <3>1. call[q].pc # "idle" => call[q].volume \in Volumes
      BY Zenon, CallRecord DEF IInv
    <3> QED
      BY Zenon, <1>1, <1>2, <2>1, <3>1 DEF IInv, CallRight
  <2>2. CASE call[q].pc # "idle" /\ call[q].volume = v
    <3>1. CallRight(q) /\ call[q].op \in Ops
      BY Zenon, <2>2, CallRecord DEF IInv
    <3>2. CASE view'[v] = view[v]
      BY Zenon, <1>1, <2>2, <3>1, <3>2 DEF CallRight
    <3>3. CASE view'[v] = "staged" /\ view[v] \in {"out", "stage?", "staged", "unstage?"}
      <4>1. call[q].op = "unstage"
        BY Zenon, <1>2, <2>2, <3>1, <3>3 DEF CallRight, Asked, Ops
      <4> QED
        BY Zenon, <1>1, <1>2, <2>2, <3>1, <3>3, <4>1 DEF CallRight
    <3> QED
      BY Zenon, <1>2, <3>2, <3>3
  <2> QED
    BY Zenon, <2>1, <2>2
<1>5. ASSUME NEW w \in Volumes PROVE VolumeRight(w)'
  <2>1. VolumeRight(w)
    BY Zenon DEF IInv
  <2> QED
    BY Zenon, <1>1, <1>2, <2>1 DEF VolumeRight
<1> QED
  BY Zenon, <1>3, <1>4, <1>5 DEF IInv

\* A call with its key in hand.
LEMMA ReceiveKeeps ==
    ASSUME IInv, NEW p \in Procs, NEW op \in Ops, NEW v \in Volumes, Receive(p, op, v), ~Nothing(op, v)
    PROVE  IInv'
<1> DEFINE r == [pc |-> FirstStep(op, v), op |-> op, volume |-> v, source |-> None, want |-> size[v]]
<1>1. /\ call[p].pc = "idle" /\ MayCall(op, v) /\ v \notin inFlight /\ inFlight' = inFlight \cup {v}
      /\ view' = [view EXCEPT ![v] = Asked(op)] /\ call' = [call EXCEPT ![p] = r] /\ UNCHANGED host
  BY Zenon DEF Receive, Insert
<1>2. UNCHANGED <<disk, path, link, byId, size, fs, staging, target, broken>>
  BY Zenon, <1>1 DEF host
<1>3. /\ FirstStep(op, v) \in {"find", "bind", "unmount"}
      /\ FirstStep(op, v) = "find" => op \in {"stage", "publish", "expand"}
      /\ FirstStep(op, v) = "bind" => op = "publish" /\ v \notin Block
  BY Zenon DEF FirstStep, Ops
<1>4. /\ r \in Call /\ r.pc = FirstStep(op, v) /\ r.op = op /\ r.volume = v /\ r.want = size[v]
      /\ size[v] \in Nat /\ size' = size
  BY <1>2, <1>3, MaxSizeAssumption DEF Call, IInv, TypeOK, Sizes
<1> HIDE DEF r
<1>5. /\ call' \in [Procs -> Call \cup Idle] /\ call'[p] = r
      /\ \A q \in Procs : q # p => call'[q] = call[q]
  BY Zenon, <1>1, <1>4 DEF IInv, TypeOK
<1>6. Asked(op) \in View
  BY Zenon DEF Asked, Ops, View
<1>7. /\ view' \in [Volumes -> View] /\ view'[v] = Asked(op)
      /\ \A w \in Volumes : w # v => view'[w] = view[w]
  BY Zenon, <1>1, <1>6 DEF IInv, TypeOK
<1>8. TypeOK'
  BY Zenon, <1>1, <1>2, <1>5, <1>7 DEF IInv, TypeOK
<1>9. DisksThere'
  BY Zenon, <1>2 DEF IInv, DisksThere, Attached
<1>10. KeysHeld'
  BY Zenon, <1>1, <1>4, <1>5 DEF IInv, KeysHeld
<1>11. ASSUME NEW q \in Procs PROVE CallRight(q)'
  <2>1. CASE q = p
    BY <1>3, <1>4, <1>5, <1>7, <2>1 DEF CallRight, Nothing
  <2>2. CASE q # p
    <3>1. call[q].pc # "idle" => call[q].volume \in Volumes /\ call[q].volume # v
      BY Zenon, <1>1, CallRecord DEF IInv, KeysHeld
    <3>2. CallRight(q)
      BY Zenon DEF IInv
    <3> QED
      BY Zenon, <1>2, <1>5, <1>7, <2>2, <3>1, <3>2 DEF CallRight
  <2> QED
    BY Zenon, <2>1, <2>2
<1>12. ASSUME NEW w \in Volumes PROVE VolumeRight(w)'
  <2>1. VolumeRight(w)
    BY Zenon DEF IInv
  <2>2. CASE w # v
    BY Zenon, <1>2, <1>7, <2>1, <2>2 DEF VolumeRight
  <2>3. CASE w = v
    BY Zenon, <1>1, <1>2, <1>7, <2>1, <2>3 DEF VolumeRight, MayCall, Asked, Ops
  <2> QED
    BY Zenon, <2>2, <2>3
<1> QED
  BY Zenon, <1>8, <1>9, <1>10, <1>11, <1>12 DEF IInv

\* Only EC2 changes which volume a disk is, and not while the volume is in use.
LEMMA AttachKeeps ==
    ASSUME IInv, NEW v \in Volumes, Attach(v)
    PROVE  IInv'
<1>1. PICK d \in Disks, x \in FreePaths :
        /\ disk[d] = None
        /\ disk' = [disk EXCEPT ![d] = v]
        /\ path' = [path EXCEPT ![v] = x]
  BY Zenon DEF Attach
<1>2. UNCHANGED <<call, inFlight, view, link, byId, size, fs, staging, target, broken>>
  BY Zenon DEF Attach
<1>3. /\ disk' \in [Disks -> Volumes \cup {None}] /\ disk'[d] = v
      /\ \A e \in Disks : disk[e] # None => disk'[e] = disk[e]
      /\ path' \in [Volumes -> Paths \cup {None}] /\ \A w \in Volumes : w # v => path'[w] = path[w]
  BY Zenon, <1>1 DEF IInv, TypeOK, FreePaths
<1>4. TypeOK' /\ KeysHeld'
  BY Zenon, <1>2, <1>3 DEF IInv, TypeOK, KeysHeld
<1>5. DisksThere'
  BY ZenonT(60), <1>3, NoneAssumption DEF IInv, DisksThere, Attached
<1>6. ASSUME NEW q \in Procs PROVE CallRight(q)'
  <2>1. CallRight(q) /\ (call[q].pc # "idle" => call[q].volume # None)
    BY Zenon, CallRecord, NoneAssumption DEF IInv
  <2> QED
    BY Zenon, <1>2, <1>3, <2>1 DEF CallRight
<1>7. ASSUME NEW w \in Volumes PROVE VolumeRight(w)'
  <2>1. VolumeRight(w) /\ w # None /\ staging[w] \in Disks \cup {None}
    BY Zenon, NoneAssumption DEF IInv, TypeOK
  <2> QED
    BY Zenon, <1>2, <1>3, <2>1 DEF VolumeRight
<1> QED
  BY Zenon, <1>4, <1>5, <1>6, <1>7 DEF IInv

\* A volume that kubelet has unmounted is detached; the links of its disk stay until udev.
LEMMA DetachKeeps ==
    ASSUME IInv, NEW v \in Volumes, Detach(v)
    PROVE  IInv'
<1>1. DiskOf(v) \in Disks /\ disk[DiskOf(v)] = v
  BY Zenon DEF IInv, DisksThere, Detach, DiskOf
<1>2. UNCHANGED <<call, inFlight, view, link, byId, size, fs, staging, target, broken>>
  BY Zenon DEF Detach
<1>3. /\ disk' \in [Disks -> Volumes \cup {None}]
      /\ \A e \in Disks : disk[e] # v => disk'[e] = disk[e]
      /\ path' \in [Volumes -> Paths \cup {None}] /\ path'[v] = None
      /\ \A w \in Volumes : w # v => path'[w] = path[w]
  BY Zenon, <1>1 DEF IInv, TypeOK, Detach
<1>4. TypeOK' /\ KeysHeld'
  BY Zenon, <1>2, <1>3 DEF IInv, TypeOK, KeysHeld
<1>5. DisksThere'
  BY <1>3 DEF IInv, DisksThere, Attached
<1>6. ASSUME NEW q \in Procs PROVE CallRight(q)'
  <2>1. CallRight(q) /\ (call[q].pc # "idle" => call[q].volume # v)
    BY Zenon DEF IInv, KeysHeld, Detach
  <2> QED
    BY Zenon, <1>2, <1>3, <2>1 DEF CallRight
<1>7. ASSUME NEW w \in Volumes PROVE VolumeRight(w)'
  <2>1. VolumeRight(w) /\ staging[w] \in Disks \cup {None} /\ view[v] = "out"
    BY Zenon DEF IInv, TypeOK, Detach
  <2> QED
    BY Zenon, <1>2, <1>3, <2>1 DEF VolumeRight
<1> QED
  BY Zenon, <1>4, <1>5, <1>6, <1>7 DEF IInv

\* A step that concerns neither the calls nor the mounts.
LEMMA AsideKeeps ==
    ASSUME IInv, TypeOK', UNCHANGED <<call, inFlight, view, disk, path, fs, staging, target>>,
           \A v \in Volumes : size[v] <= size'[v]
    PROVE  IInv'
<1>1. DisksThere' /\ KeysHeld'
  BY Zenon DEF IInv, DisksThere, Attached, KeysHeld
<1>2. ASSUME NEW q \in Procs PROVE CallRight(q)'
  <2>1. CASE call[q].pc = "idle"
    BY Zenon, <2>1 DEF CallRight
  <2>2. CASE call[q].pc # "idle"
    <3>1. CallRight(q) /\ call[q].volume \in Volumes /\ call[q].want \in Nat
      BY <2>2, CallRecord, MaxSizeAssumption DEF IInv, Call, Sizes
    <3>2. size[call[q].volume] \in Nat /\ size'[call[q].volume] \in Nat
      BY <3>1, MaxSizeAssumption DEF IInv, TypeOK, Sizes
    <3>3. call[q].want <= size'[call[q].volume]
      BY <2>2, <3>1, <3>2 DEF CallRight
    <3> QED
      BY Zenon, <2>2, <3>1, <3>3 DEF CallRight
  <2> QED
    BY Zenon, <2>1, <2>2
<1>3. ASSUME NEW w \in Volumes PROVE VolumeRight(w)'
  <2>1. VolumeRight(w) /\ fs[w] \in Nat /\ size[w] \in Nat /\ size'[w] \in Nat
    BY MaxSizeAssumption DEF IInv, TypeOK, Sizes
  <2> QED
    BY <2>1 DEF VolumeRight
<1> QED
  BY Zenon, <1>1, <1>2, <1>3 DEF IInv

\* udev catches up: no mount and no call changes.
LEMMA UdevKeeps ==
    ASSUME IInv, NEW v \in Volumes, NEW x \in Paths, Udev(v, x)
    PROVE  IInv'
<1>1. ASSUME NEW w \in Volumes, Attached(w) PROVE DiskOf(w) \in Disks
  BY Zenon, <1>1 DEF IInv, DisksThere, DiskOf
<1>2. byId' \in [Volumes -> Disks \cup {None}]
  BY Zenon, <1>1 DEF Udev, IInv, TypeOK
<1>3. link' \in [Paths -> Disks \cup {None}]
  <2>1. CASE \E w \in Volumes : path[w] = x
    <3> DEFINE w == CHOOSE w \in Volumes : path[w] = x
    <3>1. w \in Volumes /\ path[w] = x
      BY Zenon, <2>1
    <3>2. DiskOf(w) \in Disks
      BY Zenon, <1>1, <3>1, NoneAssumption DEF Attached
    <3>3. link' = [link EXCEPT ![x] = DiskOf(w)]
      BY Zenon, <2>1 DEF Udev
    <3> HIDE DEF w
    <3> QED
      BY Zenon, <3>2, <3>3 DEF IInv, TypeOK
  <2>2. CASE ~\E w \in Volumes : path[w] = x
    BY Zenon, <2>2 DEF Udev, IInv, TypeOK
  <2> QED
    BY Zenon, <2>1, <2>2
<1>4. UNCHANGED <<call, inFlight, view, disk, path, size, fs, staging, target, broken>>
  BY Zenon DEF Udev
<1>5. TypeOK'
  BY Zenon, <1>2, <1>3, <1>4 DEF IInv, TypeOK
<1>6. \A w \in Volumes : size[w] <= size'[w]
  BY <1>4, MaxSizeAssumption DEF IInv, TypeOK, Sizes
<1> QED
  BY Zenon, <1>4, <1>5, <1>6, AsideKeeps

\* A volume grows in EC2, or the mount of a published one breaks.
LEMMA GrowCorruptKeep ==
    ASSUME IInv, NEW v \in Volumes, Grow(v) \/ Corrupt(v)
    PROVE  IInv'
<1>1. CASE Grow(v)
  <2>1. UNCHANGED <<call, inFlight, view, disk, path, link, byId, fs, staging, target, broken>>
    BY Zenon, <1>1 DEF Grow
  <2>2. size' \in [Volumes -> Sizes] /\ \A w \in Volumes : size[w] <= size'[w]
    BY <1>1, MaxSizeAssumption DEF Grow, IInv, TypeOK, Sizes
  <2>3. TypeOK'
    BY Zenon, <2>1, <2>2 DEF IInv, TypeOK
  <2> QED
    BY Zenon, <2>1, <2>2, <2>3, AsideKeeps
<1>2. CASE Corrupt(v)
  <2>1. UNCHANGED <<call, inFlight, view, disk, path, link, byId, size, fs, staging, target>>
    BY Zenon, <1>2 DEF Corrupt
  <2>2. TypeOK'
    BY Zenon, <1>2, <2>1 DEF Corrupt, IInv, TypeOK
  <2>3. \A w \in Volumes : size[w] <= size'[w]
    BY <2>1, MaxSizeAssumption DEF IInv, TypeOK, Sizes
  <2> QED
    BY Zenon, <2>1, <2>2, <2>3, AsideKeeps
<1> QED
  BY Zenon, <1>1, <1>2

\* A restart ends every call; kubelet's view of the volumes and the mounts survive it or
\* start again together.
LEMMA RestartKeeps ==
    ASSUME IInv, Restart \/ Reboot
    PROVE  IInv'
<1>1. /\ call' = [p \in Procs |-> [pc |-> "idle", ok |-> FALSE]] /\ inFlight' = {}
      /\ UNCHANGED <<disk, path, link, byId, size, fs>>
  BY Zenon DEF Restart, Reboot
<1>2. [pc |-> "idle", ok |-> FALSE] \in Idle
  BY Zenon DEF Idle
<1>3. call' \in [Procs -> Call \cup Idle] /\ \A p \in Procs : call'[p].pc = "idle"
  BY Zenon, <1>1, <1>2
<1>4. KeysHeld' /\ (\A p \in Procs : CallRight(p)') /\ DisksThere'
  BY Zenon, <1>1, <1>3 DEF KeysHeld, CallRight, DisksThere, Attached, IInv
<1>5. CASE Restart
  <2>1. UNCHANGED <<view, disk, staging, target, broken>>
    BY Zenon, <1>5 DEF Restart
  <2>2. TypeOK'
    BY Zenon, <1>1, <1>3, <2>1 DEF IInv, TypeOK
  <2>3. \A v \in Volumes : VolumeRight(v)'
    BY Zenon, <1>1, <2>1 DEF IInv, VolumeRight
  <2> QED
    BY Zenon, <1>4, <2>2, <2>3 DEF IInv
<1>6. CASE Reboot
  <2>1. /\ view' = [v \in Volumes |-> "out"]
        /\ staging' = [v \in Volumes |-> None]
        /\ target' = [v \in Volumes |-> None]
        /\ broken' = {}
    BY Zenon, <1>6 DEF Reboot
  <2>2. TypeOK'
    BY Zenon, <1>1, <1>3, <2>1 DEF IInv, TypeOK, View
  <2>3. \A v \in Volumes : VolumeRight(v)'
    BY Zenon, <1>1, <2>1 DEF IInv, VolumeRight
  <2> QED
    BY Zenon, <1>4, <2>2, <2>3 DEF IInv
<1> QED
  BY Zenon, <1>5, <1>6

-----------------------------------------------------------------------------
(* The theorems *)

\* The first state.
LEMMA InitIInv == Init => IInv
<1> SUFFICES ASSUME Init PROVE IInv
  OBVIOUS
<1>1. [pc |-> "idle", ok |-> FALSE] \in Idle
  BY Zenon DEF Idle
<1>2. call \in [Procs -> Call \cup Idle] /\ \A p \in Procs : call[p].pc = "idle"
  BY Zenon, <1>1 DEF Init
<1>3. TypeOK
  BY <1>2, MaxSizeAssumption DEF Init, TypeOK, View, Sizes
<1>4. KeysHeld /\ (\A p \in Procs : CallRight(p)) /\ DisksThere
  BY Zenon, <1>2 DEF KeysHeld, CallRight, DisksThere, Attached, Init
<1>5. \A v \in Volumes : VolumeRight(v)
  BY MaxSizeAssumption DEF Init, VolumeRight, Sizes
<1> QED
  BY Zenon, <1>3, <1>4, <1>5 DEF IInv

\* Every step keeps the invariant, where lsblk prints the serials.
LEMMA NextKeeps ==
    ASSUME Lsblk, IInv, [Next]_vars
    PROVE  IInv'
<1>1. CASE UNCHANGED vars
  <2>1. UNCHANGED <<call, inFlight, view, disk, path, link, byId, size, fs, staging, target, broken>>
    BY Zenon, <1>1 DEF vars
  <2>2. TypeOK'
    BY Zenon, <2>1 DEF IInv, TypeOK
  <2>3. \A w \in Volumes : size[w] <= size'[w]
    BY <2>1, MaxSizeAssumption DEF IInv, TypeOK, Sizes
  <2> QED
    BY Zenon, <2>1, <2>2, <2>3, AsideKeeps
<1>2. ASSUME NEW v \in Volumes, Attach(v) \/ Detach(v) \/ Grow(v) \/ Corrupt(v) PROVE IInv'
  BY Zenon, <1>2, AttachKeeps, DetachKeeps, GrowCorruptKeep
<1>3. ASSUME NEW v \in Volumes, NEW x \in Paths, Udev(v, x) PROVE IInv'
  BY Zenon, <1>3, UdevKeeps
<1>4. ASSUME NEW p \in Procs, NEW op \in Ops, NEW v \in Volumes, Receive(p, op, v) PROVE IInv'
  <2>1. CASE Nothing(op, v)
    BY Zenon, <1>4, <2>1, NothingKeeps DEF Receive
  <2>2. CASE ~Nothing(op, v)
    BY Zenon, <1>4, <2>2, ReceiveKeeps
  <2> QED
    BY Zenon, <2>1, <2>2
<1>5. ASSUME NEW p \in Procs, Step(p) PROVE IInv'
  BY Zenon, <1>5, FindKeeps, CheckKeeps, FormatKeeps, MountKeeps, ResizeKeeps, BindKeeps,
     UnpublishKeeps, UnstageKeeps DEF Step
<1>6. ASSUME Restart \/ Reboot PROVE IInv'
  BY Zenon, <1>6, RestartKeeps
<1> QED
  BY Zenon, <1>1, <1>2, <1>3, <1>4, <1>5, <1>6 DEF Next

\* The invariant is inductive.
THEOREM NodeServiceInvariant == ASSUME Lsblk PROVE Spec => []IInv
BY InitIInv, NextKeeps, PTL DEF Spec

\* Where lsblk prints the serials of the disks, no volume is ever mounted for another one:
\* not by a call that a stale link of udev has led astray, nor by one that went on while
\* disks came and went.
THEOREM MountsAlwaysOwn == ASSUME Lsblk PROVE Spec => []MountsAreOwn
<1>1. IInv => MountsAreOwn
  BY Zenon, NoneAssumption DEF IInv, VolumeRight, MountsAreOwn
<1> QED
  BY <1>1, NodeServiceInvariant, PTL

\* What kubelet was told of a volume stays true through retries, missed answers, and restarts
\* of the plugin and of the host.
THEOREM ViewAlwaysTrue == ASSUME Lsblk PROVE Spec => []ViewIsTrue
<1>1. IInv => ViewIsTrue
  BY Zenon DEF IInv, VolumeRight, ViewIsTrue
<1> QED
  BY <1>1, NodeServiceInvariant, PTL

\* A file system changes in two steps only.
LEMMA FsChanges ==
    ASSUME IInv, Next, fs' # fs
    PROVE  \E p \in Procs : Format(p) \/ Resize(p)
<1>1. ASSUME NEW v \in Volumes, Attach(v) \/ Detach(v) \/ Grow(v) \/ Corrupt(v) PROVE fs' = fs
  BY Zenon, <1>1 DEF Attach, Detach, Grow, Corrupt
<1>2. ASSUME NEW v \in Volumes, NEW x \in Paths, Udev(v, x) PROVE fs' = fs
  BY Zenon, <1>2 DEF Udev
<1>3. ASSUME NEW p \in Procs, NEW op \in Ops, NEW v \in Volumes, Receive(p, op, v) PROVE fs' = fs
  BY Zenon, <1>3 DEF Receive, host
<1>4. ASSUME NEW p \in Procs, Step(p), ~(Format(p) \/ Resize(p)) PROVE fs' = fs
  <2>1. CASE Find(p) \/ Check(p)
    BY Zenon, <2>1 DEF Find, Check, host
  <2>2. CASE Mount(p) \/ Bind(p) \/ NodeUnpublishVolume(p) \/ NodeUnstageVolume(p)
    BY Zenon, <2>2 DEF Mount, Bind, NodeUnpublishVolume, NodeUnstageVolume
  <2> QED
    BY Zenon, <1>4, <2>1, <2>2 DEF Step
<1>5. ASSUME Restart \/ Reboot PROVE fs' = fs
  BY Zenon, <1>5 DEF Restart, Reboot
<1> QED
  BY Zenon, <1>1, <1>2, <1>3, <1>4, <1>5 DEF Next

\* Format makes a file system only on the blank disk of its own volume.
LEMMA FormatOwn ==
    ASSUME IInv, NEW p \in Procs, Format(p), NEW v \in Volumes, fs'[v] # fs[v]
    PROVE  call[p].pc = "format" /\ call[p].volume = v /\ fs[v] = 0
<1>1. call[p].pc = "format" /\ call[p].volume \in Volumes /\ disk[call[p].source] = call[p].volume
  BY Zenon, CallRecord DEF IInv, Format, CallRight
<1> QED
  BY Zenon, <1>1 DEF IInv, TypeOK, Format

\* Resize makes the file system of its own volume as large as the volume, which never shrinks it.
LEMMA ResizeOwn ==
    ASSUME IInv, NEW p \in Procs, Resize(p), NEW v \in Volumes, fs'[v] # fs[v]
    PROVE  call[p].pc = "resize" /\ call[p].volume = v /\ fs'[v] > fs[v]
<1>1. call[p].pc = "resize" /\ call[p].volume \in Volumes /\ disk[call[p].source] = call[p].volume
  BY Zenon, CallRecord DEF IInv, Resize, CallRight
<1>2. fs[v] <= size[v] /\ fs[v] \in Nat /\ size[v] \in Nat
  BY MaxSizeAssumption DEF IInv, VolumeRight, TypeOK, Sizes
<1>3. fs \in [Volumes -> 0..MaxSize]
  BY Zenon DEF IInv, TypeOK
<1>4. fs' = [fs EXCEPT ![call[p].volume] = size[call[p].volume]]
  <2>1. fs' # fs
    OBVIOUS
  <2> QED
    BY <1>1, <2>1, Zenon DEF Resize
<1> QED
  BY <1>1, <1>2, <1>3, <1>4

\* Where lsblk prints the serials, data is never formatted away: a file system is made only
\* on a blank volume for a stage of that volume, and otherwise only grows.
THEOREM FormatsOnlyOwnBlank == ASSUME Lsblk PROVE Spec => FormatsOwnBlank
<1>1. ASSUME IInv, [Next]_vars
      PROVE  [\A v \in Volumes : fs'[v] # fs[v] =>
                \E p \in Procs :
                   /\ call[p].pc # "idle" /\ call[p].volume = v
                   /\ \/ call[p].pc = "format" /\ fs[v] = 0
                      \/ call[p].pc = "resize" /\ fs'[v] > fs[v]]_vars
  <2> SUFFICES ASSUME Next, NEW v \in Volumes, fs'[v] # fs[v]
               PROVE  \E p \in Procs :
                        /\ call[p].pc # "idle" /\ call[p].volume = v
                        /\ \/ call[p].pc = "format" /\ fs[v] = 0
                           \/ call[p].pc = "resize" /\ fs'[v] > fs[v]
    BY Zenon, <1>1
  <2>1. PICK p \in Procs : Format(p) \/ Resize(p)
    BY Zenon, <1>1, FsChanges
  <2>2. CASE Format(p)
    BY Zenon, <1>1, <2>2, FormatOwn
  <2>3. CASE Resize(p)
    BY Zenon, <1>1, <2>3, ResizeOwn
  <2> QED
    BY Zenon, <2>1, <2>2, <2>3
<1> QED
  BY <1>1, NodeServiceInvariant, PTL DEF Spec, FormatsOwnBlank

-----------------------------------------------------------------------------
(* In-flight keys, with or without lsblk *)

\* A bound on the steps a call has left.
Rank(c) ==
    CASE c.pc = "find" -> 5
      [] c.pc = "check" -> 4
      [] c.pc = "format" -> 3
      [] c.pc = "mount" -> 2
      [] c.pc \in {"resize", "bind", "unmount"} -> 1
      [] OTHER -> 0

HasFields(c) == c = [f \in {"pc", "op", "volume", "source", "want"} |-> c[f]]

\* What a goroutine serves, whatever disk it has found.
Shaped(c) ==
    \/ c.pc = "idle"
    \/ /\ HasFields(c)
       /\ c.pc \in {"find", "check", "format", "mount", "resize", "bind", "unmount"}
       /\ c.pc = "find" => c.op \in {"stage", "publish", "expand"}

\* InFlight holds the volumes of the calls in progress, and no other.
KeysOwned == \A v \in inFlight : \E p \in Procs : call[p].pc # "idle" /\ call[p].volume = v

KeyInv ==
    /\ call = [p \in Procs |-> call[p]] /\ \A p \in Procs : Shaped(call[p])
    /\ KeysHeld
    /\ KeysOwned

\* A call goes on to a later place with its key, or gives the key back with the answer.
MovesOn(p) ==
    /\ call[p].pc # "idle" /\ Shaped(call'[p]) /\ Rank(call'[p]) < Rank(call[p])
    /\ call' = [q \in Procs |-> call'[q]] /\ \A q \in Procs \ {p} : call'[q] = call[q]
    /\ \/ call'[p].pc = "idle" /\ inFlight' = inFlight \ {call[p].volume}
       \/ call'[p].pc # "idle" /\ call'[p].volume = call[p].volume /\ inFlight' = inFlight

\* A call becomes r.
LEMMA CallSet ==
    ASSUME KeyInv, NEW p \in Procs, NEW r, call' = [call EXCEPT ![p] = r],
           call[p].pc # "idle", Shaped(r), Rank(r) < Rank(call[p]),
           \/ r.pc = "idle" /\ inFlight' = inFlight \ {call[p].volume}
           \/ r.pc # "idle" /\ r.volume = call[p].volume /\ inFlight' = inFlight
    PROVE  MovesOn(p)
<1>1. /\ call' = [q \in Procs |-> call'[q]] /\ call'[p] = r
      /\ \A q \in Procs \ {p} : call'[q] = call[q]
  <2> DEFINE f == [q \in Procs |-> call[q]]
  <2>1. call = f
    BY Zenon DEF KeyInv
  <2>2. \A g : g = [f EXCEPT ![p] = r] => /\ g = [q \in Procs |-> g[q]] /\ g[p] = r
                                         /\ \A q \in Procs \ {p} : g[q] = f[q]
    BY Zenon
  <2> HIDE DEF f
  <2>3. PICK g : g = call'
    OBVIOUS
  <2>4. g = [f EXCEPT ![p] = r]
    BY Zenon, <2>1, <2>3
  <2>5. /\ g = [q \in Procs |-> g[q]] /\ g[p] = r
        /\ \A q \in Procs \ {p} : g[q] = f[q]
    BY Zenon, <2>2, <2>4
  <2> QED
    BY Zenon, <2>1, <2>3, <2>5
<1> QED
  BY Zenon, <1>1 DEF MovesOn

\* A handler that returns moves on.
LEMMA ReturnMoves ==
    ASSUME KeyInv, NEW p \in Procs, Return(p, TRUE) \/ Return(p, FALSE), call[p].pc # "idle"
    PROVE  MovesOn(p)
<1>1. PICK r : call' = [call EXCEPT ![p] = r] /\ r.pc = "idle"
  <2>1. \A b : [pc |-> "idle", ok |-> b].pc = "idle"
    BY Zenon
  <2> QED
    BY Zenon, <2>1 DEF Return
<1>2. inFlight' = inFlight \ {call[p].volume}
  BY Zenon DEF Return
<1>3. call[p].pc \in {"find", "check", "format", "mount", "resize", "bind", "unmount"}
  BY Zenon DEF KeyInv, Shaped
<1>4. Rank(r) < Rank(call[p])
  BY <1>1, <1>3 DEF Rank
<1> QED
  BY Zenon, <1>1, <1>2, <1>4, CallSet DEF Shaped

\* So does one that goes to a later place, with the source it has or another.
LEMMA GoesMoves ==
    ASSUME KeyInv, NEW p \in Procs, NEW pc, NEW e,
           \/ call' = [call EXCEPT ![p].pc = pc]
           \/ call' = [call EXCEPT ![p].pc = pc, ![p].source = e],
           UNCHANGED inFlight,
           \/ call[p].pc = "find" /\ pc \in {"check", "bind", "resize"}
           \/ call[p].pc = "check" /\ pc = "format"
           \/ call[p].pc = "format" /\ pc = "mount"
           \/ call[p].pc = "mount" /\ pc = "resize"
    PROVE  MovesOn(p)
<1>1. call[p].pc # "idle"
  OBVIOUS
<1>2. HasFields(call[p])
  BY Zenon, <1>1 DEF KeyInv, Shaped
<1>3. PICK r : /\ call' = [call EXCEPT ![p] = r]
               /\ r = [call[p] EXCEPT !.pc = pc] \/ r = [call[p] EXCEPT !.pc = pc, !.source = e]
  BY Zenon
<1>4. r.pc = pc /\ r.volume = call[p].volume /\ HasFields(r)
  <2>1. PICK c : c = call[p]
    BY Zenon
  <2>2. HasFields(c) /\ (r = [c EXCEPT !.pc = pc] \/ r = [c EXCEPT !.pc = pc, !.source = e])
    BY Zenon, <1>2, <1>3, <2>1
  <2>3. r.pc = pc /\ r.volume = c.volume /\ HasFields(r)
    <3>1. CASE r = [c EXCEPT !.pc = pc]
      BY Zenon, <2>2, <3>1 DEF HasFields
    <3>2. CASE r = [c EXCEPT !.pc = pc, !.source = e]
      BY Zenon, <2>2, <3>2 DEF HasFields
    <3> QED
      BY Zenon, <2>2, <3>1, <3>2
  <2> QED
    BY Zenon, <2>1, <2>3
<1>5. Shaped(r)
  BY Zenon, <1>4 DEF Shaped
<1>6. Rank(r) < Rank(call[p]) /\ r.pc # "idle"
  BY <1>4 DEF Rank
<1> QED
  BY Zenon, <1>1, <1>3, <1>4, <1>5, <1>6, CallSet

\* Whatever a goroutine does for its RPC, it moves on.
LEMMA StepMoves ==
    ASSUME KeyInv, NEW p \in Procs, Step(p)
    PROVE  MovesOn(p)
<1>1. call[p].pc # "idle"
  BY Zenon DEF Step, Find, Check, Format, Mount, Resize, Bind, NodeUnpublishVolume,
               NodeUnstageVolume
<1>2. CASE Find(p)
  <2>1. call[p].pc = "find" /\ call[p].op \in {"stage", "publish", "expand"}
    BY Zenon, <1>2 DEF Find, KeyInv, Shaped
  <2>2. AfterFind(call[p].op) \in {"check", "bind", "resize"}
    BY Zenon, <2>1 DEF AfterFind
  <2>3. \/ Return(p, FALSE)
        \/ \E d : /\ call' = [call EXCEPT ![p].pc = AfterFind(call[p].op), ![p].source = d]
                  /\ UNCHANGED inFlight
    BY Zenon, <1>2 DEF Find, Fails
  <2> QED
    BY Zenon, <1>1, <2>1, <2>2, <2>3, ReturnMoves, GoesMoves
<1>3. CASE Check(p)
  <2>1. call[p].pc = "check" /\ (Return(p, TRUE) \/ Goto(p, "format") \/ Return(p, FALSE))
    BY Zenon, <1>3 DEF Check, Fails
  <2> QED
    BY Zenon, <1>1, <2>1, ReturnMoves, GoesMoves DEF Goto
<1>4. CASE Format(p)
  <2>1. call[p].pc = "format" /\ (Goto(p, "mount") \/ Return(p, FALSE))
    BY Zenon, <1>4 DEF Format, Fails
  <2> QED
    BY Zenon, <1>1, <2>1, ReturnMoves, GoesMoves DEF Goto
<1>5. CASE Mount(p)
  <2>1. call[p].pc = "mount" /\ (Goto(p, "resize") \/ Return(p, FALSE))
    BY Zenon, <1>5 DEF Mount, Fails
  <2> QED
    BY Zenon, <1>1, <2>1, ReturnMoves, GoesMoves DEF Goto
<1>6. CASE Resize(p) \/ Bind(p) \/ NodeUnpublishVolume(p) \/ NodeUnstageVolume(p)
  <2>1. Return(p, TRUE) \/ Return(p, FALSE)
    BY Zenon, <1>6 DEF Resize, Bind, NodeUnpublishVolume, NodeUnstageVolume, Fails
  <2> QED
    BY Zenon, <1>1, <2>1, ReturnMoves
<1> QED
  BY Zenon, <1>2, <1>3, <1>4, <1>5, <1>6 DEF Step

\* One step of a call uses up some of what it has left; nobody else takes it back.
Progress ==
    \A p \in Procs :
        /\ Step(p) => Rank(call'[p]) < Rank(call[p])
        /\ call[p].pc # "idle" => Rank(call'[p]) <= Rank(call[p])

\* A call that moves on leaves every key with its owner, and only with its owner.
LEMMA MovesKeep ==
    ASSUME KeyInv, NEW p \in Procs, MovesOn(p)
    PROVE  KeyInv'
<1>1. KeysOwned'
  <2> SUFFICES ASSUME NEW v \in inFlight'
               PROVE  \E q \in Procs : call'[q].pc # "idle" /\ call'[q].volume = v
    BY Zenon DEF KeysOwned
  <2>1. v \in inFlight /\ (call'[p].pc = "idle" => v # call[p].volume)
    BY Zenon DEF MovesOn
  <2>2. PICK q \in Procs : call[q].pc # "idle" /\ call[q].volume = v
    BY Zenon, <2>1 DEF KeyInv, KeysOwned
  <2>3. CASE q = p
    <3>1. call'[p].pc # "idle" /\ call'[p].volume = v
      BY Zenon, <2>1, <2>2, <2>3 DEF MovesOn
    <3> QED
      BY Zenon, <3>1
  <2>4. CASE q # p
    <3>1. call'[q] = call[q]
      BY Zenon, <2>4 DEF MovesOn
    <3> QED
      BY Zenon, <2>2, <3>1
  <2> QED
    BY Zenon, <2>3, <2>4
<1>2. KeysHeld'
  <2> SUFFICES ASSUME NEW q \in Procs, NEW r \in Procs, call'[q].pc # "idle"
               PROVE  /\ call'[q].volume \in inFlight'
                      /\ call'[r].pc # "idle" /\ call'[r].volume = call'[q].volume => q = r
    BY Zenon DEF KeysHeld
  <2>1. ASSUME NEW s \in Procs, call'[s].pc # "idle"
        PROVE  call[s].pc # "idle" /\ call'[s].volume = call[s].volume
    <3>1. CASE s = p
      BY Zenon, <2>1, <3>1 DEF MovesOn
    <3>2. CASE s # p
      <4>1. call'[s] = call[s]
        BY Zenon, <3>2 DEF MovesOn
      <4> QED
        BY Zenon, <2>1, <4>1
    <3> QED
      BY Zenon, <3>1, <3>2
  <2>2. call[q].pc # "idle" /\ call'[q].volume = call[q].volume /\ call[q].volume \in inFlight
    BY Zenon, <2>1 DEF KeyInv, KeysHeld
  <2>3. call[q].volume \in inFlight'
    <3>1. CASE q = p
      BY Zenon, <2>2, <3>1 DEF MovesOn
    <3>2. CASE q # p
      <4>1. call[q].volume # call[p].volume
        BY Zenon, <2>2, <3>2 DEF KeyInv, KeysHeld, MovesOn
      <4> QED
        BY Zenon, <2>2, <4>1 DEF MovesOn
    <3> QED
      BY Zenon, <3>1, <3>2
  <2>4. call'[r].pc # "idle" /\ call'[r].volume = call'[q].volume => q = r
    BY Zenon, <2>1, <2>2 DEF KeyInv, KeysHeld
  <2> QED
    BY Zenon, <2>2, <2>3, <2>4
<1>3. \A q \in Procs : Shaped(call'[q])
  BY Zenon DEF KeyInv, MovesOn
<1> QED
  BY Zenon, <1>1, <1>2, <1>3 DEF KeyInv, MovesOn

\* A call begins: its volume was not in flight, and is now.
LEMMA BeginKeeps ==
    ASSUME KeyInv, NEW p \in Procs, NEW op \in Ops, NEW v \in Volumes, Receive(p, op, v),
           ~Nothing(op, v)
    PROVE  /\ KeyInv' /\ call[p].pc = "idle"
           /\ \A q \in Procs \ {p} : call'[q] = call[q]
<1> DEFINE r == [pc |-> FirstStep(op, v), op |-> op, volume |-> v, source |-> None, want |-> size[v]]
<1>1. /\ call[p].pc = "idle" /\ v \notin inFlight /\ inFlight' = inFlight \cup {v}
      /\ call' = [call EXCEPT ![p] = r]
  BY Zenon DEF Receive, Insert
<1>2. HasFields(r) /\ r.volume = v /\ r.pc = FirstStep(op, v) /\ r.op = op
  BY Zenon DEF HasFields
<1>3. /\ FirstStep(op, v) \in {"find", "bind", "unmount"}
      /\ FirstStep(op, v) = "find" => op \in {"stage", "publish", "expand"}
  BY Zenon DEF FirstStep, Ops
<1> HIDE DEF r
<1>4. Shaped(r) /\ r.pc # "idle"
  BY Zenon, <1>2, <1>3 DEF Shaped
<1>5. /\ call' = [q \in Procs |-> call'[q]] /\ call'[p] = r
      /\ \A q \in Procs \ {p} : call'[q] = call[q]
  <2> DEFINE f == [q \in Procs |-> call[q]]
  <2>1. call = f
    BY Zenon DEF KeyInv
  <2>2. \A g : g = [f EXCEPT ![p] = r] => /\ g = [q \in Procs |-> g[q]] /\ g[p] = r
                                         /\ \A q \in Procs \ {p} : g[q] = f[q]
    BY Zenon
  <2> HIDE DEF f
  <2> QED
    BY Zenon, <1>1, <2>1, <2>2
<1>6. KeysOwned'
  <2> SUFFICES ASSUME NEW w \in inFlight'
               PROVE  \E q \in Procs : call'[q].pc # "idle" /\ call'[q].volume = w
    BY Zenon DEF KeysOwned
  <2>1. CASE w = v
    BY Zenon, <1>2, <1>4, <1>5, <2>1
  <2>2. CASE w \in inFlight
    <3>1. PICK q \in Procs : call[q].pc # "idle" /\ call[q].volume = w
      BY Zenon, <2>2 DEF KeyInv, KeysOwned
    <3>2. call'[q] = call[q]
      BY Zenon, <1>1, <1>5, <3>1
    <3> QED
      BY Zenon, <3>1, <3>2
  <2> QED
    BY Zenon, <1>1, <2>1, <2>2
<1>7. KeysHeld'
  <2>1. \A q \in Procs \ {p} : call[q].pc # "idle" => call[q].volume \in inFlight /\ call[q].volume # v
    BY Zenon, <1>1 DEF KeyInv, KeysHeld
  <2> SUFFICES ASSUME NEW q \in Procs, NEW s \in Procs, call'[q].pc # "idle"
               PROVE  /\ call'[q].volume \in inFlight'
                      /\ call'[s].pc # "idle" /\ call'[s].volume = call'[q].volume => q = s
    BY Zenon DEF KeysHeld
  <2>2. CASE q = p
    BY Zenon, <1>1, <1>2, <1>5, <2>1, <2>2
  <2>3. CASE q # p /\ s = p
    BY Zenon, <1>1, <1>2, <1>5, <2>1, <2>3
  <2>4. CASE q # p /\ s # p
    BY Zenon, <1>1, <1>5, <2>1, <2>4 DEF KeyInv, KeysHeld
  <2> QED
    BY Zenon, <2>2, <2>3, <2>4
<1>8. \A q \in Procs : Shaped(call'[q])
  BY Zenon, <1>4, <1>5 DEF KeyInv
<1> QED
  BY Zenon, <1>1, <1>5, <1>6, <1>7, <1>8 DEF KeyInv

\* Every step keeps the keys with their owners and the ranks falling.
LEMMA NextKeys == KeyInv /\ [Next]_vars => KeyInv' /\ [Progress]_vars
<1> SUFFICES ASSUME KeyInv, [Next]_vars PROVE KeyInv' /\ [Progress]_vars
  OBVIOUS
<1>1. \A p \in Procs : Step(p) => Rank(call'[p]) < Rank(call[p])
  BY Zenon, StepMoves DEF MovesOn
<1>2. \A c : Rank(c) \in 0..5
  BY DEF Rank
<1>3. \A p \in Procs : Rank(call[p]) <= Rank(call[p]) /\ 0 <= Rank(call[p])
  BY <1>2
<1>4. CASE UNCHANGED <<call, inFlight>>
  BY Zenon, <1>1, <1>3, <1>4 DEF KeyInv, KeysHeld, KeysOwned, Progress
<1>5. ASSUME NEW p \in Procs, Step(p) PROVE KeyInv' /\ Progress
  <2>1. MovesOn(p)
    BY Zenon, <1>5, StepMoves
  <2>2. Rank(call'[p]) <= Rank(call[p])
    <3>1. Rank(call'[p]) < Rank(call[p])
      BY Zenon, <2>1 DEF MovesOn
    <3> QED
      BY <1>2, <3>1
  <2>3. \A q \in Procs : Rank(call'[q]) <= Rank(call[q])
    BY Zenon, <1>3, <2>1, <2>2 DEF MovesOn
  <2> QED
    BY Zenon, <1>1, <2>1, <2>3, MovesKeep DEF Progress
<1>6. ASSUME NEW p \in Procs, NEW op \in Ops, NEW v \in Volumes, Receive(p, op, v)
      PROVE  KeyInv' /\ Progress
  <2>1. CASE Nothing(op, v)
    <3>1. UNCHANGED <<call, inFlight>>
      BY Zenon, <1>6, <2>1 DEF Receive
    <3> QED
      BY Zenon, <1>1, <1>3, <3>1 DEF KeyInv, KeysHeld, KeysOwned, Progress
  <2>2. CASE ~Nothing(op, v)
    <3>1. KeyInv' /\ call[p].pc = "idle" /\ \A q \in Procs \ {p} : call'[q] = call[q]
      BY Zenon, <1>6, <2>2, BeginKeeps
    <3> QED
      BY Zenon, <1>1, <1>3, <3>1 DEF Progress
  <2> QED
    BY Zenon, <2>1, <2>2
<1>7. CASE Restart \/ Reboot
  <2>1. call' = [p \in Procs |-> [pc |-> "idle", ok |-> FALSE]] /\ inFlight' = {}
    BY Zenon, <1>7 DEF Restart, Reboot
  <2>2. call' = [p \in Procs |-> call'[p]] /\ \A p \in Procs : call'[p].pc = "idle"
    BY Zenon, <2>1
  <2>3. \A p \in Procs : Rank(call'[p]) = 0
    BY <2>2 DEF Rank
  <2> QED
    BY Zenon, <1>1, <1>3, <2>1, <2>2, <2>3 DEF Progress, KeyInv, KeysHeld, KeysOwned, Shaped
<1> QED
  BY Zenon, <1>4, <1>5, <1>6, <1>7 DEF Next, vars, Attach, Detach, Grow, Corrupt, Udev

\* The invariant of the in-flight keys, on every host.
THEOREM KeyInvariant == Spec => []KeyInv
<1>1. Init => KeyInv
  <2> SUFFICES ASSUME Init PROVE KeyInv
    OBVIOUS
  <2>1. call = [p \in Procs |-> [pc |-> "idle", ok |-> FALSE]] /\ inFlight = {}
    BY Zenon DEF Init
  <2>2. call = [p \in Procs |-> call[p]] /\ \A p \in Procs : call[p].pc = "idle"
    BY Zenon, <2>1
  <2> QED
    BY Zenon, <2>1, <2>2 DEF KeyInv, KeysHeld, KeysOwned, Shaped
<1> QED
  BY <1>1, NextKeys, PTL DEF Spec

\* On every host, with lsblk or without: one RPC at a time is served for a volume, and the
\* volume an RPC put in InFlight leaves it with the RPC, whichever of its steps fails and
\* whenever the plugin or the host restarts. No volume is left for which kubelet is told
\* for ever that an operation is in progress.
THEOREM KeysNeverLeaked == Spec => [](KeysHeld /\ KeysOwned)
<1>1. KeyInv => KeysHeld /\ KeysOwned
  BY Zenon DEF KeyInv
<1> QED
  BY <1>1, KeyInvariant, PTL

\* The RPCs of the node service have at most five steps to take, on every host: each lowers
\* a rank that nobody else raises and that is zero exactly when the RPC is over.
THEOREM CallsBounded ==
    Spec => /\ []\A p \in Procs : Rank(call[p]) \in 0..5 /\ (Rank(call[p]) = 0 <=> call[p].pc = "idle")
            /\ [][Progress]_vars
<1>1. ASSUME NEW c, Shaped(c) PROVE Rank(c) \in 0..5 /\ (Rank(c) = 0 <=> c.pc = "idle")
  <2>1. c.pc \in {"idle", "find", "check", "format", "mount", "resize", "bind", "unmount"}
    BY Zenon, <1>1 DEF Shaped
  <2> QED
    BY <2>1 DEF Rank
<1>2. KeyInv => \A p \in Procs : Rank(call[p]) \in 0..5 /\ (Rank(call[p]) = 0 <=> call[p].pc = "idle")
  BY Zenon, <1>1 DEF KeyInv
<1> QED
  BY <1>2, KeyInvariant, NextKeys, PTL DEF Spec
=============================================================================
