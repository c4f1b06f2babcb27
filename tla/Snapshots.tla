----------------------------- MODULE Snapshots ------------------------------
(***************************************************************************)
(* ControllerService.CreateSnapshot and DeleteSnapshot.  EC2 gives a       *)
(* snapshot no client token: the driver makes CreateSnapshot idempotent by *)
(* looking for a snapshot with the name in its tag before it makes one,    *)
(* under an in-flight key.  Fast snapshot restore and the snapshot lock    *)
(* are calls of their own that follow, and when one of them fails the      *)
(* driver tries to delete the snapshot again (cleanupSnapshotOnError).     *)
(***************************************************************************)
EXTENDS Naturals, FiniteSets

CONSTANTS Procs,      \* goroutines that serve RPCs
          Names,      \* names of snapshots, given by the external-snapshotter
          Volumes,    \* source volumes
          Parameters, \* of requests: is a fast restore asked for, is a lock
          MaxSnaps    \* bound: snapshots EC2 makes

ASSUME MaxSnapsAssumption == MaxSnaps \in Nat \ {0}

ASSUME ParametersAssumption == Parameters \subseteq [fsr : BOOLEAN, lock : BOOLEAN]

VARIABLES call,       \* the RPC a goroutine serves, or served last
          inFlight,   \* InFlight: names and IDs with an RPC in progress
          snap,       \* EC2: the snapshots made so far, by ID
          made        \* how many

vars == <<call, inFlight, snap, made>>

Ids == 1..MaxSnaps

\* Both are strings of one InFlight, but a name is made of a UID and an ID begins with "snap-".
ASSUME NamesAssumption == Names \cap Ids = {}

Keys == Names \cup Ids

Snapshot == [live : BOOLEAN, name : Names, volume : Volumes, fsr : BOOLEAN, lock : BOOLEAN]

\* `own`: the call has made the snapshot `id` itself.
Call == [pc : {"idle", "lookup", "create", "fsr", "lock", "cleanup", "delete"},
         key : Keys, volume : Volumes, fsr : BOOLEAN, lock : BOOLEAN,
         id : Ids, own : BOOLEAN, code : {"none", "OK", "error"}]

TypeOK ==
    /\ call \in [Procs -> Call]
    /\ inFlight \in SUBSET Keys
    /\ made \in 0..MaxSnaps
    /\ snap \in [Ids -> Snapshot]
    /\ \A i \in Ids : snap[i].live => i <= made

Init ==
    /\ \E v \in Volumes, n \in Names :
         /\ call = [p \in Procs |-> [pc |-> "idle", key |-> n, volume |-> v, fsr |-> FALSE,
                                     lock |-> FALSE, id |-> 1, own |-> FALSE,
                                     code |-> "none"]]
         /\ snap = [i \in Ids |-> [live |-> FALSE, name |-> n, volume |-> v,
                                   fsr |-> FALSE, lock |-> FALSE]]
    /\ inFlight = {}
    /\ made = 0

-----------------------------------------------------------------------------
(* RPCs and their in-flight keys *)

Goto(p, pc) == call' = [call EXCEPT ![p].pc = pc] /\ UNCHANGED inFlight

\* The handler returns: the deferred InFlight.Delete.
Return(p, code) ==
    /\ call' = [call EXCEPT ![p].pc = "idle", ![p].code = code]
    /\ inFlight' = inFlight \ {call[p].key}

\* Wrong: a key that is taken is taken again.
InsertUnchecked(key) == inFlight' = inFlight \cup {key}

Insert(key) == key \notin inFlight /\ inFlight' = inFlight \cup {key}

CreateSnapshot(p, n, v, params) ==
    /\ call[p].pc = "idle"
    /\ Insert(n)
    /\ call' = [call EXCEPT ![p] = [pc |-> "lookup", key |-> n, volume |-> v,
                                    fsr |-> params.fsr, lock |-> params.lock,
                                    id |-> 1, own |-> FALSE, code |-> "none"]]
    /\ UNCHANGED <<snap, made>>

\* The snapshotter deletes a snapshot it was given.
DeleteSnapshot(p, i) ==
    /\ call[p].pc = "idle"
    /\ \E q \in Procs : call[q].code = "OK" /\ call[q].id = i
    /\ Insert(i)
    /\ call' = [call EXCEPT ![p] = [@ EXCEPT !.pc = "delete", !.key = i, !.id = i,
                                             !.own = FALSE, !.code = "none"]]
    /\ UNCHANGED <<snap, made>>

-----------------------------------------------------------------------------
(* CreateSnapshot *)

Named(n) == {i \in Ids : snap[i].live /\ snap[i].name = n}

\* batchDescribeSnapshots: of several snapshots with the name the batch keeps one.
BatchDescribeSnapshots(found) ==
    IF found = {} THEN {[err |-> "ErrNotFound", id |-> 1]}
    ELSE {[err |-> "none", id |-> i] : i \in found}

\* getSnapshot: with batching, and without, where several snapshots are an error.
GetSnapshot(found) ==
    BatchDescribeSnapshots(found)
        \cup (IF Cardinality(found) > 1 THEN {[err |-> "ErrMultiSnapshots", id |-> 1]} ELSE {})

\* GetSnapshotByName: the snapshot with the name, or an error; the call may fail.
GetSnapshotByName(n) == GetSnapshot(Named(n)) \cup {[err |-> "failed", id |-> 1]}

\* Wrong: the volume of the snapshot that is found is not looked at.
LookupAnyVolume(p) ==
    /\ call[p].pc = "lookup"
    /\ \E found \in GetSnapshotByName(call[p].key) :
         CASE found.err = "ErrNotFound" -> Goto(p, "create")
           [] found.err = "none" ->
                /\ call' = [call EXCEPT ![p].pc = "idle", ![p].code = "OK", ![p].id = found.id]
                /\ inFlight' = inFlight \ {call[p].key}
           [] OTHER -> Return(p, "error")
    /\ UNCHANGED <<snap, made>>

\* A snapshot of this volume is the answer, one of another volume an error.
Lookup(p) ==
    /\ call[p].pc = "lookup"
    /\ \E found \in GetSnapshotByName(call[p].key) :
         CASE found.err = "ErrNotFound" -> Goto(p, "create")
           [] found.err = "none" /\ snap[found.id].volume = call[p].volume ->
                /\ call' = [call EXCEPT ![p].pc = "idle", ![p].code = "OK", ![p].id = found.id]
                /\ inFlight' = inFlight \ {call[p].key}
           [] OTHER -> Return(p, "error")
    /\ UNCHANGED <<snap, made>>

\* What follows when the snapshot is there, and when its fast restore is enabled too.
AfterCreate(c) == IF c.fsr THEN "fsr" ELSE IF c.lock THEN "lock" ELSE "idle"

AfterFSR(c) == IF c.lock THEN "lock" ELSE "idle"

\* Go on with the next call, or answer.
Proceed(p, pc) == IF pc = "idle" THEN Return(p, "OK") ELSE Goto(p, pc)

NewSnapshot(p) ==
    /\ made < MaxSnaps
    /\ made' = made + 1
    /\ snap' = [snap EXCEPT ![made + 1] =
                  [live |-> TRUE, name |-> call[p].key, volume |-> call[p].volume,
                   fsr |-> FALSE, lock |-> FALSE]]

Create(p) ==
    LET c == [call[p] EXCEPT !.id = made + 1, !.own = TRUE]
    IN  /\ call[p].pc = "create"
        /\ NewSnapshot(p)
        /\ IF AfterCreate(c) = "idle"
           THEN /\ call' = [call EXCEPT ![p] = [c EXCEPT !.pc = "idle", !.code = "OK"]]
                /\ inFlight' = inFlight \ {c.key}
           ELSE /\ call' = [call EXCEPT ![p] = [c EXCEPT !.pc = AfterCreate(c)]]
                /\ UNCHANGED inFlight

\* The parameters are invalid, the call fails, or its answer is lost.
CreateFails(p) ==
    /\ call[p].pc = "create"
    /\ Return(p, "error")
    /\ NewSnapshot(p) \/ UNCHANGED <<snap, made>>

EnableFastSnapshotRestores(p) ==
    /\ call[p].pc = "fsr"
    /\ \/ /\ snap' = [snap EXCEPT ![call[p].id].fsr = TRUE]
          /\ Proceed(p, AfterFSR(call[p]))
       \/ Goto(p, "cleanup") /\ UNCHANGED snap
    /\ UNCHANGED made

\* Wrong: the error is not looked at.
LockSnapshotUnchecked(p) ==
    /\ call[p].pc = "lock"
    /\ \/ snap' = [snap EXCEPT ![call[p].id].lock = TRUE]
       \/ UNCHANGED snap
    /\ Return(p, "OK")
    /\ UNCHANGED made

\* The lock may be in place although the call fails, when its answer is lost.
LockSnapshot(p) ==
    /\ call[p].pc = "lock"
    /\ \/ /\ snap' = [snap EXCEPT ![call[p].id].lock = TRUE]
          /\ Return(p, "OK") \/ Goto(p, "cleanup")
       \/ Goto(p, "cleanup") /\ UNCHANGED snap
    /\ UNCHANGED made

-----------------------------------------------------------------------------
(* Deleting *)

\* EC2 DeleteSnapshot: a locked snapshot can't be deleted.
Delete(i) == ~snap[i].lock /\ snap' = [snap EXCEPT ![i].live = FALSE]

\* cleanupSnapshotOnError: the answer is an error whether or not the deletion succeeds.
Cleanup(p) ==
    /\ call[p].pc = "cleanup"
    /\ Delete(call[p].id) \/ UNCHANGED snap
    /\ Return(p, "error")
    /\ UNCHANGED made

\* The deletion succeeds, there is nothing to delete, or it fails.
FinishDelete(p) ==
    LET i == call[p].id
    IN  /\ call[p].pc = "delete"
        /\ \/ snap[i].live /\ Delete(i) /\ Return(p, "OK")
           \/ ~snap[i].live /\ Return(p, "OK") /\ UNCHANGED snap
           \/ Return(p, "error") /\ (Delete(i) \/ UNCHANGED snap)
        /\ UNCHANGED made

Restart ==
    /\ call' = [p \in Procs |-> [call[p] EXCEPT !.pc = "idle",
                                   !.code = IF call[p].pc = "idle" THEN @ ELSE "none"]]
    /\ inFlight' = {}
    /\ UNCHANGED <<snap, made>>

Next ==
    \/ \E p \in Procs, n \in Names, v \in Volumes, params \in Parameters :
          CreateSnapshot(p, n, v, params)
    \/ \E p \in Procs, i \in Ids : DeleteSnapshot(p, i)
    \/ \E p \in Procs : \/ Lookup(p) \/ Create(p) \/ CreateFails(p)
                        \/ EnableFastSnapshotRestores(p) \/ LockSnapshot(p)
                        \/ Cleanup(p) \/ FinishDelete(p)
    \/ Restart

Spec == Init /\ [][Next]_vars

-----------------------------------------------------------------------------
(* Properties *)

\* A name never has two snapshots: the in-flight key of CreateSnapshot covers the time from
\* the look-up to the creation, and a retry finds what a failed call has left behind.
OneSnapshot == \A n \in Names : \A i, j \in Named(n) : i = j

\* A CreateSnapshot answers success in this step.
Answered(p) == call'[p].code = "OK" /\ call[p].pc # "idle" /\ call[p].pc # "delete"

\* Its snapshot is there as it was asked for.
AsRequested(p) ==
    LET s == snap'[call'[p].id]
    IN  s.live /\ (call'[p].fsr => s.fsr) /\ (call'[p].lock => s.lock)

\* A CreateSnapshot that made its snapshot itself and answers success leaves it there, with
\* fast restores enabled if that was requested, and locked if that was.
OwnSnapshotAsRequested ==
    [][\A p \in Procs : Answered(p) /\ call'[p].own => AsRequested(p)]_vars

\* The snapshot a CreateSnapshot has answered last, to the snapshotter that called it.
Given(p, i) == call[p].pc = "idle" /\ call[p].code = "OK" /\ call[p].key \in Names /\ call[p].id = i

\* What a CreateSnapshot has answered is a snapshot of the volume it was asked for, and only a
\* DeleteSnapshot takes it away again: the clean-up of a failed call never deletes a snapshot that
\* a retry has found by its name and answered.
KeptUntilDeleted ==
    [][\A p \in Procs, i \in Ids : Given(p, i) =>
          /\ snap[i].live => snap[i].volume = call[p].volume
          /\ snap[i].live /\ ~snap'[i].live => \E q \in Procs : call[q].pc = "delete" /\ call[q].id = i]_vars

\* "If the LockSnapshot API call fails, the driver will hard-fail the request and delete the
\* snapshot": no CreateSnapshot answers success for a snapshot that is not as requested.
SnapshotAsRequested == [][\A p \in Procs : Answered(p) => AsRequested(p)]_vars
=============================================================================
