-------------------------- MODULE SnapshotsProofs ---------------------------
(***************************************************************************)
(* Proofs about Snapshots, for any number of goroutines, names, volumes    *)
(* and snapshots.  That a name has one snapshot rests on the in-flight key *)
(* being held from the look-up to the creation; that the clean-up of a     *)
(* failed call spares what others were given rests on the same key, and on *)
(* a snapshot being known to no one else while it is made.  At the end:    *)
(* keys are given back, and every call ends after a few steps.             *)
(***************************************************************************)
EXTENDS Snapshots, TLAPS

\* The places of a call that has made its snapshot and has not answered.
Making == {"fsr", "lock", "cleanup"}

Active(c) == c.pc # "idle"

Exclusive == \A p, q \in Procs : p # q /\ Active(call[p]) /\ Active(call[q]) => call[p].key # call[q].key

SnapOK(s, m) ==
    /\ s \in [Ids -> Snapshot] /\ m \in 0..MaxSnaps
    /\ \A i \in Ids : s[i].live => i <= m
    /\ \A i, j \in Ids : s[i].live /\ s[j].live /\ s[i].name = s[j].name => i = j

\* What is true of a call with the record c while `held` are the keys in flight, s the
\* snapshots and m their number.
CallOK(c, held, s, m) ==
    /\ Active(c) => c.key \in held /\ c.code = "none"
    /\ c.pc \in {"lookup", "create"} => c.key \in Names /\ ~c.own
    /\ c.pc = "create" => \A i \in Ids : ~(s[i].live /\ s[i].name = c.key)
    /\ c.pc \in Making =>
         c.key \in Names /\ s[c.id].live /\ s[c.id].name = c.key /\ s[c.id].volume = c.volume
    /\ c.pc = "lock" /\ c.fsr => s[c.id].fsr
    /\ c.pc = "delete" => c.key = c.id
    /\ c.pc = "delete" \/ c.code = "OK" => c.id <= m
    /\ c.code = "OK" /\ c.key \in Names => s[c.id].volume = c.volume

\* A call with the record c is not told of a snapshot that a call with the record d is making.
Apart(c, d) == d.pc \in Making /\ (c.code = "OK" \/ c.pc = "delete") => c.id # d.id

Inv ==
    /\ call \in [Procs -> Call]
    /\ inFlight \subseteq Keys
    /\ SnapOK(snap, made)
    /\ Exclusive
    /\ \A p \in Procs : CallOK(call[p], inFlight, snap, made)
    /\ \A p, q \in Procs : Apart(call[p], call[q])

-----------------------------------------------------------------------------
(* Steps of one call *)

\* A step of one call preserves the invariant when the others are not disturbed by it.
LEMMA OneCall ==
    ASSUME Inv, NEW p \in Procs, NEW d \in Call,
           call' = [call EXCEPT ![p] = d],
           inFlight' \subseteq Keys,
           SnapOK(snap', made'),
           Active(d) => \A q \in Procs \ {p} : Active(call[q]) => call[q].key # d.key,
           CallOK(d, inFlight', snap', made'),
           \A q \in Procs \ {p} : CallOK(call[q], inFlight', snap', made'),
           \A q \in Procs \ {p} : Apart(call[q], d) /\ Apart(d, call[q]),
           Apart(d, d)
    PROVE  Inv'
<1>1. call' \in [Procs -> Call] /\ call'[p] = d /\ \A q \in Procs \ {p} : call'[q] = call[q]
  BY Zenon DEF Inv
<1>2. Exclusive'
  BY <1>1 DEF Inv, Exclusive
<1>3. \A q \in Procs : CallOK(call'[q], inFlight', snap', made')
  BY Zenon, <1>1
<1>4. \A q, r \in Procs : Apart(call'[q], call'[r])
  BY Zenon, <1>1 DEF Inv
<1> QED
  BY Zenon, <1>1, <1>2, <1>3, <1>4 DEF Inv

\* The record of another call stays right when only a key that is not its own is taken away.
LEMMA KeyKept ==
    ASSUME Inv, NEW p \in Procs, NEW q \in Procs \ {p}, NEW s, NEW m,
           Active(call[p]) \/ inFlight \subseteq inFlight',
           inFlight \ {call[p].key} \subseteq inFlight',
           CallOK(call[q], inFlight, s, m)
    PROVE  CallOK(call[q], inFlight', s, m)
<1>1. Active(call[q]) => call[q].key \in inFlight'
  BY Zenon DEF Inv, Exclusive, CallOK
<1> QED
  BY Zenon, <1>1 DEF CallOK

\* A step that keeps the key of the call, or gives it back with the answer.
LEMMA KeyStep ==
    ASSUME Inv, NEW p \in Procs, NEW d \in Call,
           Active(call[p]), d.key = call[p].key,
           call' = [call EXCEPT ![p] = d],
           inFlight' = IF Active(d) THEN inFlight ELSE inFlight \ {call[p].key},
           SnapOK(snap', made'),
           CallOK(d, inFlight', snap', made'),
           \A q \in Procs \ {p} : CallOK(call[q], inFlight, snap', made'),
           \A q \in Procs \ {p} : Apart(call[q], d) /\ Apart(d, call[q]),
           Apart(d, d)
    PROVE  Inv'
<1>1. inFlight' \subseteq Keys /\ inFlight \ {call[p].key} \subseteq inFlight'
  BY Zenon DEF Inv
<1>2. \A q \in Procs \ {p} : Active(call[q]) => call[q].key # d.key
  BY Zenon DEF Inv, Exclusive
<1>3. \A q \in Procs \ {p} : CallOK(call[q], inFlight', snap', made')
  BY Zenon, <1>1, KeyKept
<1> QED
  BY Zenon, <1>1, <1>2, <1>3, OneCall

\* A handler that answers an error, when the snapshots are right and right for the others.
LEMMA ReturnError ==
    ASSUME Inv, NEW p \in Procs, Active(call[p]), Return(p, "error"),
           SnapOK(snap', made'),
           \A q \in Procs \ {p} : CallOK(call[q], inFlight, snap', made')
    PROVE  Inv'
<1> DEFINE d == [call[p] EXCEPT !.pc = "idle", !.code = "error"]
<1>1. d \in Call /\ d.key = call[p].key /\ d.pc = "idle" /\ d.code = "error"
  BY ZenonT(60) DEF Inv, Call
<1>2. call' = [call EXCEPT ![p] = d] /\ inFlight' = inFlight \ {call[p].key}
  BY Zenon DEF Inv, Return
<1>3. CallOK(d, inFlight', snap', made')
  BY Zenon, <1>1 DEF CallOK, Active, Making
<1>4. Apart(d, d) /\ \A q \in Procs : Apart(call[q], d) /\ Apart(d, call[q])
  BY Zenon, <1>1 DEF Apart, Making
<1> HIDE DEF d
<1> QED
  BY Zenon, <1>1, <1>2, <1>3, <1>4, KeyStep DEF Active

\* Without a change of the snapshots nothing is asked of them.
LEMMA SnapKept ==
    ASSUME Inv, UNCHANGED <<snap, made>>
    PROVE  /\ SnapOK(snap', made')
           /\ \A q \in Procs : CallOK(call[q], inFlight, snap', made')
  BY Zenon DEF Inv

-----------------------------------------------------------------------------
(* What the EC2 calls do to the snapshots *)

\* CreateSnapshot of EC2, for a call whose look-up found nothing.
LEMMA NewSnapshotKeeps ==
    ASSUME Inv, NEW p \in Procs, call[p].pc = "create", NewSnapshot(p)
    PROVE  /\ SnapOK(snap', made')
           /\ \A q \in Procs \ {p} : CallOK(call[q], inFlight, snap', made')
<1> USE MaxSnapsAssumption
<1>1. /\ made + 1 \in Ids /\ made' = made + 1 /\ made' \in 0..MaxSnaps
      /\ snap' \in [Ids -> Snapshot]
      /\ snap'[made + 1].live /\ snap'[made + 1].name = call[p].key
      /\ \A i \in Ids : i # made + 1 => snap'[i] = snap[i]
      /\ ~snap[made + 1].live
  BY DEF Inv, SnapOK, NewSnapshot, Ids, Snapshot, Call, CallOK
<1>2. \A i \in Ids : ~(snap[i].live /\ snap[i].name = call[p].key)
  BY Zenon DEF Inv, CallOK
<1>3. SnapOK(snap', made')
  <2>1. \A i \in Ids : snap'[i].live => i <= made'
    BY <1>1 DEF Inv, SnapOK, Ids
  <2>2. \A i, j \in Ids : snap'[i].live /\ snap'[j].live /\ snap'[i].name = snap'[j].name => i = j
    BY <1>1, <1>2 DEF Inv, SnapOK
  <2> QED
    BY Zenon, <1>1, <2>1, <2>2 DEF SnapOK
<1>4. ASSUME NEW q \in Procs \ {p}
      PROVE  CallOK(call[q], inFlight, snap', made')
  <2>1. CallOK(call[q], inFlight, snap, made) /\ call[q] \in Call
    BY Zenon DEF Inv
  <2>2. call[q].pc = "create" => call[q].key # call[p].key
    BY Zenon DEF Inv, Exclusive, Active
  <2>3. call[q].id \in Ids /\ made \in Nat
    BY <2>1 DEF Call, Inv, SnapOK
  <2>4. call[q].id <= made => snap'[call[q].id] = snap[call[q].id] /\ call[q].id <= made'
    BY <1>1, <2>3 DEF Ids
  <2>5. call[q].pc \in Making => call[q].id <= made
    BY Zenon, <2>1, <2>3 DEF CallOK, Inv, SnapOK
  <2>6. call[q].pc = "create" => \A i \in Ids : ~(snap'[i].live /\ snap'[i].name = call[q].key)
    BY Zenon, <1>1, <2>1, <2>2 DEF CallOK
  <2> QED
    BY Zenon, <2>1, <2>3, <2>4, <2>5, <2>6 DEF CallOK, Making
<1> QED
  BY Zenon, <1>3, <1>4

\* EnableFastSnapshotRestores and LockSnapshot of EC2.
LEMMA FlagKeeps ==
    ASSUME Inv, NEW i \in Ids, UNCHANGED made,
           \/ snap' = [snap EXCEPT ![i].fsr = TRUE]
           \/ snap' = [snap EXCEPT ![i].lock = TRUE]
    PROVE  /\ SnapOK(snap', made')
           /\ \A q \in Procs : CallOK(call[q], inFlight, snap', made')
<1>1. /\ snap' \in [Ids -> Snapshot]
      /\ \A j \in Ids : /\ snap'[j].live = snap[j].live /\ snap'[j].name = snap[j].name
                        /\ snap'[j].volume = snap[j].volume /\ (snap[j].fsr => snap'[j].fsr)
  <2>1. CASE snap' = [snap EXCEPT ![i].fsr = TRUE]
    BY ZenonT(60), <2>1 DEF Inv, SnapOK, Snapshot
  <2>2. CASE snap' = [snap EXCEPT ![i].lock = TRUE]
    BY Zenon, <2>2 DEF Inv, SnapOK, Snapshot
  <2> QED
    BY Zenon, <2>1, <2>2
<1>2. SnapOK(snap', made')
  BY <1>1 DEF Inv, SnapOK
<1>3. ASSUME NEW q \in Procs
      PROVE  CallOK(call[q], inFlight, snap', made')
  <2>1. CallOK(call[q], inFlight, snap, made) /\ call[q].id \in Ids
    BY Zenon DEF Inv, Call
  <2> QED
    BY Zenon, <1>1, <2>1 DEF CallOK
<1> QED
  BY Zenon, <1>2, <1>3

\* DeleteSnapshot of EC2, for the clean-up of a call and for a DeleteSnapshot: the snapshot is
\* not one that another call is making.
LEMMA DeleteKeeps ==
    ASSUME Inv, NEW p \in Procs, call[p].pc \in {"cleanup", "delete"},
           Delete(call[p].id), UNCHANGED made
    PROVE  /\ SnapOK(snap', made')
           /\ \A q \in Procs \ {p} : CallOK(call[q], inFlight, snap', made')
<1>1. call[p] \in Call /\ call[p].id \in Ids /\ CallOK(call[p], inFlight, snap, made)
  BY Zenon DEF Inv, Call
<1>2. /\ snap' \in [Ids -> Snapshot]
      /\ \A j \in Ids : /\ snap'[j].live => snap[j].live
                        /\ j # call[p].id => snap'[j].live = snap[j].live
                        /\ snap'[j].name = snap[j].name /\ snap'[j].volume = snap[j].volume
                        /\ snap'[j].fsr = snap[j].fsr
  BY ZenonT(60), <1>1 DEF Inv, SnapOK, Snapshot, Delete
<1>3. SnapOK(snap', made')
  BY <1>2 DEF Inv, SnapOK
<1>4. ASSUME NEW q \in Procs \ {p}
      PROVE  CallOK(call[q], inFlight, snap', made')
  <2>1. CallOK(call[q], inFlight, snap, made) /\ call[q].id \in Ids
    BY Zenon DEF Inv, Call
  <2>2. call[q].pc \in Making => call[q].id # call[p].id
    <3>1. CASE call[p].pc = "delete"
      BY Zenon, <3>1 DEF Inv, Apart
    <3>2. CASE call[p].pc = "cleanup"
      BY <3>2, <1>1, <2>1 DEF Inv, Exclusive, Active, CallOK, Making
    <3> QED
      BY Zenon, <3>1, <3>2
  <2> QED
    BY <1>2, <2>1, <2>2 DEF CallOK, Making
<1> QED
  BY Zenon, <1>3, <1>4

-----------------------------------------------------------------------------
(* The actions *)

\* CreateSnapshot takes the key of its name.
LEMMA CreateSnapshotStep ==
    ASSUME Inv, NEW p \in Procs, NEW n \in Names, NEW v \in Volumes, NEW params \in Parameters,
           CreateSnapshot(p, n, v, params)
    PROVE  Inv'
<1> DEFINE d == [pc |-> "lookup", key |-> n, volume |-> v, fsr |-> params.fsr,
                 lock |-> params.lock, id |-> 1, own |-> FALSE, code |-> "none"]
<1>1. d \in Call
  BY ParametersAssumption, MaxSnapsAssumption DEF Call, Keys, Ids
<1>2. /\ call' = [call EXCEPT ![p] = d] /\ n \notin inFlight /\ inFlight' = inFlight \cup {n}
      /\ UNCHANGED <<snap, made>>
  BY Zenon DEF CreateSnapshot, Insert
<1>3. /\ d.pc = "lookup" /\ d.key = n /\ d.code = "none" /\ ~d.own
  OBVIOUS
<1> HIDE DEF d
<1>4. inFlight' \subseteq Keys
  BY Zenon, <1>2 DEF Inv, Keys
<1>5. \A q \in Procs \ {p} : Active(call[q]) => call[q].key # d.key
  BY Zenon, <1>2, <1>3 DEF Inv, CallOK
<1>6. CallOK(d, inFlight', snap', made')
  BY Zenon, <1>2, <1>3 DEF CallOK, Making
<1>7. \A q \in Procs \ {p} : CallOK(call[q], inFlight', snap', made')
  BY Zenon, <1>2, SnapKept, KeyKept
<1>8. Apart(d, d) /\ \A q \in Procs : Apart(call[q], d) /\ Apart(d, call[q])
  BY Zenon, <1>3 DEF Apart, Making
<1> QED
  BY Zenon, <1>1, <1>2, <1>4, <1>5, <1>6, <1>7, <1>8, SnapKept, OneCall

\* DeleteSnapshot takes the key of an ID that some call was given.
LEMMA DeleteSnapshotStep ==
    ASSUME Inv, NEW p \in Procs, NEW i \in Ids, DeleteSnapshot(p, i)
    PROVE  Inv'
<1> DEFINE d == [call[p] EXCEPT !.pc = "delete", !.key = i, !.id = i, !.own = FALSE,
                                !.code = "none"]
<1>1. /\ d \in Call
      /\ d.pc = "delete" /\ d.key = i /\ d.id = i /\ d.code = "none" /\ ~d.own
  BY ZenonT(60) DEF Inv, Call, Keys
<1>2. /\ call' = [call EXCEPT ![p] = d] /\ i \notin inFlight /\ inFlight' = inFlight \cup {i}
      /\ call[p].pc = "idle" /\ UNCHANGED <<snap, made>>
  BY Zenon DEF DeleteSnapshot, Insert
<1> HIDE DEF d
<1>3. PICK r \in Procs : call[r].code = "OK" /\ call[r].id = i
  BY Zenon DEF DeleteSnapshot
<1>4. inFlight' \subseteq Keys
  BY Zenon, <1>2 DEF Inv, Keys
<1>5. \A q \in Procs \ {p} : Active(call[q]) => call[q].key # d.key
  BY <1>1, <1>2 DEF Inv, CallOK
<1>6. CallOK(d, inFlight', snap', made')
  BY Zenon, <1>1, <1>2, <1>3 DEF Inv, CallOK, Making
<1>7. \A q \in Procs \ {p} : CallOK(call[q], inFlight', snap', made')
  BY Zenon, <1>2, SnapKept, KeyKept
<1>8. Apart(d, d) /\ \A q \in Procs : Apart(call[q], d) /\ Apart(d, call[q])
  BY Zenon, <1>1, <1>3 DEF Inv, Apart, Making
<1> QED
  BY Zenon, <1>1, <1>2, <1>4, <1>5, <1>6, <1>7, <1>8, SnapKept, OneCall

\* An answer of success for a snapshot with the name that is the key: no one else is making it.
LEMMA ReturnOK ==
    ASSUME Inv, NEW p \in Procs, NEW i \in Ids, Active(call[p]), call[p].key \in Names,
           call' = [call EXCEPT ![p] = [call[p] EXCEPT !.pc = "idle", !.code = "OK", !.id = i]],
           inFlight' = inFlight \ {call[p].key},
           UNCHANGED made, SnapOK(snap', made'),
           \A q \in Procs \ {p} : CallOK(call[q], inFlight, snap', made'),
           i <= made, snap[i].name = call[p].key, snap'[i].volume = call[p].volume
    PROVE  Inv'
<1> DEFINE d == [call[p] EXCEPT !.pc = "idle", !.code = "OK", !.id = i]
<1>1. /\ d \in Call /\ d.key = call[p].key /\ d.volume = call[p].volume
      /\ d.pc = "idle" /\ d.code = "OK" /\ d.id = i
  BY ZenonT(60) DEF Inv, Call
<1>2. call' = [call EXCEPT ![p] = d]
  OBVIOUS
<1> HIDE DEF d
<1>3. CallOK(d, inFlight', snap', made')
  BY Zenon, <1>1 DEF CallOK, Making, Active
<1>4. ASSUME NEW q \in Procs \ {p}
      PROVE  Apart(call[q], d) /\ Apart(d, call[q])
  BY <1>1 DEF Inv, Exclusive, CallOK, Active, Apart, Making
<1>5. Apart(d, d)
  BY Zenon, <1>1 DEF Apart, Making
<1> QED
  BY Zenon, <1>1, <1>2, <1>3, <1>4, <1>5, KeyStep DEF Active

\* The look-up goes on only when there is no snapshot with the name.
LEMMA LookupStep ==
    ASSUME Inv, NEW p \in Procs, Lookup(p)
    PROVE  Inv'
<1>1. /\ call[p].pc = "lookup" /\ Active(call[p]) /\ call[p].key \in Names /\ call[p].code = "none"
      /\ UNCHANGED <<snap, made>>
  BY Zenon DEF Inv, CallOK, Lookup, Active
<1>2. PICK found \in GetSnapshotByName(call[p].key) :
        CASE found.err = "ErrNotFound" -> Goto(p, "create")
          [] found.err = "none" /\ snap[found.id].volume = call[p].volume ->
               /\ call' = [call EXCEPT ![p].pc = "idle", ![p].code = "OK", ![p].id = found.id]
               /\ inFlight' = inFlight \ {call[p].key}
          [] OTHER -> Return(p, "error")
  BY Zenon DEF Lookup
<1>3. CASE found.err = "ErrNotFound"
  <2> DEFINE d == [call[p] EXCEPT !.pc = "create"]
  <2>1. Named(call[p].key) = {}
    BY <1>2, <1>3 DEF GetSnapshotByName, GetSnapshot, BatchDescribeSnapshots
  <2>2. /\ d \in Call /\ d.pc = "create" /\ d.key = call[p].key /\ d.code = "none"
        /\ d.own = call[p].own
    BY <1>1 DEF Inv, Call
  <2>3. call' = [call EXCEPT ![p] = d] /\ inFlight' = inFlight
    BY Zenon, <1>2, <1>3 DEF Goto
  <2> HIDE DEF d
  <2>4. \A i \in Ids : ~(snap'[i].live /\ snap'[i].name = d.key)
    BY Zenon, <1>1, <2>1, <2>2 DEF Named
  <2>5. CallOK(d, inFlight', snap', made')
    BY Zenon, <1>1, <2>2, <2>3, <2>4 DEF Inv, CallOK, Making, Active
  <2>6. Apart(d, d) /\ \A q \in Procs : Apart(call[q], d) /\ Apart(d, call[q])
    BY Zenon, <2>2 DEF Apart, Making
  <2> QED
    BY Zenon, <1>1, <2>2, <2>3, <2>5, <2>6, SnapKept, KeyStep DEF Active
<1>4. CASE found.err = "none" /\ snap[found.id].volume = call[p].volume
  <2>1. found.id \in Named(call[p].key)
    BY <1>2, <1>4 DEF GetSnapshotByName, GetSnapshot, BatchDescribeSnapshots
  <2>2. /\ found.id \in Ids /\ snap[found.id].live /\ snap[found.id].name = call[p].key
        /\ found.id <= made
    BY Zenon, <2>1 DEF Named, Inv, SnapOK
  <2>3. call' = [call EXCEPT ![p] = [call[p] EXCEPT !.pc = "idle", !.code = "OK",
                                                    !.id = found.id]]
        /\ inFlight' = inFlight \ {call[p].key}
    BY Zenon, <1>2, <1>4
  <2> QED
    BY Zenon, <1>1, <1>4, <2>2, <2>3, SnapKept, ReturnOK
<1>5. CASE ~(found.err = "ErrNotFound") /\ ~(found.err = "none" /\ snap[found.id].volume = call[p].volume)
  BY Zenon, <1>1, <1>2, <1>5, SnapKept, ReturnError
<1> QED
  BY Zenon, <1>3, <1>4, <1>5

\* The snapshot a call makes is new to all others.
LEMMA CreateStep ==
    ASSUME Inv, NEW p \in Procs, Create(p)
    PROVE  Inv'
<1> DEFINE c == [call[p] EXCEPT !.id = made + 1, !.own = TRUE]
           d == IF AfterCreate(c) = "idle" THEN [c EXCEPT !.pc = "idle", !.code = "OK"]
                ELSE [c EXCEPT !.pc = AfterCreate(c)]
<1> USE MaxSnapsAssumption
<1>1. /\ call[p].pc = "create" /\ call[p] \in Call /\ NewSnapshot(p) /\ made + 1 \in Ids
      /\ call[p].key \in Names /\ call[p].code = "none" /\ Active(call[p])
      /\ made' = made + 1 /\ made \in Nat
  BY DEF Inv, Call, CallOK, Create, NewSnapshot, Active, Ids, SnapOK
<1>2. /\ c \in Call /\ c.pc = "create" /\ c.key = call[p].key /\ c.id = made + 1
      /\ c.code = "none" /\ c.volume = call[p].volume
  BY Zenon, <1>1 DEF Call
<1>3. AfterCreate(c) \in {"idle", "fsr", "lock"} /\ (AfterCreate(c) = "lock" => ~c.fsr)
  BY Zenon DEF AfterCreate
<1>4. /\ call' = [call EXCEPT ![p] = d]
      /\ inFlight' = IF AfterCreate(c) = "idle" THEN inFlight \ {call[p].key} ELSE inFlight
  BY Zenon, <1>2 DEF Create
<1>5. /\ d \in Call /\ d.key = call[p].key /\ d.id = made + 1 /\ d.volume = call[p].volume
      /\ d.pc = AfterCreate(c) /\ d.fsr = c.fsr
      /\ d.code = IF AfterCreate(c) = "idle" THEN "OK" ELSE "none"
  <2> HIDE DEF c
  <2> QED
    BY ZenonT(60), <1>2, <1>3 DEF Call
<1> HIDE DEF c, d
<1>6. snap'[made + 1].live /\ snap'[made + 1].name = call[p].key /\ snap'[made + 1].volume = call[p].volume
  BY Zenon, <1>1 DEF NewSnapshot, Inv, SnapOK, Snapshot
<1>7. CallOK(d, inFlight', snap', made')
  BY <1>1, <1>3, <1>4, <1>5, <1>6 DEF CallOK, Active, Making, Inv
<1>8. \A q \in Procs \ {p} : Apart(call[q], d)
  BY <1>1, <1>5 DEF Inv, Apart, CallOK
<1>9. ASSUME NEW q \in Procs \ {p}
      PROVE  Apart(d, call[q])
  <2>1. call[q].pc \in Making => call[q].id <= made
    BY Zenon DEF Inv, CallOK, SnapOK, Call
  <2>2. call[q].id \in Nat
    BY DEF Inv, Call, Ids
  <2> QED
    BY <1>1, <1>5, <2>1, <2>2 DEF Apart
<1>10. Apart(d, d)
  BY Zenon, <1>3, <1>5 DEF Apart, Making
<1>11. inFlight' = IF Active(d) THEN inFlight ELSE inFlight \ {call[p].key}
  BY Zenon, <1>4, <1>5 DEF Active
<1> QED
  BY Zenon, <1>1, <1>4, <1>5, <1>7, <1>8, <1>9, <1>10, <1>11, NewSnapshotKeeps, KeyStep

\* A creation that fails, also when the snapshot was made.
LEMMA CreateFailsStep ==
    ASSUME Inv, NEW p \in Procs, CreateFails(p)
    PROVE  Inv'
  BY Zenon, SnapKept, NewSnapshotKeeps, ReturnError DEF CreateFails, Active

\* A call that goes on to another place with the snapshot it is making.
LEMMA MakingStep ==
    ASSUME Inv, NEW p \in Procs, NEW pc \in Making, call[p].pc \in Making, Goto(p, pc),
           UNCHANGED made, SnapOK(snap', made'),
           \A q \in Procs : CallOK(call[q], inFlight, snap', made'),
           pc = "lock" /\ call[p].fsr => snap'[call[p].id].fsr
    PROVE  Inv'
<1> DEFINE d == [call[p] EXCEPT !.pc = pc]
<1>1. /\ d \in Call /\ d.pc = pc /\ d.key = call[p].key /\ d.id = call[p].id
      /\ d.code = call[p].code /\ d.volume = call[p].volume /\ d.fsr = call[p].fsr
  BY DEF Inv, Call, Making
<1>2. call' = [call EXCEPT ![p] = d] /\ inFlight' = inFlight
  BY Zenon DEF Goto
<1> HIDE DEF d
<1>3. CallOK(call[p], inFlight, snap', made') /\ call[p].code = "none"
  BY Zenon DEF CallOK, Active, Making
<1>4. CallOK(d, inFlight', snap', made')
  BY Zenon, <1>1, <1>2, <1>3 DEF CallOK, Active, Making
<1>5. Apart(d, d) /\ \A q \in Procs : Apart(call[q], d) /\ Apart(d, call[q])
  BY Zenon, <1>1, <1>3 DEF Inv, Apart, Making
<1> QED
  BY ZenonT(60), <1>1, <1>2, <1>4, <1>5, KeyStep DEF Active, Making

\* A call that answers success for the snapshot it made.
LEMMA MadeStep ==
    ASSUME Inv, NEW p \in Procs, call[p].pc \in Making, Return(p, "OK"),
           UNCHANGED made, SnapOK(snap', made'),
           \A q \in Procs : CallOK(call[q], inFlight, snap', made')
    PROVE  Inv'
<1>1. /\ call[p] \in Call /\ call[p].id \in Ids /\ Active(call[p]) /\ call[p].key \in Names
      /\ snap[call[p].id].name = call[p].key /\ call[p].id <= made
      /\ snap'[call[p].id].volume = call[p].volume
  BY Zenon DEF Inv, Call, CallOK, Active, Making, SnapOK
<1>2. /\ call' = [call EXCEPT ![p] = [call[p] EXCEPT !.pc = "idle", !.code = "OK", !.id = call[p].id]]
      /\ inFlight' = inFlight \ {call[p].key}
  BY Zenon, <1>1 DEF Return, Call, Inv
<1> QED
  BY ZenonT(60), <1>1, <1>2, ReturnOK

\* EnableFastSnapshotRestores, whether it succeeds or not.
LEMMA FSRStep ==
    ASSUME Inv, NEW p \in Procs, EnableFastSnapshotRestores(p)
    PROVE  Inv'
<1>1. call[p].pc = "fsr" /\ call[p].id \in Ids /\ UNCHANGED made
  BY Zenon DEF EnableFastSnapshotRestores, Inv, Call
<1>2. CASE snap' = [snap EXCEPT ![call[p].id].fsr = TRUE] /\ Proceed(p, AfterFSR(call[p]))
  <2>1. snap'[call[p].id].fsr
    BY Zenon, <1>1, <1>2 DEF Inv, SnapOK, Snapshot
  <2>2. CASE call[p].lock
    BY Zenon, <1>1, <1>2, <2>1, <2>2, FlagKeeps, MakingStep DEF Proceed, AfterFSR, Making
  <2>3. CASE ~call[p].lock
    BY Zenon, <1>1, <1>2, <2>3, FlagKeeps, MadeStep DEF Proceed, AfterFSR, Making
  <2> QED
    BY Zenon, <2>2, <2>3
<1>3. CASE Goto(p, "cleanup") /\ UNCHANGED snap
  BY Zenon, <1>1, <1>3, SnapKept, MakingStep DEF Making
<1> QED
  BY Zenon, <1>2, <1>3 DEF EnableFastSnapshotRestores

\* LockSnapshot, whether it succeeds, fails, or fails with the lock in place.
LEMMA LockStep ==
    ASSUME Inv, NEW p \in Procs, LockSnapshot(p)
    PROVE  Inv'
<1>1. call[p].pc = "lock" /\ call[p].id \in Ids /\ UNCHANGED made
  BY Zenon DEF LockSnapshot, Inv, Call
<1>2. CASE snap' = [snap EXCEPT ![call[p].id].lock = TRUE] /\ Return(p, "OK")
  BY Zenon, <1>1, <1>2, FlagKeeps, MadeStep DEF Making
<1>3. CASE snap' = [snap EXCEPT ![call[p].id].lock = TRUE] /\ Goto(p, "cleanup")
  BY Zenon, <1>1, <1>3, FlagKeeps, MakingStep DEF Making
<1>4. CASE Goto(p, "cleanup") /\ UNCHANGED snap
  BY Zenon, <1>1, <1>4, SnapKept, MakingStep DEF Making
<1> QED
  BY Zenon, <1>2, <1>3, <1>4 DEF LockSnapshot

\* cleanupSnapshotOnError.
LEMMA CleanupStep ==
    ASSUME Inv, NEW p \in Procs, Cleanup(p)
    PROVE  Inv'
  BY Zenon, SnapKept, DeleteKeeps, ReturnError DEF Cleanup, Active

\* The end of DeleteSnapshot; what it answers is no answer of a CreateSnapshot.
LEMMA FinishDeleteStep ==
    ASSUME Inv, NEW p \in Procs, FinishDelete(p)
    PROVE  Inv'
<1>1. /\ call[p].pc = "delete" /\ UNCHANGED made /\ Active(call[p]) /\ call[p].id \in Ids
      /\ call[p].key = call[p].id /\ call[p].id <= made
  BY Zenon DEF FinishDelete, Active, Inv, CallOK, Call
<1>2. /\ SnapOK(snap', made')
      /\ \A q \in Procs \ {p} : CallOK(call[q], inFlight, snap', made')
  BY Zenon, <1>1, SnapKept, DeleteKeeps DEF FinishDelete
<1>3. CASE Return(p, "error")
  BY Zenon, <1>1, <1>2, <1>3, ReturnError
<1>4. CASE Return(p, "OK")
  <2> DEFINE d == [call[p] EXCEPT !.pc = "idle", !.code = "OK"]
  <2>1. /\ d \in Call /\ d.key = call[p].key /\ d.id = call[p].id
        /\ d.pc = "idle" /\ d.code = "OK"
    BY Zenon DEF Inv, Call
  <2>2. call' = [call EXCEPT ![p] = d] /\ inFlight' = inFlight \ {call[p].key}
    BY Zenon, <1>4 DEF Return, Inv
  <2> HIDE DEF d
  <2>3. CallOK(d, inFlight', snap', made')
    BY Zenon, <1>1, <2>1, NamesAssumption DEF CallOK, Active, Making
  <2>4. Apart(d, d) /\ \A q \in Procs : Apart(call[q], d) /\ Apart(d, call[q])
    BY Zenon, <1>1, <2>1 DEF Inv, Apart, Making
  <2> QED
    BY Zenon, <1>1, <1>2, <2>1, <2>2, <2>3, <2>4, KeyStep DEF Active
<1> QED
  BY Zenon, <1>3, <1>4 DEF FinishDelete

\* A restart ends all calls.
LEMMA RestartStep ==
    ASSUME Inv, Restart
    PROVE  Inv'
<1>1. /\ inFlight' = {} /\ UNCHANGED <<snap, made>>
      /\ call' \in [Procs -> Call]
      /\ \A p \in Procs : /\ call'[p].pc = "idle" /\ call'[p].key = call[p].key
                          /\ call'[p].id = call[p].id /\ call'[p].volume = call[p].volume
                          /\ call'[p].code = "OK" => call[p].code = "OK"
  BY ZenonT(60) DEF Inv, Restart, Call
<1>2. ASSUME NEW p \in Procs
      PROVE  CallOK(call'[p], inFlight', snap', made')
  BY <1>1 DEF Inv, CallOK, Active, Making
<1>3. \A p, q \in Procs : Apart(call'[p], call'[q])
  BY Zenon, <1>1 DEF Apart, Making
<1>4. Exclusive'
  BY Zenon, <1>1 DEF Exclusive, Active
<1> QED
  BY Zenon, <1>1, <1>2, <1>3, <1>4, SnapKept DEF Inv

-----------------------------------------------------------------------------
(* The theorems *)

\* The initial states have no snapshot and no call in progress.
LEMMA InitInv == Init => Inv
<1> SUFFICES ASSUME Init PROVE Inv
  OBVIOUS
<1> USE MaxSnapsAssumption
<1>1. PICK v \in Volumes, n \in Names :
        /\ call = [p \in Procs |-> [pc |-> "idle", key |-> n, volume |-> v, fsr |-> FALSE,
                                    lock |-> FALSE, id |-> 1, own |-> FALSE, code |-> "none"]]
        /\ snap = [i \in Ids |-> [live |-> FALSE, name |-> n, volume |-> v,
                                  fsr |-> FALSE, lock |-> FALSE]]
  BY Zenon DEF Init
<1>2. call \in [Procs -> Call] /\ \A p \in Procs : call[p].pc = "idle" /\ call[p].code = "none"
  BY <1>1 DEF Call, Keys, Ids
<1>3. SnapOK(snap, made)
  BY <1>1 DEF Init, SnapOK, Snapshot
<1> QED
  BY Zenon, <1>2, <1>3 DEF Init, Inv, Exclusive, Active, CallOK, Apart, Making

\* Every step of a goroutine, and a restart, keeps the invariant.
LEMMA NextInv == Inv /\ [Next]_vars => Inv'
<1> SUFFICES ASSUME Inv, [Next]_vars PROVE Inv'
  OBVIOUS
<1>1. ASSUME NEW p \in Procs, NEW n \in Names, NEW v \in Volumes, NEW params \in Parameters,
             CreateSnapshot(p, n, v, params)
      PROVE  Inv'
  BY Zenon, <1>1, CreateSnapshotStep
<1>2. ASSUME NEW p \in Procs, NEW i \in Ids, DeleteSnapshot(p, i) PROVE Inv'
  BY Zenon, <1>2, DeleteSnapshotStep
<1>3. ASSUME NEW p \in Procs, Lookup(p) PROVE Inv'
  BY Zenon, <1>3, LookupStep
<1>4. ASSUME NEW p \in Procs, Create(p) PROVE Inv'
  BY Zenon, <1>4, CreateStep
<1>5. ASSUME NEW p \in Procs, CreateFails(p) PROVE Inv'
  BY Zenon, <1>5, CreateFailsStep
<1>6. ASSUME NEW p \in Procs, EnableFastSnapshotRestores(p) PROVE Inv'
  BY Zenon, <1>6, FSRStep
<1>7. ASSUME NEW p \in Procs, LockSnapshot(p) PROVE Inv'
  BY Zenon, <1>7, LockStep
<1>8. ASSUME NEW p \in Procs, Cleanup(p) PROVE Inv'
  BY Zenon, <1>8, CleanupStep
<1>9. ASSUME NEW p \in Procs, FinishDelete(p) PROVE Inv'
  BY Zenon, <1>9, FinishDeleteStep
<1>10. CASE Restart
  BY Zenon, <1>10, RestartStep
<1>11. CASE UNCHANGED vars
  BY Zenon, <1>11 DEF Inv, Exclusive, vars
<1> QED
  BY Zenon, <1>1, <1>2, <1>3, <1>4, <1>5, <1>6, <1>7, <1>8, <1>9, <1>10, <1>11 DEF Next

\* The inductive invariant behind the theorems of this module.
THEOREM SnapshotInvariant == Spec => []Inv
  BY InitInv, NextInv, PTL DEF Spec

\* Type correctness of Snapshots: IDs in answers and in the snapshots are IDs that EC2 gave.
THEOREM SnapshotTypes == Spec => []TypeOK
<1>1. Inv => TypeOK
  BY Zenon DEF Inv, TypeOK, SnapOK
<1> QED
  BY <1>1, SnapshotInvariant, PTL

\* A name never has two snapshots, however many goroutines serve CreateSnapshot for it, and
\* whatever answers are lost, clean-ups fail and restarts happen.
THEOREM NeverTwoSnapshots == Spec => []OneSnapshot
<1>1. Inv => OneSnapshot
  BY Zenon DEF Inv, SnapOK, OneSnapshot, Named
<1> QED
  BY <1>1, SnapshotInvariant, PTL

\* The record of a call is changed by the steps of its own goroutine and by a restart only.
LEMMA OwnStep ==
    ASSUME Inv, [Next]_vars, NEW p \in Procs, call'[p] # call[p]
    PROVE  \/ \E n \in Names, v \in Volumes, params \in Parameters : CreateSnapshot(p, n, v, params)
           \/ \E i \in Ids : DeleteSnapshot(p, i)
           \/ Lookup(p) \/ Create(p) \/ CreateFails(p) \/ EnableFastSnapshotRestores(p)
           \/ LockSnapshot(p) \/ Cleanup(p) \/ FinishDelete(p)
           \/ Restart
<1>1. call \in [Procs -> Call]
  BY Zenon DEF Inv
<1>2. ASSUME NEW q \in Procs \ {p}, NEW n \in Names, NEW v \in Volumes, NEW params \in Parameters
      PROVE  ~CreateSnapshot(q, n, v, params)
  BY Zenon, <1>1 DEF CreateSnapshot
<1>3. ASSUME NEW q \in Procs \ {p}, NEW i \in Ids
      PROVE  ~DeleteSnapshot(q, i)
  BY Zenon, <1>1 DEF DeleteSnapshot
<1>4. ASSUME NEW q \in Procs \ {p}
      PROVE  /\ ~Create(q) /\ ~CreateFails(q) /\ ~EnableFastSnapshotRestores(q)
             /\ ~LockSnapshot(q) /\ ~Cleanup(q) /\ ~FinishDelete(q)
  BY Zenon, <1>1 DEF Create, CreateFails, EnableFastSnapshotRestores, LockSnapshot, Cleanup,
              FinishDelete, Proceed, Goto, Return
<1>5. ASSUME NEW q \in Procs \ {p}
      PROVE  ~Lookup(q)
  BY Zenon, <1>1 DEF Lookup, Goto, Return
<1>6. ~UNCHANGED vars
  BY Zenon DEF vars
<1> QED
  BY Zenon, <1>2, <1>3, <1>4, <1>5, <1>6 DEF Next

\* A CreateSnapshot that made its snapshot itself answers success only when the snapshot is
\* there, with the fast restores and the lock that were asked for.
THEOREM OwnAsRequested == Spec => OwnSnapshotAsRequested
<1>1. ASSUME Inv, [Next]_vars, NEW p \in Procs, Answered(p), call'[p].own
      PROVE  AsRequested(p)
  <2>1. /\ call[p] \in Call /\ call[p].id \in Ids /\ call[p].pc \notin {"idle", "delete"}
        /\ CallOK(call[p], inFlight, snap, made) /\ call[p].code = "none" /\ call'[p].code = "OK"
    BY Zenon, <1>1 DEF Inv, Answered, Call, CallOK, Active
  <2>2. snap \in [Ids -> Snapshot] /\ call \in [Procs -> Call]
    BY Zenon, <1>1 DEF Inv, SnapOK
  <2>3. CASE Create(p)
    <3> DEFINE c == [call[p] EXCEPT !.id = made + 1, !.own = TRUE]
    <3>1. made + 1 \in Ids
      BY <1>1, <2>3, MaxSnapsAssumption DEF Create, NewSnapshot, Ids, Inv, SnapOK
    <3>2. snap'[made + 1].live
      BY Zenon, <2>2, <2>3, <3>1 DEF Create, NewSnapshot
    <3>3. c \in Call /\ c.id = made + 1 /\ c.code = "none"
      BY Zenon, <2>1, <3>1 DEF Call
    <3>4. call'[p] = IF AfterCreate(c) = "idle" THEN [c EXCEPT !.pc = "idle", !.code = "OK"]
                     ELSE [c EXCEPT !.pc = AfterCreate(c)]
      BY Zenon, <2>2, <2>3 DEF Create
    <3> HIDE DEF c
    <3>5. AfterCreate(c) = "idle" /\ call'[p].id = made + 1 /\ call'[p].fsr = c.fsr
          /\ call'[p].lock = c.lock
      BY <2>1, <3>3, <3>4 DEF Call
    <3>6. ~c.fsr /\ ~c.lock
      BY Zenon, <3>5 DEF AfterCreate
    <3> QED
      BY Zenon, <3>2, <3>5, <3>6 DEF AsRequested
  <2>4. CASE EnableFastSnapshotRestores(p)
    <3>1. snap' = [snap EXCEPT ![call[p].id].fsr = TRUE] /\ ~call[p].lock
          /\ call'[p].id = call[p].id /\ call'[p].lock = call[p].lock
      BY <2>1, <2>2, <2>4 DEF EnableFastSnapshotRestores, Proceed, AfterFSR, Goto, Return, Call
    <3>2. snap'[call[p].id].fsr /\ snap'[call[p].id].live = snap[call[p].id].live
      BY Zenon, <2>1, <2>2, <3>1 DEF Snapshot
    <3> QED
      BY Zenon, <2>1, <2>4, <3>1, <3>2 DEF AsRequested, EnableFastSnapshotRestores, CallOK, Making
  <2>5. CASE LockSnapshot(p)
    <3>1. snap' = [snap EXCEPT ![call[p].id].lock = TRUE]
          /\ call'[p].id = call[p].id /\ call'[p].fsr = call[p].fsr
      BY <2>1, <2>2, <2>5 DEF LockSnapshot, Goto, Return, Call
    <3>2. /\ snap'[call[p].id].lock /\ snap'[call[p].id].live = snap[call[p].id].live
          /\ snap'[call[p].id].fsr = snap[call[p].id].fsr
      BY Zenon, <2>1, <2>2, <3>1 DEF Snapshot
    <3> QED
      BY Zenon, <2>1, <2>5, <3>1, <3>2 DEF AsRequested, LockSnapshot, CallOK, Making
  <2>6. ~Lookup(p)
    BY <1>1, <2>1, <2>2 DEF Lookup, Goto, Return, CallOK, Call
  <2>7. ~CreateFails(p) /\ ~Cleanup(p) /\ ~FinishDelete(p)
    BY <2>1, <2>2 DEF CreateFails, Cleanup, FinishDelete, Return, Call
  <2>8. ~Restart
    <3>1. Restart => call'[p] = [call[p] EXCEPT !.pc = "idle", !.code = "none"]
      BY Zenon, <2>1 DEF Restart
    <3>2. [call[p] EXCEPT !.pc = "idle", !.code = "none"].code = "none"
      BY Zenon, <2>1 DEF Call
    <3> QED
      BY Zenon, <2>1, <3>1, <3>2
  <2>9. call'[p] # call[p]
    BY Zenon, <2>1
  <2> QED
    BY ZenonT(60), <1>1, <2>1, <2>3, <2>4, <2>5, <2>6, <2>7, <2>8, <2>9, OwnStep DEF CreateSnapshot, DeleteSnapshot
<1>2. Inv /\ [Next]_vars =>
        [\A p \in Procs : Answered(p) /\ call'[p].own => AsRequested(p)]_vars
  BY Zenon, <1>1
<1> QED
  BY <1>2, SnapshotInvariant, PTL DEF Spec, OwnSnapshotAsRequested

\* What a CreateSnapshot answered is a snapshot of the volume it was asked for, until a
\* DeleteSnapshot takes it away: no clean-up ever does.
THEOREM NeverTakenAway == Spec => KeptUntilDeleted
<1>1. ASSUME Inv, [Next]_vars, NEW p \in Procs, NEW i \in Ids, Given(p, i)
      PROVE  snap[i].live => snap[i].volume = call[p].volume
  BY Zenon, <1>1 DEF Given, Inv, CallOK
<1>2. ASSUME Inv, [Next]_vars, NEW p \in Procs, NEW i \in Ids, Given(p, i),
             snap[i].live, ~snap'[i].live
      PROVE  \E q \in Procs : call[q].pc = "delete" /\ call[q].id = i
  <2>1. snap \in [Ids -> Snapshot] /\ call[p].code = "OK" /\ call[p].id = i
    BY Zenon, <1>2 DEF Inv, SnapOK, Given
  <2>2. snap' # snap
    BY Zenon, <1>2
  <2>3. ASSUME NEW q \in Procs, Create(q) \/ CreateFails(q) PROVE FALSE
    <3>1. snap'[i] = snap[i] \/ snap'[i].live
      BY <2>1, <2>2, <2>3 DEF Create, CreateFails, NewSnapshot
    <3> QED
      BY Zenon, <1>2, <3>1
  <2>4. ASSUME NEW q \in Procs, EnableFastSnapshotRestores(q) PROVE FALSE
    BY <1>2, <2>1, <2>2, <2>4 DEF EnableFastSnapshotRestores, Snapshot
  <2>5. ASSUME NEW q \in Procs, LockSnapshot(q) PROVE FALSE
    BY <1>2, <2>1, <2>2, <2>5 DEF LockSnapshot, Snapshot
  <2>6. ASSUME NEW q \in Procs, Cleanup(q) PROVE FALSE
    <3>1. call[q].id = i
      BY Zenon, <1>2, <2>1, <2>2, <2>6 DEF Cleanup, Delete, Snapshot
    <3>2. call[p].id # call[q].id
      BY Zenon, <1>2, <2>1, <2>6 DEF Inv, Apart, Cleanup, Making
    <3> QED
      BY Zenon, <2>1, <3>1, <3>2
  <2>7. ASSUME NEW q \in Procs, FinishDelete(q) PROVE call[q].pc = "delete" /\ call[q].id = i
    BY Zenon, <1>2, <2>1, <2>2, <2>7 DEF FinishDelete, Delete, Snapshot
  <2> QED
    BY Zenon, <1>2, <2>2, <2>3, <2>4, <2>5, <2>6, <2>7
       DEF Next, vars, CreateSnapshot, DeleteSnapshot, Lookup, Restart
<1>3. Inv /\ [Next]_vars =>
        [\A p \in Procs, i \in Ids : Given(p, i) =>
            /\ snap[i].live => snap[i].volume = call[p].volume
            /\ snap[i].live /\ ~snap'[i].live => \E q \in Procs : call[q].pc = "delete" /\ call[q].id = i]_vars
  BY Zenon, <1>1, <1>2
<1> QED
  BY <1>3, SnapshotInvariant, PTL DEF Spec, KeptUntilDeleted
-----------------------------------------------------------------------------
(* Every RPC comes to its end, and takes its key along *)

\* A bound on the steps a call has left.
Rank(c) ==
    CASE c.pc = "lookup" -> 5
      [] c.pc = "create" -> 4
      [] c.pc = "fsr" -> 3
      [] c.pc = "lock" -> 2
      [] c.pc \in {"cleanup", "delete"} -> 1
      [] OTHER -> 0

CallStep(p) ==
    \/ Lookup(p) \/ Create(p) \/ CreateFails(p)
    \/ EnableFastSnapshotRestores(p) \/ LockSnapshot(p)
    \/ Cleanup(p) \/ FinishDelete(p)

\* A call goes on to a later place with its key, or gives the key back with the answer.
MovesOn(p) ==
    /\ call'[p].key = call[p].key /\ \A q \in Procs \ {p} : call'[q] = call[q]
    /\ Rank(call'[p]) < Rank(call[p])
    /\ inFlight' = IF Active(call'[p]) THEN inFlight ELSE inFlight \ {call[p].key}

\* A call becomes d.
LEMMA CallSet ==
    ASSUME Inv, NEW p \in Procs, NEW d, call' = [call EXCEPT ![p] = d],
           d.key = call[p].key, Rank(d) < Rank(call[p]),
           inFlight' = IF Active(d) THEN inFlight ELSE inFlight \ {call[p].key}
    PROVE  MovesOn(p)
<1>1. call'[p] = d /\ \A q \in Procs \ {p} : call'[q] = call[q]
  BY Zenon DEF Inv
<1> QED
  BY Zenon, <1>1 DEF MovesOn

\* A handler that returns moves on.
LEMMA ReturnMoves ==
    ASSUME Inv, NEW p \in Procs, NEW code, Return(p, code), Active(call[p])
    PROVE  MovesOn(p)
<1> DEFINE d == [call[p] EXCEPT !.pc = "idle", !.code = code]
<1>1. call[p] \in Call /\ call' = [call EXCEPT ![p] = d] /\ inFlight' = inFlight \ {call[p].key}
  BY Zenon DEF Inv, Return
<1>2. d.key = call[p].key /\ d.pc = "idle"
  BY Zenon, <1>1 DEF Call
<1> HIDE DEF d
<1>3. Rank(d) = 0 /\ ~Active(d)
  BY <1>2 DEF Rank, Active
<1>4. Rank(d) < Rank(call[p])
  BY <1>1, <1>3 DEF Rank, Active, Call
<1> QED
  BY Zenon, <1>1, <1>2, <1>3, <1>4, CallSet

\* So does one that goes to a later place.
LEMMA GotoMoves ==
    ASSUME Inv, NEW p \in Procs, NEW pc, Goto(p, pc),
           \/ call[p].pc = "lookup" /\ pc = "create"
           \/ call[p].pc = "fsr" /\ pc \in {"lock", "cleanup"}
           \/ call[p].pc = "lock" /\ pc = "cleanup"
    PROVE  MovesOn(p)
<1> DEFINE d == [call[p] EXCEPT !.pc = pc]
<1>1. call[p] \in Call /\ call' = [call EXCEPT ![p] = d] /\ inFlight' = inFlight
  BY Zenon DEF Inv, Goto
<1>2. d.key = call[p].key /\ d.pc = pc
  BY Zenon, <1>1 DEF Call
<1> HIDE DEF d
<1>3. Rank(d) < Rank(call[p]) /\ Active(d)
  BY <1>2 DEF Rank, Active
<1> QED
  BY Zenon, <1>1, <1>2, <1>3, CallSet

\* And one that has made its snapshot.
LEMMA CreateMoves ==
    ASSUME Inv, NEW p \in Procs, Create(p)
    PROVE  MovesOn(p)
<1> DEFINE c == [call[p] EXCEPT !.id = made + 1, !.own = TRUE]
           d == IF AfterCreate(c) = "idle" THEN [c EXCEPT !.pc = "idle", !.code = "OK"]
                ELSE [c EXCEPT !.pc = AfterCreate(c)]
<1>1. /\ call[p] \in Call /\ call[p].pc = "create" /\ call' = [call EXCEPT ![p] = d]
      /\ inFlight' = IF AfterCreate(c) = "idle" THEN inFlight \ {c.key} ELSE inFlight
  BY Zenon DEF Inv, Create
<1>2. c.key = call[p].key /\ d.key = call[p].key /\ d.pc = AfterCreate(c)
  BY Zenon, <1>1 DEF Call
<1>3. AfterCreate(c) \in {"fsr", "lock", "idle"}
  BY Zenon DEF AfterCreate
<1> HIDE DEF d, c
<1>4. Rank(d) < Rank(call[p]) /\ (Active(d) <=> AfterCreate(c) # "idle")
  BY <1>1, <1>2, <1>3 DEF Rank, Active
<1>5. inFlight' = IF Active(d) THEN inFlight ELSE inFlight \ {call[p].key}
  BY Zenon, <1>1, <1>2, <1>4
<1> QED
  BY Zenon, <1>1, <1>2, <1>4, <1>5, CallSet

\* Whatever a goroutine does for its RPC, it moves on.
LEMMA CallMoves ==
    ASSUME Inv, NEW p \in Procs, CallStep(p)
    PROVE  Active(call[p]) /\ MovesOn(p)
<1>1. Active(call[p])
  BY Zenon DEF CallStep, Lookup, Create, CreateFails, EnableFastSnapshotRestores, LockSnapshot,
               Cleanup, FinishDelete, Active
<1>2. CASE Lookup(p)
  <2> DEFINE d(i) == [call[p] EXCEPT !.pc = "idle", !.code = "OK", !.id = i]
  <2>1. \/ Goto(p, "create") \/ Return(p, "error")
        \/ \E i : call' = [call EXCEPT ![p] = d(i)] /\ inFlight' = inFlight \ {call[p].key}
    BY Zenon, <1>2 DEF Lookup
  <2>2. call[p].pc = "lookup" /\ call[p] \in Call
    BY Zenon, <1>2 DEF Lookup, Inv
  <2>3. ASSUME NEW i, call' = [call EXCEPT ![p] = d(i)], inFlight' = inFlight \ {call[p].key}
        PROVE  MovesOn(p)
    <3> DEFINE e == d(i)
    <3>1. e.key = call[p].key /\ e.pc = "idle" /\ call' = [call EXCEPT ![p] = e]
      BY Zenon, <2>2, <2>3 DEF Call
    <3> HIDE DEF e
    <3>2. Rank(e) < Rank(call[p]) /\ ~Active(e)
      BY <2>2, <3>1 DEF Rank, Active
    <3> QED
      BY Zenon, <2>3, <3>1, <3>2, CallSet
  <2> QED
    BY Zenon, <1>1, <2>1, <2>2, <2>3, GotoMoves, ReturnMoves
<1>3. CASE EnableFastSnapshotRestores(p)
  <2>1. call[p].pc = "fsr" /\ (Goto(p, "lock") \/ Goto(p, "cleanup") \/ Return(p, "OK"))
    BY Zenon, <1>3 DEF EnableFastSnapshotRestores, Proceed, AfterFSR
  <2> QED
    BY Zenon, <1>1, <2>1, GotoMoves, ReturnMoves
<1>4. CASE LockSnapshot(p)
  <2>1. call[p].pc = "lock" /\ (Goto(p, "cleanup") \/ Return(p, "OK"))
    BY Zenon, <1>4 DEF LockSnapshot
  <2> QED
    BY Zenon, <1>1, <2>1, GotoMoves, ReturnMoves
<1>5. CASE CreateFails(p) \/ Cleanup(p) \/ FinishDelete(p)
  <2>1. Return(p, "OK") \/ Return(p, "error")
    BY Zenon, <1>5 DEF CreateFails, Cleanup, FinishDelete
  <2> QED
    BY Zenon, <1>1, <2>1, ReturnMoves
<1> QED
  BY Zenon, <1>1, <1>2, <1>3, <1>4, <1>5, CreateMoves DEF CallStep
\* InFlight holds the names and the IDs of the RPCs in progress, and no other.
KeysOwned == \A k \in inFlight : \E p \in Procs : Active(call[p]) /\ call[p].key = k

\* One step of a call uses up some of what it has left; nobody else takes it back.
Progress ==
    \A p \in Procs :
        /\ CallStep(p) => Rank(call'[p]) < Rank(call[p])
        /\ Active(call[p]) => Rank(call'[p]) <= Rank(call[p])

\* A call that moves on leaves every key with its owner.
LEMMA MovesOwned ==
    ASSUME NEW p \in Procs, MovesOn(p), KeysOwned
    PROVE  KeysOwned'
<1> SUFFICES ASSUME NEW k \in inFlight' PROVE \E q \in Procs : Active(call'[q]) /\ call'[q].key = k
  BY Zenon DEF KeysOwned, Active
<1>1. k \in inFlight /\ (~Active(call'[p]) => k # call[p].key)
  BY Zenon DEF MovesOn
<1>2. PICK q \in Procs : Active(call[q]) /\ call[q].key = k
  BY Zenon, <1>1 DEF KeysOwned
<1>3. CASE q = p
  <2>1. Active(call'[p]) /\ call'[p].key = k
    BY Zenon, <1>1, <1>2, <1>3 DEF MovesOn
  <2> QED
    BY Zenon, <2>1
<1>4. CASE q # p
  <2>1. call'[q] = call[q]
    BY Zenon, <1>4 DEF MovesOn
  <2> QED
    BY Zenon, <1>2, <2>1
<1> QED
  BY Zenon, <1>3, <1>4

\* A step keeps the keys owned and the ranks falling.
LEMMA NextProgress == Inv /\ [Next]_vars => [Progress]_vars /\ (KeysOwned => KeysOwned')
<1> SUFFICES ASSUME Inv, [Next]_vars PROVE [Progress]_vars /\ (KeysOwned => KeysOwned')
  OBVIOUS
<1>1. call \in [Procs -> Call] /\ \A p \in Procs : CallStep(p) => Rank(call'[p]) < Rank(call[p])
  BY Zenon, CallMoves DEF Inv, MovesOn
<1>2. \A c : Rank(c) \in 0..5
  BY DEF Rank
<1>3. \A p \in Procs : Rank(call[p]) <= Rank(call[p]) /\ 0 <= Rank(call[p])
  BY <1>2
<1>4. CASE UNCHANGED <<call, inFlight>>
  BY Zenon, <1>1, <1>3, <1>4 DEF Progress, KeysOwned, Active
<1>5. ASSUME NEW p \in Procs, CallStep(p) PROVE Progress /\ (KeysOwned => KeysOwned')
  <2>1. MovesOn(p)
    BY Zenon, <1>5, CallMoves
  <2>2. Rank(call'[p]) <= Rank(call[p])
    <3>1. Rank(call'[p]) < Rank(call[p])
      BY Zenon, <2>1 DEF MovesOn
    <3> QED
      BY <1>2, <3>1
  <2>3. \A q \in Procs : Rank(call'[q]) <= Rank(call[q])
    BY Zenon, <1>3, <2>1, <2>2 DEF MovesOn
  <2> QED
    BY Zenon, <1>1, <2>1, <2>3, MovesOwned DEF Progress
<1>6. ASSUME NEW p \in Procs, NEW k, NEW d, ~Active(call[p]), call' = [call EXCEPT ![p] = d],
             Active(d), d.key = k, inFlight' = inFlight \cup {k}
      PROVE  Progress /\ (KeysOwned => KeysOwned')
  <2>1. call'[p] = d /\ \A q \in Procs \ {p} : call'[q] = call[q]
    BY Zenon, <1>1, <1>6
  <2>2. Progress
    BY Zenon, <1>1, <1>3, <1>6, <2>1 DEF Progress
  <2>3. ASSUME KeysOwned, NEW x \in inFlight'
        PROVE  \E q \in Procs : Active(call'[q]) /\ call'[q].key = x
    <3>1. CASE x = k
      BY Zenon, <1>6, <2>1, <3>1
    <3>2. CASE x \in inFlight
      <4>1. PICK q \in Procs : Active(call[q]) /\ call[q].key = x
        BY Zenon, <2>3, <3>2 DEF KeysOwned
      <4>2. call'[q] = call[q]
        BY Zenon, <1>6, <2>1, <4>1
      <4> QED
        BY Zenon, <4>1, <4>2
    <3> QED
      BY Zenon, <1>6, <2>3, <3>1, <3>2
  <2> QED
    BY Zenon, <2>2, <2>3 DEF KeysOwned, Active
<1>7. ASSUME NEW p \in Procs, NEW n \in Names, NEW v \in Volumes, NEW params \in Parameters,
             CreateSnapshot(p, n, v, params)
      PROVE  Progress /\ (KeysOwned => KeysOwned')
  <2> DEFINE d == [pc |-> "lookup", key |-> n, volume |-> v, fsr |-> params.fsr,
                   lock |-> params.lock, id |-> 1, own |-> FALSE, code |-> "none"]
  <2>1. ~Active(call[p]) /\ call' = [call EXCEPT ![p] = d] /\ inFlight' = inFlight \cup {n}
    BY Zenon, <1>7 DEF CreateSnapshot, Insert, Active
  <2>2. Active(d) /\ d.key = n
    BY Zenon DEF Active
  <2> HIDE DEF d
  <2> QED
    BY Zenon, <1>6, <2>1, <2>2
<1>8. ASSUME NEW p \in Procs, NEW i \in Ids, DeleteSnapshot(p, i)
      PROVE  Progress /\ (KeysOwned => KeysOwned')
  <2> DEFINE d == [call[p] EXCEPT !.pc = "delete", !.key = i, !.id = i, !.own = FALSE,
                                  !.code = "none"]
  <2>1. ~Active(call[p]) /\ call' = [call EXCEPT ![p] = d] /\ inFlight' = inFlight \cup {i}
    BY Zenon, <1>8 DEF DeleteSnapshot, Insert, Active
  <2>2. Active(d) /\ d.key = i
    BY Zenon, <1>1 DEF Active, Call
  <2> HIDE DEF d
  <2> QED
    BY Zenon, <1>6, <2>1, <2>2
<1>9. CASE Restart
  <2>1. inFlight' = {} /\ \A p \in Procs : call'[p].pc = "idle"
    BY ZenonT(60), <1>1, <1>9 DEF Restart, Call
  <2>2. \A p \in Procs : Rank(call'[p]) = 0
    BY <2>1 DEF Rank
  <2> QED
    BY Zenon, <1>1, <1>3, <2>1, <2>2 DEF Progress, KeysOwned, Active
<1> QED
  BY Zenon, <1>4, <1>5, <1>7, <1>8, <1>9 DEF Next, CallStep, vars

\* The key a CreateSnapshot or a DeleteSnapshot put in InFlight never outlives the RPC,
\* whichever of its calls fails and wherever the process dies: every key is that of an RPC
\* still running. No name and no snapshot is left for which every later RPC is told that
\* one is in progress.
THEOREM KeysNeverLeaked == Spec => []KeysOwned
<1>1. Init => KeysOwned
  BY Zenon DEF Init, KeysOwned
<1> QED
  BY <1>1, SnapshotInvariant, NextProgress, PTL DEF Spec

\* CreateSnapshot and DeleteSnapshot have at most five steps to take: each lowers a rank
\* that nobody else raises and that is zero exactly when the RPC is over, the clean-up of
\* a failed call included.
THEOREM CallsBounded ==
    Spec => /\ []\A p \in Procs : Rank(call[p]) \in 0..5 /\ (Rank(call[p]) = 0 <=> ~Active(call[p]))
            /\ [][Progress]_vars
<1>1. ASSUME NEW c \in Call PROVE Rank(c) \in 0..5 /\ (Rank(c) = 0 <=> ~Active(c))
  <2>1. c.pc \in {"idle", "lookup", "create", "fsr", "lock", "cleanup", "delete"}
    BY Zenon DEF Call
  <2> QED
    BY <2>1 DEF Rank, Active
<1>2. Inv => \A p \in Procs : Rank(call[p]) \in 0..5 /\ (Rank(call[p]) = 0 <=> ~Active(call[p]))
  BY Zenon, <1>1 DEF Inv
<1> QED
  BY <1>2, SnapshotInvariant, NextProgress, PTL DEF Spec
=============================================================================
