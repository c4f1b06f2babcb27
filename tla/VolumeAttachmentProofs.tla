----------------------- MODULE VolumeAttachmentProofs -----------------------
(***************************************************************************)
(* What the operations of the device manager return, the safety properties *)
(* of VolumeAttachment with the inductive invariant they rest on, and a    *)
(* bound on the steps of every RPC: for any numbers of handlers, volumes,  *)
(* nodes, device names, cards, polls and restarts.                         *)
(***************************************************************************)
EXTENDS VolumeAttachment, FiniteSetTheorems, WellFoundedInduction, TLAPS

-----------------------------------------------------------------------------
(* The device manager *)

Mappings == [Volumes -> Entry]

\* Every non-empty set of naturals has a least element (the loops of getNextCardIndex
\* and GetNext, which keep the smallest candidate, end with one).
LEMMA LeastNatural ==
    ASSUME NEW T \in SUBSET Nat, T # {}
    PROVE  \E x \in T : \A y \in T : x <= y
<1>1. PICK x \in T : \A y \in T : ~(<<y, x>> \in OpToRel(<, Nat))
  BY NatLessThanWellFounded, WFMin, Zenon
<1>2. \A y \in T : ~(y < x)
  BY Zenon, <1>1 DEF OpToRel
<1> QED
  BY <1>2

\* The occupation of a card is a number.
LEMMA CardCountType ==
    ASSUME NEW bdm \in Mappings, NEW entries \in Mappings, NEW c
    PROVE  GetCardCount(bdm, entries, c) \in Nat
<1>1. {v \in Volumes : bdm[v].card = c} \in SUBSET Volumes
  OBVIOUS
<1>2. {v \in Volumes : entries[v].card = c /\ bdm[v].card = NoCard} \in SUBSET Volumes
  OBVIOUS
<1>3. \A S \in SUBSET Volumes : Cardinality(S) \in Nat
  BY VolumesAssumption, FS_Subset, FS_CardinalityType
<1> QED
  BY <1>1, <1>2, <1>3 DEF GetCardCount

\* getNextCardIndex returns a card of the instance, or nil on a single-card instance.
LEMMA CardIndexType ==
    ASSUME NEW bdm \in Mappings, NEW entries \in Mappings
    PROVE  GetNextCardIndex(bdm, entries) \in Cards \cup {NoCard}
<1> DEFINE count(c) == GetCardCount(bdm, entries, c)
           least == {c \in Cards : \A e \in Cards : count(c) <= count(e)}
<1>1. CASE NumCards <= 1
  BY <1>1 DEF GetNextCardIndex
<1>2. CASE ~(NumCards <= 1)
  <2>1. \A c \in Cards : count(c) \in Nat
    BY CardCountType
  <2>2. 0 \in Cards /\ Cards \subseteq Nat
    BY <1>2, NumCardsAssumption DEF Cards
  <2> HIDE DEF count
  <2>3. PICK x \in {count(c) : c \in Cards} : \A y \in {count(c) : c \in Cards} : x <= y
    <3>1. {count(c) : c \in Cards} \in SUBSET Nat
      BY <2>1
    <3>2. {count(c) : c \in Cards} # {}
      BY <2>2
    <3> QED
      BY Zenon, <3>1, <3>2, LeastNatural
  <2>4. least # {}
    BY <2>3
  <2>5. PICK low \in least : \A e \in least : low <= e
    <3>1. least \in SUBSET Nat
      BY Zenon, <2>2
    <3> QED
      BY Zenon, <3>1, <2>4, LeastNatural
  <2>6. (CHOOSE c \in least : \A e \in least : c <= e) \in least
    BY <2>5
  <2>7. GetNextCardIndex(bdm, entries) = CHOOSE c \in least : \A e \in least : c <= e
    BY <1>2 DEF GetNextCardIndex, count
  <2> QED
    BY <2>6, <2>7
<1> QED
  BY <1>1, <1>2

\* Every name in flight is in use, with its volume.
LEMMA InFlightNamesInUse ==
    ASSUME NEW bdm \in Mappings, NEW entries \in Mappings,
           NEW v \in Volumes, entries[v].name # NoName
    PROVE  <<entries[v].name, v>> \in GetDeviceNamesInUse(bdm, entries)
  BY DEF GetDeviceNamesInUse, GetNames

\* A name that getPath finds for a volume is its name in flight or in the mappings.
LEMMA PathOfVolume ==
    ASSUME NEW bdm \in Mappings, NEW entries \in Mappings, NEW v \in Volumes,
           NEW d \in GetPath(GetDeviceNamesInUse(bdm, entries), v)
    PROVE  d \in Names /\ d \in {entries[v].name, bdm[v].name}
<1>1. PICK q \in GetDeviceNamesInUse(bdm, entries) : q[2] = v /\ q[1] = d
  BY DEF GetPath
<1>2. q \in GetNames(entries) \/ q \in GetNames(bdm)
  BY <1>1 DEF GetDeviceNamesInUse
<1>3. ASSUME NEW m \in Mappings, q \in GetNames(m)
      PROVE  d = m[v].name /\ d \in Names
  <2>1. PICK w \in Volumes : m[w].name # NoName /\ q = <<m[w].name, w>>
    BY <1>3 DEF GetNames
  <2>2. w = v /\ d = m[v].name
    BY <2>1, <1>1
  <2>3. m[v].name \in Names \cup {NoName}
    BY DEF Mappings, Entry
  <2> QED
    BY <2>1, <2>2, <2>3
<1> QED
  BY <1>2, <1>3

\* getPath finds a name for every volume in flight.
LEMMA PathExists ==
    ASSUME NEW bdm \in Mappings, NEW entries \in Mappings,
           NEW v \in Volumes, entries[v].name # NoName
    PROVE  GetPath(GetDeviceNamesInUse(bdm, entries), v) # {}
<1>1. PICK q \in GetDeviceNamesInUse(bdm, entries) : q[2] = v
  <2>1. <<entries[v].name, v>>[2] = v
    OBVIOUS
  <2> QED
    BY Zenon, <2>1, InFlightNamesInUse
<1> QED
  BY <1>1 DEF GetPath

\* GetNext returns a device name that is not in use.
LEMMA NextName ==
    ASSUME NEW existing, NEW bad \in SUBSET Names, NEW d \in GetNext(existing, bad)
    PROVE  d \in Names /\ d \notin existing
  BY DEF GetNext

\* An assigned device has the name the volume already had; a new one has a name no
\* volume has in flight.
SoundDevice(bdm, entries, v, dev) ==
    /\ dev \in Device
    /\ dev.path \in Names
    /\ dev.assigned => dev.path \in {entries[v].name, bdm[v].name}
    /\ ~dev.assigned => /\ entries[v].name = NoName
                        /\ \A w \in Volumes : entries[w].name # dev.path

\* Such is every device that NewDevice returns.
LEMMA NewDeviceIsSound ==
    ASSUME NEW bdm \in Mappings, NEW entries \in Mappings, NEW v \in Volumes,
           NEW bad, bad \subseteq Names, NEW dev \in NewDevice(bdm, entries, v, bad)
    PROVE  SoundDevice(bdm, entries, v, dev)
<1> DEFINE inUse == GetDeviceNamesInUse(bdm, entries)
           paths == GetPath(inUse, v)
           existing == {p[1] : p \in inUse}
<1>1. bdm[v].card \in Cards \cup {NoCard}
  BY DEF Mappings, Entry
<1>2. CASE paths # {}
  <2>1. PICK d \in paths : dev = [path |-> d, assigned |-> TRUE, card |-> bdm[v].card]
    BY <1>2 DEF NewDevice
  <2>2. d \in Names /\ d \in {entries[v].name, bdm[v].name}
    BY PathOfVolume
  <2> QED
    BY <2>1, <2>2, <1>1 DEF Device, SoundDevice
<1>3. CASE paths = {}
  <2>1. PICK d \in GetNext(existing, bad) :
            dev = [path |-> d, assigned |-> FALSE, card |-> GetNextCardIndex(bdm, entries)]
    BY Zenon, <1>3 DEF NewDevice
  <2>2. d \in Names /\ d \notin existing
    BY NextName
  <2>3. entries[v].name = NoName
    BY <1>3, PathExists
  <2>4. ASSUME NEW w \in Volumes, entries[w].name = d
        PROVE  FALSE
    <3>1. d # NoName
      BY <2>2, NumNamesAssumption DEF Names, NoName
    <3>2. <<d, w>> \in inUse
      BY <3>1, <2>4, InFlightNamesInUse
    <3>3. d \in existing
      BY <3>2
    <3> QED
      BY <2>2, <3>3
  <2>5. GetNextCardIndex(bdm, entries) \in Cards \cup {NoCard}
    BY CardIndexType
  <2> QED
    BY <2>1, <2>2, <2>3, <2>4, <2>5 DEF Device, SoundDevice
<1> QED
  BY <1>2, <1>3

\* The device of a volume in flight has the name in flight or in the mappings.
SoundOldDevice(bdm, entries, v, dev) ==
    /\ dev \in Device
    /\ \/ entries[v].name = NoName
       \/ dev.path \in Names /\ dev.path \in {entries[v].name, bdm[v].name}

\* Such is every device that GetDevice returns.
LEMMA GetDeviceIsSound ==
    ASSUME NEW bdm \in Mappings, NEW entries \in Mappings, NEW v \in Volumes,
           NEW dev \in GetDevice(bdm, entries, v)
    PROVE  SoundOldDevice(bdm, entries, v, dev)
<1> DEFINE paths == GetPath(GetDeviceNamesInUse(bdm, entries), v)
<1>1. bdm[v].card \in Cards \cup {NoCard}
  BY DEF Mappings, Entry
<1>2. CASE paths # {}
  <2>1. PICK d \in paths : dev = [path |-> d, assigned |-> TRUE, card |-> bdm[v].card]
    BY <1>2 DEF GetDevice
  <2>2. d \in Names /\ d \in {entries[v].name, bdm[v].name}
    BY PathOfVolume
  <2> QED
    BY <2>1, <2>2, <1>1 DEF Device, SoundOldDevice
<1>3. CASE paths = {}
  <2>1. dev = NoDevice
    BY <1>3 DEF GetDevice
  <2>2. entries[v].name = NoName
    BY <1>3, PathExists
  <2> QED
    BY <2>1, <2>2 DEF Device, SoundOldDevice, NoDevice
<1> QED
  BY <1>2, <1>3

-----------------------------------------------------------------------------
(* Handler records *)

\* The record of an idle handler is a record of a handler.
LEMMA IdleType == Idle \in Handler /\ Idle.pc = "idle"
<1>1. (CHOOSE v \in Volumes : TRUE) \in Volumes /\ (CHOOSE n \in Nodes : TRUE) \in Nodes
  BY Zenon, SomeVolumeAndNode
<1>2. NoEntry \in Entry
  BY Zenon DEF NoEntry, Entry
<1>3. NoMappings \in [Volumes -> Entry]
  BY Zenon, <1>2 DEF NoMappings
<1>4. NoDevice \in Device
  BY Zenon DEF NoDevice, Device
<1>5. 0 \in 0..MaxPolls
  BY MaxPollsAssumption
<1> QED
  BY Zenon, <1>1, <1>2, <1>3, <1>4, <1>5 DEF Idle, Fresh, Handler, Pcs

\* Nor does the record of a handler that starts hold anything yet.
LEMMA FreshType ==
    ASSUME NEW op \in {"attach", "detach"}, NEW v \in Volumes, NEW n \in Nodes
    PROVE  /\ Fresh(op, v, n) \in Handler
           /\ Fresh(op, v, n).pc = "getInstance"
           /\ Fresh(op, v, n).vol = v
           /\ Fresh(op, v, n).node = n
           /\ ~Fresh(op, v, n).tainted
           /\ ~Fresh(op, v, n).ok
<1>2. NoEntry \in Entry
  BY Zenon DEF NoEntry, Entry
<1>3. NoMappings \in [Volumes -> Entry]
  BY Zenon, <1>2 DEF NoMappings
<1>4. NoDevice \in Device
  BY Zenon DEF NoDevice, Device
<1>5. 0 \in 0..MaxPolls
  BY MaxPollsAssumption
<1> QED
  BY Zenon, <1>2, <1>3, <1>4, <1>5 DEF Fresh, Handler, Pcs

\* A volume that is not attached has no name on the instance.
LEMMA DetachedName ==
    Detached \in Attachment /\ Detached.state = "detached" /\ Detached.at.name = NoName
<1>1. NoEntry \in Entry /\ NoEntry.name = NoName
  BY Zenon DEF NoEntry, Entry
<1> QED
  BY Zenon, <1>1 DEF Detached, Attachment, AttachmentStates

\* What one poll of WaitForAttachmentState makes of a handler: only where it goes on,
\* what it has seen and what it will answer change.
Polled(hp, next) ==
    /\ next \in Handler
    /\ next.op = hp.op /\ next.vol = hp.vol /\ next.node = hp.node /\ next.dev = hp.dev
    /\ next.pc \in {"wait", "release", "stuck", "reattach"}
    /\ next.pc \in {"stuck", "reattach"} => next.op = "attach"
    /\ next.pc # "release" => ~next.ok /\ ~next.tainted

\* A wait that fails answers no success.
LEMMA FailedOutcome ==
    ASSUME NEW hp \in Handler, ~hp.ok
    PROVE  /\ Polled(hp, Failed(hp)) /\ ~Failed(hp).ok
           /\ Failed(hp).pc = "release"
           /\ hp.op = "attach" => Failed(hp).tainted
  BY Zenon DEF Polled, Failed, Handler, Pcs

\* A wait that succeeds releases an untainted device.
LEMMA SucceededOutcome ==
    ASSUME NEW hp \in Handler, hp.pc = "wait"
    PROVE  Polled(hp, Succeeded(hp))
  BY Zenon DEF Polled, Succeeded, Handler, Pcs

\* A poll that decides nothing leads to another one or, in the end, to a failure.
LEMMA AgainOutcome ==
    ASSUME NEW hp \in Handler, hp.pc = "wait", ~hp.ok, ~hp.tainted
    PROVE  Polled(hp, Again(hp)) /\ ~Again(hp).ok
<1>1. CASE hp.polls + 1 < MaxPolls
  <2>1. hp.polls + 1 \in 0..MaxPolls
    BY <1>1, MaxPollsAssumption DEF Handler
  <2> QED
    BY Zenon, <1>1, <2>1 DEF Again, Polled, Handler, Pcs
<1>2. CASE ~(hp.polls + 1 < MaxPolls)
  BY Zenon, <1>2, FailedOutcome DEF Again
<1> QED
  BY Zenon, <1>1, <1>2

\* verifyVolumeFunc says "attached" only of an attachment with the device's name and card.
LEMMA VerifyAttachedOutcome ==
    ASSUME NEW hp \in Handler, hp.pc = "wait", ~hp.ok, ~hp.tainted, hp.op = "attach",
           NEW a \in Attachment, a.state # "detached" => a.at.name \in Names
    PROVE  /\ Polled(hp, VerifyAttached(hp, a))
           /\ VerifyAttached(hp, a).ok => /\ a.state = "attached"
                                          /\ a.at.name = hp.dev.path
                                          /\ hp.dev.card \in {a.at.card, NoCard}
<1> DEFINE now == [hp EXCEPT !.seen = Captured(hp, a)]
<1>1. Captured(hp, a) \in Entry
  BY Zenon DEF Captured, Handler, Attachment
<1>2. /\ now \in Handler /\ now.pc = "wait" /\ ~now.ok /\ ~now.tainted
      /\ now.op = hp.op /\ now.vol = hp.vol /\ now.node = hp.node /\ now.dev = hp.dev
      /\ now.seen = Captured(hp, a)
  BY Zenon, <1>1 DEF Handler
<1> HIDE DEF now
<1>3. \A next : Polled(now, next) => Polled(hp, next)
  BY Zenon, <1>2 DEF Polled
<1>4. VerifyAttached(hp, a) = IF Mismatch(hp, now.seen) THEN Again(now)
                              ELSE IF hp.dev.assigned /\ a.state = "detached"
                              THEN [now EXCEPT !.pc = "reattach"]
                              ELSE IF a.state = "attached" THEN Succeeded(now)
                              ELSE Again(now)
  BY Zenon DEF VerifyAttached, now
<1>5. Polled(hp, Again(now)) /\ ~Again(now).ok
  BY Zenon, <1>2, <1>3, AgainOutcome
<1>6. Polled(hp, Succeeded(now))
  BY Zenon, <1>2, <1>3, SucceededOutcome
<1>7. Polled(hp, [now EXCEPT !.pc = "reattach"]) /\ ~[now EXCEPT !.pc = "reattach"].ok
  BY Zenon, <1>2 DEF Polled, Handler, Pcs
<1>8. ASSUME a.state = "attached", ~Mismatch(hp, now.seen)
      PROVE  a.at.name = hp.dev.path /\ hp.dev.card \in {a.at.card, NoCard}
  <2>1. a # Detached
    BY <1>8 DEF Detached
  <2>2. now.seen = a.at
    BY Zenon, <1>2, <2>1 DEF Captured
  <2>3. a.at # NoEntry
    BY <1>8, NumNamesAssumption DEF NoEntry, NoName, Names
  <2> QED
    BY Zenon, <1>8, <2>2, <2>3 DEF Mismatch
<1> QED
  BY Zenon, <1>4, <1>5, <1>6, <1>7, <1>8

\* The same for verifyVolumeFunc as a whole.
LEMMA VerifyOutcome ==
    ASSUME NEW hp \in Handler, hp.pc = "wait", ~hp.ok, ~hp.tainted,
           NEW a \in Attachment, a.state # "detached" => a.at.name \in Names,
           NEW next \in Verify(hp, a)
    PROVE  /\ Polled(hp, next)
           /\ next.ok => \/ hp.op = "detach" /\ a.state = "detached"
                         \/ /\ hp.op = "attach" /\ a.state = "attached"
                            /\ a.at.name = hp.dev.path
                            /\ hp.dev.card \in {a.at.card, NoCard}
<1>1. CASE MultipleAttachments(hp.vol)
  <2>1. next = Failed(hp)
    BY Zenon, <1>1 DEF Verify
  <2> QED
    BY Zenon, <2>1, FailedOutcome
<1>2. CASE ~MultipleAttachments(hp.vol) /\ hp.op = "detach"
  <2>1. next = VerifyDetached(hp, a)
    BY Zenon, <1>2 DEF Verify
  <2> QED
    BY Zenon, <2>1, <1>2, SucceededOutcome, AgainOutcome DEF VerifyDetached
<1>3. CASE ~MultipleAttachments(hp.vol) /\ hp.op # "detach"
  <2>1. hp.op = "attach"
    BY Zenon, <1>3 DEF Handler
  <2>2. next = VerifyAttached(hp, a) \/ next = [hp EXCEPT !.pc = "stuck", !.seen = a.at]
    BY Zenon, <1>3 DEF Verify, VerifyStuck
  <2>3. a.at \in Entry
    BY Zenon DEF Attachment
  <2>4. LET stuck == [hp EXCEPT !.pc = "stuck", !.seen = a.at]
        IN  Polled(hp, stuck) /\ ~stuck.ok
    BY ZenonT(60), <2>1, <2>3 DEF Polled, Handler, Pcs
  <2> QED
    BY Zenon, <2>1, <2>2, <2>4, VerifyAttachedOutcome
<1> QED
  BY Zenon, <1>1, <1>2, <1>3

-----------------------------------------------------------------------------
(* Steps *)

\* A step of one RPC: it may change its own record, the in-flight entry and the EC2
\* attachment of its own key, and the likely bad names.
KeyStep(p, x, e, a) ==
    LET n == h[p].node
        v == h[p].vol
    IN  /\ h[p].pc # "idle"
        /\ x \in Handler /\ x.vol = v /\ x.node = n /\ x.pc # "idle"
        /\ e \in Entry /\ a \in Attachment
        /\ h' = [h EXCEPT ![p] = x]
        /\ inFlight' = [inFlight EXCEPT ![n] = [@ EXCEPT ![v] = e]]
        /\ ec2' = [ec2 EXCEPT ![n] = [@ EXCEPT ![v] = a]]
        /\ badNames' \in [Nodes -> SUBSET Names]
        /\ UNCHANGED <<locks, volumes, instances, crashes>>

\* No device name is the empty one.
LEMMA NoNameIsNone == NoName \notin Names
  BY NumNamesAssumption DEF Names, NoName

\* Because the keys exclude each other, a step of one RPC keeps the invariant when it
\* keeps what the invariant says of its own key.
LEMMA KeyStepIInv ==
    ASSUME IInv, NEW p \in Procs, NEW x, NEW e, NEW a, KeyStep(p, x, e, a),
           HandlerInv(x, e, a),
           AttachmentShape(h[p].node, h[p].vol, a),
           e.name = NoName => e = NoEntry,
           e.name = NoName \/ a = Detached \/ a.at.name = e.name \/ Trying(x),
           e.name = NoName \/ e = inFlight[h[p].node][h[p].vol]
              \/ \A w \in Volumes : inFlight[h[p].node][w].name # e.name
    PROVE  IInv'
<1> DEFINE n == h[p].node
           v == h[p].vol
<1>1. n \in Nodes /\ v \in Volumes
  BY Zenon DEF IInv, TypeOK, Handler
<1>2. /\ inFlight' \in [Nodes -> [Volumes -> Entry]]
      /\ inFlight'[n][v] = e
      /\ \A m \in Nodes, w \in Volumes : <<m, w>> # <<n, v>> => inFlight'[m][w] = inFlight[m][w]
  BY Zenon, <1>1 DEF IInv, TypeOK, KeyStep
<1>3. /\ ec2' \in [Nodes -> [Volumes -> Attachment]]
      /\ ec2'[n][v] = a
      /\ \A m \in Nodes, w \in Volumes : <<m, w>> # <<n, v>> => ec2'[m][w] = ec2[m][w]
  BY Zenon, <1>1 DEF IInv, TypeOK, KeyStep
<1>4. /\ h' \in [Procs -> Handler]
      /\ h'[p] = x
      /\ \A q \in Procs : q # p => h'[q] = h[q]
  BY Zenon DEF IInv, TypeOK, KeyStep
<1>5. x.node = n /\ x.vol = v /\ x.pc # "idle" /\ h[p].pc # "idle"
  BY Zenon DEF KeyStep
<1>6. TypeOK'
  BY Zenon, <1>2, <1>3, <1>4 DEF IInv, TypeOK, KeyStep
<1>7. KeysExclusive'
  <2>1. locks' = locks
    BY Zenon DEF KeyStep
  <2>2. ASSUME NEW q \in Procs
        PROVE  /\ h'[q].vol = h[q].vol
               /\ h'[q].node = h[q].node
               /\ h'[q].pc # "idle" <=> h[q].pc # "idle"
    <3>1. CASE q = p
      BY Zenon, <3>1, <1>4, <1>5
    <3>2. CASE q # p
      BY Zenon, <3>2, <1>4
    <3> QED
      BY Zenon, <3>1, <3>2
  <2> QED
    <3>1. ASSUME NEW q \in Procs, h'[q].pc # "idle"
          PROVE  <<h'[q].vol, h'[q].node>> \in locks'
      <4>1. h[q].pc # "idle" => <<h[q].vol, h[q].node>> \in locks
        BY Zenon DEF IInv, KeysExclusive
      <4> QED
        BY Zenon, <4>1, <3>1, <2>1, <2>2
    <3>2. ASSUME NEW q \in Procs, NEW r \in Procs, q # r, h'[q].pc # "idle", h'[r].pc # "idle"
          PROVE  ~(h'[q].vol = h'[r].vol /\ h'[q].node = h'[r].node)
      <4>1. h[q].pc # "idle" /\ h[r].pc # "idle" => ~(h[q].vol = h[r].vol /\ h[q].node = h[r].node)
        BY Zenon, <3>2 DEF IInv, KeysExclusive, SameKey
      <4> QED
        BY Zenon, <4>1, <3>2, <2>2
    <3> QED
      BY Zenon, <3>1, <3>2 DEF KeysExclusive, SameKey
<1>8. InFlightNamesDistinct'
  <2>1. ASSUME NEW m \in Nodes, NEW u \in Volumes, NEW w \in Volumes,
               u # w, inFlight'[m][u].name # NoName
        PROVE  inFlight'[m][u].name # inFlight'[m][w].name
    <3>1. inFlight[m][u].name # NoName => inFlight[m][u].name # inFlight[m][w].name
      BY Zenon, <2>1 DEF IInv, InFlightNamesDistinct
    <3>2. inFlight[m][w].name # NoName => inFlight[m][w].name # inFlight[m][u].name
      BY Zenon, <2>1 DEF IInv, InFlightNamesDistinct
    <3>3. CASE <<m, u>> = <<n, v>>
      <4>1. inFlight'[m][u] = e /\ inFlight'[m][w] = inFlight[m][w] /\ m = n /\ u = v
        BY Zenon, <2>1, <3>3, <1>2
      <4> QED
        BY Zenon, <2>1, <3>1, <4>1
    <3>4. CASE <<m, w>> = <<n, v>>
      <4>1. inFlight'[m][w] = e /\ inFlight'[m][u] = inFlight[m][u] /\ m = n /\ w = v
        BY Zenon, <2>1, <3>4, <1>2
      <4> QED
        BY Zenon, <2>1, <3>1, <3>2, <4>1
    <3>5. CASE <<m, u>> # <<n, v>> /\ <<m, w>> # <<n, v>>
      BY Zenon, <2>1, <3>1, <3>5, <1>2
    <3> QED
      BY Zenon, <3>3, <3>4, <3>5
  <2> QED
    BY Zenon, <2>1 DEF InFlightNamesDistinct
<1>9. ASSUME NEW q \in Procs
      PROVE  HandlerInv(h[q], inFlight[h[q].node][h[q].vol], ec2[h[q].node][h[q].vol])'
  <2>1. instances' = instances
    BY Zenon DEF KeyStep
  <2>2. \A y, f, b : HandlerInv(y, f, b)' <=> HandlerInv(y, f, b)
    BY <2>1 DEF HandlerInv, HandlerShape, HandlerReserves, HandlerTruthful, HandlerAgrees
  <2>3. CASE q = p
    BY Zenon, <2>2, <2>3, <1>2, <1>3, <1>4, <1>5
  <2>4. CASE q # p /\ h[q].pc = "idle"
    <3>1. \A f, b : HandlerInv(h[q], f, b)
      BY Zenon, <2>4 DEF HandlerInv, HandlerShape, HandlerReserves, HandlerTruthful, HandlerAgrees,
                  Holding
    <3> QED
      BY Zenon, <2>2, <2>4, <3>1, <1>4
  <2>5. CASE q # p /\ h[q].pc # "idle"
    <3>1. h[q].node \in Nodes /\ h[q].vol \in Volumes
      BY Zenon DEF IInv, TypeOK, Handler
    <3>2. <<h[q].node, h[q].vol>> # <<n, v>>
      BY Zenon, <2>5, <1>5 DEF IInv, KeysExclusive, SameKey
    <3>3. HandlerInv(h[q], inFlight[h[q].node][h[q].vol], ec2[h[q].node][h[q].vol])
      BY Zenon DEF IInv
    <3>4. inFlight'[h[q].node][h[q].vol] = inFlight[h[q].node][h[q].vol]
      BY Zenon, <3>1, <3>2, <1>2
    <3>5. ec2'[h[q].node][h[q].vol] = ec2[h[q].node][h[q].vol]
      BY Zenon, <3>1, <3>2, <1>3
    <3>6. h'[q] = h[q]
      BY Zenon, <2>5, <1>4
    <3> QED
      BY Zenon, <2>2, <3>3, <3>4, <3>5, <3>6
  <2> QED
    BY Zenon, <2>3, <2>4, <2>5
<1>10. ASSUME NEW m \in Nodes, NEW w \in Volumes
       PROVE  /\ AttachmentShape(m, w, ec2[m][w])'
              /\ EntryAgrees(m, w, inFlight[m][w], ec2[m][w])'
  <2>1. instances' = instances /\ volumes' = volumes
    BY Zenon DEF KeyStep
  <2>2. CASE <<m, w>> = <<n, v>>
    <3>1. AttachmentShape(m, w, a)
      BY Zenon, <2>2
    <3>2. AttachmentShape(m, w, ec2[m][w])'
      BY Zenon, <2>1, <2>2, <3>1, <1>3 DEF AttachmentShape
    <3>3. \/ e.name = NoName \/ a = Detached \/ a.at.name = e.name
          \/ \E q \in Procs : h'[q].node = n /\ h'[q].vol = v /\ Trying(h'[q])
      BY Zenon, <1>4, <1>5
    <3>4. EntryAgrees(m, w, inFlight[m][w], ec2[m][w])'
      BY Zenon, <2>2, <3>3, <1>2, <1>3 DEF EntryAgrees, Trying
    <3> QED
      BY Zenon, <3>2, <3>4
  <2>3. CASE <<m, w>> # <<n, v>>
    <3>1. inFlight'[m][w] = inFlight[m][w] /\ ec2'[m][w] = ec2[m][w]
      BY Zenon, <2>3, <1>2, <1>3
    <3>2. AttachmentShape(m, w, ec2[m][w])'
      BY Zenon, <2>1, <3>1 DEF IInv, AttachmentShape
    <3>3. ASSUME NEW q \in Procs, h[q].node = m, h[q].vol = w, Trying(h[q])
          PROVE  h'[q].node = m /\ h'[q].vol = w /\ Trying(h'[q])
      BY Zenon, <3>3, <2>3, <1>4, <1>5
    <3>4. EntryAgrees(m, w, inFlight[m][w], ec2[m][w])
      BY Zenon DEF IInv
    <3>5. EntryAgrees(m, w, inFlight[m][w], ec2[m][w])'
      BY Zenon, <3>1, <3>3, <3>4 DEF EntryAgrees, Trying
    <3> QED
      BY Zenon, <3>2, <3>5
  <2> QED
    BY Zenon, <2>2, <2>3
<1> QED
  BY Zenon, <1>6, <1>7, <1>8, <1>9, <1>10 DEF IInv

\* What the invariant says of the key of a running RPC.
KeyInv(p, n, v, e, a) ==
    /\ n \in Nodes /\ v \in Volumes /\ h[p] \in Handler
    /\ e \in Entry /\ a \in Attachment
    /\ HandlerInv(h[p], e, a)
    /\ AttachmentShape(n, v, a)
    /\ e.name = NoName => e = NoEntry
    /\ e.name = NoName \/ a = Detached \/ a.at.name = e.name \/ Trying(h[p])
    /\ inFlight = [inFlight EXCEPT ![n] = [@ EXCEPT ![v] = e]]
    /\ ec2 = [ec2 EXCEPT ![n] = [@ EXCEPT ![v] = a]]

\* Whoever is trying a new name for the volume of a running RPC is that RPC itself.
LEMMA KeyFacts ==
    ASSUME IInv, NEW p \in Procs, h[p].pc # "idle"
    PROVE  KeyInv(p, h[p].node, h[p].vol, inFlight[h[p].node][h[p].vol], ec2[h[p].node][h[p].vol])
<1> DEFINE n == h[p].node
           v == h[p].vol
<1>1. n \in Nodes /\ v \in Volumes /\ h[p] \in Handler
  BY Zenon DEF IInv, TypeOK, Handler
<1>2. inFlight[n][v] \in Entry /\ ec2[n][v] \in Attachment
  BY Zenon, <1>1 DEF IInv, TypeOK
<1>3. HandlerInv(h[p], inFlight[n][v], ec2[n][v])
  BY Zenon DEF IInv
<1>4. AttachmentShape(n, v, ec2[n][v]) /\ EntryAgrees(n, v, inFlight[n][v], ec2[n][v])
  BY Zenon, <1>1 DEF IInv
<1>5. ASSUME NEW q \in Procs, h[q].node = n, h[q].vol = v, Trying(h[q])
      PROVE  Trying(h[p])
  <2>1. h[q].pc # "idle"
    BY Zenon, <1>5 DEF Trying
  <2>2. p = q
    BY Zenon, <1>5, <2>1 DEF IInv, KeysExclusive, SameKey
  <2> QED
    BY Zenon, <1>5, <2>2
<1>6. /\ inFlight = [inFlight EXCEPT ![n] = [@ EXCEPT ![v] = inFlight[n][v]]]
      /\ ec2 = [ec2 EXCEPT ![n] = [@ EXCEPT ![v] = ec2[n][v]]]
  BY Zenon, <1>1 DEF IInv, TypeOK
<1> QED
  BY ZenonT(60), <1>1, <1>2, <1>3, <1>4, <1>5, <1>6 DEF EntryAgrees, KeyInv

\* A step that changes nothing but the handler's own record.
LEMMA LocalStepIInv ==
    ASSUME IInv, NEW p \in Procs, h[p].pc # "idle", NEW x \in Handler,
           x.node = h[p].node, x.vol = h[p].vol, x.pc # "idle",
           h' = [h EXCEPT ![p] = x],
           UNCHANGED <<locks, inFlight, badNames, ec2, volumes, instances, crashes>>,
           HandlerInv(x, inFlight[h[p].node][h[p].vol], ec2[h[p].node][h[p].vol]),
           ~Trying(h[p])
    PROVE  IInv'
<1> DEFINE n == h[p].node
           v == h[p].vol
<1>1. KeyInv(p, n, v, inFlight[n][v], ec2[n][v])
  BY Zenon, KeyFacts
<1>2. KeyStep(p, x, inFlight[n][v], ec2[n][v])
  <2>1. badNames' \in [Nodes -> SUBSET Names]
    BY Zenon DEF IInv, TypeOK
  <2> QED
    BY ZenonT(60), <1>1, <2>1 DEF KeyStep, KeyInv
<1> QED
  BY ZenonT(60), <1>1, <1>2, KeyStepIInv DEF KeyInv

\* getInstance: the name the handler reads is the name in flight, when there is one.
LEMMA GetInstanceIInv ==
    ASSUME IInv, NEW p \in Procs, GetInstance(p)
    PROVE  IInv'
<1> DEFINE n == h[p].node
           v == h[p].vol
           e == inFlight[n][v]
           a == ec2[n][v]
<1>1. h[p].pc = "getInstance" /\ ~Trying(h[p])
  BY Zenon DEF GetInstance, Trying
<1>2. UNCHANGED <<locks, inFlight, badNames, ec2, volumes, instances, crashes>>
  BY Zenon DEF GetInstance
<1>k. KeyInv(p, n, v, e, a)
  BY Zenon, <1>1, KeyFacts
<1>3. ~h[p].ok /\ ~h[p].tainted /\ n \in Nodes /\ v \in Volumes /\ h[p] \in Handler
  BY Zenon, <1>1, <1>k DEF KeyInv, HandlerInv, HandlerShape
<1>4. CASE /\ n \in instances
           /\ h' = [h EXCEPT ![p].pc = "device", ![p].snap = [w \in Volumes |-> ec2[n][w].at]]
  <2> DEFINE x == [h[p] EXCEPT !.pc = "device", !.snap = [w \in Volumes |-> ec2[n][w].at]]
  <2>1. [w \in Volumes |-> ec2[n][w].at] \in [Volumes -> Entry]
    BY ZenonT(60), <1>3 DEF IInv, TypeOK, Attachment
  <2>2. h' = [h EXCEPT ![p] = x]
    BY Zenon, <1>4, <1>3 DEF IInv, TypeOK
  <2>3. /\ x \in Handler /\ x.pc = "device" /\ x.vol = v /\ x.node = n
        /\ ~x.ok /\ ~x.tainted /\ x.snap[v] = a.at
    BY Zenon, <1>3, <2>1 DEF Handler, Pcs
  <2>4. e.name = NoName \/ a.at.name \in {NoName, e.name}
    <3>1. e.name = NoName \/ a = Detached \/ a.at.name = e.name
      BY Zenon, <1>1, <1>k DEF KeyInv
    <3> QED
      BY Zenon, <3>1, DetachedName
  <2> HIDE DEF x
  <2>5. HandlerInv(x, e, a)
    BY Zenon, <2>3, <2>4 DEF HandlerInv, HandlerShape, HandlerReserves, HandlerTruthful, HandlerAgrees,
                       Holding
  <2> QED
    BY ZenonT(60), <1>1, <1>2, <2>2, <2>3, <2>5, LocalStepIInv
<1>5. CASE (Batching \/ n \notin instances) /\ h' = [h EXCEPT ![p].pc = "reply", ![p].ok = (h[p].op = "detach")]
  <2> DEFINE x == [h[p] EXCEPT !.pc = "reply", !.ok = (h[p].op = "detach")]
  <2>2. h' = [h EXCEPT ![p] = x]
    BY Zenon, <1>5, <1>3 DEF IInv, TypeOK
  <2>3. /\ x \in Handler /\ x.pc = "reply" /\ x.vol = v /\ x.node = n /\ x.op = h[p].op
        /\ x.ok => x.op = "detach"
    BY ZenonT(60), <1>3 DEF Handler, Pcs
  <2>4. Batching \/ a = Detached
    BY Zenon, <1>5, <1>k DEF KeyInv, AttachmentShape
  <2> HIDE DEF x
  <2>5. HandlerInv(x, e, a)
    BY Zenon, <2>3, <2>4 DEF HandlerInv, HandlerShape, HandlerReserves, HandlerTruthful, HandlerAgrees,
                       Holding
  <2> QED
    BY ZenonT(60), <1>1, <1>2, <2>2, <2>3, <2>5, LocalStepIInv
<1>6. CASE h' = [h EXCEPT ![p].pc = "reply"]
  <2> DEFINE x == [h[p] EXCEPT !.pc = "reply"]
  <2>2. h' = [h EXCEPT ![p] = x]
    BY Zenon, <1>6, <1>3 DEF IInv, TypeOK
  <2>3. x \in Handler /\ x.pc = "reply" /\ x.vol = v /\ x.node = n /\ ~x.ok
    BY Zenon, <1>3 DEF Handler, Pcs
  <2> HIDE DEF x
  <2>5. HandlerInv(x, e, a)
    BY Zenon, <2>3 DEF HandlerInv, HandlerShape, HandlerReserves, HandlerTruthful, HandlerAgrees,
                Holding
  <2> QED
    BY ZenonT(60), <1>1, <1>2, <2>2, <2>3, <2>5, LocalStepIInv
<1> QED
  BY Zenon, <1>4, <1>5, <1>6 DEF GetInstance

\* NewDevice: a new device gets a name that is not in flight, an assigned one the name
\* in flight, when there is one.
LEMMA AttachNewDeviceIInv ==
    ASSUME IInv, NEW p \in Procs, AttachNewDevice(p)
    PROVE  IInv'
<1> DEFINE n == h[p].node
           v == h[p].vol
           e == inFlight[n][v]
           a == ec2[n][v]
           devs == NewDevice(h[p].snap, inFlight[n], v, badNames[n])
<1>1. /\ h[p].pc = "device" /\ h[p].op = "attach"
      /\ UNCHANGED <<locks, badNames, ec2, volumes, instances, crashes>>
  BY Zenon DEF AttachNewDevice
<1>2. ~Trying(h[p])
  BY Zenon, <1>1 DEF Trying
<1>k. KeyInv(p, n, v, e, a)
  BY Zenon, <1>1, KeyFacts
<1>3. /\ ~h[p].ok /\ ~h[p].tainted /\ n \in Nodes /\ v \in Volumes /\ h[p] \in Handler
      /\ e.name = NoName \/ h[p].snap[v].name \in {NoName, e.name}
  BY Zenon, <1>1, <1>k DEF KeyInv, HandlerInv, HandlerShape, HandlerAgrees
<1>4. NoMappings \in [Volumes -> Entry]
  BY Zenon DEF NoMappings, NoEntry, Entry
<1>5. ASSUME NEW dev \in devs,
             inFlight' = [inFlight EXCEPT ![n] = AddInFlight(inFlight[n], v, dev)],
             h' = [h EXCEPT ![p].pc = IF dev.assigned THEN "wait" ELSE "call",
                            ![p].dev = dev, ![p].snap = NoMappings]
      PROVE  IInv'
  <2> DEFINE x == [h[p] EXCEPT !.pc = IF dev.assigned THEN "wait" ELSE "call",
                               !.dev = dev, !.snap = NoMappings]
             f == IF dev.assigned THEN e ELSE [name |-> dev.path, card |-> dev.card]
  <2>1. /\ dev \in Device /\ dev.path \in Names
        /\ dev.assigned => dev.path \in {e.name, h[p].snap[v].name}
        /\ ~dev.assigned => /\ e.name = NoName
                            /\ \A w \in Volumes : inFlight[n][w].name # dev.path
    <3>1. inFlight[n] \in Mappings /\ h[p].snap \in Mappings /\ badNames[n] \subseteq Names
      BY Zenon, <1>3 DEF IInv, TypeOK, Handler, Mappings
    <3>2. SoundDevice(h[p].snap, inFlight[n], v, dev)
      BY ZenonT(60), <1>3, <3>1, NewDeviceIsSound
    <3> QED
      BY Zenon, <3>2 DEF SoundDevice
  <2>2. h' = [h EXCEPT ![p] = x]
    BY Zenon, <1>5, <1>3 DEF IInv, TypeOK
  <2>3. /\ x \in Handler /\ x.vol = v /\ x.node = n /\ x.dev = dev /\ x.op = "attach"
        /\ x.pc = (IF dev.assigned THEN "wait" ELSE "call") /\ ~x.ok /\ ~x.tainted
    BY ZenonT(60), <1>1, <1>3, <1>4, <2>1 DEF Handler, Pcs
  <2> HIDE DEF x
  <2>4. f \in Entry /\ a \in Attachment
    BY Zenon, <1>k, <2>1 DEF KeyInv, Device, Entry
  <2>5. inFlight' = [inFlight EXCEPT ![n] = [@ EXCEPT ![v] = f]]
    BY Zenon, <1>5, <1>k DEF AddInFlight, KeyInv
  <2>6. KeyStep(p, x, f, a)
    <3>1. badNames' \in [Nodes -> SUBSET Names]
      BY Zenon, <1>1 DEF IInv, TypeOK
    <3>2. ec2' = [ec2 EXCEPT ![n] = [@ EXCEPT ![v] = a]]
      BY ZenonT(60), <1>1, <1>k DEF KeyInv
    <3> QED
      BY ZenonT(60), <1>1, <2>2, <2>3, <2>4, <2>5, <3>1, <3>2 DEF KeyStep
  <2>7. dev.path # NoName
    BY Zenon, <2>1, NoNameIsNone
  <2>8. HandlerInv(x, f, a)
    BY ZenonT(60), <1>3, <2>1, <2>3, <2>7 DEF HandlerInv, HandlerShape, HandlerReserves, HandlerTruthful, HandlerAgrees,
                                     Holding
  <2>9. /\ f.name = NoName => f = NoEntry
        /\ f.name = NoName \/ a = Detached \/ a.at.name = f.name \/ Trying(x)
        /\ AttachmentShape(n, v, a)
    <3>1. CASE dev.assigned
      BY ZenonT(60), <3>1, <1>2, <1>k DEF KeyInv
    <3>2. CASE ~dev.assigned
      <4>1. f.name = dev.path /\ f.name # NoName
        BY Zenon, <3>2, <2>7
      <4>2. Trying(x)
        BY Zenon, <3>2, <2>3 DEF Trying
      <4>3. AttachmentShape(n, v, a)
        BY ZenonT(60), <1>k DEF KeyInv
      <4> QED
        BY Zenon, <4>1, <4>2, <4>3
    <3> QED
      BY Zenon, <3>1, <3>2
  <2>10. f.name = NoName \/ f = e \/ \A w \in Volumes : inFlight[n][w].name # f.name
    BY Zenon, <2>1
  <2> HIDE DEF f
  <2> QED
    BY ZenonT(60), <2>6, <2>8, <2>9, <2>10, KeyStepIInv
<1>6. CASE h' = [h EXCEPT ![p].pc = "reply", ![p].snap = NoMappings] /\ UNCHANGED inFlight
  <2> DEFINE x == [h[p] EXCEPT !.pc = "reply", !.snap = NoMappings]
  <2>1. h' = [h EXCEPT ![p] = x]
    BY Zenon, <1>6, <1>3 DEF IInv, TypeOK
  <2>2. x \in Handler /\ x.pc = "reply" /\ x.vol = v /\ x.node = n /\ ~x.ok
    BY ZenonT(60), <1>3, <1>4 DEF Handler, Pcs
  <2> HIDE DEF x
  <2>3. HandlerInv(x, e, a)
    BY Zenon, <2>2 DEF HandlerInv, HandlerShape, HandlerReserves, HandlerTruthful, HandlerAgrees,
                Holding
  <2> QED
    BY ZenonT(60), <1>1, <1>2, <1>6, <2>1, <2>2, <2>3, LocalStepIInv
<1> QED
  BY Zenon, <1>5, <1>6 DEF AttachNewDevice

\* GetDevice: the device to release has the name in flight, when there is one.
LEMMA DetachGetDeviceIInv ==
    ASSUME IInv, NEW p \in Procs, DetachGetDevice(p)
    PROVE  IInv'
<1> DEFINE n == h[p].node
           v == h[p].vol
           e == inFlight[n][v]
           a == ec2[n][v]
<1>1. /\ h[p].pc = "device" /\ h[p].op = "detach"
      /\ UNCHANGED <<locks, inFlight, badNames, ec2, volumes, instances, crashes>>
  BY Zenon DEF DetachGetDevice
<1>2. ~Trying(h[p])
  BY Zenon, <1>1 DEF Trying
<1>k. KeyInv(p, n, v, e, a)
  BY Zenon, <1>1, KeyFacts
<1>3. /\ ~h[p].ok /\ ~h[p].tainted /\ n \in Nodes /\ v \in Volumes /\ h[p] \in Handler
      /\ e.name = NoName \/ h[p].snap[v].name \in {NoName, e.name}
  BY Zenon, <1>1, <1>k DEF KeyInv, HandlerInv, HandlerShape, HandlerAgrees
<1>4. NoMappings \in [Volumes -> Entry]
  BY Zenon DEF NoMappings, NoEntry, Entry
<1>5. PICK dev \in GetDevice(h[p].snap, inFlight[n], v) :
          h' = [h EXCEPT ![p].pc = "call", ![p].dev = dev, ![p].snap = NoMappings]
  BY ZenonT(60) DEF DetachGetDevice
<1> DEFINE x == [h[p] EXCEPT !.pc = "call", !.dev = dev, !.snap = NoMappings]
<1>6. SoundOldDevice(h[p].snap, inFlight[n], v, dev)
  <2>1. inFlight[n] \in Mappings /\ h[p].snap \in Mappings
    BY Zenon, <1>3 DEF IInv, TypeOK, Handler, Mappings
  <2> QED
    BY Zenon, <1>3, <2>1, GetDeviceIsSound
<1>7. h' = [h EXCEPT ![p] = x]
  BY Zenon, <1>5, <1>3 DEF IInv, TypeOK
<1>8. /\ x \in Handler /\ x.vol = v /\ x.node = n /\ x.dev = dev /\ x.op = "detach"
      /\ x.pc = "call" /\ ~x.ok /\ ~x.tainted
  BY ZenonT(60), <1>1, <1>3, <1>4, <1>6 DEF Handler, Pcs, SoundOldDevice
<1> HIDE DEF x
<1>9. e.name \in {NoName, dev.path}
  <2>1. CASE e.name = NoName
    BY Zenon, <2>1
  <2>2. CASE e.name # NoName
    <3>1. dev.path \in Names /\ dev.path \in {e.name, h[p].snap[v].name}
      BY Zenon, <2>2, <1>6 DEF SoundOldDevice
    <3>2. dev.path # NoName
      BY Zenon, <3>1, NoNameIsNone
    <3> QED
      BY ZenonT(60), <2>2, <3>1, <3>2, <1>3
  <2> QED
    BY Zenon, <2>1, <2>2
<1>10. HandlerInv(x, e, a)
  BY Zenon, <1>8, <1>9 DEF HandlerInv, HandlerShape, HandlerReserves, HandlerTruthful, HandlerAgrees,
                          Holding
<1> QED
  BY ZenonT(60), <1>1, <1>2, <1>7, <1>8, <1>10, LocalStepIInv

\* One poll of WaitForAttachmentState answers only what is true.
LEMMA WaitIInv ==
    ASSUME IInv, NEW p \in Procs, Wait(p)
    PROVE  IInv'
<1> DEFINE n == h[p].node
           v == h[p].vol
           e == inFlight[n][v]
           a == ec2[n][v]
<1>1. /\ h[p].pc = "wait"
      /\ UNCHANGED <<locks, inFlight, badNames, ec2, volumes, instances, crashes>>
  BY Zenon DEF Wait
<1>2. ~Trying(h[p])
  BY Zenon, <1>1 DEF Trying
<1>k. KeyInv(p, n, v, e, a)
  BY Zenon, <1>1, KeyFacts
<1>3. /\ ~h[p].ok /\ ~h[p].tainted /\ h[p] \in Handler /\ a \in Attachment
      /\ HandlerInv(h[p], e, a) /\ AttachmentShape(n, v, a)
  BY Zenon, <1>1, <1>k DEF KeyInv, HandlerInv, HandlerShape
<1>4. a.state # "detached" => a.at.name \in Names
  BY Zenon, <1>3 DEF AttachmentShape
<1>5. ASSUME NEW x, h' = [h EXCEPT ![p] = x], Polled(h[p], x),
             x.ok => \/ h[p].op = "detach" /\ (Batching \/ a = Detached)
                     \/ /\ h[p].op = "attach" /\ a.state = "attached"
                        /\ a.at.name = h[p].dev.path
                        /\ h[p].dev.card \in {a.at.card, NoCard}
      PROVE  IInv'
  <2>1. HandlerInv(x, e, a)
    BY ZenonT(60), <1>1, <1>3, <1>5 DEF HandlerInv, HandlerShape, HandlerReserves, HandlerTruthful, HandlerAgrees,
                                   Holding, Polled
  <2>2. x \in Handler /\ x.node = n /\ x.vol = v /\ x.pc # "idle"
    BY Zenon, <1>5 DEF Polled
  <2> QED
    BY ZenonT(60), <1>1, <1>2, <1>5, <2>1, <2>2, LocalStepIInv
<1>6. CASE h' = [h EXCEPT ![p] = Failed(h[p])]
  BY Zenon, <1>3, <1>5, <1>6, FailedOutcome
<1>7. CASE h' = [h EXCEPT ![p] = Again(h[p])]
  BY ZenonT(60), <1>1, <1>3, <1>5, <1>7, AgainOutcome
<1>8. CASE /\ Batching \/ v \notin volumes
           /\ h' = [h EXCEPT ![p] = IF h[p].op = "detach" THEN Succeeded(h[p]) ELSE Failed(h[p])]
  <2>1. Batching \/ a = Detached
    BY Zenon, <1>3, <1>8 DEF AttachmentShape
  <2>2. CASE h[p].op = "detach"
    BY ZenonT(60), <1>1, <1>3, <1>5, <1>8, <2>1, <2>2, SucceededOutcome
  <2>3. CASE h[p].op # "detach"
    BY ZenonT(60), <1>3, <1>5, <1>8, <2>3, FailedOutcome
  <2> QED
    BY Zenon, <2>2, <2>3
<1>9. CASE \E next \in Verify(h[p], a) : h' = [h EXCEPT ![p] = next]
  <2>1. PICK next \in Verify(h[p], a) : h' = [h EXCEPT ![p] = next]
    BY Zenon, <1>9
  <2>2. /\ Polled(h[p], next)
        /\ next.ok => \/ h[p].op = "detach" /\ a.state = "detached"
                      \/ /\ h[p].op = "attach" /\ a.state = "attached"
                         /\ a.at.name = h[p].dev.path
                         /\ h[p].dev.card \in {a.at.card, NoCard}
    BY ZenonT(60), <1>1, <1>3, <1>4, VerifyOutcome
  <2>3. a.state = "detached" => a = Detached
    BY Zenon, <1>3 DEF AttachmentShape
  <2> QED
    BY ZenonT(60), <1>5, <2>1, <2>2, <2>3
<1> QED
  BY Zenon, <1>6, <1>7, <1>8, <1>9 DEF Wait

\* Waiting for the initialization can only make the answer a failure.
LEMMA AwaitInitializedIInv ==
    ASSUME IInv, NEW p \in Procs, AwaitInitialized(p)
    PROVE  IInv'
<1> DEFINE n == h[p].node
           v == h[p].vol
           e == inFlight[n][v]
           a == ec2[n][v]
<1>1. /\ h[p].pc = "init"
      /\ UNCHANGED <<locks, inFlight, badNames, ec2, volumes, instances, crashes>>
  BY Zenon DEF AwaitInitialized
<1>2. ~Trying(h[p])
  BY Zenon, <1>1 DEF Trying
<1>k. KeyInv(p, n, v, e, a)
  BY Zenon, <1>1, KeyFacts
<1>3. h[p] \in Handler /\ HandlerInv(h[p], e, a)
  BY Zenon, <1>k DEF KeyInv
<1>4. ASSUME NEW x, h' = [h EXCEPT ![p] = x], x \in Handler, x.pc = "reply", x.op = h[p].op,
             x.dev = h[p].dev, x.node = n, x.vol = v, x.ok => h[p].ok
      PROVE  IInv'
  <2>1. HandlerInv(x, e, a)
    BY ZenonT(60), <1>1, <1>3, <1>4 DEF HandlerInv, HandlerShape, HandlerReserves, HandlerTruthful, HandlerAgrees,
                                   Holding
  <2> QED
    BY ZenonT(60), <1>1, <1>2, <1>4, <2>1, LocalStepIInv
<1>5. CASE h' = [h EXCEPT ![p].pc = "reply"]
  <2> DEFINE x == [h[p] EXCEPT !.pc = "reply"]
  <2>1. h' = [h EXCEPT ![p] = x]
    BY Zenon, <1>5 DEF IInv, TypeOK
  <2>2. /\ x \in Handler /\ x.pc = "reply" /\ x.op = h[p].op
        /\ x.dev = h[p].dev /\ x.node = n /\ x.vol = v /\ x.ok = h[p].ok
    BY Zenon, <1>3 DEF Handler, Pcs
  <2> QED
    BY ZenonT(60), <2>1, <2>2, <1>4
<1>6. CASE h' = [h EXCEPT ![p].pc = "reply", ![p].ok = FALSE]
  <2> DEFINE x == [h[p] EXCEPT !.pc = "reply", !.ok = FALSE]
  <2>1. h' = [h EXCEPT ![p] = x]
    BY Zenon, <1>6 DEF IInv, TypeOK
  <2>2. /\ x \in Handler /\ x.pc = "reply" /\ x.op = h[p].op
        /\ x.dev = h[p].dev /\ x.node = n /\ x.vol = v /\ ~x.ok
    BY Zenon, <1>3 DEF Handler, Pcs
  <2> QED
    BY ZenonT(60), <2>1, <2>2, <1>4
<1> QED
  BY Zenon, <1>5, <1>6 DEF AwaitInitialized

-----------------------------------------------------------------------------
(* The EC2 calls of a handler, its beginning and its end, and a crash *)

\* An attachment that AttachVolume makes.
LEMMA AttachedShape ==
    ASSUME NEW n \in Nodes, NEW v \in Volumes, NEW d \in Names,
           NEW card \in Cards \cup {NoCard}, CanAttach(n, v, d)
    PROVE  /\ Attached(d, card) \in Attachment
           /\ Attached(d, card).at.name = d
           /\ AttachmentShape(n, v, Attached(d, card))
<1>1. [name |-> d, card |-> IF NumCards > 1 /\ card = NoCard THEN 0 ELSE card] \in Entry
  BY NumCardsAssumption DEF Entry, Cards
<1>2. /\ Attached(d, card).state = "attaching"
      /\ Attached(d, card).at.name = d
      /\ Attached(d, card) \in Attachment
  BY Zenon, <1>1 DEF Attached, Attachment, AttachmentStates
<1> QED
  BY Zenon, <1>2 DEF AttachmentShape, CanAttach

\* An attachment that DetachVolume is taking away.
LEMMA DetachingShape ==
    ASSUME NEW n \in Nodes, NEW v \in Volumes, NEW a \in Attachment, a # Detached,
           AttachmentShape(n, v, a)
    PROVE  /\ [a EXCEPT !.state = "detaching"] \in Attachment
           /\ [a EXCEPT !.state = "detaching"].at = a.at
           /\ AttachmentShape(n, v, [a EXCEPT !.state = "detaching"])
<1> DEFINE b == [a EXCEPT !.state = "detaching"]
<1>1. b \in Attachment /\ b.at = a.at /\ b.state = "detaching"
  BY Zenon DEF Attachment, AttachmentStates
<1> HIDE DEF b
<1>2. a.state # "detached" /\ a.at.name \in Names /\ v \in volumes /\ n \in instances
  BY Zenon DEF AttachmentShape
<1>3. b.state # "detached"
  BY Zenon, <1>1
<1>4. AttachmentShape(n, v, b)
  BY Zenon, <1>1, <1>2, <1>3 DEF AttachmentShape
<1> QED
  BY Zenon, <1>1, <1>4 DEF b

\* A step that changes the handler's own record and EC2's attachment of its key.
LEMMA CallStepIInv ==
    ASSUME IInv, NEW p \in Procs, h[p].pc # "idle", NEW x \in Handler,
           x.node = h[p].node, x.vol = h[p].vol, x.pc # "idle",
           h' = [h EXCEPT ![p] = x],
           NEW b \in Attachment,
           ec2' = [ec2 EXCEPT ![h[p].node] = [@ EXCEPT ![h[p].vol] = b]],
           badNames' \in [Nodes -> SUBSET Names],
           UNCHANGED <<locks, inFlight, volumes, instances, crashes>>,
           HandlerInv(x, inFlight[h[p].node][h[p].vol], b),
           AttachmentShape(h[p].node, h[p].vol, b),
           \/ inFlight[h[p].node][h[p].vol].name = NoName
           \/ b = Detached
           \/ b.at.name = inFlight[h[p].node][h[p].vol].name
           \/ Trying(x)
    PROVE  IInv'
<1> DEFINE n == h[p].node
           v == h[p].vol
           e == inFlight[n][v]
<1>1. KeyInv(p, n, v, e, ec2[n][v])
  BY Zenon, KeyFacts
<1>2. inFlight = [inFlight EXCEPT ![n] = [@ EXCEPT ![v] = e]] /\ e \in Entry
      /\ (e.name = NoName => e = NoEntry)
  BY Zenon, <1>1 DEF KeyInv
<1>3. KeyStep(p, x, e, b)
  BY Zenon, <1>2 DEF KeyStep
<1> QED
  BY Zenon, <1>2, <1>3, KeyStepIInv

\* AttachVolume uses the name that is in flight for the volume.
LEMMA AttachVolumeIInv ==
    ASSUME IInv, NEW p \in Procs, AttachVolume(p)
    PROVE  IInv'
<1> DEFINE n == h[p].node
           v == h[p].vol
           e == inFlight[n][v]
           a == ec2[n][v]
           d == h[p].dev.path
           card == h[p].dev.card
<1>1. /\ h[p].pc = "call" /\ h[p].op = "attach"
      /\ UNCHANGED <<locks, inFlight, volumes, instances, crashes>>
  BY ZenonT(60) DEF AttachVolume
<1>k. KeyInv(p, n, v, e, a)
  BY Zenon, <1>1, KeyFacts
<1>2. /\ n \in Nodes /\ v \in Volumes /\ h[p] \in Handler /\ HandlerInv(h[p], e, a)
      /\ a \in Attachment /\ AttachmentShape(n, v, a)
  BY Zenon, <1>k DEF KeyInv
<1>3. /\ ~h[p].ok /\ ~h[p].tainted /\ ~h[p].dev.assigned /\ d \in Names
      /\ e = [name |-> d, card |-> card]
  BY Zenon, <1>1, <1>2 DEF HandlerInv, HandlerShape, HandlerReserves, Holding
<1>4. card \in Cards \cup {NoCard}
  BY Zenon, <1>2 DEF Handler, Device
<1>5. e.name = d
  BY <1>3
<1>6. badNames' \in [Nodes -> SUBSET Names]
  <2>1. \/ badNames' = [badNames EXCEPT ![n] = @ \ {d}]
        \/ badNames' = [badNames EXCEPT ![n] = @ \cup {d}]
        \/ badNames' = badNames
    BY Zenon DEF AttachVolume
  <2> QED
    BY <2>1, <1>3 DEF IInv, TypeOK
<1>7. ASSUME NEW pc \in {"wait", "release"}, h' = [h EXCEPT ![p].pc = pc],
             \/ CanAttach(n, v, d) /\ DoAttach(n, v, d, card)
             \/ pc = "release" /\ UNCHANGED ec2
      PROVE  IInv'
  <2> DEFINE x == [h[p] EXCEPT !.pc = pc]
  <2>1. h' = [h EXCEPT ![p] = x]
    BY Zenon, <1>7 DEF IInv, TypeOK
  <2>2. /\ x \in Handler /\ x.pc = pc /\ x.op = "attach" /\ x.dev = h[p].dev
        /\ x.node = n /\ x.vol = v /\ ~x.ok /\ ~x.tainted
    BY Zenon, <1>1, <1>2, <1>3 DEF Handler, Pcs
  <2> HIDE DEF x
  <2>3. \A b : HandlerInv(x, e, b)
    BY Zenon, <2>2, <1>3, <1>5 DEF HandlerInv, HandlerShape, HandlerReserves, HandlerTruthful, HandlerAgrees,
                                   Holding
  <2>4. CASE CanAttach(n, v, d) /\ DoAttach(n, v, d, card)
    <3>1. ec2' = [ec2 EXCEPT ![n] = [@ EXCEPT ![v] = Attached(d, card)]]
      BY ZenonT(60), <2>4 DEF DoAttach
    <3>2. /\ Attached(d, card) \in Attachment /\ Attached(d, card).at.name = d
          /\ AttachmentShape(n, v, Attached(d, card))
      BY ZenonT(60), <1>2, <1>3, <1>4, <2>4, AttachedShape
    <3> QED
      BY ZenonT(60), <1>1, <1>5, <1>6, <2>1, <2>2, <2>3, <3>1, <3>2, CallStepIInv
  <2>5. CASE pc = "release" /\ UNCHANGED ec2
    <3>1. ec2' = [ec2 EXCEPT ![n] = [@ EXCEPT ![v] = a]]
      BY Zenon, <2>5, <1>k DEF KeyInv
    <3>2. Trying(x)
      BY Zenon, <2>2, <2>5, <1>3 DEF Trying
    <3> QED
      BY ZenonT(60), <1>1, <1>2, <1>6, <2>1, <2>2, <2>3, <3>1, <3>2, CallStepIInv
  <2> QED
    BY Zenon, <1>7, <2>4, <2>5
<1>8. \E pc \in {"wait", "release"} :
          /\ h' = [h EXCEPT ![p].pc = pc]
          /\ \/ CanAttach(n, v, d) /\ DoAttach(n, v, d, card)
             \/ pc = "release" /\ UNCHANGED ec2
  BY Zenon DEF AttachVolume
<1> QED
  BY Zenon, <1>7, <1>8

\* DetachVolume touches no other attachment, and says "not found" only of none.
LEMMA DetachVolumeIInv ==
    ASSUME IInv, NEW p \in Procs, DetachVolume(p)
    PROVE  IInv'
<1> DEFINE n == h[p].node
           v == h[p].vol
           e == inFlight[n][v]
           a == ec2[n][v]
<1>1. /\ h[p].pc = "call" /\ h[p].op = "detach"
      /\ UNCHANGED <<locks, inFlight, badNames, volumes, instances, crashes>>
  BY ZenonT(60) DEF DetachVolume
<1>k. KeyInv(p, n, v, e, a)
  BY Zenon, <1>1, KeyFacts
<1>2. ~Trying(h[p])
  BY Zenon, <1>1 DEF Trying
<1>3. /\ n \in Nodes /\ v \in Volumes /\ h[p] \in Handler /\ HandlerInv(h[p], e, a)
      /\ a \in Attachment /\ AttachmentShape(n, v, a)
      /\ e.name = NoName \/ a = Detached \/ a.at.name = e.name
  BY Zenon, <1>2, <1>k DEF KeyInv
<1>4. ~h[p].ok /\ ~h[p].tainted /\ e.name \in {NoName, h[p].dev.path}
  BY Zenon, <1>1, <1>3 DEF HandlerInv, HandlerShape, HandlerAgrees, Holding
<1>5. badNames' \in [Nodes -> SUBSET Names]
  BY ZenonT(60), <1>1 DEF IInv, TypeOK
<1>6. ASSUME NEW x \in Handler, h' = [h EXCEPT ![p] = x], x.pc \in {"wait", "release"},
             x.op = "detach", x.dev = h[p].dev, x.node = n, x.vol = v, ~x.tainted,
             x.ok => x.pc = "release" /\ a = Detached /\ UNCHANGED ec2,
             (a # Detached /\ DoDetach(n, v)) \/ UNCHANGED ec2
      PROVE  IInv'
  <2>1. CASE a # Detached /\ DoDetach(n, v)
    <3> DEFINE b == [a EXCEPT !.state = "detaching"]
    <3>1. ec2' = [ec2 EXCEPT ![n] = [@ EXCEPT ![v] = b]]
      BY ZenonT(60), <2>1, <1>3 DEF DoDetach, IInv, TypeOK, Attachment
    <3>2. b \in Attachment /\ b.at = a.at /\ AttachmentShape(n, v, b)
      BY ZenonT(60), <1>3, <2>1, DetachingShape
    <3> HIDE DEF b
    <3>3. ~x.ok
      BY <1>6, <2>1
    <3>4. HandlerInv(x, e, b)
      BY Zenon, <1>4, <1>6, <3>3 DEF HandlerInv, HandlerShape, HandlerReserves, HandlerTruthful, HandlerAgrees,
                                     Holding
    <3>5. e.name = NoName \/ b.at.name = e.name
      BY ZenonT(60), <1>3, <2>1, <3>2
    <3> QED
      BY ZenonT(60), <1>1, <1>5, <1>6, <3>1, <3>2, <3>4, <3>5, CallStepIInv
  <2>2. CASE UNCHANGED ec2
    <3>1. HandlerInv(x, e, a)
      BY Zenon, <1>4, <1>6 DEF HandlerInv, HandlerShape, HandlerReserves, HandlerTruthful, HandlerAgrees,
                               Holding
    <3> QED
      BY ZenonT(60), <1>1, <1>2, <1>6, <2>2, <3>1, LocalStepIInv
  <2> QED
    BY Zenon, <1>6, <2>1, <2>2
<1>7. CASE h' = [h EXCEPT ![p].pc = "wait"] /\ a # Detached /\ DoDetach(n, v)
  <2> DEFINE x == [h[p] EXCEPT !.pc = "wait"]
  <2>1. h' = [h EXCEPT ![p] = x]
    BY Zenon, <1>7 DEF IInv, TypeOK
  <2>2. /\ x \in Handler /\ x.pc = "wait" /\ x.op = "detach" /\ x.dev = h[p].dev
        /\ x.node = n /\ x.vol = v /\ ~x.ok /\ ~x.tainted
    BY ZenonT(60), <1>1, <1>3, <1>4 DEF Handler, Pcs
  <2> QED
    BY ZenonT(60), <1>6, <1>7, <2>1, <2>2
<1>8. CASE h' = [h EXCEPT ![p].pc = "release", ![p].ok = TRUE] /\ a = Detached /\ UNCHANGED ec2
  <2> DEFINE x == [h[p] EXCEPT !.pc = "release", !.ok = TRUE]
  <2>1. h' = [h EXCEPT ![p] = x]
    BY Zenon, <1>8 DEF IInv, TypeOK
  <2>2. /\ x \in Handler /\ x.pc = "release" /\ x.op = "detach" /\ x.dev = h[p].dev
        /\ x.node = n /\ x.vol = v /\ ~x.tainted
    BY ZenonT(60), <1>1, <1>3, <1>4 DEF Handler, Pcs
  <2> QED
    BY ZenonT(60), <1>6, <1>8, <2>1, <2>2
<1>9. CASE /\ h' = [h EXCEPT ![p].pc = "release"]
           /\ (a # Detached /\ DoDetach(n, v)) \/ UNCHANGED ec2
  <2> DEFINE x == [h[p] EXCEPT !.pc = "release"]
  <2>1. h' = [h EXCEPT ![p] = x]
    BY Zenon, <1>9 DEF IInv, TypeOK
  <2>2. /\ x \in Handler /\ x.pc = "release" /\ x.op = "detach" /\ x.dev = h[p].dev
        /\ x.node = n /\ x.vol = v /\ ~x.ok /\ ~x.tainted
    BY ZenonT(60), <1>1, <1>3, <1>4 DEF Handler, Pcs
  <2> QED
    BY ZenonT(60), <1>6, <1>9, <2>1, <2>2
<1> QED
  BY Zenon, <1>7, <1>8, <1>9 DEF DetachVolume

\* Giving up a stuck attachment keeps its name in flight.
LEMMA DetachStuckIInv ==
    ASSUME IInv, NEW p \in Procs, DetachStuck(p)
    PROVE  IInv'
<1> DEFINE n == h[p].node
           v == h[p].vol
           e == inFlight[n][v]
           a == ec2[n][v]
<1>1. /\ h[p].pc = "stuck" /\ h' = [h EXCEPT ![p] = Failed(h[p])]
      /\ UNCHANGED <<locks, inFlight, badNames, volumes, instances, crashes>>
  BY Zenon DEF DetachStuck
<1>k. KeyInv(p, n, v, e, a)
  BY Zenon, <1>1, KeyFacts
<1>2. ~Trying(h[p])
  BY Zenon, <1>1 DEF Trying
<1>3. /\ n \in Nodes /\ v \in Volumes /\ h[p] \in Handler /\ HandlerInv(h[p], e, a)
      /\ a \in Attachment /\ AttachmentShape(n, v, a)
      /\ e.name = NoName \/ a = Detached \/ a.at.name = e.name
  BY Zenon, <1>2, <1>k DEF KeyInv
<1>4. /\ ~h[p].ok /\ h[p].op = "attach" /\ h[p].dev.path \in Names
      /\ e.name \in {NoName, h[p].dev.path}
  BY Zenon, <1>1, <1>3 DEF HandlerInv, HandlerShape, HandlerAgrees, Holding
<1> DEFINE x == Failed(h[p])
<1>5. Polled(h[p], x) /\ ~x.ok /\ x.pc = "release"
  BY ZenonT(60), <1>3, <1>4, FailedOutcome
<1> HIDE DEF x
<1>6. /\ x \in Handler /\ x.op = "attach" /\ x.vol = v /\ x.node = n /\ x.dev = h[p].dev
      /\ x.pc = "release" /\ ~x.ok
  BY Zenon, <1>4, <1>5 DEF Polled
<1>7. \A b : HandlerInv(x, e, b)
  BY ZenonT(60), <1>1, <1>3, <1>4, <1>6 DEF HandlerInv, HandlerShape, HandlerReserves, HandlerTruthful, HandlerAgrees,
                                       Holding
<1>8. CASE UNCHANGED ec2
  BY ZenonT(60), <1>1, <1>2, <1>6, <1>7, <1>8, LocalStepIInv DEF x
<1>9. CASE a # Detached /\ DoDetach(n, v)
  <2> DEFINE b == [a EXCEPT !.state = "detaching"]
  <2>1. ec2' = [ec2 EXCEPT ![n] = [@ EXCEPT ![v] = b]]
    BY ZenonT(60), <1>9, <1>3 DEF DoDetach, IInv, TypeOK, Attachment
  <2>2. b \in Attachment /\ b.at = a.at /\ AttachmentShape(n, v, b)
    BY Zenon, <1>3, <1>9, DetachingShape
  <2> HIDE DEF b
  <2>3. e.name = NoName \/ b.at.name = e.name
    BY ZenonT(60), <1>3, <1>9, <2>2
  <2>4. badNames' \in [Nodes -> SUBSET Names]
    BY Zenon, <1>1 DEF IInv, TypeOK
  <2> QED
    BY ZenonT(60), <1>1, <1>6, <1>7, <2>1, <2>2, <2>3, <2>4, CallStepIInv DEF x
<1> QED
  BY Zenon, <1>8, <1>9 DEF DetachStuck

\* The AttachVolume of WaitForAttachmentState uses the name in flight, when there is one.
LEMMA ReattachIInv ==
    ASSUME IInv, NEW p \in Procs, Reattach(p)
    PROVE  IInv'
<1> DEFINE n == h[p].node
           v == h[p].vol
           e == inFlight[n][v]
           a == ec2[n][v]
           d == h[p].dev.path
           card == h[p].dev.card
<1>1. /\ h[p].pc = "reattach" /\ h' = [h EXCEPT ![p] = Failed(h[p])]
      /\ UNCHANGED <<locks, inFlight, badNames, volumes, instances, crashes>>
  BY ZenonT(60) DEF Reattach
<1>k. KeyInv(p, n, v, e, a)
  BY Zenon, <1>1, KeyFacts
<1>2. ~Trying(h[p])
  BY Zenon, <1>1 DEF Trying
<1>3. /\ n \in Nodes /\ v \in Volumes /\ h[p] \in Handler /\ HandlerInv(h[p], e, a)
      /\ a \in Attachment /\ AttachmentShape(n, v, a)
      /\ e.name = NoName \/ a = Detached \/ a.at.name = e.name
  BY Zenon, <1>2, <1>k DEF KeyInv
<1>4. /\ ~h[p].ok /\ h[p].op = "attach" /\ h[p].dev.path \in Names
      /\ e.name \in {NoName, h[p].dev.path}
  BY ZenonT(60), <1>1, <1>3 DEF HandlerInv, HandlerShape, HandlerAgrees, Holding
<1> DEFINE x == Failed(h[p])
<1>5. Polled(h[p], x) /\ ~x.ok /\ x.pc = "release"
  BY Zenon, <1>3, <1>4, FailedOutcome
<1> HIDE DEF x
<1>6. /\ x \in Handler /\ x.op = "attach" /\ x.vol = v /\ x.node = n /\ x.dev = h[p].dev
      /\ x.pc = "release" /\ ~x.ok
  BY Zenon, <1>4, <1>5 DEF Polled
<1>7. \A b : HandlerInv(x, e, b)
  BY ZenonT(60), <1>1, <1>3, <1>4, <1>6 DEF HandlerInv, HandlerShape, HandlerReserves, HandlerTruthful, HandlerAgrees,
                                       Holding
<1>8. CASE UNCHANGED ec2
  BY ZenonT(60), <1>1, <1>2, <1>6, <1>7, <1>8, LocalStepIInv DEF x
<1>9. CASE CanAttach(n, v, d) /\ DoAttach(n, v, d, card)
  <2> DEFINE b == Attached(d, card)
  <2>1. ec2' = [ec2 EXCEPT ![n] = [@ EXCEPT ![v] = b]]
    BY Zenon, <1>9 DEF DoAttach
  <2>2. card \in Cards \cup {NoCard}
    BY Zenon, <1>3 DEF Handler, Device
  <2>3. b \in Attachment /\ b.at.name = d /\ AttachmentShape(n, v, b)
    BY ZenonT(60), <1>3, <1>4, <1>9, <2>2, AttachedShape
  <2>4. badNames' \in [Nodes -> SUBSET Names]
    BY Zenon, <1>1 DEF IInv, TypeOK
  <2>5. e.name = NoName \/ b.at.name = e.name
    BY Zenon, <1>4, <2>3
  <2> HIDE DEF b
  <2> QED
    BY ZenonT(60), <1>1, <1>6, <1>7, <2>1, <2>3, <2>4, <2>5, CallStepIInv DEF x
<1> QED
  BY Zenon, <1>8, <1>9 DEF Reattach

\* release finds the name in flight equal to the device's, and takes it away; a tainted
\* device keeps it.
LEMMA ReleaseDeviceIInv ==
    ASSUME IInv, NEW p \in Procs, ReleaseDevice(p)
    PROVE  IInv'
<1> DEFINE n == h[p].node
           v == h[p].vol
           e == inFlight[n][v]
           a == ec2[n][v]
           force == h[p].op = "detach"
           kept == h[p].tainted /\ ~force
           pc == IF h[p].ok /\ ~force THEN "init" ELSE "reply"
           x == [h[p] EXCEPT !.pc = pc]
           f == IF kept THEN e ELSE NoEntry
<1>1. /\ h[p].pc = "release"
      /\ inFlight' = IF kept THEN inFlight
                     ELSE [inFlight EXCEPT ![n] = Release(@, v, h[p].dev.path)]
      /\ h' = [h EXCEPT ![p].pc = pc]
      /\ UNCHANGED <<locks, badNames, ec2, volumes, instances, crashes>>
  BY Zenon DEF ReleaseDevice
<1>k. KeyInv(p, n, v, e, a)
  BY Zenon, <1>1, KeyFacts
<1>2. /\ n \in Nodes /\ v \in Volumes /\ h[p] \in Handler /\ HandlerInv(h[p], e, a)
      /\ a \in Attachment /\ AttachmentShape(n, v, a) /\ e \in Entry
      /\ (e.name = NoName => e = NoEntry)
  BY Zenon, <1>k DEF KeyInv
<1>3. e.name \in {NoName, h[p].dev.path}
  BY Zenon, <1>1, <1>2 DEF HandlerInv, HandlerAgrees, Holding
<1>4. inFlight' = [inFlight EXCEPT ![n] = [@ EXCEPT ![v] = f]]
  <2>1. CASE kept
    BY ZenonT(60), <2>1, <1>1, <1>k DEF KeyInv
  <2>2. CASE ~kept /\ e.name = NoName
    <3>1. f = e
      BY ZenonT(60), <2>2, <1>2
    <3>2. inFlight' = inFlight
      BY Zenon, <2>2, <1>1, <1>2 DEF Release, IInv, TypeOK
    <3> QED
      BY ZenonT(60), <3>1, <3>2, <1>k DEF KeyInv
  <2>3. CASE ~kept /\ e.name # NoName
    <3>1. e.name = h[p].dev.path
      BY Zenon, <2>3, <1>3
    <3>2. Release(inFlight[n], v, h[p].dev.path) = [inFlight[n] EXCEPT ![v] = NoEntry]
      BY ZenonT(60), <2>3, <3>1 DEF Release
    <3> QED
      BY ZenonT(60), <2>3, <3>2, <1>1
  <2> QED
    BY ZenonT(60), <2>1, <2>2, <2>3
<1>5. h' = [h EXCEPT ![p] = x]
  BY ZenonT(60), <1>1 DEF IInv, TypeOK
<1>6. pc \in {"init", "reply"} /\ (pc = "init" => h[p].op # "detach")
  BY Zenon
<1>7. /\ x \in Handler /\ x.pc = pc /\ x.op = h[p].op /\ x.dev = h[p].dev
      /\ x.node = n /\ x.vol = v /\ x.ok = h[p].ok
  BY Zenon, <1>2, <1>6 DEF Handler, Pcs
<1>8. h[p].op \in {"attach", "detach"}
  BY Zenon, <1>2 DEF Handler
<1> HIDE DEF x
<1> HIDE DEF pc
<1>9. HandlerInv(x, f, a)
  BY ZenonT(60), <1>1, <1>2, <1>6, <1>7, <1>8 DEF HandlerInv, HandlerShape, HandlerReserves, HandlerTruthful, HandlerAgrees,
                                             Holding
<1>10. f \in Entry /\ (f.name = NoName => f = NoEntry) /\ (f.name = NoName \/ f = e)
  <2>1. NoEntry \in Entry /\ NoEntry.name = NoName
    BY Zenon DEF NoEntry, Entry
  <2> QED
    BY Zenon, <2>1, <1>2
<1>11. f.name = NoName \/ a = Detached \/ a.at.name = f.name
  <2>1. CASE kept
    <3>1. ~Trying(h[p])
      BY Zenon, <2>1 DEF Trying
    <3> QED
      BY ZenonT(60), <2>1, <3>1, <1>k DEF KeyInv
  <2>2. CASE ~kept
    <3>1. NoEntry.name = NoName
      BY Zenon DEF NoEntry
    <3> QED
      BY Zenon, <2>2, <3>1
  <2> QED
    BY ZenonT(60), <2>1, <2>2
<1>12. KeyStep(p, x, f, a)
  <2>1. badNames' \in [Nodes -> SUBSET Names]
    BY Zenon, <1>1 DEF IInv, TypeOK
  <2>2. ec2' = [ec2 EXCEPT ![n] = [@ EXCEPT ![v] = a]]
    BY ZenonT(60), <1>1, <1>k DEF KeyInv
  <2>3. x.pc # "idle"
    BY Zenon, <1>6, <1>7
  <2> QED
    BY ZenonT(60), <1>1, <1>2, <1>4, <1>5, <1>7, <1>10, <2>1, <2>2, <2>3 DEF KeyStep
<1> HIDE DEF f
<1> QED
  BY Zenon, <1>2, <1>9, <1>10, <1>11, <1>12, KeyStepIInv

\* An idle handler is under no obligation.
LEMMA IdleInv ==
    ASSUME NEW hp, hp.pc = "idle", NEW e, NEW a
    PROVE  HandlerInv(hp, e, a)
  BY Zenon DEF HandlerInv, HandlerShape, HandlerReserves, HandlerTruthful, HandlerAgrees,
         Holding

\* Insert refuses a key that is there: the RPC that enters is alone with its key.
LEMMA StartIInv ==
    ASSUME IInv, NEW p \in Procs, NEW op \in {"attach", "detach"}, NEW v \in Volumes,
           NEW n \in Nodes, Start(p, op, v, n)
    PROVE  IInv'
<1> DEFINE x == Fresh(op, v, n)
<1>1. /\ h[p].pc = "idle" /\ <<v, n>> \notin locks
      /\ locks' = locks \cup {<<v, n>>}
      /\ h' = [h EXCEPT ![p] = x]
      /\ UNCHANGED <<inFlight, badNames, ec2, volumes, instances, crashes>>
  BY Zenon DEF Start, Insert
<1>2. /\ x \in Handler /\ x.pc = "getInstance" /\ x.vol = v /\ x.node = n
      /\ ~x.tainted /\ ~x.ok
  BY FreshType
<1> HIDE DEF x
<1>3. h' \in [Procs -> Handler] /\ h'[p] = x /\ \A q \in Procs : q # p => h'[q] = h[q]
  BY Zenon, <1>1, <1>2 DEF IInv, TypeOK
<1>4. TypeOK'
  BY <1>1, <1>3 DEF IInv, TypeOK
<1>5. KeysExclusive'
  BY Zenon, <1>1, <1>2, <1>3 DEF IInv, KeysExclusive, SameKey
<1>6. InFlightNamesDistinct'
  BY Zenon, <1>1 DEF IInv, InFlightNamesDistinct
<1>7. ASSUME NEW q \in Procs
      PROVE  HandlerInv(h[q], inFlight[h[q].node][h[q].vol], ec2[h[q].node][h[q].vol])'
  <2>1. \A y, e, a : HandlerInv(y, e, a)' <=> HandlerInv(y, e, a)
    BY <1>1 DEF HandlerInv, HandlerShape, HandlerReserves, HandlerTruthful, HandlerAgrees,
                Holding
  <2>2. CASE q = p
    <3>1. \A e, a : HandlerInv(x, e, a)
      BY Zenon, <1>2 DEF HandlerInv, HandlerShape, HandlerReserves, HandlerTruthful, HandlerAgrees,
                  Holding
    <3> QED
      BY Zenon, <2>1, <2>2, <3>1, <1>3
  <2>3. CASE q # p
    <3>1. HandlerInv(h[q], inFlight[h[q].node][h[q].vol], ec2[h[q].node][h[q].vol])
      BY Zenon DEF IInv
    <3> QED
      BY Zenon, <2>1, <2>3, <3>1, <1>1, <1>3
  <2> QED
    BY Zenon, <2>2, <2>3
<1>8. ASSUME NEW m \in Nodes, NEW w \in Volumes
      PROVE  /\ AttachmentShape(m, w, ec2[m][w])'
             /\ EntryAgrees(m, w, inFlight[m][w], ec2[m][w])'
  <2>1. AttachmentShape(m, w, ec2[m][w]) /\ EntryAgrees(m, w, inFlight[m][w], ec2[m][w])
    BY Zenon DEF IInv
  <2>2. AttachmentShape(m, w, ec2[m][w])'
    BY Zenon, <1>1, <2>1 DEF AttachmentShape
  <2>3. \A q \in Procs : Trying(h[q]) => h'[q] = h[q]
    BY Zenon, <1>1, <1>3 DEF Trying
  <2>4. EntryAgrees(m, w, inFlight[m][w], ec2[m][w])'
    BY Zenon, <1>1, <2>1, <2>3 DEF EntryAgrees, Trying
  <2> QED
    BY Zenon, <2>2, <2>4
<1> QED
  BY Zenon, <1>4, <1>5, <1>6, <1>7, <1>8 DEF IInv

\* The key is deleted when its RPC is answered, and no other RPC's key with it.
LEMMA ReplyIInv ==
    ASSUME IInv, NEW p \in Procs, Reply(p)
    PROVE  IInv'
<1>1. /\ h[p].pc = "reply"
      /\ locks' = locks \ {<<h[p].vol, h[p].node>>}
      /\ h' = [h EXCEPT ![p] = Idle]
      /\ UNCHANGED <<inFlight, badNames, ec2, volumes, instances, crashes>>
  BY ZenonT(60) DEF Reply
<1>2. h' \in [Procs -> Handler] /\ h'[p].pc = "idle" /\ \A q \in Procs : q # p => h'[q] = h[q]
  BY Zenon, <1>1, IdleType DEF IInv, TypeOK
<1>4. TypeOK'
  BY Zenon, <1>1, <1>2 DEF IInv, TypeOK
<1>5. KeysExclusive'
  BY <1>1, <1>2 DEF IInv, KeysExclusive, SameKey
<1>6. InFlightNamesDistinct'
  BY Zenon, <1>1 DEF IInv, InFlightNamesDistinct
<1>7. ASSUME NEW q \in Procs
      PROVE  HandlerInv(h[q], inFlight[h[q].node][h[q].vol], ec2[h[q].node][h[q].vol])'
  <2>1. \A y, e, a : HandlerInv(y, e, a)' <=> HandlerInv(y, e, a)
    BY <1>1 DEF HandlerInv, HandlerShape, HandlerReserves, HandlerTruthful, HandlerAgrees,
                Holding
  <2>2. CASE q = p
    <3>1. \A e, a : HandlerInv(h'[q], e, a)
      BY Zenon, <2>2, <1>2, IdleInv
    <3> QED
      BY Zenon, <2>1, <3>1
  <2>3. CASE q # p
    <3>1. HandlerInv(h[q], inFlight[h[q].node][h[q].vol], ec2[h[q].node][h[q].vol])
      BY Zenon DEF IInv
    <3> QED
      BY Zenon, <2>1, <2>3, <3>1, <1>1, <1>2
  <2> QED
    BY Zenon, <2>2, <2>3
<1>8. ASSUME NEW m \in Nodes, NEW w \in Volumes
      PROVE  /\ AttachmentShape(m, w, ec2[m][w])'
             /\ EntryAgrees(m, w, inFlight[m][w], ec2[m][w])'
  <2>1. AttachmentShape(m, w, ec2[m][w]) /\ EntryAgrees(m, w, inFlight[m][w], ec2[m][w])
    BY Zenon DEF IInv
  <2>2. AttachmentShape(m, w, ec2[m][w])'
    BY Zenon, <1>1, <2>1 DEF AttachmentShape
  <2>3. \A q \in Procs : Trying(h[q]) => h'[q] = h[q]
    BY Zenon, <1>1, <1>2 DEF Trying
  <2>4. EntryAgrees(m, w, inFlight[m][w], ec2[m][w])'
    BY Zenon, <1>1, <2>1, <2>3 DEF EntryAgrees, Trying
  <2> QED
    BY Zenon, <2>2, <2>4
<1> QED
  BY ZenonT(60), <1>4, <1>5, <1>6, <1>7, <1>8 DEF IInv

\* A restart forgets every key, reservation and handler at once.
LEMMA CrashIInv ==
    ASSUME IInv, Crash
    PROVE  IInv'
<1>1. /\ crashes < MaxCrashes /\ crashes' = crashes + 1 /\ locks' = {}
      /\ inFlight' = [n \in Nodes |-> NoMappings]
      /\ badNames' = [n \in Nodes |-> {}]
      /\ h' = [p \in Procs |-> Idle]
      /\ UNCHANGED <<ec2, volumes, instances>>
  BY Zenon DEF Crash
<1>2. \A p \in Procs : h'[p].pc = "idle"
  BY Zenon, <1>1, IdleType
<1>3. NoEntry \in Entry /\ NoEntry.name = NoName
  BY Zenon DEF NoEntry, Entry
<1>4. \A n \in Nodes, v \in Volumes : inFlight'[n][v] = NoEntry
  BY Zenon, <1>1 DEF NoMappings
<1>5. TypeOK'
  <2>1. crashes' \in 0..MaxCrashes
    <3>1. crashes \in 0..MaxCrashes /\ crashes < MaxCrashes /\ crashes' = crashes + 1
      BY Zenon, <1>1 DEF IInv, TypeOK
    <3> QED
      BY <3>1, MaxCrashesAssumption
  <2>2. inFlight' \in [Nodes -> [Volumes -> Entry]]
    BY Zenon, <1>1, <1>3 DEF NoMappings
  <2>3. h' \in [Procs -> Handler]
    BY Zenon, <1>1, IdleType
  <2> QED
    BY Zenon, <1>1, <2>1, <2>2, <2>3 DEF IInv, TypeOK
<1>6. KeysExclusive'
  BY Zenon, <1>2 DEF KeysExclusive
<1>7. InFlightNamesDistinct'
  BY Zenon, <1>3, <1>4 DEF InFlightNamesDistinct
<1>8. ASSUME NEW p \in Procs
      PROVE  HandlerInv(h[p], inFlight[h[p].node][h[p].vol], ec2[h[p].node][h[p].vol])'
  BY ZenonT(60), <1>2 DEF HandlerInv, HandlerShape, HandlerReserves, HandlerTruthful, HandlerAgrees,
              Holding
<1>9. ASSUME NEW m \in Nodes, NEW w \in Volumes
      PROVE  /\ AttachmentShape(m, w, ec2[m][w])'
             /\ EntryAgrees(m, w, inFlight[m][w], ec2[m][w])'
  <2>1. AttachmentShape(m, w, ec2[m][w])
    BY Zenon DEF IInv
  <2>2. AttachmentShape(m, w, ec2[m][w])'
    BY Zenon, <1>1, <2>1 DEF AttachmentShape
  <2>3. EntryAgrees(m, w, inFlight[m][w], ec2[m][w])'
    BY Zenon, <1>3, <1>4 DEF EntryAgrees
  <2> QED
    BY Zenon, <2>2, <2>3
<1> QED
  BY ZenonT(60), <1>5, <1>6, <1>7, <1>8, <1>9 DEF IInv

-----------------------------------------------------------------------------
(* What EC2 does by itself *)

\* What EC2 may do by itself to an attachment.
Evolves(n, v) ==
    \/ ec2'[n][v] = ec2[n][v]
    \/ /\ ec2[n][v].state = "attaching"
       /\ ec2'[n][v].state = "attached" /\ ec2'[n][v].at = ec2[n][v].at
    \/ ec2[n][v].state = "detaching" /\ ec2'[n][v] = Detached
    \/ n \notin instances' /\ ec2'[n][v] = Detached

\* What EC2 does by itself makes no answer untrue and no name disagree.
LEMMA EnvStepIInv ==
    ASSUME IInv, UNCHANGED <<locks, inFlight, h, crashes>>,
           badNames' \in [Nodes -> SUBSET Names],
           ec2' \in [Nodes -> [Volumes -> Attachment]],
           volumes' \subseteq volumes, instances' \subseteq instances,
           \A n \in Nodes, v \in Volumes :
               Evolves(n, v) /\ AttachmentShape(n, v, ec2[n][v])'
    PROVE  IInv'
<1>1. TypeOK'
  BY Zenon DEF IInv, TypeOK
<1>2. KeysExclusive'
  BY Zenon DEF IInv, KeysExclusive, SameKey
<1>3. InFlightNamesDistinct'
  BY Zenon DEF IInv, InFlightNamesDistinct
<1>4. ASSUME NEW p \in Procs
      PROVE  HandlerInv(h[p], inFlight[h[p].node][h[p].vol], ec2[h[p].node][h[p].vol])'
  <2> DEFINE n == h[p].node
             v == h[p].vol
  <2>1. HandlerInv(h[p], inFlight[n][v], ec2[n][v]) /\ n \in Nodes /\ v \in Volumes
    BY ZenonT(60) DEF IInv, TypeOK, Handler
  <2>2. Evolves(n, v)
    BY Zenon, <2>1
  <2>3. HandlerTruthful(h[p], ec2[n][v])
    BY Zenon, <2>1 DEF HandlerInv
  <2>4. HandlerTruthful(h[p], ec2[n][v])'
    <3>1. CASE ec2'[n][v] = ec2[n][v]
      BY Zenon, <2>3, <3>1 DEF HandlerTruthful
    <3>2. CASE ec2[n][v].state \in {"attaching", "detaching"}
      <4>1. ec2[n][v] # Detached /\ ec2[n][v].state # "attached"
        BY Zenon, <3>2, DetachedName
      <4>2. h[p].pc \in {"release", "init", "reply"} /\ h[p].ok
              => \/ h[p].op = "detach" /\ Batching
                 \/ h[p].op = "attach" /\ n \notin instances
        BY Zenon, <2>3, <4>1 DEF HandlerTruthful
      <4> QED
        BY ZenonT(60), <4>2 DEF HandlerTruthful
    <3>3. CASE n \notin instances' /\ ec2'[n][v] = Detached
      BY ZenonT(60), <2>3, <3>3 DEF HandlerTruthful
    <3> QED
      BY ZenonT(60), <2>2, <3>1, <3>2, <3>3 DEF Evolves
  <2> QED
    BY ZenonT(60), <2>1, <2>4 DEF HandlerInv, HandlerShape, HandlerReserves, HandlerAgrees
<1>5. ASSUME NEW m \in Nodes, NEW w \in Volumes
      PROVE  EntryAgrees(m, w, inFlight[m][w], ec2[m][w])'
  <2>1. EntryAgrees(m, w, inFlight[m][w], ec2[m][w]) /\ Evolves(m, w)
    BY ZenonT(60) DEF IInv
  <2>2. ec2'[m][w] = Detached \/ ec2'[m][w].at = ec2[m][w].at
    BY Zenon, <2>1 DEF Evolves
  <2>3. ec2[m][w] = Detached => ec2'[m][w] = Detached
    BY Zenon, <2>1, DetachedName DEF Evolves
  <2> QED
    BY Zenon, <2>1, <2>2, <2>3 DEF EntryAgrees, Trying
<1> QED
  BY ZenonT(60), <1>1, <1>2, <1>3, <1>4, <1>5 DEF IInv

\* AttachmentShape only speaks of the attachment, its volume and its instance.
LEMMA ShapeStable ==
    ASSUME IInv, NEW n \in Nodes, NEW v \in Volumes, ec2'[n][v] = ec2[n][v],
           v \in volumes /\ n \in instances =>
               \/ v \in volumes' /\ n \in instances'
               \/ ec2[n][v] = Detached
    PROVE  AttachmentShape(n, v, ec2[n][v])'
<1>1. AttachmentShape(n, v, ec2[n][v])
  BY Zenon DEF IInv
<1> QED
  BY Zenon, <1>1, DetachedName DEF AttachmentShape

\* EC2 completes an attachment.
LEMMA FinishAttachIInv ==
    ASSUME IInv, NEW n \in Nodes, NEW v \in Volumes, FinishAttach(n, v)
    PROVE  IInv'
<1>1. /\ ec2[n][v].state = "attaching"
      /\ ec2' = [ec2 EXCEPT ![n][v].state = "attached"]
      /\ UNCHANGED <<locks, inFlight, badNames, h, volumes, instances, crashes>>
  BY ZenonT(60) DEF FinishAttach
<1>2. /\ ec2' \in [Nodes -> [Volumes -> Attachment]]
      /\ ec2'[n][v].state = "attached" /\ ec2'[n][v].at = ec2[n][v].at
      /\ \A m \in Nodes, w \in Volumes : <<m, w>> # <<n, v>> => ec2'[m][w] = ec2[m][w]
  BY <1>1 DEF IInv, TypeOK, Attachment, AttachmentStates
<1>3. AttachmentShape(n, v, ec2[n][v])'
  <2>1. AttachmentShape(n, v, ec2[n][v]) /\ ec2[n][v] # Detached
    BY Zenon, <1>1, DetachedName DEF IInv
  <2> QED
    BY Zenon, <1>1, <1>2, <2>1 DEF AttachmentShape
<1>4. badNames' \in [Nodes -> SUBSET Names]
  BY Zenon, <1>1 DEF IInv, TypeOK
<1>5. \A m \in Nodes, w \in Volumes : Evolves(m, w) /\ AttachmentShape(m, w, ec2[m][w])'
  BY <1>1, <1>2, <1>3, ShapeStable DEF Evolves
<1> QED
  BY Zenon, <1>1, <1>2, <1>4, <1>5, EnvStepIInv

\* EC2 completes a detachment.
LEMMA FinishDetachIInv ==
    ASSUME IInv, NEW n \in Nodes, NEW v \in Volumes, FinishDetach(n, v)
    PROVE  IInv'
<1>1. /\ ec2[n][v].state = "detaching"
      /\ ec2' = [ec2 EXCEPT ![n][v] = Detached]
      /\ UNCHANGED <<locks, inFlight, badNames, h, volumes, instances, crashes>>
  BY ZenonT(60) DEF FinishDetach
<1>2. /\ ec2' \in [Nodes -> [Volumes -> Attachment]]
      /\ ec2'[n][v] = Detached
      /\ \A m \in Nodes, w \in Volumes : <<m, w>> # <<n, v>> => ec2'[m][w] = ec2[m][w]
  BY Zenon, <1>1, DetachedName DEF IInv, TypeOK
<1>3. AttachmentShape(n, v, ec2[n][v])'
  BY Zenon, <1>2, DetachedName DEF AttachmentShape
<1>4. badNames' \in [Nodes -> SUBSET Names]
  BY Zenon, <1>1 DEF IInv, TypeOK
<1>5. \A m \in Nodes, w \in Volumes : Evolves(m, w) /\ AttachmentShape(m, w, ec2[m][w])'
  BY Zenon, <1>1, <1>2, <1>3, ShapeStable DEF Evolves
<1> QED
  BY Zenon, <1>1, <1>2, <1>4, <1>5, EnvStepIInv

\* An instance goes away with all its attachments.
LEMMA TerminateInstanceIInv ==
    ASSUME IInv, NEW n \in Nodes, TerminateInstance(n)
    PROVE  IInv'
<1>1. /\ instances' = instances \ {n}
      /\ ec2' = [ec2 EXCEPT ![n] = [v \in Volumes |-> Detached]]
      /\ UNCHANGED <<locks, inFlight, badNames, h, volumes, crashes>>
  BY ZenonT(60) DEF TerminateInstance
<1>2. /\ ec2' \in [Nodes -> [Volumes -> Attachment]]
      /\ \A w \in Volumes : ec2'[n][w] = Detached
      /\ \A m \in Nodes, w \in Volumes : m # n => ec2'[m][w] = ec2[m][w]
  BY Zenon, <1>1, DetachedName DEF IInv, TypeOK
<1>3. \A w \in Volumes : AttachmentShape(n, w, ec2[n][w])'
  BY Zenon, <1>2, DetachedName DEF AttachmentShape
<1>4. badNames' \in [Nodes -> SUBSET Names]
  BY Zenon, <1>1 DEF IInv, TypeOK
<1>5. \A m \in Nodes, w \in Volumes : Evolves(m, w) /\ AttachmentShape(m, w, ec2[m][w])'
  BY <1>1, <1>2, <1>3, ShapeStable DEF Evolves
<1> QED
  BY Zenon, <1>1, <1>2, <1>4, <1>5, EnvStepIInv

\* A volume that is deleted is attached nowhere.
LEMMA DeleteVolumeIInv ==
    ASSUME IInv, NEW v \in Volumes, DeleteVolume(v)
    PROVE  IInv'
<1>1. /\ \A n \in Nodes : ec2[n][v] = Detached
      /\ volumes' = volumes \ {v}
      /\ UNCHANGED <<locks, inFlight, badNames, h, ec2, instances, crashes>>
  BY ZenonT(60) DEF DeleteVolume
<1>2. /\ badNames' \in [Nodes -> SUBSET Names]
      /\ ec2' \in [Nodes -> [Volumes -> Attachment]]
  BY Zenon, <1>1 DEF IInv, TypeOK
<1>3. \A m \in Nodes, w \in Volumes : Evolves(m, w) /\ AttachmentShape(m, w, ec2[m][w])'
  BY <1>1, ShapeStable DEF Evolves
<1> QED
  BY Zenon, <1>1, <1>2, <1>3, EnvStepIInv

\* The likely bad names of a node expire.
LEMMA ExpireBadNamesIInv ==
    ASSUME IInv, NEW n \in Nodes, ExpireBadNames(n)
    PROVE  IInv'
<1>1. /\ badNames' = [badNames EXCEPT ![n] = {}]
      /\ UNCHANGED <<locks, inFlight, h, ec2, volumes, instances, crashes>>
  BY ZenonT(60) DEF ExpireBadNames
<1>2. /\ badNames' \in [Nodes -> SUBSET Names]
      /\ ec2' \in [Nodes -> [Volumes -> Attachment]]
  BY Zenon, <1>1 DEF IInv, TypeOK
<1>3. \A m \in Nodes, w \in Volumes : Evolves(m, w) /\ AttachmentShape(m, w, ec2[m][w])'
  BY <1>1, ShapeStable DEF Evolves
<1> QED
  BY Zenon, <1>1, <1>2, <1>3, EnvStepIInv

-----------------------------------------------------------------------------
(* The theorems *)

\* A fresh controller with nothing attached satisfies the inductive invariant.
LEMMA InitIInv == Init => IInv
<1> SUFFICES ASSUME Init PROVE IInv
  OBVIOUS
<1>1. Idle \in Handler /\ Idle.pc = "idle"
  BY Zenon, IdleType
<1>2. NoMappings \in [Volumes -> Entry] /\ \A v \in Volumes : NoMappings[v] = NoEntry
  BY Zenon DEF NoMappings, NoEntry, Entry
<1>3. Detached \in Attachment
  BY Zenon, DetachedName
<1>4. \A n \in Nodes, v \in Volumes : inFlight[n][v] = NoEntry /\ ec2[n][v] = Detached
  BY Zenon, <1>2 DEF Init
<1>5. \A p \in Procs : h[p] = Idle
  BY Zenon DEF Init
<1>6. TypeOK
  BY <1>1, <1>2, <1>3, MaxCrashesAssumption DEF Init, TypeOK
<1>7. KeysExclusive
  BY Zenon, <1>1, <1>5 DEF KeysExclusive
<1>8. InFlightNamesDistinct
  BY <1>4 DEF InFlightNamesDistinct, NoEntry
<1>9. \A p \in Procs : HandlerInv(h[p], inFlight[h[p].node][h[p].vol], ec2[h[p].node][h[p].vol])
  BY Zenon, <1>1, <1>5, IdleInv
<1>10. \A n \in Nodes, v \in Volumes : /\ AttachmentShape(n, v, ec2[n][v])
                                       /\ EntryAgrees(n, v, inFlight[n][v], ec2[n][v])
  BY Zenon, <1>4, DetachedName DEF AttachmentShape, EntryAgrees, NoEntry
<1> QED
  BY Zenon, <1>6, <1>7, <1>8, <1>9, <1>10 DEF IInv

\* The invariant speaks of the variables only.
LEMMA StutterIInv ==
    ASSUME IInv, UNCHANGED vars
    PROVE  IInv'
<1>1. UNCHANGED <<locks, inFlight, h, crashes>>
  BY Zenon DEF vars
<1>2. /\ badNames' \in [Nodes -> SUBSET Names]
      /\ ec2' \in [Nodes -> [Volumes -> Attachment]]
      /\ volumes' \subseteq volumes /\ instances' \subseteq instances
  BY Zenon DEF vars, IInv, TypeOK
<1>3. \A m \in Nodes, w \in Volumes : Evolves(m, w) /\ AttachmentShape(m, w, ec2[m][w])'
  BY Zenon, ShapeStable DEF Evolves, vars
<1> QED
  BY Zenon, <1>1, <1>2, <1>3, EnvStepIInv

\* Every step of the system preserves the inductive invariant.
LEMMA NextIInv == IInv /\ [Next]_vars => IInv'
<1> SUFFICES ASSUME IInv, [Next]_vars PROVE IInv'
  OBVIOUS
<1>1. ASSUME NEW p \in Procs, NEW v \in Volumes, NEW n \in Nodes,
             ControllerPublishVolume(p, v, n) \/ ControllerUnpublishVolume(p, v, n)
      PROVE  IInv'
  BY Zenon, <1>1, StartIInv DEF ControllerPublishVolume, ControllerUnpublishVolume
<1>2. ASSUME NEW p \in Procs, HandlerStep(p)
      PROVE  IInv'
  BY Zenon, <1>2, GetInstanceIInv, AttachNewDeviceIInv, DetachGetDeviceIInv, AttachVolumeIInv,
     DetachVolumeIInv, WaitIInv, DetachStuckIInv, ReattachIInv, ReleaseDeviceIInv,
     AwaitInitializedIInv, ReplyIInv DEF HandlerStep
<1>3. ASSUME NEW v \in Volumes, DeleteVolume(v)
      PROVE  IInv'
  BY Zenon, <1>3, DeleteVolumeIInv
<1>4. ASSUME NEW n \in Nodes, ExpireBadNames(n) \/ TerminateInstance(n)
      PROVE  IInv'
  BY Zenon, <1>4, ExpireBadNamesIInv, TerminateInstanceIInv
<1>5. ASSUME NEW n \in Nodes, NEW v \in Volumes, FinishAttach(n, v) \/ FinishDetach(n, v)
      PROVE  IInv'
  BY <1>5, FinishAttachIInv, FinishDetachIInv
<1>6. CASE Crash
  BY Zenon, <1>6, CrashIInv
<1>7. CASE UNCHANGED vars
  BY Zenon, <1>7, StutterIInv
<1> QED
  BY ZenonT(60), <1>1, <1>2, <1>3, <1>4, <1>5, <1>6, <1>7 DEF Next

\* The inductive invariant holds in every reachable state.
THEOREM Inductive == Spec => []IInv
  BY InitIInv, NextIInv, PTL DEF Spec

\* Every variable of the controller and of EC2 keeps its type: in particular the polls of
\* WaitForAttachmentState never exceed its backoff.
THEOREM TypeCorrect == Spec => []TypeOK
<1>1. IInv => TypeOK
  BY DEF IInv
<1> QED
  BY <1>1, Inductive, PTL

\* The device manager never has one name in flight for two volumes of an instance.
THEOREM NamesDistinct == Spec => []InFlightNamesDistinct
<1>1. IInv => InFlightNamesDistinct
  BY Zenon DEF IInv
<1> QED
  BY <1>1, Inductive, PTL

\* An AttachDisk keeps the name NewDevice reserved for it until it releases it.
THEOREM ReservationKept == Spec => []ReservationHeld
<1>1. IInv => ReservationHeld
  BY Zenon DEF IInv, ReservationHeld, HandlerInv, HandlerReserves
<1> QED
  BY <1>1, Inductive, PTL

\* A release never finds its volume in flight under another name.
LEMMA ReleaseMatches ==
    ASSUME IInv, NEW p \in Procs, h[p].pc = "release"
    PROVE  LET e == inFlight[h[p].node][h[p].vol]
           IN  e = NoEntry \/ (e.name # NoName /\ h[p].dev.path = e.name)
<1> DEFINE n == h[p].node
           v == h[p].vol
<1>1. n \in Nodes /\ v \in Volumes
  BY Zenon DEF IInv, TypeOK, Handler
<1>2. HandlerAgrees(h[p], inFlight[n][v]) /\ EntryAgrees(n, v, inFlight[n][v], ec2[n][v])
  BY ZenonT(60), <1>1 DEF IInv, HandlerInv
<1> QED
  BY Zenon, <1>2 DEF HandlerAgrees, EntryAgrees, Holding

\* A successful ControllerPublishVolume is true when it is answered.
THEOREM PublishTruthful == Spec => []PublishedIsAttached
<1>1. IInv => PublishedIsAttached
  BY ZenonT(60) DEF IInv, PublishedIsAttached, HandlerInv, HandlerTruthful
<1> QED
  BY <1>1, Inductive, PTL

\* Without batching a successful ControllerUnpublishVolume is true when it is answered.
THEOREM UnpublishTruthful == ~Batching /\ Spec => []UnpublishedIsDetached
<1> SUFFICES ASSUME ~Batching PROVE Spec => []UnpublishedIsDetached
  OBVIOUS
<1>1. IInv => UnpublishedIsDetached
  BY ZenonT(60) DEF IInv, UnpublishedIsDetached, HandlerInv, HandlerTruthful
<1> QED
  BY <1>1, Inductive, PTL

-----------------------------------------------------------------------------
(* The refinement *)

\* The names in flight: the abstract variable `held`.
Held == [n \in Nodes |-> [v \in Volumes |-> inFlight[n][v].name]]

NoneHeld == [n \in Nodes |-> [v \in Volumes |-> 0]]

\* A change of one entry changes one reservation.
LEMMA HeldUpdate ==
    ASSUME TypeOK, NEW n \in Nodes, NEW v \in Volumes, NEW f \in Entry,
           inFlight' = [inFlight EXCEPT ![n] = [@ EXCEPT ![v] = f]]
    PROVE  Held' = [Held EXCEPT ![n][v] = f.name]
<1>1. inFlight \in [Nodes -> [Volumes -> Entry]]
  BY Zenon DEF TypeOK
<1> QED
  BY ZenonT(60), <1>1 DEF Held

\* The step Reserve of the abstract specification, in terms of Held.
LEMMA ReserveStep ==
    ASSUME NEW n \in Nodes, NEW v \in Volumes, NEW d \in 1..NumNames,
           Held[n][v] = 0, \A w \in Volumes : Held[n][w] # d,
           Held' = [Held EXCEPT ![n][v] = d]
    PROVE  Reservations!Next
<1>1. Reservations!Reserve(n, v, d)
  BY Zenon DEF Reservations!Reserve, Held
<1> QED
  BY Zenon, <1>1 DEF Reservations!Next

\* The step Drop of the abstract specification, in terms of Held.
LEMMA DropStep ==
    ASSUME NEW n \in Nodes, NEW v \in Volumes, Held[n][v] # 0,
           Held' = [Held EXCEPT ![n][v] = 0]
    PROVE  Reservations!Next
<1>1. Reservations!Drop(n, v)
  BY Zenon DEF Reservations!Drop, Held
<1> QED
  BY Zenon, <1>1 DEF Reservations!Next

\* NewDevice reserves a free name for a volume that has none, or changes nothing.
LEMMA NewDeviceReserves ==
    ASSUME IInv, NEW p \in Procs, AttachNewDevice(p)
    PROVE  Reservations!Next \/ Held' = Held
<1> DEFINE n == h[p].node
           v == h[p].vol
           devs == NewDevice(h[p].snap, inFlight[n], v, badNames[n])
<1>1. n \in Nodes /\ v \in Volumes /\ h[p] \in Handler
  BY ZenonT(60) DEF IInv, TypeOK, Handler
<1>2. inFlight[n] \in Mappings /\ h[p].snap \in Mappings /\ badNames[n] \subseteq Names
  BY ZenonT(60), <1>1 DEF IInv, TypeOK, Handler, Mappings
<1>3. CASE UNCHANGED inFlight
  BY Zenon, <1>3 DEF Held
<1>4. ASSUME NEW dev \in devs,
             inFlight' = [inFlight EXCEPT ![n] = AddInFlight(inFlight[n], v, dev)]
      PROVE  Reservations!Next \/ Held' = Held
  <2>1. SoundDevice(h[p].snap, inFlight[n], v, dev)
    BY ZenonT(60), <1>1, <1>2, NewDeviceIsSound
  <2>2. CASE dev.assigned
    <3>1. inFlight' = inFlight
      BY Zenon, <1>4, <1>1, <2>2 DEF AddInFlight, IInv, TypeOK
    <3> QED
      BY Zenon, <3>1 DEF Held
  <2>3. CASE ~dev.assigned
    <3> DEFINE f == [name |-> dev.path, card |-> dev.card]
    <3>1. f \in Entry /\ f.name = dev.path /\ dev.path \in 1..NumNames
      BY ZenonT(60), <2>1 DEF SoundDevice, Device, Entry, Names
    <3>2. inFlight' = [inFlight EXCEPT ![n] = [@ EXCEPT ![v] = f]]
      BY ZenonT(60), <1>4, <1>1, <2>3 DEF AddInFlight, IInv, TypeOK
    <3> HIDE DEF f
    <3>3. Held' = [Held EXCEPT ![n][v] = dev.path]
      BY ZenonT(60), <1>1, <3>1, <3>2, HeldUpdate DEF IInv
    <3>4. Held[n][v] = 0 /\ \A w \in Volumes : Held[n][w] # dev.path
      BY Zenon, <1>1, <2>1, <2>3 DEF SoundDevice, Held, NoName
    <3> QED
      BY ZenonT(60), <1>1, <3>1, <3>3, <3>4, ReserveStep
  <2> QED
    BY Zenon, <2>2, <2>3
<1> QED
  BY Zenon, <1>3, <1>4 DEF AttachNewDevice

\* Release drops the reservation of its volume, or changes nothing.
LEMMA ReleaseDrops ==
    ASSUME IInv, NEW p \in Procs, ReleaseDevice(p)
    PROVE  Reservations!Next \/ Held' = Held
<1> DEFINE n == h[p].node
           v == h[p].vol
           path == h[p].dev.path
<1>1. n \in Nodes /\ v \in Volumes
  BY ZenonT(60) DEF IInv, TypeOK, Handler
<1>2. \/ inFlight' = inFlight
      \/ inFlight' = [inFlight EXCEPT ![n] = Release(inFlight[n], v, path)]
  BY Zenon DEF ReleaseDevice
<1>3. CASE inFlight' = inFlight
  BY Zenon, <1>3 DEF Held
<1>4. CASE inFlight' = [inFlight EXCEPT ![n] = Release(inFlight[n], v, path)]
  <2>1. CASE inFlight[n][v].name # NoName /\ inFlight[n][v].name = path
    <3>1. inFlight' = [inFlight EXCEPT ![n] = [@ EXCEPT ![v] = NoEntry]]
      BY ZenonT(60), <1>4, <1>1, <2>1 DEF Release, IInv, TypeOK
    <3>2. NoEntry \in Entry /\ NoEntry.name = 0
      BY Zenon DEF NoEntry, Entry, NoName
    <3>3. Held' = [Held EXCEPT ![n][v] = 0]
      BY ZenonT(60), <1>1, <3>1, <3>2, HeldUpdate DEF IInv
    <3>4. Held[n][v] # 0
      BY Zenon, <1>1, <2>1 DEF Held, NoName
    <3> QED
      BY ZenonT(60), <1>1, <3>3, <3>4, DropStep
  <2>2. CASE ~(inFlight[n][v].name # NoName /\ inFlight[n][v].name = path)
    <3>1. inFlight' = inFlight
      BY Zenon, <1>4, <1>1, <2>2 DEF Release, IInv, TypeOK
    <3> QED
      BY <3>1 DEF Held
  <2> QED
    BY Zenon, <2>1, <2>2
<1> QED
  BY <1>2, <1>3, <1>4

\* Every step of the system is a step of NameReservation, or a stutter.
LEMMA StepReserves == IInv /\ [Next]_vars => [Reservations!Next]_Held
<1> SUFFICES ASSUME IInv, [Next]_vars
             PROVE  Reservations!Next \/ Held' = Held
  OBVIOUS
<1>1. CASE UNCHANGED inFlight
  BY Zenon, <1>1 DEF Held
<1>2. CASE Crash
  <2>1. inFlight' = [n \in Nodes |-> NoMappings]
    BY ZenonT(60), <1>2 DEF Crash
  <2>2. Held' = NoneHeld
    BY Zenon, <2>1 DEF Held, NoneHeld, NoMappings, NoEntry, NoName
  <2>3. Reservations!Restart
    BY Zenon, <2>2 DEF Reservations!Restart, Reservations!Free, Held, NoneHeld
  <2> QED
    BY Zenon, <2>3 DEF Reservations!Next
<1>3. ASSUME NEW p \in Procs, HandlerStep(p)
      PROVE  Reservations!Next \/ Held' = Held
  <2>1. AttachNewDevice(p) \/ ReleaseDevice(p) \/ UNCHANGED inFlight
    BY Zenon, <1>3 DEF HandlerStep, GetInstance, DetachGetDevice, AttachVolume, DetachVolume,
       Wait, DetachStuck, Reattach, AwaitInitialized, Reply
  <2> QED
    BY ZenonT(60), <2>1, <1>1, NewDeviceReserves, ReleaseDrops
<1>4. (\E p \in Procs : HandlerStep(p)) \/ Crash \/ UNCHANGED inFlight
  BY Zenon DEF Next, ControllerPublishVolume, ControllerUnpublishVolume, Start, DeleteVolume,
     ExpireBadNames, TerminateInstance, FinishAttach, FinishDetach, vars
<1> QED
  BY ZenonT(60), <1>1, <1>2, <1>3, <1>4

\* VolumeAttachment implements NameReservation: whatever the RPCs, the retries, the tainted
\* devices and the restarts, inFlight reserves a name for one volume of an instance at a
\* time and never replaces a name that is reserved.
THEOREM Refinement == Spec => ImplementsReservation
<1>1. Init => Reservations!Init
  BY DEF Init, Reservations!Init, Reservations!Free, NoMappings, NoEntry, NoName
<1>2. Reservations!Spec <=> Reservations!Init /\ [][Reservations!Next]_Held
  BY Zenon DEF Reservations!Spec, Held
<1> QED
  BY <1>1, <1>2, StepReserves, Inductive, PTL DEF Spec, ImplementsReservation

-----------------------------------------------------------------------------
(* Every RPC comes to its end, and takes its key along *)

\* A bound on the steps a handler has left.
Rank(hp) ==
    CASE hp.pc = "getInstance" -> MaxPolls + 8
      [] hp.pc = "device" -> MaxPolls + 7
      [] hp.pc = "call" -> MaxPolls + 6
      [] hp.pc = "wait" -> 5 + MaxPolls - hp.polls
      [] hp.pc \in {"stuck", "reattach"} -> 4
      [] hp.pc = "release" -> 3
      [] hp.pc = "init" -> 2
      [] hp.pc = "reply" -> 1
      [] OTHER -> 0

\* A handler on its way goes on, with its key, and nobody else does.
Falls(p) ==
    /\ h'[p].vol = h[p].vol /\ h'[p].node = h[p].node /\ h'[p].pc # "idle"
    /\ Rank(h'[p]) < Rank(h[p])
    /\ \A q \in Procs \ {p} : h'[q] = h[q]
    /\ UNCHANGED locks

\* Where an RPC still runs, its rank is positive.
LEMMA RankRange ==
    ASSUME NEW hp \in Handler
    PROVE  Rank(hp) \in 0..(MaxPolls + 8) /\ (Rank(hp) = 0 <=> hp.pc = "idle")
<1>1. hp.polls \in 0..MaxPolls /\ hp.pc \in Pcs
  BY DEF Handler
<1> QED
  BY <1>1, MaxPollsAssumption DEF Rank, Pcs

\* Later places of the code have a smaller rank; polls come before what they lead to.
LEMMA RankFalls ==
    ASSUME NEW hp, NEW x, hp.polls \in 0..MaxPolls, x.polls \in 0..MaxPolls,
           \/ hp.pc = "getInstance" /\ x.pc \in {"device", "reply"}
           \/ hp.pc = "device" /\ x.pc \in {"call", "wait", "reply"}
           \/ hp.pc = "call" /\ x.pc \in {"wait", "release"}
           \/ hp.pc = "wait" /\ x.pc = "wait" /\ x.polls = hp.polls + 1
           \/ hp.pc = "wait" /\ x.pc \in {"stuck", "reattach", "release"}
           \/ hp.pc \in {"stuck", "reattach"} /\ x.pc = "release"
           \/ hp.pc = "release" /\ x.pc \in {"init", "reply"}
           \/ hp.pc = "init" /\ x.pc = "reply"
    PROVE  Rank(x) < Rank(hp)
<1>1. MaxPolls \in Nat
  BY MaxPollsAssumption
<1>2. CASE hp.pc \in {"getInstance", "device", "call"}
  BY <1>1, <1>2 DEF Rank
<1>3. CASE hp.pc = "wait"
  BY <1>1, <1>3 DEF Rank
<1>4. CASE hp.pc \in {"stuck", "reattach", "release", "init"}
  BY <1>1, <1>4 DEF Rank
<1> QED
  BY <1>2, <1>3, <1>4

\* A handler becomes x.
LEMMA HandlerSet ==
    ASSUME TypeOK, NEW p \in Procs, NEW x, h' = [h EXCEPT ![p] = x],
           x.vol = h[p].vol, x.node = h[p].node, x.pc # "idle", Rank(x) < Rank(h[p]),
           UNCHANGED locks
    PROVE  Falls(p)
<1>1. h'[p] = x /\ \A q \in Procs \ {p} : h'[q] = h[q]
  BY Zenon DEF TypeOK
<1> QED
  BY Zenon, <1>1 DEF Falls

\* A poll leads on, or to one poll less.
Polls(hp, x) ==
    /\ x.vol = hp.vol /\ x.node = hp.node /\ x.polls \in 0..MaxPolls
    /\ \/ x.pc = "wait" /\ x.polls = hp.polls + 1
       \/ x.pc \in {"stuck", "reattach", "release"}

\* What ends a wait, or does not.
LEMMA PollsOn ==
    ASSUME NEW hp \in Handler, hp.pc = "wait"
    PROVE  Polls(hp, Failed(hp)) /\ Polls(hp, Succeeded(hp)) /\ Polls(hp, Again(hp))
<1>1. Polls(hp, Failed(hp))
  BY Zenon DEF Polls, Failed, Handler
<1>2. Polls(hp, Succeeded(hp))
  BY Zenon DEF Polls, Succeeded, Handler
<1>3. CASE hp.polls + 1 < MaxPolls
  <2>1. hp.polls + 1 \in 0..MaxPolls
    BY <1>3, MaxPollsAssumption DEF Handler
  <2>2. Polls(hp, [hp EXCEPT !.polls = hp.polls + 1])
    BY Zenon, <2>1 DEF Polls, Handler
  <2> QED
    BY Zenon, <1>1, <1>2, <1>3, <2>2 DEF Again
<1>4. CASE ~(hp.polls + 1 < MaxPolls)
  BY Zenon, <1>1, <1>2, <1>4 DEF Again
<1> QED
  BY Zenon, <1>3, <1>4

\* verifyVolumeFunc, whatever it finds.
LEMMA VerifyPollsOn ==
    ASSUME NEW hp \in Handler, hp.pc = "wait", NEW a \in Attachment, NEW x \in Verify(hp, a)
    PROVE  Polls(hp, x)
<1> DEFINE now == [hp EXCEPT !.seen = Captured(hp, a)]
<1>1. Captured(hp, a) \in Entry
  BY Zenon DEF Captured, Handler, Attachment
<1>2. /\ now \in Handler /\ now.pc = "wait" /\ now.polls = hp.polls
      /\ now.vol = hp.vol /\ now.node = hp.node
  BY Zenon, <1>1 DEF Handler
<1>3. Polls(hp, [now EXCEPT !.pc = "reattach"]) /\ Polls(hp, [hp EXCEPT !.pc = "stuck", !.seen = a.at])
  BY Zenon DEF Polls, Handler
<1>4. VerifyAttached(hp, a) \in {Again(now), [now EXCEPT !.pc = "reattach"], Succeeded(now)}
  BY Zenon DEF VerifyAttached
<1> HIDE DEF now
<1>5. Polls(hp, Again(now)) /\ Polls(hp, Succeeded(now))
  BY Zenon, <1>2, PollsOn DEF Polls
<1>6. Polls(hp, VerifyAttached(hp, a))
  BY Zenon, <1>3, <1>4, <1>5
<1> QED
  BY Zenon, <1>3, <1>6, PollsOn DEF Verify, VerifyDetached, VerifyStuck
\* A handler goes to one of these places, with its key and its polls.
Goes(p, places) ==
    /\ h'[p].vol = h[p].vol /\ h'[p].node = h[p].node /\ h'[p].polls = h[p].polls
    /\ h'[p].pc \in places
    /\ \A q \in Procs \ {p} : h'[q] = h[q]

\* The calls before the wait.
LEMMA CallsGo ==
    ASSUME TypeOK, NEW p \in Procs
    PROVE  /\ GetInstance(p) => Goes(p, {"device", "reply"})
           /\ AttachNewDevice(p) \/ DetachGetDevice(p) => Goes(p, {"call", "wait", "reply"})
           /\ AttachVolume(p) \/ DetachVolume(p) => Goes(p, {"wait", "release"})
<1>1. h \in [Procs -> Handler] /\ h[p] \in Handler
  BY Zenon DEF TypeOK
<1>2. ASSUME NEW s, NEW pc, h' = [h EXCEPT ![p].pc = pc, ![p].snap = s] PROVE Goes(p, {pc})
  <2>1. h' = [h EXCEPT ![p] = [h[p] EXCEPT !.pc = pc, !.snap = s]]
    BY Zenon, <1>2
  <2> QED
    BY Zenon, <1>1, <2>1 DEF Goes, Handler
<1>3. ASSUME NEW b, NEW pc, h' = [h EXCEPT ![p].pc = pc, ![p].ok = b] PROVE Goes(p, {pc})
  <2>1. h' = [h EXCEPT ![p] = [h[p] EXCEPT !.pc = pc, !.ok = b]]
    BY Zenon, <1>3
  <2> QED
    BY Zenon, <1>1, <2>1 DEF Goes, Handler
<1>4. ASSUME NEW pc, h' = [h EXCEPT ![p].pc = pc] PROVE Goes(p, {pc})
  <2>1. h' = [h EXCEPT ![p] = [h[p] EXCEPT !.pc = pc]]
    BY Zenon, <1>4
  <2> QED
    BY Zenon, <1>1, <2>1 DEF Goes, Handler
<1>5. ASSUME NEW d, NEW s, NEW pc, h' = [h EXCEPT ![p].pc = pc, ![p].dev = d, ![p].snap = s]
      PROVE  Goes(p, {pc})
  <2>1. h' = [h EXCEPT ![p] = [h[p] EXCEPT !.pc = pc, !.dev = d, !.snap = s]]
    BY Zenon, <1>5
  <2> QED
    BY Zenon, <1>1, <2>1 DEF Goes, Handler
<1>6. ASSUME GetInstance(p) PROVE Goes(p, {"device", "reply"})
  <2>1. Goes(p, {"device"}) \/ Goes(p, {"reply"})
    BY Zenon, <1>2, <1>3, <1>4, <1>6 DEF GetInstance
  <2> QED
    BY Zenon, <2>1 DEF Goes
<1>7. ASSUME AttachNewDevice(p) PROVE Goes(p, {"call", "wait", "reply"})
  <2>1. \/ \E d, pc : pc \in {"call", "wait"} /\ h' = [h EXCEPT ![p].pc = pc, ![p].dev = d, ![p].snap = NoMappings]
        \/ h' = [h EXCEPT ![p].pc = "reply", ![p].snap = NoMappings]
    BY Zenon, <1>7 DEF AttachNewDevice
  <2>2. Goes(p, {"call"}) \/ Goes(p, {"wait"}) \/ Goes(p, {"reply"})
    BY Zenon, <1>2, <1>5, <2>1
  <2> QED
    BY Zenon, <2>2 DEF Goes
<1>8. ASSUME DetachGetDevice(p) PROVE Goes(p, {"call", "wait", "reply"})
  <2>1. Goes(p, {"call"})
    BY Zenon, <1>5, <1>8 DEF DetachGetDevice
  <2> QED
    BY Zenon, <2>1 DEF Goes
<1>9. ASSUME AttachVolume(p) \/ DetachVolume(p) PROVE Goes(p, {"wait", "release"})
  <2>1. Goes(p, {"wait"}) \/ Goes(p, {"release"})
    BY Zenon, <1>3, <1>4, <1>9 DEF AttachVolume, DetachVolume
  <2> QED
    BY Zenon, <2>1 DEF Goes
<1> QED
  BY Zenon, <1>6, <1>7, <1>8, <1>9

\* Release and the wait for the initialization.
LEMMA EndGoes ==
    ASSUME TypeOK, NEW p \in Procs
    PROVE  /\ ReleaseDevice(p) => Goes(p, {"init", "reply"})
           /\ AwaitInitialized(p) => Goes(p, {"reply"})
<1>1. h \in [Procs -> Handler] /\ h[p] \in Handler
  BY Zenon DEF TypeOK
<1>2. ASSUME NEW pc, \/ h' = [h EXCEPT ![p].pc = pc]
                     \/ h' = [h EXCEPT ![p].pc = pc, ![p].ok = FALSE]
      PROVE  Goes(p, {pc})
  <2>1. CASE h' = [h EXCEPT ![p].pc = pc]
    <3>1. h' = [h EXCEPT ![p] = [h[p] EXCEPT !.pc = pc]]
      BY Zenon, <2>1
    <3> QED
      BY Zenon, <1>1, <3>1 DEF Goes, Handler
  <2>2. CASE h' = [h EXCEPT ![p].pc = pc, ![p].ok = FALSE]
    <3>1. h' = [h EXCEPT ![p] = [h[p] EXCEPT !.pc = pc, !.ok = FALSE]]
      BY Zenon, <2>2
    <3> QED
      BY Zenon, <1>1, <3>1 DEF Goes, Handler
  <2> QED
    BY Zenon, <1>2, <2>1, <2>2
<1>3. ASSUME ReleaseDevice(p) PROVE Goes(p, {"init", "reply"})
  <2>1. Goes(p, {"init"}) \/ Goes(p, {"reply"})
    BY Zenon, <1>2, <1>3 DEF ReleaseDevice
  <2> QED
    BY Zenon, <2>1 DEF Goes
<1>4. ASSUME AwaitInitialized(p) PROVE Goes(p, {"reply"})
  BY Zenon, <1>2, <1>4 DEF AwaitInitialized
<1> QED
  BY Zenon, <1>3, <1>4
\* A handler that goes on has less to do.
LEMMA GoesFalls ==
    ASSUME TypeOK, NEW p \in Procs, NEW places, Goes(p, places), UNCHANGED locks,
           \/ h[p].pc = "getInstance" /\ places = {"device", "reply"}
           \/ h[p].pc = "device" /\ places = {"call", "wait", "reply"}
           \/ h[p].pc = "call" /\ places = {"wait", "release"}
           \/ h[p].pc = "release" /\ places = {"init", "reply"}
           \/ h[p].pc = "init" /\ places = {"reply"}
    PROVE  Falls(p)
<1>1. h[p].polls \in 0..MaxPolls
  BY Zenon DEF TypeOK, Handler
<1>2. h'[p].pc # "idle" /\ h'[p].polls \in 0..MaxPolls
  BY Zenon, <1>1 DEF Goes
<1>3. \/ h[p].pc = "getInstance" /\ h'[p].pc \in {"device", "reply"}
      \/ h[p].pc = "device" /\ h'[p].pc \in {"call", "wait", "reply"}
      \/ h[p].pc = "call" /\ h'[p].pc \in {"wait", "release"}
      \/ h[p].pc = "release" /\ h'[p].pc \in {"init", "reply"}
      \/ h[p].pc = "init" /\ h'[p].pc = "reply"
  BY Zenon DEF Goes
<1>4. Rank(h'[p]) < Rank(h[p])
  BY Zenon, <1>1, <1>2, <1>3, RankFalls
<1> QED
  BY Zenon, <1>2, <1>4 DEF Goes, Falls

\* The wait, and the calls a wait that fails makes.
LEMMA WaitFalls ==
    ASSUME TypeOK, NEW p \in Procs, Wait(p) \/ DetachStuck(p) \/ Reattach(p)
    PROVE  Falls(p)
<1>1. h[p] \in Handler /\ h[p].polls \in 0..MaxPolls /\ UNCHANGED locks
  BY Zenon DEF TypeOK, Handler, Wait, DetachStuck, Reattach
<1>2. CASE Wait(p)
  <2>1. h[p].pc = "wait"
    BY Zenon, <1>2 DEF Wait
  <2>2. ASSUME h[p].vol \in volumes PROVE ec2[h[p].node][h[p].vol] \in Attachment
    BY Zenon, <1>1, <2>2 DEF TypeOK, Handler
  <2>3. PICK x : h' = [h EXCEPT ![p] = x] /\ Polls(h[p], x)
    <3>1. Polls(h[p], Failed(h[p])) /\ Polls(h[p], Succeeded(h[p])) /\ Polls(h[p], Again(h[p]))
      BY Zenon, <1>1, <2>1, PollsOn
    <3>2. \/ \E x \in {Failed(h[p]), Succeeded(h[p]), Again(h[p])} : h' = [h EXCEPT ![p] = x]
          \/ h[p].vol \in volumes /\ \E x \in Verify(h[p], ec2[h[p].node][h[p].vol]) : h' = [h EXCEPT ![p] = x]
      BY Zenon, <1>2 DEF Wait
    <3> QED
      BY Zenon, <1>1, <2>1, <2>2, <3>1, <3>2, VerifyPollsOn
  <2>4. x.vol = h[p].vol /\ x.node = h[p].node /\ x.pc # "idle"
    BY Zenon, <2>3 DEF Polls
  <2>5. Rank(x) < Rank(h[p])
    BY Zenon, <1>1, <2>1, <2>3, RankFalls DEF Polls
  <2> QED
    BY Zenon, <1>1, <2>3, <2>4, <2>5, HandlerSet
<1>3. CASE DetachStuck(p) \/ Reattach(p)
  <2> DEFINE x == Failed(h[p])
  <2>1. h[p].pc \in {"stuck", "reattach"} /\ h' = [h EXCEPT ![p] = x]
    BY Zenon, <1>3 DEF DetachStuck, Reattach
  <2>2. x.vol = h[p].vol /\ x.node = h[p].node /\ x.pc = "release" /\ x.polls = h[p].polls
    BY Zenon, <1>1 DEF Failed, Handler
  <2> HIDE DEF x
  <2>3. Rank(x) < Rank(h[p]) /\ x.pc # "idle"
    BY Zenon, <1>1, <2>1, <2>2, RankFalls
  <2> QED
    BY Zenon, <1>1, <2>1, <2>2, <2>3, HandlerSet
<1> QED
  BY Zenon, <1>2, <1>3

\* Whatever a handler does, it falls or it answers.
LEMMA StepFalls ==
    ASSUME TypeOK, NEW p \in Procs, HandlerStep(p)
    PROVE  Falls(p) \/ Reply(p)
<1>1. CASE GetInstance(p)
  <2>1. h[p].pc = "getInstance" /\ UNCHANGED locks
    BY Zenon, <1>1 DEF GetInstance
  <2> QED
    BY Zenon, <1>1, <2>1, CallsGo, GoesFalls
<1>2. CASE AttachNewDevice(p) \/ DetachGetDevice(p)
  <2>1. h[p].pc = "device" /\ UNCHANGED locks
    BY Zenon, <1>2 DEF AttachNewDevice, DetachGetDevice
  <2> QED
    BY Zenon, <1>2, <2>1, CallsGo, GoesFalls
<1>3. CASE AttachVolume(p) \/ DetachVolume(p)
  <2>1. h[p].pc = "call" /\ UNCHANGED locks
    BY Zenon, <1>3 DEF AttachVolume, DetachVolume
  <2> QED
    BY Zenon, <1>3, <2>1, CallsGo, GoesFalls
<1>4. CASE ReleaseDevice(p)
  <2>1. h[p].pc = "release" /\ UNCHANGED locks
    BY Zenon, <1>4 DEF ReleaseDevice
  <2> QED
    BY Zenon, <1>4, <2>1, EndGoes, GoesFalls
<1>5. CASE AwaitInitialized(p)
  <2>1. h[p].pc = "init" /\ UNCHANGED locks
    BY Zenon, <1>5 DEF AwaitInitialized
  <2> QED
    BY Zenon, <1>5, <2>1, EndGoes, GoesFalls
<1> QED
  BY Zenon, <1>1, <1>2, <1>3, <1>4, <1>5, WaitFalls DEF HandlerStep

\* The key in ControllerService.inFlight belongs to an RPC that still runs.
KeysOwned ==
    \A k \in locks : \E p \in Procs : h[p].pc # "idle" /\ k = <<h[p].vol, h[p].node>>

\* One step of a handler uses up some of what it has left; the other RPCs, EC2 and the
\* timers take nothing from it.
Progress ==
    \A p \in Procs :
        /\ HandlerStep(p) => Rank(h'[p]) < Rank(h[p])
        /\ h[p].pc # "idle" => Rank(h'[p]) <= Rank(h[p])

\* The handlers' steps keep both.
LEMMA HandlerOwns ==
    ASSUME TypeOK, NEW p \in Procs, HandlerStep(p)
    PROVE  /\ Rank(h'[p]) < Rank(h[p])
           /\ \A q \in Procs \ {p} : h'[q] = h[q]
           /\ KeysOwned => KeysOwned'
<1>1. CASE Falls(p)
  <2>1. ASSUME KeysOwned, NEW k \in locks'
        PROVE  \E q \in Procs : h'[q].pc # "idle" /\ k = <<h'[q].vol, h'[q].node>>
    <3>1. k \in locks
      BY Zenon, <1>1, <2>1 DEF Falls
    <3>2. PICK q \in Procs : h[q].pc # "idle" /\ k = <<h[q].vol, h[q].node>>
      BY Zenon, <2>1, <3>1 DEF KeysOwned
    <3>3. CASE q = p
      BY <1>1, <3>2, <3>3 DEF Falls
    <3>4. CASE q # p
      <4>1. h'[q] = h[q]
        BY Zenon, <1>1, <3>4 DEF Falls
      <4> QED
        BY Zenon, <3>2, <4>1
    <3> QED
      BY Zenon, <3>3, <3>4
  <2> QED
    BY Zenon, <1>1, <2>1 DEF Falls, KeysOwned
<1>2. CASE Reply(p)
  <2>1. h'[p] = Idle /\ \A q \in Procs \ {p} : h'[q] = h[q]
    BY Zenon, <1>2 DEF Reply, TypeOK
  <2>2. h[p].pc = "reply" /\ Idle.pc = "idle"
    BY Zenon, <1>2 DEF Reply, Idle, Fresh
  <2>3. Rank(h'[p]) < Rank(h[p])
    <3>1. Rank(h[p]) = 1
      BY <2>2 DEF Rank
    <3>2. Rank(Idle) = 0
      BY <2>2 DEF Rank
    <3> QED
      BY <2>1, <3>1, <3>2
  <2>4. ASSUME KeysOwned, NEW k \in locks'
        PROVE  \E q \in Procs : h'[q].pc # "idle" /\ k = <<h'[q].vol, h'[q].node>>
    <3>1. k \in locks /\ k # <<h[p].vol, h[p].node>>
      BY Zenon, <1>2, <2>4 DEF Reply
    <3>2. PICK q \in Procs : h[q].pc # "idle" /\ k = <<h[q].vol, h[q].node>>
      BY Zenon, <2>4, <3>1 DEF KeysOwned
    <3>3. q # p
      BY <3>1, <3>2
    <3>4. h'[q] = h[q]
      BY Zenon, <2>1, <3>3
    <3> QED
      BY Zenon, <3>2, <3>4
  <2> QED
    BY Zenon, <2>1, <2>3, <2>4 DEF KeysOwned
<1> QED
  BY Zenon, <1>1, <1>2, StepFalls
\* A step keeps the keys owned and the ranks falling.
LEMMA NextProgress == IInv /\ [Next]_vars => [Progress]_vars /\ (KeysOwned => KeysOwned')
<1> SUFFICES ASSUME IInv, [Next]_vars PROVE [Progress]_vars /\ (KeysOwned => KeysOwned')
  OBVIOUS
<1>1. TypeOK /\ h \in [Procs -> Handler]
  BY Zenon DEF IInv, TypeOK
<1>2. \A p \in Procs : Rank(h[p]) \in 0..(MaxPolls + 8) /\ Rank(h[p]) <= Rank(h[p])
  <2> TAKE p \in Procs
  <2>1. Rank(h[p]) \in 0..(MaxPolls + 8)
    BY Zenon, <1>1, RankRange
  <2> QED
    BY <2>1
<1>3. \A p \in Procs : HandlerStep(p) => Rank(h'[p]) < Rank(h[p])
  BY Zenon, <1>1, HandlerOwns
<1>4. CASE UNCHANGED <<h, locks>>
  BY Zenon, <1>2, <1>3, <1>4 DEF Progress, KeysOwned
<1>5. ASSUME NEW p \in Procs, HandlerStep(p) PROVE Progress /\ (KeysOwned => KeysOwned')
  <2>1. Rank(h'[p]) < Rank(h[p]) /\ \A q \in Procs \ {p} : h'[q] = h[q]
    BY Zenon, <1>1, <1>5, HandlerOwns
  <2>2. Rank(h'[p]) \in Nat
    <3>1. h'[p] \in Handler
      BY Zenon, NextIInv DEF IInv, TypeOK
    <3>2. Rank(h'[p]) \in 0..(MaxPolls + 8)
      BY Zenon, <3>1, RankRange
    <3> QED
      BY <3>2, MaxPollsAssumption
  <2>3. Rank(h'[p]) <= Rank(h[p])
    BY <1>2, <2>1, <2>2
  <2>4. \A q \in Procs : Rank(h'[q]) <= Rank(h[q])
    BY Zenon, <1>2, <2>1, <2>3
  <2> QED
    BY Zenon, <1>1, <1>3, <1>5, <2>4, HandlerOwns DEF Progress
<1>6. ASSUME NEW p \in Procs, NEW v \in Volumes, NEW n \in Nodes, NEW op, Start(p, op, v, n)
      PROVE  Progress /\ (KeysOwned => KeysOwned')
  <2>1. /\ h[p].pc = "idle" /\ h'[p].pc = "getInstance" /\ h'[p].vol = v /\ h'[p].node = n
        /\ \A q \in Procs \ {p} : h'[q] = h[q]
    <3>1. h[p].pc = "idle" /\ h'[p] = Fresh(op, v, n) /\ \A q \in Procs \ {p} : h'[q] = h[q]
      BY Zenon, <1>1, <1>6 DEF Start
    <3> QED
      BY <3>1 DEF Fresh
  <2>2. Progress
    BY Zenon, <1>2, <1>3, <2>1 DEF Progress
  <2>3. ASSUME KeysOwned, NEW k \in locks'
        PROVE  \E q \in Procs : h'[q].pc # "idle" /\ k = <<h'[q].vol, h'[q].node>>
    <3>1. k \in locks \/ k = <<v, n>>
      BY Zenon, <1>6, <2>3 DEF Start
    <3>2. CASE k = <<v, n>>
      BY <2>1, <3>2
    <3>3. CASE k \in locks
      <4>1. PICK q \in Procs : h[q].pc # "idle" /\ k = <<h[q].vol, h[q].node>>
        BY Zenon, <2>3, <3>3 DEF KeysOwned
      <4>2. h'[q] = h[q]
        BY Zenon, <2>1, <4>1
      <4> QED
        BY Zenon, <4>1, <4>2
    <3> QED
      BY Zenon, <3>1, <3>2, <3>3
  <2> QED
    BY Zenon, <2>2, <2>3 DEF KeysOwned
<1>7. CASE Crash
  <2>1. locks' = {} /\ \A p \in Procs : h'[p] = Idle
    BY Zenon, <1>7 DEF Crash
  <2>2. Idle.pc = "idle"
    BY Zenon DEF Idle, Fresh
  <2>3. Rank(Idle) = 0
    BY <2>2 DEF Rank
  <2>4. \A p \in Procs : Rank(Idle) <= Rank(h[p])
    BY <1>2, <2>3, MaxPollsAssumption
  <2> QED
    BY Zenon, <1>3, <2>1, <2>4 DEF Progress, KeysOwned
<1>8. \/ UNCHANGED <<h, locks>>
      \/ \E p \in Procs : HandlerStep(p)
      \/ \E p \in Procs, v \in Volumes, n \in Nodes : Start(p, "attach", v, n) \/ Start(p, "detach", v, n)
      \/ Crash
  BY Zenon DEF Next, vars, ControllerPublishVolume, ControllerUnpublishVolume, DeleteVolume,
               ExpireBadNames, TerminateInstance, FinishAttach, FinishDetach
<1> QED
  BY Zenon, <1>4, <1>5, <1>6, <1>7, <1>8

\* The key volumeID+nodeID an RPC put in ControllerService.inFlight never outlives the RPC:
\* whatever EC2 answers, whichever error path the RPC takes and wherever the process dies,
\* every key is that of an RPC still running. No sequence of failures can leave a volume
\* for which every later RPC is told that an operation is in progress.
THEOREM KeysNeverLeaked == Spec => []KeysOwned
<1>1. Init => KeysOwned
  BY Zenon DEF Init, KeysOwned
<1> QED
  BY <1>1, Inductive, NextProgress, PTL DEF Spec

\* ControllerPublishVolume and ControllerUnpublishVolume have at most MaxPolls + 8 steps to
\* take: every step of the handler, each poll of WaitForAttachmentState included, lowers a
\* rank that starts there, nothing anybody else does raises it, and it is zero exactly
\* when the RPC is over. No loop of the code sends an RPC back to where it has been.
THEOREM HandlersBounded ==
    Spec => /\ []\A p \in Procs : /\ Rank(h[p]) \in 0..(MaxPolls + 8)
                                 /\ Rank(h[p]) = 0 <=> h[p].pc = "idle"
            /\ [][Progress]_vars
<1>1. IInv => \A p \in Procs : /\ Rank(h[p]) \in 0..(MaxPolls + 8)
                             /\ Rank(h[p]) = 0 <=> h[p].pc = "idle"
  BY Zenon, RankRange DEF IInv, TypeOK
<1> QED
  BY <1>1, Inductive, NextProgress, PTL DEF Spec

-----------------------------------------------------------------------------
(* A detach frees the name *)

\* The forced release itself.
LEMMA ReleaseFrees ==
    ASSUME IInv, NEW p \in Procs, ReleaseDevice(p), h[p].op = "detach"
    PROVE  inFlight'[h[p].node][h[p].vol] = NoEntry
<1> DEFINE n == h[p].node
           v == h[p].vol
           e == inFlight[n][v]
<1>1. n \in Nodes /\ v \in Volumes /\ inFlight \in [Nodes -> [Volumes -> Entry]]
  BY ZenonT(60) DEF IInv, TypeOK, Handler
<1>2. h[p].pc = "release" /\ inFlight' = [inFlight EXCEPT ![n] = Release(@, v, h[p].dev.path)]
  BY Zenon DEF ReleaseDevice
<1>3. inFlight'[n] = Release(inFlight[n], v, h[p].dev.path)
  BY Zenon, <1>1, <1>2
<1>4. e = NoEntry \/ (e.name # NoName /\ h[p].dev.path = e.name)
  BY Zenon, <1>2, ReleaseMatches
<1>5. CASE e.name # NoName /\ h[p].dev.path = e.name
  <2>1. inFlight'[n] = [inFlight[n] EXCEPT ![v] = NoEntry]
    BY Zenon, <1>3, <1>5 DEF Release
  <2> QED
    BY Zenon, <1>1, <2>1
<1>6. CASE e = NoEntry
  <2>1. e.name = NoName
    BY <1>6 DEF NoEntry
  <2>2. inFlight'[n] = inFlight[n]
    BY Zenon, <1>3, <2>1 DEF Release
  <2> QED
    BY Zenon, <1>6, <2>2
<1> QED
  BY Zenon, <1>4, <1>5, <1>6

\* A detach gives the name of its volume back: when the forced release of DetachDisk is
\* over, nothing is in flight for the volume.  The error path of deviceManager.release,
\* which would leave the entry, cannot be taken there: the RPCs of one volume and node
\* exclude each other, and what is in flight has the name under which EC2 knows the volume.
THEOREM DetachAlwaysFrees == Spec => DetachFreesName
<1>1. ASSUME IInv, [Next]_vars
      PROVE  [\A p \in Procs :
                h[p].pc = "release" /\ h[p].op = "detach" /\ h'[p].pc = "reply"
                    => inFlight'[h[p].node][h[p].vol] = NoEntry]_vars
  <2> SUFFICES ASSUME NEW p \in Procs, h[p].pc = "release", h[p].op = "detach",
                      h'[p].pc = "reply"
               PROVE  inFlight'[h[p].node][h[p].vol] = NoEntry
    OBVIOUS
  <2>1. TypeOK /\ h'[p] # h[p]
    BY Zenon, <1>1 DEF IInv
  <2>2. ASSUME NEW q \in Procs, HandlerStep(q) PROVE ReleaseDevice(p)
    <3>1. q = p
      BY Zenon, <2>1, <2>2, HandlerOwns
    <3> QED
      BY Zenon, <2>2, <3>1 DEF HandlerStep, GetInstance, AttachNewDevice, DetachGetDevice, AttachVolume,
         DetachVolume, Wait, DetachStuck, Reattach, AwaitInitialized, Reply
  <2>3. ASSUME NEW q \in Procs, NEW v \in Volumes, NEW n \in Nodes, NEW op, Start(q, op, v, n)
        PROVE  FALSE
    BY Zenon, <2>1, <2>3 DEF Start, TypeOK
  <2>4. ASSUME Crash PROVE FALSE
    <3>1. h'[p] = Idle
      BY Zenon, <2>4 DEF Crash
    <3> QED
      BY Zenon, <3>1, IdleType
  <2>5. \/ UNCHANGED h
        \/ \E q \in Procs : HandlerStep(q)
        \/ \E q \in Procs, v \in Volumes, n \in Nodes : Start(q, "attach", v, n) \/ Start(q, "detach", v, n)
        \/ Crash
    BY Zenon, <1>1 DEF Next, vars, ControllerPublishVolume, ControllerUnpublishVolume, DeleteVolume,
                 ExpireBadNames, TerminateInstance, FinishAttach, FinishDetach
  <2>6. ReleaseDevice(p)
    BY Zenon, <2>1, <2>2, <2>3, <2>4, <2>5
  <2> QED
    BY Zenon, <1>1, <2>6, ReleaseFrees
<1> QED
  BY <1>1, Inductive, PTL DEF Spec, DetachFreesName
=============================================================================
