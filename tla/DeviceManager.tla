--------------------------- MODULE DeviceManager ---------------------------
(***************************************************************************)
(* pkg/cloud/devicemanager: which device name (and which EBS card) a       *)
(* volume gets on an instance.                                             *)
(*                                                                         *)
(* A device name is its position in deviceNames (device_names.go); the     *)
(* empty Go string is NoName.  A nil card index is NoCard.  Both the block *)
(* device mappings of one instance, as DescribeInstances reported them,    *)
(* and the manager's inFlight map for that instance are functions          *)
(*     [Volumes -> Entry]                                                  *)
(* where NoEntry says that the volume is not there.  The operations run    *)
(* under deviceManager.mux, so each one is a single step of its caller.    *)
(***************************************************************************)
EXTENDS Integers, FiniteSets

CONSTANTS Volumes,    \* volume IDs
          NumNames,   \* length of deviceNames
          NumCards    \* EBS cards of the instance type

ASSUME VolumesAssumption == IsFiniteSet(Volumes)

ASSUME NumNamesAssumption == NumNames \in Nat

ASSUME NumCardsAssumption == NumCards \in Nat \ {0}

Names == 1..NumNames

NoName == 0

Cards == 0..(NumCards - 1)

NoCard == -1

Entry == [name : Names \cup {NoName}, card : Cards \cup {NoCard}]

NoEntry == [name |-> NoName, card |-> NoCard]

Device == [path : Names \cup {NoName}, assigned : BOOLEAN,
           card : Cards \cup {NoCard}]

NoDevice == [path |-> NoName, assigned |-> FALSE, card |-> NoCard]

(***************************************************************************)
(* getDeviceNamesInUse: the map from name to volume, as a set of pairs.    *)
(* maps.Copy lets an in-flight name replace the same name of the mappings. *)
(***************************************************************************)
GetNames(entries) == {<<entries[v].name, v>> : v \in {w \in Volumes : entries[w].name # NoName}}

\* Wrong: the in-flight names are not copied over the mappings.
GetDeviceNamesInUseNoInFlight(bdm, entries) == GetNames(bdm)

GetDeviceNamesInUse(bdm, entries) ==
    LET copied == GetNames(entries)
    IN  copied \cup {p \in GetNames(bdm) : \A q \in copied : q[1] # p[1]}

\* getPath ranges over a Go map: every name that holds the volume may come first.
GetPath(inUse, v) == {p[1] : p \in {q \in inUse : q[2] = v}}

(***************************************************************************)
(* nameAllocator.GetNext: the first name that is neither in use nor likely *)
(* bad; failing that, any likely bad name that is not in use (sync.Map     *)
(* ranges in no particular order); the empty set is the error.             *)
(***************************************************************************)
GetNext(existing, bad) ==
    LET good == {d \in Names : d \notin existing /\ d \notin bad}
    IN  IF good # {} THEN {d \in good : \A e \in good : d <= e}
                     ELSE {d \in bad : d \notin existing}

(***************************************************************************)
(* getCardCounts and getNextCardIndex: the least occupied card, the lower  *)
(* index on a tie.  A volume of the mappings that has a card is not        *)
(* counted again when it is also in flight.                                *)
(***************************************************************************)
GetCardCount(bdm, entries, c) ==
      Cardinality({v \in Volumes : bdm[v].card = c})
    + Cardinality({v \in Volumes : entries[v].card = c /\ bdm[v].card = NoCard})

GetNextCardIndex(bdm, entries) ==
    IF NumCards <= 1 THEN NoCard
    ELSE LET least == {c \in Cards : \A e \in Cards :
                          GetCardCount(bdm, entries, c) <= GetCardCount(bdm, entries, e)}
         IN  CHOOSE c \in least : \A e \in least : c <= e

\* The devices NewDevice may return; the empty set is its error.
NewDevice(bdm, entries, v, bad) ==
    LET inUse == GetDeviceNamesInUse(bdm, entries)
        paths == GetPath(inUse, v)
    IN  IF paths # {}
        THEN {[path |-> d, assigned |-> TRUE, card |-> bdm[v].card] : d \in paths}
        ELSE {[path |-> d, assigned |-> FALSE, card |-> GetNextCardIndex(bdm, entries)] :
                 d \in GetNext({p[1] : p \in inUse}, bad)}

\* inFlight.Add, which NewDevice calls for a device it has just allocated.
AddInFlight(entries, v, dev) ==
    IF dev.assigned THEN entries
    ELSE [entries EXCEPT ![v] = [name |-> dev.path, card |-> dev.card]]

\* Wrong: a volume that is only in flight has no device.
GetDeviceReported(bdm, entries, v) ==
    IF bdm[v].name # NoName
    THEN {[path |-> bdm[v].name, assigned |-> TRUE, card |-> bdm[v].card]}
    ELSE {NoDevice}

GetDevice(bdm, entries, v) ==
    LET paths == GetPath(GetDeviceNamesInUse(bdm, entries), v)
    IN  IF paths # {}
        THEN {[path |-> d, assigned |-> TRUE, card |-> bdm[v].card] : d \in paths}
        ELSE {NoDevice}

\* Wrong: the entries of the whole instance are deleted.
ReleaseInstance(entries, v, path) == [w \in Volumes |-> NoEntry]

\* release: nothing when the volume is not in flight, an error (and no change) when
\* it is in flight under another name.
Release(entries, v, path) ==
    IF entries[v].name # NoName /\ entries[v].name = path
    THEN [entries EXCEPT ![v] = NoEntry]
    ELSE entries
=============================================================================
