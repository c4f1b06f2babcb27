-------------------------- MODULE NameReservation ---------------------------
(***************************************************************************)
(* What deviceManager.inFlight promises, with no word of how: a device     *)
(* name of a node is reserved for at most one volume, a reservation is     *)
(* only ever made, kept or dropped, and a restart drops all of them.       *)
(***************************************************************************)
EXTENDS Naturals

CONSTANTS Nodes, Volumes, NumNames

VARIABLE held   \* held[n][v]: the name reserved for v on n, 0 when there is none

Free == [n \in Nodes |-> [v \in Volumes |-> 0]]

Init == held = Free

Reserve(n, v, d) ==
    /\ held[n][v] = 0
    /\ \A w \in Volumes : held[n][w] # d
    /\ held' = [held EXCEPT ![n][v] = d]

Drop(n, v) ==
    /\ held[n][v] # 0
    /\ held' = [held EXCEPT ![n][v] = 0]

Restart == held' = Free

Next ==
    \/ \E n \in Nodes, v \in Volumes :
          \/ \E d \in 1..NumNames : Reserve(n, v, d)
          \/ Drop(n, v)
    \/ Restart

Spec == Init /\ [][Next]_held
=============================================================================
