--------------------------- MODULE ExpiringCache ----------------------------
(***************************************************************************)
(* The expiring cache (pkg/expiringcache): a map whose entries have a      *)
(* timer that is set again by every access.  A timer that goes off starts  *)
(* a goroutine, which deletes what is at the key by the time it has the    *)
(* mutex, whether or not that is still the entry of the timer.  How long   *)
(* the delay is does not matter: a timer that runs may go off.             *)
(***************************************************************************)
EXTENDS Naturals, FiniteSets

CONSTANTS Keys, Values,
          MaxTimers,   \* bound: timers of a key
          MaxLate      \* bound: goroutines of a timer that wait for the mutex

ASSUME TimersAssumption == MaxTimers \in Nat \ {0} /\ MaxLate \in Nat \ {0}

Timers == 1..MaxTimers

VARIABLES values,   \* the map: a value and its timer, or timer 0 where there is no entry
          armed,    \* the timers of each key that are running
          late,     \* how many goroutines of each timer wait for the mutex
          touched   \* history: the last access of the entry was after its timer went off

cacheVars == <<values, armed, late, touched>>

Absent == [value |-> CHOOSE v \in Values : TRUE, timer |-> 0]

CacheTypeOK ==
    /\ values \in [Keys -> [value : Values, timer : Timers \cup {0}]]
    /\ armed \in [Keys -> SUBSET Timers]
    /\ late \in [Keys -> [Timers -> 0..MaxLate]]
    /\ touched \in [Keys -> BOOLEAN]

CacheInit ==
    /\ values = [k \in Keys |-> Absent]
    /\ armed = [k \in Keys |-> {}]
    /\ late = [k \in Keys |-> [t \in Timers |-> 0]]
    /\ touched = [k \in Keys |-> FALSE]

Present(k) == values[k].timer # 0

\* The accesses to an entry that is there.
Reset(k) ==
    /\ armed' = [armed EXCEPT ![k] = @ \cup {values[k].timer}]
    /\ touched' = [touched EXCEPT ![k] = late[k][values[k].timer] > 0]
    /\ UNCHANGED late

\* What it returns is values[k].
Get(k) ==
    IF Present(k) THEN Reset(k) /\ UNCHANGED values ELSE UNCHANGED cacheVars

\* Wrong: an entry that replaces one is stored without a timer that runs.
SetStopped(k, v) ==
    IF Present(k)
    THEN /\ values' = [values EXCEPT ![k].value = v]
         /\ armed' = [armed EXCEPT ![k] = @ \ {values[k].timer}]
         /\ UNCHANGED <<late, touched>>
    ELSE \E t \in Timers \ armed[k] :
           /\ late[k][t] = 0
           /\ values' = [values EXCEPT ![k] = [value |-> v, timer |-> t]]
           /\ armed' = [armed EXCEPT ![k] = @ \cup {t}]
           /\ touched' = [touched EXCEPT ![k] = FALSE]
           /\ UNCHANGED late

\* A new entry has a new timer; one that is neither running nor late serves for it.
Set(k, v) ==
    IF Present(k)
    THEN Reset(k) /\ values' = [values EXCEPT ![k].value = v]
    ELSE \E t \in Timers \ armed[k] :
           /\ late[k][t] = 0
           /\ values' = [values EXCEPT ![k] = [value |-> v, timer |-> t]]
           /\ armed' = [armed EXCEPT ![k] = @ \cup {t}]
           /\ touched' = [touched EXCEPT ![k] = FALSE]
           /\ UNCHANGED late

\* The timer of the entry keeps running.
Remove(k) ==
    /\ values' = [values EXCEPT ![k] = Absent]
    /\ touched' = [touched EXCEPT ![k] = FALSE]
    /\ UNCHANGED <<armed, late>>

\* A timer goes off and its goroutine starts.
GoOff(k, t) ==
    /\ t \in armed[k] /\ late[k][t] < MaxLate
    /\ armed' = [armed EXCEPT ![k] = @ \ {t}]
    /\ late' = [late EXCEPT ![k][t] = @ + 1]
    /\ touched' = [touched EXCEPT ![k] = @ /\ t # values[k].timer]
    /\ UNCHANGED values

\* That goroutine has the mutex.
Delete(k, t) ==
    /\ late[k][t] > 0
    /\ late' = [late EXCEPT ![k][t] = @ - 1]
    /\ values' = [values EXCEPT ![k] = Absent]
    /\ touched' = [touched EXCEPT ![k] = FALSE]
    /\ UNCHANGED armed

Clock(k, t) == GoOff(k, t) \/ Delete(k, t)

-----------------------------------------------------------------------------
(* Properties *)

\* Nothing is left in the cache for ever: whatever the order of accesses, timers and their
\* goroutines, an entry has a timer that runs or a goroutine that is about to delete it.
EntriesExpire ==
    \A k \in Keys : Present(k) =>
        values[k].timer \in armed[k] \/ late[k][values[k].timer] > 0

\* "automatically removes objects that are not accessed for a configurable delay": what an
\* expiry removes has not been accessed since its timer went off.  Refuted: by an access
\* between the timer and the mutex, and by a timer that outlives a removed entry.
ExpiresUnused ==
    [][\A k \in Keys, t \in Timers :
         Delete(k, t) /\ Present(k) => values[k].timer = t /\ ~touched[k]]_cacheVars
=============================================================================
