--------------------------- MODULE VolumeCreation ---------------------------
(***************************************************************************)
(* ControllerService.CreateVolume and cloud.CreateDisk: how the driver     *)
(* makes CreateVolume idempotent.  EC2's client tokens do most of it: a    *)
(* call with a token that was used before returns the volume that was made *)
(* with it.  But a volume may fail after the call that created it has      *)
(* returned, and then its token is burned: every further use is an         *)
(* IdempotentParameterMismatch.  The driver then moves on to the next      *)
(* token of the name, whose number it keeps in an expiring cache.          *)
(*                                                                         *)
(* A token is made of a volume name and a number, and EC2 makes at most    *)
(* one volume with it, so <<name, number>> also identifies the volume.     *)
(* EC2 remembers a token for longer than the sidecar retries (12 hours).   *)
(***************************************************************************)
EXTENDS Naturals, FiniteSets

CONSTANTS Procs,      \* goroutines that serve RPCs
          Names,      \* names of volumes, given by the external-provisioner
          Options,    \* what a request asks for: size, type, zone, source, ...
          MaxToken,   \* bound: tokens of one name
          MaxLosses   \* bound: how often the token numbers are lost

ASSUME BoundsAssumption == MaxToken \in Nat \ {0} /\ MaxLosses \in Nat

VARIABLES call,       \* the RPC a goroutine serves, or served last
          inFlight,   \* InFlight: names with a CreateVolume in progress
          latest,     \* latestClientTokens: 0 when the cache has no number
          vol,        \* EC2: the volume made with each token
          answered,   \* history: the volumes answered for each name
          losses

vars == <<call, inFlight, latest, vol, answered, losses>>

Tokens == 1..MaxToken

Volume == [state : {"none", "creating", "available", "failed"}, opts : Options]

Call == [pc : {"idle", "create", "describe", "wait"},
         name : Names, opts : Options, id : Tokens]

TypeOK ==
    /\ call \in [Procs -> Call]
    /\ inFlight \in SUBSET Names
    /\ latest \in [Names -> {0} \cup 2..MaxToken]
    /\ vol \in [Names -> [Tokens -> Volume]]
    /\ answered \in [Names -> SUBSET Tokens]
    /\ losses \in 0..MaxLosses

Init ==
    /\ call \in [Procs -> {c \in Call : c.pc = "idle" /\ c.id = 1}]
    /\ inFlight = {}
    /\ latest = [n \in Names |-> 0]
    /\ vol \in [Names -> {[t \in Tokens |-> [state |-> "none", opts |-> o]] : o \in Options}]
    /\ answered = [n \in Names |-> {}]
    /\ losses = 0

-----------------------------------------------------------------------------
(* EC2 *)

Live(n, t) == vol[n][t].state \in {"creating", "available"}

Becomes(n, t, state) ==
    /\ vol[n][t].state = "creating"
    /\ vol' = [vol EXCEPT ![n][t].state = state]
    /\ UNCHANGED <<call, inFlight, latest, answered, losses>>

BecomesAvailable(n, t) == Becomes(n, t, "available")

\* The asynchronous failure, which burns the token.
CreationFails(n, t) == t < MaxToken /\ Becomes(n, t, "failed")

\* A CreateVolume or CopyVolumes call with this token can succeed, and makes the volume
\* unless it was made before.
Accepts(n, t, o) ==
    \/ vol[n][t].state = "none"
    \/ Live(n, t) /\ vol[n][t].opts = o

Created(n, t, o) ==
    IF vol[n][t].state = "none"
    THEN [vol EXCEPT ![n][t] = [state |-> "creating", opts |-> o]]
    ELSE vol

-----------------------------------------------------------------------------
(* The handler *)

Goto(p, pc) == call' = [call EXCEPT ![p].pc = pc]

\* The handler returns: the deferred InFlight.Delete.
Return(p) == Goto(p, "idle") /\ inFlight' = inFlight \ {call[p].name}

CreateVolume(p, n, o) ==
    /\ call[p].pc = "idle"
    /\ n \notin inFlight
    /\ inFlight' = inFlight \cup {n}
    /\ call' = [call EXCEPT ![p] = [pc |-> "create", name |-> n, opts |-> o, id |-> 1]]
    /\ UNCHANGED <<latest, vol, answered, losses>>

\* The number of the client token.
TokenNumber(n) == IF latest[n] = 0 THEN 1 ELSE latest[n]

CreateSucceeds(p) ==
    LET n == call[p].name
        t == TokenNumber(n)
    IN  /\ call[p].pc = "create"
        /\ Accepts(n, t, call[p].opts)
        /\ vol' = Created(n, t, call[p].opts)
        /\ call' = [call EXCEPT ![p].pc = "wait", ![p].id = t]
        /\ UNCHANGED <<inFlight, latest, answered, losses>>

NextToken(n) == [latest EXCEPT ![n] = TokenNumber(n) + 1]

\* Wrong: any error moves the number on.
CreateFailsNextToken(p) ==
    LET n == call[p].name
    IN  /\ call[p].pc = "create"
        /\ TokenNumber(n) < MaxToken
        /\ \/ UNCHANGED vol
           \/ /\ Accepts(n, TokenNumber(n), call[p].opts)
              /\ vol' = Created(n, TokenNumber(n), call[p].opts)
        /\ latest' = NextToken(n)
        /\ Return(p)
        /\ UNCHANGED <<answered, losses>>

\* Another error: the request is invalid, a source is not found, the call is throttled or
\* times out.  When it is the answer that is lost, EC2 may have made the volume.
CreateFails(p) ==
    LET n == call[p].name
    IN  /\ call[p].pc = "create"
        /\ \/ UNCHANGED vol
           \/ /\ Accepts(n, TokenNumber(n), call[p].opts)
              /\ vol' = Created(n, TokenNumber(n), call[p].opts)
        /\ Return(p)
        /\ UNCHANGED <<latest, answered, losses>>

\* Wrong: the number stays.
MismatchKeepsToken(p) ==
    LET n == call[p].name
    IN  /\ call[p].pc = "create"
        /\ ~Accepts(n, TokenNumber(n), call[p].opts)
        /\ Return(p)
        /\ UNCHANGED <<latest, vol, answered, losses>>

\* IdempotentParameterMismatch: the token is burned, or was used with other options.
Mismatch(p) ==
    LET n == call[p].name
    IN  /\ call[p].pc = "create"
        /\ ~Accepts(n, TokenNumber(n), call[p].opts)
        /\ TokenNumber(n) < MaxToken
        /\ latest' = NextToken(n)
        /\ Return(p)
        /\ UNCHANGED <<vol, answered, losses>>

\* VolumeLimitExceeded, which EC2 returns for a token it knows as well.
LimitExceeded(p) ==
    /\ call[p].pc = "create"
    /\ Goto(p, "describe")
    /\ UNCHANGED <<inFlight, latest, vol, answered, losses>>

\* The volumes with the name in their tag; one whose creation failed may still be shown.
DescribeByName(p) ==
    LET n == call[p].name
    IN  /\ call[p].pc = "describe"
        /\ \E gone \in SUBSET {t \in Tokens : vol[n][t].state = "failed"} :
             LET found == {t \in Tokens : Live(n, t)} \cup gone
             IN  IF Cardinality(found) = 1
                 THEN /\ call' = [call EXCEPT ![p].pc = "wait",
                                              ![p].id = CHOOSE t \in found : TRUE]
                      /\ UNCHANGED inFlight
                 ELSE Return(p)            \* ErrMultiDisks, ErrLimitExceeded
        /\ UNCHANGED <<latest, vol, answered, losses>>

DescribeFails(p) ==
    /\ call[p].pc = "describe"
    /\ Return(p)
    /\ UNCHANGED <<latest, vol, answered, losses>>

\* Wrong: any state will do.
CreatedAtOnce(p) == TRUE

\* waitForVolume sees the volume available (or already in use).
IsCreated(p) == vol[call[p].name][call[p].id].state = "available"

WaitSucceeds(p) ==
    /\ call[p].pc = "wait"
    /\ IsCreated(p)
    /\ answered' = [answered EXCEPT ![call[p].name] = @ \cup {call[p].id}]
    /\ Return(p)
    /\ UNCHANGED <<latest, vol, losses>>

\* The backoff ends, the context expires or the volume is gone.
WaitFails(p) ==
    /\ call[p].pc = "wait"
    /\ Return(p)
    /\ UNCHANGED <<latest, vol, answered, losses>>

\* The expiring cache drops the number an hour after it was last set or read: Get resets the timer
\* too, so that retries of a call keep it.
Expire(n) ==
    /\ latest[n] # 0
    /\ losses < MaxLosses
    /\ losses' = losses + 1
    /\ latest' = [latest EXCEPT ![n] = 0]
    /\ UNCHANGED <<call, inFlight, vol, answered>>

\* The controller crashes and starts again.
Restart ==
    /\ losses < MaxLosses
    /\ losses' = losses + 1
    /\ call' = [p \in Procs |-> [call[p] EXCEPT !.pc = "idle"]]
    /\ inFlight' = {}
    /\ latest' = [n \in Names |-> 0]
    /\ UNCHANGED <<vol, answered>>

CreateDisk(p) ==
    \/ CreateSucceeds(p)
    \/ CreateFails(p)
    \/ Mismatch(p)
    \/ LimitExceeded(p)
    \/ DescribeByName(p)
    \/ DescribeFails(p)
    \/ WaitSucceeds(p)
    \/ WaitFails(p)

Next ==
    \/ \E p \in Procs, n \in Names, o \in Options : CreateVolume(p, n, o)
    \/ \E p \in Procs : CreateDisk(p)
    \/ \E n \in Names, t \in Tokens : BecomesAvailable(n, t) \/ CreationFails(n, t)
    \/ \E n \in Names : Expire(n)
    \/ Restart

Spec == Init /\ [][Next]_vars

-----------------------------------------------------------------------------
(* Properties *)

\* CreateVolume "should create a new volume only when such volume does not exist": a name
\* never has two volumes in EC2, of which the provisioner could only know one, whatever
\* fails, is retried or is forgotten on the way.
OneVolume ==
    \A n \in Names : \A s, t \in Tokens : Live(n, s) /\ Live(n, t) => s = t

\* "A CSI call with the same parameters will always return the same result": all successful
\* calls for a name answer the same volume, and it is still there.
SameAnswer ==
    \A n \in Names : \A s, t \in answered[n] : s = t /\ vol[n][s].state = "available"
=============================================================================
