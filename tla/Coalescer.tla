----------------------------- MODULE Coalescer ------------------------------
(***************************************************************************)
(* pkg/coalescer, with mergeModifyVolumeRequest as its mergeFunction: the  *)
(* coalescerThread merges the inputs that arrive for a key during `delay`  *)
(* and then executes them once, in a goroutine of its own.  The            *)
(* executeFunction is any function here: ModifyVolume has the real one.    *)
(*                                                                         *)
(* Time is a number of ticks; a timer that has fired is served before the  *)
(* next tick.                                                              *)
(***************************************************************************)
EXTENDS ModifyRequest, Sequences

CONSTANTS Callers,  \* goroutines that call Coalesce
          Keys,     \* volume IDs
          Inputs,   \* the requests the callers make
          Delay     \* delay, in ticks

ASSUME InputsAssumption == Inputs \subseteq Request /\ Inputs # {}

ASSUME DelayAssumption == Delay \in Nat \ {0}

ASSUME SomeKey == Keys # {}

VARIABLES call,           \* the callers: where they are, their key, input and answer
          pendingInputs,  \* pendingInputs: the merged input and the channels to answer
          timer,          \* AfterFunc: for each key, ticks until it fires, or Off
          waited,         \* ticks since the first input of the key was received
          executing       \* the goroutines that run executeFunction and send its result

vars == <<call, pendingInputs, timer, waited, executing>>

Off == -1

Errors == {"Different", "InvalidArgument", "NotFound", "ResourceExhausted", "Internal"}

Answers == {"none", "ok"} \cup Errors

Call == [pc : {"idle", "coalesce", "wait"}, key : Keys, input : Inputs, answer : Answers]

Pending == [input : Request, resultChannels : Seq(Callers)]

\* result is "none" until executeFunction has returned.
Execution == [key : Keys, input : Request, resultChannels : Seq(Callers), result : Answers]

\* A key without an entry in pendingInputs has no channels.
None == [input |-> Nothing, resultChannels |-> <<>>]

TypeOK ==
    /\ call \in [Callers -> Call]
    /\ pendingInputs \in [Keys -> Pending]
    /\ timer \in [Keys -> 0..Delay \cup {Off}]
    /\ waited \in [Keys -> Nat]
    /\ executing \subseteq Execution

Init ==
    /\ call = [c \in Callers |-> [pc |-> "idle", key |-> CHOOSE k \in Keys : TRUE,
                                  input |-> CHOOSE i \in Inputs : TRUE, answer |-> "none"]]
    /\ pendingInputs = [k \in Keys |-> None]
    /\ timer = [k \in Keys |-> Off]
    /\ waited = [k \in Keys |-> 0]
    /\ executing = {}

IsPending(k) == pendingInputs[k].resultChannels # <<>>

-----------------------------------------------------------------------------

\* ControllerExpandVolume and ControllerModifyVolume call Coalesce, which blocks until the
\* coalescerThread receives from inputChannel.
Coalesce(c, k, i) ==
    /\ call[c].pc = "idle"
    /\ call' = [call EXCEPT ![c] = [pc |-> "coalesce", key |-> k, input |-> i, answer |-> "none"]]
    /\ UNCHANGED <<pendingInputs, timer, waited, executing>>

\* The delay runs from the first input.
StartTimer(k) == IF IsPending(k) THEN timer ELSE [timer EXCEPT ![k] = Delay]

\* Wrong: the last input wins, or the channel of a merged input is forgotten.
AddOverwrites(c, k) ==
    [input |-> call[c].input, resultChannels |-> Append(pendingInputs[k].resultChannels, c)]

AddForgets(c, k) ==
    [input |-> IF IsPending(k) THEN Merged(call[c].input, pendingInputs[k].input)
                               ELSE call[c].input,
     resultChannels |-> IF IsPending(k) THEN pendingInputs[k].resultChannels ELSE <<c>>]

\* The entry of k with the input of c merged into it.
Add(c, k) ==
    [input |-> IF IsPending(k) THEN Merged(call[c].input, pendingInputs[k].input)
                               ELSE call[c].input,
     resultChannels |-> Append(pendingInputs[k].resultChannels, c)]

\* coalescerThread receives an input that merges, or is the first one.
Receive(c) ==
    LET k == call[c].key
    IN  /\ call[c].pc = "coalesce"
        /\ IsPending(k) => ~Different(call[c].input, pendingInputs[k].input)
        /\ pendingInputs' = [pendingInputs EXCEPT ![k] = Add(c, k)]
        /\ timer' = StartTimer(k)
        /\ call' = [call EXCEPT ![c].pc = "wait"]
        /\ UNCHANGED <<waited, executing>>

\* Wrong: the input that does not merge is put back until the entry is gone.
RejectPutsBack(c) ==
    LET k == call[c].key
    IN  /\ call[c].pc = "coalesce"
        /\ IsPending(k) /\ Different(call[c].input, pendingInputs[k].input)
        /\ UNCHANGED vars

\* coalescerThread receives an input that does not merge: its caller alone is told.
Reject(c) ==
    LET k == call[c].key
    IN  /\ call[c].pc = "coalesce"
        /\ IsPending(k) /\ Different(call[c].input, pendingInputs[k].input)
        /\ call' = [call EXCEPT ![c].pc = "idle", ![c].answer = "Different"]
        /\ UNCHANGED <<pendingInputs, timer, waited, executing>>

\* coalescerThread receives from timerChannel and spawns the execution.
TimerFires(k) ==
    /\ timer[k] = 0
    /\ executing' = executing \cup
          {[key |-> k, input |-> pendingInputs[k].input,
            resultChannels |-> pendingInputs[k].resultChannels, result |-> "none"]}
    /\ pendingInputs' = [pendingInputs EXCEPT ![k] = None]
    /\ timer' = [timer EXCEPT ![k] = Off]
    /\ waited' = [waited EXCEPT ![k] = 0]
    /\ UNCHANGED call

Tick ==
    /\ \E k \in Keys : timer[k] # Off
    /\ \A k \in Keys : timer[k] # 0
    /\ timer' = [k \in Keys |-> IF timer[k] = Off THEN Off ELSE timer[k] - 1]
    /\ waited' = [k \in Keys |-> IF timer[k] = Off THEN 0 ELSE waited[k] + 1]
    /\ UNCHANGED <<call, pendingInputs, executing>>

\* executeFunction returns r.
Finish(e, r) == executing' = (executing \ {e}) \cup {[e EXCEPT !.result = r]}

Execute(e) ==
    /\ e.result = "none"
    /\ \E r \in Answers \ {"none", "Different"} : Finish(e, r)
    /\ UNCHANGED <<call, pendingInputs, timer, waited>>

\* The execution's goroutine sends the result to the next channel.
Send(e) ==
    LET c == Head(e.resultChannels)
        rest == Tail(e.resultChannels)
    IN  /\ e.result # "none"
        /\ call' = [call EXCEPT ![c].pc = "idle", ![c].answer = e.result]
        /\ executing' = (executing \ {e}) \cup
              (IF rest = <<>> THEN {} ELSE {[e EXCEPT !.resultChannels = rest]})
        /\ UNCHANGED <<pendingInputs, timer, waited>>

Thread == (\E c \in Callers : Receive(c) \/ Reject(c)) \/ (\E k \in Keys : TimerFires(k))

Next ==
    \/ \E c \in Callers, k \in Keys, i \in Inputs : Coalesce(c, k, i)
    \/ Thread
    \/ Tick
    \/ \E e \in executing : Execute(e) \/ Send(e)

Spec == Init /\ [][Next]_vars

Waits(e, c) == \E j \in DOMAIN e.resultChannels : e.resultChannels[j] = c

\* The coalescerThread serves every key and every sender on inputChannel, time passes,
\* and the goroutines run; executeModifyVolumeRequest has a timeout.
Fairness ==
    /\ WF_vars(Tick)
    /\ \A k \in Keys : WF_vars(TimerFires(k))
    /\ \A c \in Callers : /\ WF_vars(Receive(c) \/ Reject(c))
                         /\ WF_vars(\E e \in executing : Waits(e, c) /\ Execute(e))
                         /\ WF_vars(\E e \in executing : Waits(e, c) /\ Send(e))

FairSpec == Spec /\ Fairness

-----------------------------------------------------------------------------
(* Properties *)

Once(p) == \A i, j \in DOMAIN p.resultChannels :
    p.resultChannels[i] = p.resultChannels[j] => i = j

\* No result is lost, none is sent twice: the channel of a caller that waits is in one
\* place and there once, in the entry of a key or in an execution; no other channel is
\* anywhere.
ChannelsInOnePlace ==
    /\ \A c \in Callers : call[c].pc = "wait"
          <=> (\E k \in Keys : Waits(pendingInputs[k], c)) \/ (\E e \in executing : Waits(e, c))
    /\ \A k \in Keys : Once(pendingInputs[k])
    /\ \A e \in executing : Once(e)
    /\ \A c \in Callers, k, l \in Keys :
          Waits(pendingInputs[k], c) /\ Waits(pendingInputs[l], c) => k = l
    /\ \A c \in Callers, d, e \in executing : Waits(d, c) /\ Waits(e, c) => d = e
    /\ \A c \in Callers, k \in Keys, e \in executing :
          ~(Waits(pendingInputs[k], c) /\ Waits(e, c))

\* An entry of pendingInputs has exactly one timer and a timer has an entry: an execution
\* never finds its entry gone, and no entry is left without an execution to come.
TimerWhilePending == \A k \in Keys : IsPending(k) <=> timer[k] # Off

\* Every caller of p asked for key k, and its input has what they asked for in the fields F.
InputServes(calls, p, k, F) ==
    \A j \in DOMAIN p.resultChannels : LET c == p.resultChannels[j] IN
        /\ calls[c].key = k
        /\ \A f \in F : Asks(calls[c].input, f) => p.input[f] = calls[c].input[f]

\* Who waits for a merged input gets what they asked for: for each of the fields that are
\* merged, the input holds the value every one of its callers asked for.
MergeServesCallers ==
    /\ \A k \in Keys : InputServes(call, pendingInputs[k], k, MergedFields)
    /\ \A e \in executing : InputServes(call, e, e.key, MergedFields)

\* "When the delay on the request expires (determined by the time the first request comes
\* in)": later requests for the key never postpone the execution.
DelayFromFirst == \A k \in Keys : waited[k] <= Delay

\* Every caller of Coalesce gets an answer.
CallersAnswered == \A c \in Callers : call[c].pc # "idle" ~> call[c].pc = "idle"

\* "should return an error if the new input cannot be combined with the existing inputs,
\* otherwise return the new merged input": the same for all fields of the request.
MergeServesAllFields ==
    /\ \A k \in Keys : InputServes(call, pendingInputs[k], k, Fields)
    /\ \A e \in executing : InputServes(call, e, e.key, Fields)
=============================================================================
