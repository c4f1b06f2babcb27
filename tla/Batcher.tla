------------------------------ MODULE Batcher -------------------------------
(***************************************************************************)
(* pkg/batcher: callers queue tasks on taskChan, the taskManager goroutine *)
(* collects them in pendingTasks, and a batch is executed in a goroutine   *)
(* of its own when it has maxEntries tasks or when the MaxDelay timer      *)
(* fires.  execFunc is any function of the batch: it fails, or it has a    *)
(* result for some of the tasks.                                           *)
(*                                                                         *)
(* Time is a number of ticks; a timer that has fired is served before the  *)
(* next tick.                                                              *)
(***************************************************************************)
EXTENDS Integers, Sequences, FiniteSets

CONSTANTS Callers,     \* goroutines that call AddTask and wait for their result
          Tasks,       \* the inputs of the callers
          EntryLimits, \* the maxEntries batchers are made with
          MaxDelay     \* maxDelay, in ticks

ASSUME EntryLimitsAssumption == EntryLimits \subseteq Nat \ {0}

ASSUME MaxDelayAssumption == MaxDelay \in Nat \ {0}

ASSUME SomeTask == Tasks # {}

VARIABLES maxEntries,  \* the limit of a batch, and the capacity of taskChan
          call,      \* the callers: where they are and with which task
          taskChan,  \* the channel: the callers that have sent, first in first out
          pending,   \* pendingTasks: the callers whose channels wait for each task
          timer,     \* timerCh: ticks until it fires, or Off
          waited,    \* ticks since the oldest task of pendingTasks was received
          running    \* the batches that execute has been started for

vars == <<maxEntries, call, taskChan, pending, timer, waited, running>>

Off == -1

Results == {"value", "nil", "error"}

\* A caller in "add" is in AddTask, before the send; in "wait" it receives from ch.
Call == [pc : {"idle", "add", "wait"}, task : Tasks]

Idle == [pc |-> "idle", task |-> CHOOSE t \in Tasks : TRUE]

\* out is "none" everywhere until execFunc has returned.
Batch == [tasks : [Tasks -> SUBSET Callers], out : [Tasks -> Results \cup {"none"}]]

NoTasks == [t \in Tasks |-> {}]

Unknown == [t \in Tasks |-> "none"]

TypeOK ==
    /\ maxEntries \in EntryLimits
    /\ call \in [Callers -> Call]
    /\ taskChan \in Seq(Callers) /\ Len(taskChan) <= maxEntries
    /\ pending \in [Tasks -> SUBSET Callers]
    /\ timer \in 0..MaxDelay \cup {Off}
    /\ waited \in Nat
    /\ running \subseteq Batch

Init ==
    /\ maxEntries \in EntryLimits
    /\ call = [c \in Callers |-> Idle]
    /\ taskChan = <<>>
    /\ pending = NoTasks
    /\ timer = Off
    /\ waited = 0
    /\ running = {}

-----------------------------------------------------------------------------
(* The callers *)

\* batchDescribe...: a caller makes a result channel and calls AddTask.
Ask(c, t) ==
    /\ call[c].pc = "idle"
    /\ call' = [call EXCEPT ![c] = [pc |-> "add", task |-> t]]
    /\ UNCHANGED <<taskChan, pending, timer, waited, running>>

\* AddTask blocks while taskChan is full.
AddTask(c) ==
    /\ call[c].pc = "add"
    /\ Len(taskChan) < maxEntries
    /\ taskChan' = Append(taskChan, c)
    /\ call' = [call EXCEPT ![c].pc = "wait"]
    /\ UNCHANGED <<pending, timer, waited, running>>

-----------------------------------------------------------------------------
(* taskManager *)

Distinct(tasks) == Cardinality({t \in Tasks : tasks[t] # {}})

\* exec: the pending tasks become a batch of their own, the timer is dropped.
Exec(tasks) ==
    /\ timer' = Off
    /\ waited' = 0
    /\ running' = running \cup {[tasks |-> tasks, out |-> Unknown]}
    /\ pending' = NoTasks

\* Wrong: the batch is full one task too late.
FullLate(tasks) == Distinct(tasks) > maxEntries

Full(tasks) == Distinct(tasks) = maxEntries

\* Wrong: only a task that is not a duplicate is remembered.
ReceiveOnce(c) ==
    LET t == call[c].task
    IN  IF pending[t] = {} THEN [pending EXCEPT ![t] = {c}] ELSE pending

\* pendingTasks with the channel of c appended to those of its task.
Received(c) == [pending EXCEPT ![call[c].task] = @ \cup {c}]

\* The timer is started, or started again, while there is one task.
StartTimer(tasks) == IF Distinct(tasks) = 1 THEN MaxDelay ELSE timer

Receive ==
    /\ taskChan # <<>>
    /\ taskChan' = Tail(taskChan)
    /\ LET tasks == Received(Head(taskChan))
       IN  IF Full(tasks)
           THEN Exec(tasks)
           ELSE /\ pending' = tasks
                /\ timer' = StartTimer(tasks)
                /\ UNCHANGED <<waited, running>>
    /\ UNCHANGED call

TimerFires ==
    /\ timer = 0
    /\ Exec(pending)
    /\ UNCHANGED <<call, taskChan>>

Tick ==
    /\ timer > 0
    /\ timer' = timer - 1
    /\ waited' = waited + 1
    /\ UNCHANGED <<call, taskChan, pending, running>>

-----------------------------------------------------------------------------
(* execute *)

\* The result of execFunc: an error for every task, or a value for some of them; a task
\* that is missing in resultsMap has the zero value, nil.
Outcomes(tasks) ==
    {out \in [Tasks -> Results \cup {"none"}] :
        \/ \A t \in Tasks : out[t] = "error"
        \/ \A t \in Tasks : out[t] \in {"value", "nil"} /\ (tasks[t] = {} => out[t] = "nil")}

ExecFunc(b) ==
    /\ b.out = Unknown
    /\ \E out \in Outcomes(b.tasks) :
          running' = (running \ {b}) \cup {[b EXCEPT !.out = out]}
    /\ UNCHANGED <<call, taskChan, pending, timer, waited>>

\* The batch without c; when it was the last one, execute returns.
Sent(b, c) ==
    LET rest == [t \in Tasks |-> b.tasks[t] \ {c}]
    IN  IF rest = NoTasks THEN {} ELSE {[b EXCEPT !.tasks = rest]}

\* Wrong: only one of the callers of a task is sent its result.
SendToOne(b, c) ==
    LET t == call[c].task
    IN  /\ b.out[t] # "none"
        /\ c \in b.tasks[t]
        /\ call' = [call EXCEPT ![c] = Idle]
        /\ running' = (running \ {b}) \cup {[d EXCEPT !.out[t] = "none"] : d \in Sent(b, c)}
        /\ UNCHANGED <<taskChan, pending, timer, waited>>

\* execute sends the result of its task to the next caller of the batch.
Send(b, c) ==
    LET t == call[c].task
    IN  /\ b.out # Unknown
        /\ c \in b.tasks[t]
        /\ call' = [call EXCEPT ![c] = Idle]
        /\ running' = (running \ {b}) \cup Sent(b, c)
        /\ UNCHANGED <<taskChan, pending, timer, waited>>

InBatch(b, c) == \E t \in Tasks : c \in b.tasks[t]

Manage == Receive \/ TimerFires

Next ==
    /\ UNCHANGED maxEntries
    /\ \/ \E c \in Callers, t \in Tasks : Ask(c, t)
       \/ \E c \in Callers : AddTask(c)
       \/ Manage
       \/ Tick
       \/ \E b \in running : ExecFunc(b)
       \/ \E b \in running, c \in Callers : Send(b, c)

Spec == Init /\ [][Next]_vars

-----------------------------------------------------------------------------
(* Properties *)

InChan(c) == \E i \in 1..Len(taskChan) : taskChan[i] = c

\* A result is never lost and never sent twice: the channel of a caller that waits is in
\* one place - on taskChan, in pendingTasks, or in one running batch - and there under the
\* caller's own task; the channel of any other caller is nowhere.
ChannelsInOnePlace ==
    /\ \A c \in Callers : call[c].pc = "wait"
          <=> InChan(c) \/ (\E t \in Tasks : c \in pending[t]) \/ (\E b \in running : InBatch(b, c))
    /\ \A i, j \in 1..Len(taskChan) : i # j => taskChan[i] # taskChan[j]
    /\ \A c \in Callers, t \in Tasks : c \in pending[t] => t = call[c].task /\ ~InChan(c)
    /\ \A b \in running, c \in Callers, t \in Tasks : c \in b.tasks[t] =>
          /\ t = call[c].task
          /\ ~InChan(c) /\ c \notin pending[t]
          /\ \A a \in running : a # b => ~InBatch(a, c)

\* Tasks never wait in pendingTasks with no timer to execute them, and no timer outlives
\* the batch it was started for: exec drops the one and empties the other together.
TimerWhilePending == pending # NoTasks <=> timer # Off

\* A batch never asks for more than maxEntries tasks, the limit of the EC2 call it makes.
BatchesBounded ==
    /\ Distinct(pending) < maxEntries
    /\ \A b \in running : Distinct(b.tasks) <= maxEntries

\* Every caller gets its result: no task is left behind by the timer, by a full batch or
\* by a full channel, and a failed execFunc answers its callers too.
CallersAnswered == \A c \in Callers : call[c].pc # "idle" ~> call[c].pc = "idle"

\* "maxDelay is the maximum duration the Batcher waits before executing a batch operation,
\* regardless of how many tasks are in the batch."
MaxDelayKept == waited <= MaxDelay
=============================================================================
