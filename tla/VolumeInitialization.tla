------------------------ MODULE VolumeInitialization ------------------------
(***************************************************************************)
(* ControllerPublishVolume for volumes that must not be used before they   *)
(* are initialized: the loop around IsVolumeInitialized with its cache of  *)
(* what DescribeVolumeStatus said and its fast and slow batches.  The      *)
(* caches of IDs that are likely not found have the same implementation    *)
(* and are the only ones with a Remove: a behaviour is about one or the    *)
(* other cache.                                                            *)
(***************************************************************************)
EXTENDS ExpiringCache

CONSTANTS Callers,   \* publishes: each is to a node of its own
          Volumes,
          ListsState \* EC2 lists the initialization state of every volume it initializes

ASSUME ListsStateAssumption == ListsState \in BOOLEAN

ASSUME CacheAssumption ==
    Volumes # {} /\ Keys = Volumes /\ Values = {"initialized", "estimate", "slow", "bad"}

VARIABLES which,   \* the cache this is about
          call,    \* the publishes
          status   \* EC2: "initializing", "late" when it is initialized and may not say so
                   \* yet, "initialized"

publishVars == <<values, armed, late, touched, which, call, status>>

NoPublish == [pc |-> "idle", vol |-> CHOOSE v \in Volumes : TRUE, asap |-> FALSE, said |-> "none",
              done |-> FALSE, ok |-> FALSE]

\* `asap`: which batcher; `said`: the status item; `done`: the context is.
PublishTypeOK ==
    /\ CacheTypeOK
    /\ which \in {"volumeInitializations", "likelyNotFoundVolumeIDs"}
    /\ call \in [Callers -> [pc : {"idle", "look", "wait", "describe", "parse"}, vol : Volumes,
                             asap : BOOLEAN,
                             said : {"none", "initialized", "other", "estimate", "slow"},
                             done : BOOLEAN, ok : BOOLEAN]]
    /\ status \in [Volumes -> {"initializing", "late", "initialized"}]

PublishInit ==
    /\ CacheInit
    /\ which \in {"volumeInitializations", "likelyNotFoundVolumeIDs"}
    /\ call = [c \in Callers |-> NoPublish]
    /\ status \in [Volumes -> {"initializing", "initialized"}]

Go(c, pc) == call' = [call EXCEPT ![c].pc = pc]

\* The publish is answered.
Answer(c, ok) == call' = [call EXCEPT ![c] = [NoPublish EXCEPT !.vol = call[c].vol, !.ok = ok]]

-----------------------------------------------------------------------------
(* ControllerPublishVolume with blockAttachUntilInitialized, after AttachDisk *)

Publish(c, v) ==
    /\ which = "volumeInitializations"
    /\ call[c].pc = "idle"
    /\ call' = [call EXCEPT ![c] = [NoPublish EXCEPT !.pc = "look", !.vol = v]]
    /\ UNCHANGED <<values, armed, late, touched, which, status>>

\* The four cases of IsVolumeInitialized.
IsVolumeInitialized(c) ==
    LET v == call[c].vol
        known == values[v].value
    IN  /\ call[c].pc = "look"
        /\ Get(v)
        /\ IF ~Present(v)
           THEN call' = [call EXCEPT ![c].pc = "describe", ![c].asap = TRUE]
           ELSE CASE known = "initialized" -> Answer(c, TRUE)
                  [] known = "slow" -> call' = [call EXCEPT ![c].pc = "describe", ![c].asap = FALSE]
                  [] known = "estimate" -> Go(c, "wait")
        /\ UNCHANGED <<which, status>>

\* The estimated time has come, or the context is done: time.After and ctx.Done() may both
\* be ready, and the context is looked at in either case.
WaitUntilTimeOrContext(c) ==
    /\ call[c].pc = "wait"
    /\ IF call[c].done THEN Answer(c, FALSE)
       ELSE call' = [call EXCEPT ![c].pc = "describe", ![c].asap = TRUE]
    /\ UNCHANGED <<values, armed, late, touched, which, status>>

\* What EC2 may say: an estimate is there for volumes with an initialization rate; "other" is
\* an item whose details are of other checks, without the initialization state.
Says(v) ==
    CASE status[v] = "initializing" -> {"estimate", "slow"} \cup (IF ListsState THEN {} ELSE {"other"})
      [] status[v] = "late" -> {"estimate", "slow", "initialized", "other"}
      [] status[v] = "initialized" -> {"initialized", "other"}

\* describeVolumeStatus: a batch with the volume is executed; the result is on its way.
DescribeVolumeStatus(c) ==
    /\ call[c].pc = "describe"
    /\ \E said \in Says(call[c].vol) : call' = [call EXCEPT ![c].pc = "parse", ![c].said = said]
    /\ UNCHANGED <<values, armed, late, touched, which, status>>

\* The call fails, or the item of the volume is missing or has no details.
DescribeVolumeStatusFails(c) ==
    /\ call[c].pc = "describe"
    /\ Answer(c, FALSE)
    /\ UNCHANGED <<values, armed, late, touched, which, status>>

\* Wrong: only a status with an estimate is taken for "initializing"; or every status is.
InitializingByEstimate(said) == said = "estimate"

InitializingAlways(said) == TRUE

IsVolumeStatusInitializing(said) == said \in {"estimate", "slow"}

\* The rest of IsVolumeInitialized, and the next round of the loop if it says no.
Parse(c) ==
    LET said == call[c].said
    IN  /\ call[c].pc = "parse"
        /\ Set(call[c].vol, IF ~IsVolumeStatusInitializing(said) THEN "initialized"
                            ELSE IF said = "estimate" THEN said ELSE "slow")
        /\ IF IsVolumeStatusInitializing(said)
           THEN call' = [call EXCEPT ![c].pc = "look", ![c].said = "none", ![c].asap = FALSE]
           ELSE Answer(c, TRUE)
        /\ UNCHANGED <<which, status>>

\* The deadline of the call passes.
ContextDone(c) ==
    /\ call[c].pc # "idle" /\ ~call[c].done
    /\ call' = [call EXCEPT ![c].done = TRUE]
    /\ UNCHANGED <<values, armed, late, touched, which, status>>

-----------------------------------------------------------------------------
(* EC2, the other users of the cache, and time *)

Initialize(v) ==
    /\ status[v] # "initialized"
    /\ status' = [status EXCEPT ![v] = IF @ = "initializing" THEN "late" ELSE "initialized"]
    /\ UNCHANGED <<values, armed, late, touched, which, call>>

\* The batched Describe calls look an ID up, remember it and forget it.
UseID(v) ==
    /\ which = "likelyNotFoundVolumeIDs"
    /\ Get(v) \/ Set(v, "bad") \/ (Present(v) /\ Remove(v))
    /\ UNCHANGED <<which, call, status>>

Pass(k) == (\E t \in Timers : Clock(k, t)) /\ UNCHANGED <<which, call, status>>

Step(c) ==
    \/ IsVolumeInitialized(c) \/ WaitUntilTimeOrContext(c)
    \/ DescribeVolumeStatus(c) \/ DescribeVolumeStatusFails(c) \/ Parse(c)

PublishNext ==
    \/ \E c \in Callers : Step(c) \/ ContextDone(c) \/ \E v \in Volumes : Publish(c, v)
    \/ \E v \in Volumes : Initialize(v) \/ UseID(v) \/ Pass(v)

PublishSpec == PublishInit /\ [][PublishNext]_publishVars

\* Goroutines run, batches are executed, timers go off and the mutex is handed out in order;
\* EC2 finishes the initialization and says so.  Strong fairness of Parse is for the bound of
\* timers, which may keep Set waiting for one.
PublishFairSpec ==
    /\ PublishSpec
    /\ \A c \in Callers : WF_publishVars(Step(c)) /\ SF_publishVars(Parse(c))
    /\ \A v \in Volumes : WF_publishVars(Initialize(v)) /\ WF_publishVars(Pass(v))

-----------------------------------------------------------------------------
(* Properties *)

\* A publish that was to wait for the initialization succeeds only when EC2 has initialized
\* the volume, through the cache, its expiry and answers that arrive late.  With ListsState
\* only: isVolumeStatusInitializing takes an item without the state for "initialized".
PublishedInitialized ==
    \A c \in Callers : call[c].ok => status[call[c].vol] # "initializing"

\* The loop in ControllerPublishVolume ends once EC2 says that the volume is initialized,
\* even if the cache has an older answer.
PublishEnds == \A c \in Callers : call[c].pc # "idle" ~> call[c].pc = "idle"

\* Refuted without Initialize: a publish whose context is done goes on for as long as EC2
\* gives no estimate, with its volume locked against retries.
EndsWithContext ==
    \A c \in Callers : call[c].done ~> call[c].pc = "idle"
=============================================================================
