-------------------------- MODULE BatchedDescribe ---------------------------
(***************************************************************************)
(* The batched Describe calls of pkg/cloud: execBatchDescribeVolumes,      *)
(* execBatchDescribeInstances and execBatchDescribeSnapshots as the        *)
(* execFunc of a Batcher, with their cache of IDs that are likely not      *)
(* found.  EC2 fails a whole call when one of its IDs does not exist and   *)
(* names missing IDs in the error; the driver remembers those and asks for *)
(* them one at a time in later batches.                                    *)
(*                                                                         *)
(* Tasks are IDs.  The tag batchers, whose filters never fail, and the     *)
(* modification and status batchers, which have no cache, behave as        *)
(* Batcher says.                                                           *)
(***************************************************************************)
EXTENDS Batcher

VARIABLES exists,   \* EC2: the IDs it knows of at the moment
          bad,      \* likelyNotFound...IDs
          retries,  \* batches that are asking for their bad IDs one by one: `left` are
                    \* the IDs still to be asked for, `found` those with an answer
          was       \* history: was the caller's ID there, was it gone, since it asked

describeVars == <<maxEntries, exists, bad, retries, was>>

allVars == <<maxEntries, call, taskChan, pending, timer, waited, running, exists, bad, retries, was>>

DescribeInit ==
    /\ Init
    /\ exists \in SUBSET Tasks
    /\ bad = {}
    /\ retries = {}
    /\ was = [c \in Callers |-> {}]

-----------------------------------------------------------------------------
(* EC2 and the cache *)

State(S, t) == IF t \in S THEN {"there"} ELSE {"gone"}

\* A resource is created, deleted, or becomes visible after its creation.
Change(t) ==
    /\ exists' = (exists \ {t}) \cup ({t} \ exists)
    /\ was' = [c \in Callers |-> IF call[c].pc # "idle" /\ call[c].task = t
                                 THEN was[c] \cup State(exists', t) ELSE was[c]]
    /\ UNCHANGED <<maxEntries, call, taskChan, pending, timer, waited, running, bad, retries>>

\* The expiring cache drops an ID nobody asked for in a while.
Expire(t) ==
    /\ t \in bad
    /\ bad' = bad \ {t}
    /\ UNCHANGED <<maxEntries, call, taskChan, pending, timer, waited, running, exists, retries, was>>

-----------------------------------------------------------------------------
(* execBatchDescribe... *)

InputOf(b) == {t \in Tasks : b.tasks[t] # {}}

\* execFunc returns: result for the IDs in `found`, nil for the rest; or an error.
Return(b, out) == running' = (running \ {b}) \cup {[b EXCEPT !.out = out]}

\* Wrong: every ID has a result.
AnswersAll(b, found) == [t \in Tasks |-> IF t \in InputOf(b) THEN "value" ELSE "nil"]

Answers(b, found) == [t \in Tasks |-> IF t \in found THEN "value" ELSE "nil"]

\* removeLikelyBadIds: the IDs that are not in the cache.
GoodIds(b) == InputOf(b) \ bad

\* Before the first call, the one for the good IDs.
Describing(b) == b.out = Unknown /\ \A r \in retries : r.tasks # b.tasks

\* Wrong: the call is made without a good ID too, and EC2 describes everything it has.
DescribeGoodUnguarded(b) ==
    LET good == GoodIds(b)
        left == InputOf(b) \ good
        found == IF good = {} THEN exists ELSE good
    IN  /\ Describing(b)
        /\ good \subseteq exists
        /\ IF left = {}
           THEN Return(b, Answers(b, found)) /\ UNCHANGED retries
           ELSE /\ retries' = retries \cup {[tasks |-> b.tasks, left |-> left, found |-> found]}
                /\ UNCHANGED running
        /\ UNCHANGED <<maxEntries, call, taskChan, pending, timer, waited, exists, bad, was>>

\* The call succeeds, or there was no good ID to ask for.
DescribeGood(b) ==
    LET good == GoodIds(b)
        left == InputOf(b) \ good
    IN  /\ Describing(b)
        /\ good \subseteq exists
        /\ IF left = {}
           THEN Return(b, Answers(b, good)) /\ UNCHANGED retries
           ELSE /\ retries' = retries \cup {[tasks |-> b.tasks, left |-> left, found |-> good]}
                /\ UNCHANGED running
        /\ UNCHANGED <<maxEntries, call, taskChan, pending, timer, waited, exists, bad, was>>

\* The call fails because IDs are missing: those the error names are remembered.
DescribeMissing(b) ==
    LET missing == GoodIds(b) \ exists
    IN  /\ Describing(b)
        /\ \E named \in SUBSET missing \ {{}} : bad' = bad \cup named
        /\ Return(b, [t \in Tasks |-> "error"])
        /\ UNCHANGED <<maxEntries, call, taskChan, pending, timer, waited, exists, retries, was>>

\* The call fails for another reason (throttling, the 30 s timeout).
DescribeFails(b) ==
    /\ Describing(b)
    /\ GoodIds(b) # {}
    /\ Return(b, [t \in Tasks |-> "error"])
    /\ UNCHANGED <<maxEntries, call, taskChan, pending, timer, waited, exists, bad, retries, was>>

\* One bad ID is asked for by itself: it is there again and leaves the cache, or it is
\* missing, or the call fails; the last two are only logged.
DescribeBad(r, t) ==
    LET b == [tasks |-> r.tasks, out |-> Unknown]
        left == r.left \ {t}
    IN  /\ t \in r.left
        /\ \E here \in {TRUE, FALSE} :
             /\ here => t \in exists
             /\ bad' = IF here THEN bad \ {t} ELSE bad
             /\ LET found == IF here THEN r.found \cup {t} ELSE r.found
                IN  IF left = {}
                    THEN /\ retries' = retries \ {r}
                         /\ Return(b, Answers(b, found))
                    ELSE /\ retries' = (retries \ {r})
                                          \cup {[r EXCEPT !.left = left, !.found = found]}
                         /\ UNCHANGED running
        /\ UNCHANGED <<maxEntries, call, taskChan, pending, timer, waited, exists, was>>

DescribeIds(b) == DescribeGood(b) \/ DescribeMissing(b) \/ DescribeFails(b)

Describe ==
    \/ \E b \in running : DescribeIds(b)
    \/ \E r \in retries, t \in Tasks : DescribeBad(r, t)

\* A result is sent to c, which stops waiting.
Answer(c) ==
    /\ \E b \in running : Send(b, c)
    /\ was' = [was EXCEPT ![c] = {}]
    /\ UNCHANGED <<maxEntries, exists, bad, retries>>

DescribeNext ==
    \/ \E c \in Callers, t \in Tasks :
          /\ Ask(c, t)
          /\ was' = [was EXCEPT ![c] = State(exists, t)]
          /\ UNCHANGED <<maxEntries, exists, bad, retries>>
    \/ /\ \/ \E c \in Callers : AddTask(c)
          \/ Manage
          \/ Tick
       /\ UNCHANGED describeVars
    \/ \E c \in Callers : Answer(c)
    \/ Describe
    \/ \E t \in Tasks : Change(t) \/ Expire(t)

DescribeSpec == DescribeInit /\ [][DescribeNext]_allVars

\* What is done for the batch c is in.
Serve(c) ==
    \/ \E b \in running : InBatch(b, c) /\ DescribeIds(b)
    \/ \E r \in retries, t \in Tasks : InBatch(r, c) /\ DescribeBad(r, t)
    \/ Answer(c)

\* taskManager and the goroutines of execute are scheduled, time passes, the EC2 calls have a
\* timeout, and the senders on a full channel are served in their order.
Fairness ==
    /\ WF_allVars((Manage \/ Tick) /\ UNCHANGED describeVars)
    /\ \A c \in Callers : /\ SF_allVars(AddTask(c) /\ UNCHANGED describeVars)
                         /\ WF_allVars(Serve(c))

FairSpec == DescribeSpec /\ Fairness

-----------------------------------------------------------------------------
(* Properties *)

\* The batched Describe calls are an execFunc as the Batcher expects it: whatever is in the
\* cache and however the calls for single IDs end, a batch has one outcome, either an error
\* for all its tasks or results, and results only for the IDs that were asked for.
ImplementsBatcher == Spec

\* In this step c is sent this result.
Told(c, result) ==
    /\ call[c].pc = "wait" /\ call'[c].pc = "idle"
    /\ \E b \in running : c \in b.tasks[call[c].task] /\ b.out[call[c].task] = result

\* A caller that gets a resource gets one that existed after it had asked, never an answer
\* from before its call: a task always joins a batch that has not been executed yet.
FoundIsTrue == [][\A c \in Callers : Told(c, "value") => "there" \in was[c]]_allVars

-----------------------------------------------------------------------------
(* Refuted *)

\* "ErrNotFound is returned when a resource is not found": a caller told ErrNotFound asked
\* for a resource that did not exist at some time since it asked.
NotFoundIsTrue == [][\A c \in Callers : Told(c, "nil") => "gone" \in was[c]]_allVars
=============================================================================
