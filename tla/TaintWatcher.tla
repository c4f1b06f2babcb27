---------------------------- MODULE TaintWatcher ----------------------------
(***************************************************************************)
(* startNotReadyTaintWatcher: when the node plugin starts, it removes the  *)
(* taint ebs.csi.aws.com/agent-not-ready from its Node, once the CSINode   *)
(* says how many volumes the node may have.  The handlers of a Node        *)
(* informer and the goroutine that started it both try; a mutex lets one   *)
(* of them do so, again and again with a backoff.                          *)
(***************************************************************************)
EXTENDS Integers

CONSTANT Steps    \* attempts of a backoff

ASSUME StepsAssumption == Steps \in Nat \ {0}

VARIABLES taints,       \* the taints of the Node
          exists,       \* the Node is there
          allocatable,  \* the CSINode has the driver with its Allocatable.Count
          seen,         \* the taints of the Node in the informer's store
          main,         \* where the goroutine that started the watcher is
          attempt,      \* what each of the two is doing in attemptTaintRemoval
          mutex,        \* who holds the mutex, or "free"
          cancelled     \* ctx is cancelled

watcherVars == <<allocatable, seen, main, attempt, mutex, cancelled>>

NotReady == "agent-not-ready"

Taints == {NotReady, "drain"}

Threads == {"informer", "main"}

\* `node`: the taints of the copy of the Node that is used.
Attempt == [pc : {"idle", "check", "patch", "refresh"}, node : SUBSET Taints, left : 0..Steps]

WatcherTypeOK ==
    /\ taints \subseteq Taints
    /\ exists \in BOOLEAN
    /\ allocatable \in BOOLEAN
    /\ seen \subseteq Taints
    /\ main \in {"sync", "scan", "watch", "last", "chance", "leaving", "done"}
    /\ attempt \in [Threads -> Attempt]
    /\ mutex \in Threads \cup {"free"}
    /\ cancelled \in BOOLEAN

NoAttempt == [pc |-> "idle", node |-> {}, left |-> 0]

WatcherInit ==
    /\ taints = {NotReady}
    /\ exists = TRUE
    /\ allocatable = FALSE
    /\ seen = {}
    /\ main = "sync"
    /\ attempt = [t \in Threads |-> NoAttempt]
    /\ mutex = "free"
    /\ cancelled = FALSE

\* kubelet registers the plugin.
SetAllocatable ==
    /\ ~allocatable
    /\ allocatable' = TRUE
    /\ UNCHANGED <<taints, exists, seen, main, attempt, mutex, cancelled>>

-----------------------------------------------------------------------------
(* attemptTaintRemoval *)

\* Nothing is done when the copy has no such taint, or when another thread is at it.
Begin(t, node) ==
    /\ attempt[t].pc = "idle"
    /\ IF NotReady \in node /\ mutex = "free"
       THEN /\ mutex' = t
            /\ attempt' = [attempt EXCEPT ![t] = [pc |-> "check", node |-> node, left |-> Steps]]
       ELSE UNCHANGED <<attempt, mutex>>

End(t) == mutex' = "free" /\ attempt' = [attempt EXCEPT ![t] = NoAttempt]

\* The backoff tries again with this copy, or gives up.
Retry(t, node) ==
    IF attempt[t].left > 1
    THEN /\ attempt' = [attempt EXCEPT ![t] = [pc |-> "check", node |-> node, left |-> @.left - 1]]
         /\ UNCHANGED mutex
    ELSE End(t)

Goto(t, pc) == attempt' = [attempt EXCEPT ![t].pc = pc] /\ UNCHANGED mutex

\* checkAllocatable; when there is no CSINode yet the error makes the Node be read again.
CheckAllocatable(t) ==
    /\ attempt[t].pc = "check"
    /\ IF allocatable THEN Goto(t, "patch")
       ELSE Retry(t, attempt[t].node) \/ Goto(t, "refresh")
    /\ UNCHANGED <<taints, exists, allocatable, seen, main, cancelled>>

\* Wrong: the patch does not test what it replaces.
PatchUntested(t) ==
    /\ attempt[t].pc = "patch"
    /\ taints' = attempt[t].node \ {NotReady}
    /\ End(t)
    /\ UNCHANGED <<exists, allocatable, seen, main, cancelled>>

\* removeNotReadyTaint: the JSON patch tests that the taints are those of the copy and
\* replaces them by the others.
Patch(t) ==
    LET node == attempt[t].node
    IN  /\ attempt[t].pc = "patch"
        /\ IF exists /\ taints = node
           THEN taints' = node \ {NotReady} /\ End(t)
           ELSE Goto(t, "refresh") /\ UNCHANGED taints
        /\ UNCHANGED <<exists, allocatable, seen, main, cancelled>>

\* An API call fails for another reason; the patch may have been applied.
ApiFails(t) ==
    LET node == attempt[t].node
    IN  /\ attempt[t].pc \in {"check", "patch"}
        /\ Retry(t, node)
        /\ \/ UNCHANGED taints
           \/ attempt[t].pc = "patch" /\ exists /\ taints = node /\ taints' = node \ {NotReady}
        /\ UNCHANGED <<exists, allocatable, seen, main, cancelled>>

\* A fresh copy without the taint ends the attempt; one that can't be read does not.
Refresh(t) ==
    /\ attempt[t].pc = "refresh"
    /\ \/ exists /\ IF NotReady \in taints THEN Retry(t, taints) ELSE End(t)
       \/ Retry(t, attempt[t].node)
    /\ UNCHANGED <<taints, exists, allocatable, seen, main, cancelled>>

\* ctx is done: the call in progress fails and the backoff ends.
Abandon(t) ==
    /\ cancelled
    /\ attempt[t].pc # "idle"
    /\ End(t)
    /\ UNCHANGED <<taints, exists, allocatable, seen, main, cancelled>>

-----------------------------------------------------------------------------
(* The informer and the goroutine that started it *)

Observed == IF exists THEN taints ELSE {}

\* The store catches up with the Node.
Watch ==
    /\ ~cancelled
    /\ seen # Observed
    /\ seen' = Observed
    /\ UNCHANGED <<taints, exists, allocatable, main, attempt, mutex, cancelled>>

\* Wrong: only AddFunc is handled.
NotifyAdded ==
    /\ main = "sync"
    /\ NotReady \in seen /\ mutex = "free"
    /\ Begin("informer", seen)
    /\ UNCHANGED <<taints, exists, allocatable, seen, main, cancelled>>

\* AddFunc, and UpdateFunc for a change and every five seconds.
Notify ==
    /\ ~cancelled
    /\ NotReady \in seen /\ mutex = "free"
    /\ Begin("informer", seen)
    /\ UNCHANGED <<taints, exists, allocatable, seen, main, cancelled>>

\* The watch error handler: the plugin may not read Nodes.
Forbidden ==
    /\ main \in {"sync", "scan", "watch"}
    /\ ~cancelled
    /\ cancelled' = TRUE
    /\ UNCHANGED <<taints, exists, allocatable, seen, main, attempt, mutex>>

Sync ==
    /\ main = "sync"
    /\ main' = IF cancelled THEN "last" ELSE "scan"
    /\ cancelled \/ seen = Observed
    /\ UNCHANGED <<taints, exists, allocatable, seen, attempt, mutex, cancelled>>

\* The first scan of the store; the goroutine goes on when its attempt is over.
Scan ==
    /\ main = "scan"
    /\ Begin("main", seen)
    /\ main' = "watch"
    /\ UNCHANGED <<taints, exists, allocatable, seen, cancelled>>

\* maxWatchDuration is over.
Timeout ==
    /\ main = "watch"
    /\ attempt["main"].pc = "idle"
    /\ main' = "last"
    /\ UNCHANGED <<taints, exists, allocatable, seen, attempt, mutex, cancelled>>

\* The Node is read for the last chance.
GetNode ==
    /\ main = "last"
    /\ \/ /\ ~cancelled /\ exists
          /\ main' = "chance"
          /\ attempt' = [attempt EXCEPT !["main"].node = taints]
       \/ main' = "leaving" /\ UNCHANGED attempt
    /\ UNCHANGED <<taints, exists, allocatable, seen, mutex, cancelled>>

LastChance ==
    /\ main = "chance"
    /\ Begin("main", attempt["main"].node)
    /\ main' = "leaving"
    /\ UNCHANGED <<taints, exists, allocatable, seen, cancelled>>

\* The function returns: the deferred cancel.
Leave ==
    /\ main = "leaving"
    /\ attempt["main"].pc = "idle"
    /\ main' = "done"
    /\ cancelled' = TRUE
    /\ UNCHANGED <<taints, exists, allocatable, seen, attempt, mutex>>

Try(t) == CheckAllocatable(t) \/ Patch(t) \/ Refresh(t) \/ Abandon(t)

WatcherNext ==
    \/ SetAllocatable \/ Watch \/ Notify \/ Forbidden
    \/ Sync \/ Scan \/ Timeout \/ GetNode \/ LastChance \/ Leave
    \/ \E t \in Threads : Try(t) \/ ApiFails(t)

\* The informer catches up and resyncs, the goroutine that holds the mutex runs, and the API
\* server does not refuse every call of a kind.
WatcherFairness ==
    /\ WF_<<taints, exists, watcherVars>>(Watch)
    /\ WF_<<taints, exists, watcherVars>>(Notify)
    /\ WF_<<taints, exists, watcherVars>>(\E t \in Threads : Try(t))
    /\ SF_<<taints, exists, watcherVars>>(\E t \in Threads : CheckAllocatable(t))
    /\ SF_<<taints, exists, watcherVars>>(\E t \in Threads : Patch(t))

-----------------------------------------------------------------------------
(* Properties *)

\* The taint keeps pods away "to prevent startup race conditions": it is there until the
\* CSINode has the number of volumes the node may have.
RemovedWhenAllocatable == NotReady \notin taints => allocatable

\* One thread at a time patches the Node, and whoever is at it holds the mutex, so that a
\* thread that finds it taken may rely on the other.
OneAttempt == \A t \in Threads : attempt[t].pc # "idle" <=> mutex = t

\* While the watcher watches, an attempt that gave up is followed by another one: once the
\* CSINode is complete the taint is removed, whoever else changes the taints of the Node.
TaintRemoved ==
    allocatable /\ main = "watch" /\ ~cancelled ~>
        NotReady \notin taints \/ ~exists \/ main # "watch" \/ cancelled

\* "Try to remove the taint one last time in case we got extremely unlucky with the informer":
\* refuted, the last chance is dropped when a handler holds the mutex, and returning from
\* the function then cancels the handler's attempt too.
LastChanceTaken ==
    [][main = "chance" /\ NotReady \in attempt["main"].node /\ main' = "leaving" =>
          attempt'["main"].pc # "idle"]_<<taints, exists, watcherVars>>
=============================================================================
