--------------------------- MODULE NodeLifecycle ----------------------------
(***************************************************************************)
(* The taint watcher and the preStop hook of one node pod.  They meet in   *)
(* the taints of the Node, which a drain changes at any time: the one      *)
(* replaces them as a whole, the other looks for a drain taint in them.    *)
(***************************************************************************)
EXTENDS TaintWatcher, PreStop

VARIABLE drained   \* history: the Node is being drained

allVars == <<taints, exists, drained, watcherVars, hookVars>>

LifecycleInit == WatcherInit /\ HookInit /\ drained = FALSE

\* kubectl drain, or an autoscaler, sets its taint.
Drain ==
    /\ ~drained
    /\ drained' = TRUE
    /\ taints' = taints \cup {"drain"}
    /\ UNCHANGED <<exists, watcherVars, hookVars>>

\* The Node object is deleted with its instance.
DeleteNode ==
    /\ drained /\ exists
    /\ exists' = FALSE
    /\ UNCHANGED <<taints, drained, watcherVars, hookVars>>

LookAtNode ==
    Look("drain" \in taints, exists) /\ UNCHANGED <<taints, exists, drained, watcherVars>>

Hook ==
    (FirstList \/ FirstClose \/ Wait) /\ UNCHANGED <<taints, exists, drained, watcherVars>>

Informer == Inform /\ UNCHANGED <<taints, exists, drained, watcherVars>>

LifecycleNext ==
    \/ WatcherNext /\ UNCHANGED <<drained, hookVars>>
    \/ LookAtNode
    \/ Hook
    \/ Informer
    \/ /\ Start \/ \E a \in Attachments : DeleteAttachment(a) \/ AttachmentUpdated(a)
       /\ UNCHANGED <<taints, exists, drained, watcherVars>>
    \/ Drain
    \/ DeleteNode

LifecycleSpec == LifecycleInit /\ [][LifecycleNext]_allVars

\* The hook's goroutine and the informer's run, and the API server answers.
HookFairness == WF_allVars(Hook \/ LookAtNode) /\ WF_allVars(Informer)

LifecycleFairness == WatcherFairness /\ HookFairness

LifecycleFairSpec == LifecycleSpec /\ LifecycleFairness

-----------------------------------------------------------------------------
(* Properties *)

LifecycleTypeOK == WatcherTypeOK /\ HookTypeOK /\ drained \in BOOLEAN

\* A drain is never missed: from the moment a node is drained until it is not, the hook does
\* not skip the wait.  The watcher's patch must not undo the taint of a drain that came
\* between its copy of the Node and the patch.
DrainNotSkipped == [][drained /\ hook # "skipped" => hook' # "skipped"]_allVars
=============================================================================
