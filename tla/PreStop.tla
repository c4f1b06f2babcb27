------------------------------ MODULE PreStop -------------------------------
(***************************************************************************)
(* The preStop hook of the node pod (cmd/hooks/prestop.go): when the Node  *)
(* is being drained, the hook keeps the plugin alive until the             *)
(* VolumeAttachments of the Node are gone.  It waits on a channel that the *)
(* handlers of an informer, or a first check of its own, close when they   *)
(* have listed the VolumeAttachments and found none.                       *)
(***************************************************************************)
CONSTANT Attachments  \* VolumeAttachments of this Node

VARIABLES hook,      \* where PreStop is
          handler,   \* the informer: "off", "idle", or what its handler is doing
          attached,  \* the VolumeAttachments there are
          known,     \* those in the informer's store
          closed,    \* allAttachmentsDeleted is closed
          listed,    \* history: some check found none
          missed     \* history: some check could not list them

hookVars == <<hook, handler, attached, known, closed, listed, missed>>

\* The hook has ended: normally, with an error, or in a panic.
Ended == {"finished", "skipped", "failed", "panic"}

HookTypeOK ==
    /\ hook \in {"off", "look", "list", "close", "wait"} \cup Ended
    /\ handler \in {"off", "idle", "list", "close"}
    /\ attached \subseteq Attachments
    /\ known \subseteq Attachments
    /\ closed \in BOOLEAN /\ listed \in BOOLEAN /\ missed \in BOOLEAN

HookInit ==
    /\ hook = "off" /\ handler = "off"
    /\ attached = Attachments
    /\ known = {}
    /\ closed = FALSE /\ listed = FALSE /\ missed = FALSE

\* The attacher deletes a VolumeAttachment when its volume is detached.
DeleteAttachment(a) ==
    /\ a \in attached
    /\ attached' = attached \ {a}
    /\ UNCHANGED <<hook, handler, known, closed, listed, missed>>

\* kubelet runs the hook.
Start ==
    /\ hook = "off"
    /\ hook' = "look"
    /\ UNCHANGED <<handler, attached, known, closed, listed, missed>>

\* fetchNode and isNodeBeingDrained: a Node that is gone is one being terminated.
Look(drained, exists) ==
    /\ hook = "look"
    /\ \/ hook' = IF exists /\ ~drained THEN "skipped" ELSE "list"
       \/ hook' = "failed"
    /\ UNCHANGED <<handler, attached, known, closed, listed, missed>>

-----------------------------------------------------------------------------
(* checkVolumeAttachments *)

NoneLeft == attached = {}

\* The first check, by the hook itself.
FirstList ==
    /\ hook = "list"
    /\ \/ /\ hook' = IF NoneLeft THEN "close" ELSE "wait"
          /\ listed' = (listed \/ attached = {})
          /\ UNCHANGED missed
       \/ hook' = "wait" /\ missed' = TRUE /\ UNCHANGED listed
    /\ UNCHANGED <<handler, attached, known, closed>>

\* A channel is closed once: closing it again is a panic.
FirstClose ==
    /\ hook = "close"
    /\ hook' = IF closed THEN "panic" ELSE "wait"
    /\ closed' = TRUE
    /\ UNCHANGED <<handler, attached, known, listed, missed>>

Wait ==
    /\ hook = "wait"
    /\ closed
    /\ hook' = "finished"
    /\ UNCHANGED <<handler, attached, known, closed, listed, missed>>

-----------------------------------------------------------------------------
(* The informer *)

\* The informer runs from before the first check until the channel is closed, and starts
\* with the VolumeAttachments there are; AddFunc is not handled.
InformerList ==
    /\ hook \in {"list", "close", "wait"}
    /\ handler = "off"
    /\ ~closed
    /\ handler' = "idle"
    /\ known' = attached
    /\ UNCHANGED <<hook, attached, closed, listed, missed>>

\* UpdateFunc.
AttachmentUpdated(a) ==
    /\ handler = "idle" /\ hook \notin Ended
    /\ a \in known
    /\ handler' = "list"
    /\ UNCHANGED <<hook, attached, known, closed, listed, missed>>

\* Wrong: the deletion of the VolumeAttachment is not looked at.
DeletedIgnored(a) ==
    /\ handler = "idle" /\ hook \notin Ended
    /\ a \in known \ attached
    /\ known' = known \ {a}
    /\ UNCHANGED <<hook, handler, attached, closed, listed, missed>>

\* DeleteFunc.
Deleted(a) ==
    /\ handler = "idle" /\ hook \notin Ended
    /\ a \in known \ attached
    /\ known' = known \ {a}
    /\ handler' = "list"
    /\ UNCHANGED <<hook, attached, closed, listed, missed>>

\* DeleteFunc for a deletion the informer's watch has missed: the object is not a VolumeAttachment, the
\* handler says so and then reads its nil pointer.
Tombstone(a) ==
    /\ handler = "idle" /\ hook \notin Ended
    /\ a \in known \ attached
    /\ known' = known \ {a}
    /\ hook' = "panic"
    /\ UNCHANGED <<handler, attached, closed, listed, missed>>

\* An error is only logged.
HandlerList ==
    /\ handler = "list" /\ hook \notin Ended
    /\ \/ /\ handler' = IF NoneLeft THEN "close" ELSE "idle"
          /\ listed' = (listed \/ attached = {})
          /\ UNCHANGED missed
       \/ handler' = "idle" /\ missed' = TRUE /\ UNCHANGED listed
    /\ UNCHANGED <<hook, attached, known, closed>>

HandlerClose ==
    /\ handler = "close" /\ hook \notin Ended
    /\ handler' = "idle"
    /\ closed' = TRUE
    /\ hook' = IF closed THEN "panic" ELSE hook
    /\ UNCHANGED <<attached, known, listed, missed>>

Inform ==
    \/ InformerList \/ HandlerList \/ HandlerClose
    \/ \E a \in Attachments : Deleted(a) \/ Tombstone(a)

-----------------------------------------------------------------------------
(* Properties *)

\* "Before the node is shut down, all VolumeAttachment objects associated with that node are
\* removed": a hook that waited and finished has seen that there were none.
FinishedAfterAll == hook = "finished" => listed

\* No wake-up is lost once the informer knows of the VolumeAttachments: when those it knows
\* are gone the hook ends, unless a List failed.
EndsAfterKnown ==
    handler # "off" /\ known # {} /\ attached = {} ~> hook \in Ended \/ missed

-----------------------------------------------------------------------------
(* Refuted *)

\* The same of a hook that ends in a panic: true of a channel closed twice, not of a tombstone.
PanicAfterAll == hook = "panic" => listed

\* "No unnecessary delay is added to the termination workflow": when no VolumeAttachment is
\* left, the hook ends.
NoUnnecessaryDelay ==
    [](attached = {} /\ hook = "wait" => <>(hook \in Ended \/ missed))
=============================================================================
