----------------------- MODULE MCVolumeInitialization -----------------------
EXTENDS VolumeInitialization

\* Without the progress of EC2, for EndsWithContext.
NoInitialize == PublishSpec /\ \A c \in Callers : WF_publishVars(Step(c))
=============================================================================
