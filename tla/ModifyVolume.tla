---------------------------- MODULE ModifyVolume ----------------------------
(***************************************************************************)
(* ControllerExpandVolume and ControllerModifyVolume from the coalescer to *)
(* EC2: executeModifyVolumeRequest, ModifyTags and ResizeOrModifyDisk of   *)
(* pkg/cloud as the executeFunction of Coalescer, one EC2 call per step.   *)
(* Executions for a volume overlap: nothing but EC2 orders them.           *)
(*                                                                         *)
(* EC2 modifies a volume in the background.  While it does, DescribeVolumes *)
(* may already return the new values.                                      *)
(***************************************************************************)
EXTENDS Coalescer

CONSTANT Limits  \* getVolumeLimits: for each volume type the limits min, max and perGb

VARIABLES volume,  \* EC2: size, IOPS, Throughput and VolumeType of each volume
          tags,    \* EC2: the two tags of the volume the driver reads
          mod,     \* EC2: the latest modification of the volume, its state and its target
          work,    \* the local variables of an execution, under the first of its callers
          met      \* history: the executions, by the first of their callers, that have run
                   \* at the same time as another one

ec2Vars == <<volume, tags, mod>>

allVars == <<call, pendingInputs, timer, waited, executing, volume, tags, mod, work>>

coalescing == <<call, pendingInputs, timer, waited>>

\* seen, IOPS: the volume as described at the start, and options.IOPS.  touched: history,
\* whether EC2 changed anything for this execution.
Idle == [pc |-> "start", seen |-> <<>>, IOPS |-> 0, touched |-> FALSE]

ModifyInit ==
    /\ Init
    /\ volume = [k \in Keys |-> [size |-> 1, IOPS |-> 1, Throughput |-> 1, VolumeType |-> 1]]
    /\ tags = [k \in Keys |-> [IOPSPerGb |-> 0, AllowAutoIOPSIncreaseOnModify |-> 0]]
    /\ mod = [k \in Keys |-> [state |-> "none", target |-> volume[k]]]
    /\ work = [c \in Callers |-> Idle]

-----------------------------------------------------------------------------
(* EC2 *)

\* What DescribeVolumes may return.
Described(k) == {volume[k]} \cup (IF mod[k].state = "modifying" THEN {mod[k].target} ELSE {})

\* A modification makes progress, or fails.
Progress(k) ==
    /\ \E next \in {"optimizing", "completed", "failed"} :
          /\ \/ mod[k].state = "modifying"
             \/ mod[k].state = "optimizing" /\ next = "completed"
          /\ mod' = [mod EXCEPT ![k].state = next]
          /\ volume' = IF next = "failed" THEN volume
                       ELSE [volume EXCEPT ![k] = mod[k].target]
    /\ UNCHANGED <<call, pendingInputs, timer, waited, executing, tags, work>>

\* The target of a ModifyVolume call for request r with these IOPS (0: not in the call).
Target(v, r, iops) ==
    [size |-> IF Asks(r, "newSize") THEN r.newSize ELSE v.size,
     IOPS |-> IF iops # 0 THEN iops ELSE v.IOPS,
     Throughput |-> IF Asks(r, "Throughput") THEN r.Throughput ELSE v.Throughput,
     VolumeType |-> IF Asks(r, "VolumeType") THEN r.VolumeType ELSE v.VolumeType]

\* EC2 takes one modification at a time and never shrinks a volume.
Acceptable(k, target) ==
    /\ mod[k].state \notin {"modifying", "optimizing"}
    /\ target.size >= volume[k].size

-----------------------------------------------------------------------------
(* The execution *)

Leader(e) == Head(e.resultChannels)

At(e, pc) == e.result = "none" /\ work[Leader(e)].pc = pc

Goto(e, pc) == work' = [work EXCEPT ![Leader(e)].pc = pc] /\ UNCHANGED executing

\* Wrong: an execution that fails does not send its result.
ReturnsNothing(e, r) ==
    /\ executing' = (executing \ {e}) \cup (IF r = "ok" THEN {[e EXCEPT !.result = r]} ELSE {})
    /\ work' = [work EXCEPT ![Leader(e)] = Idle]

\* The execution returns r and forgets its local variables.
Returns(e, r) == Finish(e, r) /\ work' = [work EXCEPT ![Leader(e)] = Idle]

AddsTags(r) == r.tags.IOPSPerGb # 0 \/ r.tags.AllowAutoIOPSIncreaseOnModify # 0

DeletesTags(r) == r.tags.TagsToDelete # 0

\* ModifyTags: DeleteTags, the first of two calls.
DeleteTags(e) ==
    /\ At(e, "start") /\ DeletesTags(e.input)
    /\ \/ Returns(e, "Internal")
       \/ /\ work' = [work EXCEPT ![Leader(e)].pc = "deleted", ![Leader(e)].touched = TRUE]
          /\ UNCHANGED executing
    /\ UNCHANGED coalescing /\ UNCHANGED ec2Vars

\* ModifyTags: CreateTags.
CreateTags(e) ==
    /\ At(e, IF DeletesTags(e.input) THEN "deleted" ELSE "start") /\ AddsTags(e.input)
    /\ \/ Returns(e, "Internal") /\ UNCHANGED tags
       \/ /\ tags' = [tags EXCEPT ![e.key] = [f \in DOMAIN tags[e.key] |->
                        IF e.input.tags[f] # 0 THEN e.input.tags[f] ELSE tags[e.key][f]]]
          /\ work' = [work EXCEPT ![Leader(e)].pc = "added", ![Leader(e)].touched = TRUE]
          /\ UNCHANGED executing
    /\ UNCHANGED coalescing /\ UNCHANGED <<volume, mod>>

\* executeModifyTagsRequest has returned without an error.
TagsDone(e) ==
    At(e, IF AddsTags(e.input) THEN "added"
          ELSE IF DeletesTags(e.input) THEN "deleted" ELSE "start")

\* Only tags were asked for.
NoDisk(e) ==
    /\ TagsDone(e) /\ ~AsksDisk(e.input)
    /\ Returns(e, "ok")
    /\ UNCHANGED coalescing /\ UNCHANGED ec2Vars

\* ResizeOrModifyDisk: getVolume.
GetVolume(e) ==
    /\ TagsDone(e) /\ AsksDisk(e.input)
    /\ \/ \E r \in {"NotFound", "Internal"} : Returns(e, r)
       \/ \E v \in Described(e.key) :
            /\ work' = [work EXCEPT ![Leader(e)].pc = "validate",
                                    ![Leader(e)].seen = [v |-> v, tags |-> tags[e.key]],
                                    ![Leader(e)].IOPS = e.input.IOPS]
            /\ UNCHANGED executing
    /\ UNCHANGED coalescing /\ UNCHANGED ec2Vars

\* The IOPS of the ModifyVolume call, 0 for none: those asked for, or a multiple of the size.
IopsForModify(r, seen) ==
    LET size == IF Asks(r, "newSize") THEN r.newSize ELSE seen.v.size
        type == IF Asks(r, "VolumeType") THEN r.VolumeType ELSE seen.v.VolumeType
        allowed == r.AllowIopsIncreaseOnResize \/ seen.tags.AllowAutoIOPSIncreaseOnModify = 1
        iops == IF r.IOPS # 0 THEN r.IOPS
                ELSE IF r.IOPSPerGB # 0 /\ allowed THEN size * r.IOPSPerGB
                ELSE IF allowed THEN size * seen.tags.IOPSPerGb ELSE 0
    IN  IF iops = 0 THEN 0 ELSE CapIOPS(size, iops, Limits[type])

\* needsVolumeModification, and the comparison of checkDesiredState.
HasAll(v, r, iops) ==
    /\ r.newSize <= v.size
    /\ iops # 0 => v.IOPS = iops
    /\ Asks(r, "VolumeType") => v.VolumeType = r.VolumeType
    /\ Asks(r, "Throughput") => v.Throughput = r.Throughput

\* validateModifyVolume: a volume that looks as asked is only waited for.
AfterValidate(e, iops) ==
    IF HasAll(work[Leader(e)].seen.v, e.input, iops) THEN "wait" ELSE "state"

\* Wrong: an error after the tags have changed is InvalidArgument all the same.
InvalidAlways(r) == "InvalidArgument"

\* ErrInvalidArgument is Internal when tags have been modified before.
Invalid(r) == IF AsksTags(r) THEN "Internal" ELSE "InvalidArgument"

\* describeVolumesModifications: the call fails with NotFound, for all its volumes, when one of
\* them has never been modified.
DescribeVolumesModifications(ks) ==
    [k \in ks |-> IF \E j \in ks : mod[j].state = "none" THEN "none" ELSE mod[k].state]

\* batchDescribeVolumesModifications: a batch may have the volumes of all executions that wait.
BatchDescribeVolumesModifications(k) ==
    LET waiting == {d.key : d \in {d \in executing : At(d, "wait")}}
    IN  {DescribeVolumesModifications(ks)[k] : ks \in {ks \in SUBSET waiting : k \in ks}}

\* What it may return, "none" for ErrVolumeNotBeingModified.
GetLatestVolumeModification(k, isBatchable) ==
    IF isBatchable THEN BatchDescribeVolumesModifications(k)
    ELSE {DescribeVolumesModifications({k})[k]}

\* getVolumeModificationState: not batched.
ModificationState(k) == CHOOSE s \in GetLatestVolumeModification(k, FALSE) : TRUE

\* validateVolumeState, the IOPS, and needsVolumeModification in validateModifyVolume.
Validate(e) ==
    LET seen == work[Leader(e)].seen
        iops == IopsForModify(e.input, seen)
    IN  /\ At(e, "validate")
        /\ \/ Returns(e, "Internal")
           \/ ModificationState(e.key) = "modifying" /\ Goto(e, "wait")
           \/ /\ ModificationState(e.key) # "modifying"
              /\ IF Asks(e.input, "IOPS") /\ Asks(e.input, "IOPSPerGB")
                 THEN Returns(e, "Internal")
                 ELSE IF seen.tags.AllowAutoIOPSIncreaseOnModify = 3
                 THEN Returns(e, Invalid(e.input))
                 ELSE /\ work' = [work EXCEPT ![Leader(e)].pc = AfterValidate(e, iops),
                                              ![Leader(e)].IOPS = iops]
                      /\ UNCHANGED executing
        /\ UNCHANGED coalescing /\ UNCHANGED ec2Vars

\* validateModifyVolume: no new modification in the optimizing state.
ValidateState(e) ==
    /\ At(e, "state")
    /\ \/ Returns(e, "Internal")
       \/ ModificationState(e.key) # "optimizing" /\ Goto(e, "modify")
    /\ UNCHANGED coalescing /\ UNCHANGED ec2Vars

\* Wrong: a modification EC2 has only started counts as done.
AfterModifyStarted(state) == IF state \in {"modifying", "optimizing", "completed"} THEN "check" ELSE "wait"

\* volumeModificationDone of the response.
AfterModify(state) == IF state \in {"optimizing", "completed"} THEN "check" ELSE "wait"

\* The ModifyVolume call.
Modify(e) ==
    LET target == Target(volume[e.key], e.input, work[Leader(e)].IOPS)
    IN  /\ At(e, "modify")
        /\ \/ /\ \E r \in {Invalid(e.input), "ResourceExhausted", "Internal"} : Returns(e, r)
              /\ UNCHANGED <<volume, mod>>
           \/ /\ Acceptable(e.key, target)
              /\ \E state \in {"modifying", "completed"} :
                    /\ mod' = [mod EXCEPT ![e.key] = [state |-> state, target |-> target]]
                    /\ volume' = IF state = "completed" THEN [volume EXCEPT ![e.key] = target]
                                 ELSE volume
                    /\ work' = [work EXCEPT
                          ![Leader(e)].pc = AfterModify(state),
                          ![Leader(e)].touched = TRUE]
              /\ UNCHANGED executing
        /\ UNCHANGED coalescing /\ UNCHANGED tags

\* waitForVolumeModification: a poll ends the wait, or it goes on until it times out.
Poll(e) ==
    /\ At(e, "wait")
    /\ \/ Returns(e, "Internal")
       \/ \E s \in GetLatestVolumeModification(e.key, TRUE) :
             s \in {"none", "optimizing", "completed"} /\ Goto(e, "check")
    /\ UNCHANGED coalescing /\ UNCHANGED ec2Vars

CheckDesiredState(e) ==
    /\ At(e, "check")
    /\ \/ \E r \in {"NotFound", "Internal"} : Returns(e, r)
       \/ \E v \in Described(e.key) :
             Returns(e, IF HasAll(v, e.input, work[Leader(e)].IOPS) THEN "ok" ELSE "Internal")
    /\ UNCHANGED coalescing /\ UNCHANGED ec2Vars

ExecuteModifyVolumeRequest(e) ==
    \/ DeleteTags(e) \/ CreateTags(e) \/ NoDisk(e) \/ GetVolume(e) \/ Validate(e)
    \/ ValidateState(e) \/ Modify(e) \/ Poll(e) \/ CheckDesiredState(e)

ModifyNext ==
    \/ /\ \/ \E c \in Callers, k \in Keys, i \in Inputs : Coalesce(c, k, i)
          \/ Thread
          \/ Tick
          \/ \E e \in executing : Send(e)
       /\ UNCHANGED <<volume, tags, mod, work>>
    \/ \E e \in executing : ExecuteModifyVolumeRequest(e)
    \/ \E k \in Keys : Progress(k)

ModifySpec == ModifyInit /\ [][ModifyNext]_allVars

\* The same, with the history.
Unfinished == {e \in executing : e.result = "none"}

Meet == met' = {Leader(e) : e \in {e \in Unfinished' : Leader(e) \in met \/ Unfinished' # {e}}}

HistoryInit == ModifyInit /\ met = {}

HistoryNext == ModifyNext /\ Meet

HistorySpec == HistoryInit /\ [][HistoryNext]_<<allVars, met>>

-----------------------------------------------------------------------------
(* Properties *)

Answered(e, r) == e.result = "none" /\ [e EXCEPT !.result = r] \in executing'

\* The executions of ResizeOrModifyDisk behave as the executeFunction of Coalescer.
ImplementsCoalescer == Spec

\* "It would not be correct to return an error that is considered infeasible by the
\* resizer if the volume was already modified in any way": an execution that answers
\* InvalidArgument has changed neither tags nor the volume.
InfeasibleMeansUntouched ==
    [][\A e \in executing : Answered(e, "InvalidArgument") => ~work[Leader(e)].touched]_allVars

\* "Wait for any existing modifications to prevent race conditions where DescribeVolume(s)
\* returns the new state before the volume is actually finished modifying": an execution
\* that never ran beside another one answers success only when the volume has what was
\* asked for, whatever executions that failed or gave up waiting left EC2 doing before.
FinishedUnlessMet ==
    [][\A e \in executing : Answered(e, "ok") /\ Leader(e) \notin met =>
          HasAll(volume[e.key], e.input, work[Leader(e)].IOPS)]_allVars

-----------------------------------------------------------------------------
(* Refuted *)

\* FinishedUnlessMet of every execution, as the comment it quotes says.
FinishedBeforeSuccess ==
    [][\A e \in executing : Answered(e, "ok") =>
          HasAll(volume[e.key], e.input, work[Leader(e)].IOPS)]_allVars

\* "Check if there is a mismatch between the requested modification and the current volume.
\* If there is, the volume is still modifying and we should not return a success": the
\* same for a request that states its IOPS per GiB.
PerGBApplied ==
    [][\A e \in executing : Answered(e, "ok") /\ Asks(e.input, "IOPSPerGB") =>
          volume[e.key].IOPS = IopsForModify(e.input, [v |-> volume[e.key], tags |-> tags[e.key]])]_allVars
=============================================================================
