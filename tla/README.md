# TLA+ models of the AWS EBS CSI driver

This directory holds TLA+ specifications of the EBS CSI driver, the TLC
configurations that model-check them on small instances, and TLAPS proofs about
them. `PROJECT.json` lists the runs, the source lines each definition models,
the hazards the properties are aimed at and the theorems.

    tlc -config MCVolumeAttachment.cfg MCVolumeAttachment    # one run
    tlapm VolumeAttachmentProofs.tla                         # one module of proofs

## 1. The system

The driver is two programs in one binary. The controller serves CSI RPCs that
create, attach, modify, snapshot and delete EBS volumes through the EC2 API; the
node service formats and mounts them. The sidecars (external-provisioner,
-attacher, -resizer, -snapshotter, kubelet) retry every RPC until it succeeds, with the
same arguments, possibly after a restart of the driver and while an earlier call is
still running. Almost all of what is hard follows from that.

| part | source (under `pkg/` unless noted) | state it keeps | operations |
|---|---|---|---|
| Controller RPCs | `driver/controller.go` | keys of RPCs in flight (`driver/internal/inflight.go`) | CreateVolume, DeleteVolume, ControllerPublishVolume, ControllerUnpublishVolume, ControllerExpandVolume, ControllerModifyVolume, CreateSnapshot, DeleteSnapshot |
| Cloud | `cloud/cloud.go` | client token numbers, likely bad names and IDs, batchers | AttachDisk, DetachDisk, WaitForAttachmentState, CreateDisk, ResizeOrModifyDisk, IsVolumeInitialized, the batched Describe calls |
| Device manager | `cloud/devicemanager` | device names handed out and not yet attached | NewDevice, GetDevice, Release |
| Batcher | `batcher` | pending tasks, one timer | AddTask, taskManager, execute |
| Coalescer | `coalescer` | pending inputs and a timer per key | Coalesce, coalescerThread |
| Expiring cache | `expiringcache` | values with timers | Get, Set, Remove |
| Modification requests | `driver/controller_modify_volume.go` | none | merge and execute a request |
| Node RPCs | `driver/node.go`, `mounter` | keys of RPCs in flight; the mounts of the host | NodeStage/Unstage, NodePublish/Unpublish, NodeExpandVolume |
| Taint watcher | `driver/node.go` | an informer, a mutex | startNotReadyTaintWatcher |
| Pre-stop hook | `cmd/hooks/prestop.go` | an informer, a channel | PreStop |
| Metadata, labels, limits | `cloud/metadata`, `cloud/limits` | labels of nodes | NewMetadataService, continuousUpdateLabels, getVolumesLimit |
| Asynchronous metrics | `metrics/async.go` | detaching volumes | TrackDetachment, ClearDetachMetric |

How the parts interact: an RPC handler takes the key of its object in `InFlight`
(a second RPC for the key is answered `Aborted`), calls the cloud, and the cloud calls
EC2. Reads go through batchers, one for each kind of Describe call, shared by all
handlers. `AttachDisk` gets a device name from the device manager and gives it back
when the attachment is complete or has failed. Expansion and modification of one
volume meet in the coalescer. Everything the driver remembers is in memory and lost in
a restart; EC2 is not.

What is hard to get right here, and hardly reached by the unit tests: answers of EC2
that are older than the decision taken from them; two handlers for two volumes of one
instance; a timeout after which the call still takes effect; a retry of what was
half done; a batch in which one caller's resource spoils the call for the others; a
restart between two EC2 calls. `PROJECT.json` lists these hazards at the lines where
they bite.

## 2. Modules

| module | models | extends |
|---|---|---|
| `NameReservation` | abstract: names reserved for volumes of a node | |
| `DeviceManager` | `deviceManager`, `nameAllocator`, cards | |
| `VolumeAttachment` | ControllerPublish/UnpublishVolume down to EC2 | `DeviceManager` |
| `Batcher` | `Batcher`, for any execFunc | |
| `BatchedDescribe` | `execBatchDescribe{Volumes,Instances,Snapshots}` | `Batcher` |
| `ExpiringCache` | `expiringCache` with its timers | |
| `VolumeInitialization` | IsVolumeInitialized and the publish that waits for it | `ExpiringCache` |
| `ModifyRequest` | `modifyVolumeRequest` and its merge (operators only) | |
| `Coalescer` | `coalescer`, for any executeFunction | `ModifyRequest` |
| `ModifyVolume` | `executeModifyVolumeRequest` down to EC2 | `Coalescer` |
| `VolumeCreation` | CreateDisk with client tokens, under CreateVolume's key | |
| `Sizes` | rounding of sizes, capIOPS, with Go's integers (operators only) | |
| `CreateRequest` | CreateVolume from the CSI request to the EC2 request, and its retries | `VolumeCreation`, `Sizes` |
| `Snapshots` | CreateSnapshot, DeleteSnapshot | |
| `NodeService` | NodeStage/Unstage, NodePublish/Unpublish, NodeExpandVolume, FindDevicePath | |
| `TaintWatcher` | startNotReadyTaintWatcher | |
| `PreStop` | the preStop hook | |
| `NodeLifecycle` | the two together on one Node | `TaintWatcher`, `PreStop` |
| `VolumeLimits` | the tables of `limits` and getVolumesLimit (operators only) | |
| `MetadataLabeler` | continuousUpdateLabels and its handler of new Nodes | |
| `NodeInfo` | the metadata sources and NodeGetInfo, with the labeler | `MetadataLabeler`, `VolumeLimits` |
| `VolumeAttachmentProofs`, `SnapshotsProofs`, `NodeServiceProofs` | proofs about the module they are named after | that module |
| `BatcherProofs` | proofs about `Batcher`, and that `BatchedDescribe` implements it | `BatchedDescribe` |
| `CoalescerProofs` | proofs about `Coalescer`, and that `ModifyVolume` implements it | `ModifyVolume` |
| `CreateRequestProofs` | proofs about `VolumeCreation`, `Sizes` and an attempt of `CreateRequest` | `CreateRequest` |
| `CreateRetryProofs` | proofs about the limits of IOPS and the retries of `CreateRequest` | `CreateRequestProofs` |
| `PluginProofs` | proofs about `NodeInfo`, `NodeLifecycle` and `VolumeInitialization` | these three |
| `MC...` | symmetry and the values of constants | the module they are named after |

An operator named like its neighbour with a suffix and a comment that begins with
"Wrong" (`ReceiveOnce` before `Received`) is not part of the model: it is a faulty
version of that neighbour, which a property must be able to tell from the real one.

### Attach and detach (`DeviceManager`, `VolumeAttachment`)

State: `locks` (the in-flight keys), `inFlight` (the device manager's map), `badNames`
(the likely bad names of a node), one record `h[p]` for the handler a goroutine
runs, and EC2 (`ec2`, `volumes`, `instances`). A handler's `pc` is the place in the
code where it is between two calls: `getInstance`, `device` (the instance has been
described and its mappings are in `snap`, possibly out of date), `call` (AttachVolume
or DetachVolume), `wait`, `stuck` and `reattach` (the polls of
WaitForAttachmentState), `release`, `init`, `reply`. Each action is one stretch of
code from one EC2 call to the next, with the device manager's critical section inside
it. A call may fail, and may fail after it took effect; polls end with the
backoff (`MaxPolls`); the controller may restart (`MaxCrashes`), which empties all but
EC2. DeleteVolume is one step, since it makes one EC2 call under a key of its own.

Abstract specification: the map of names in flight implements `NameReservation`: a
name is reserved for one volume at a time, is not replaced while reserved, and
comes free one volume at a time or all at once in a restart.

### Batched calls (`Batcher`, `BatchedDescribe`)

`Batcher` has a record per caller, `taskChan`, the pending tasks with
their result channels, the timer, and the batches being executed. Any result may come out of
`ExecFunc`. `BatchedDescribe` replaces that step by what
`execBatchDescribeVolumes` and its two siblings do: the IDs that are not in the cache of
missing ones in one call, the others one by one. It implements `Batcher` (`ImplementsBatcher`).

### Modification (`ModifyRequest`, `Coalescer`, `ModifyVolume`)

`Coalescer` has the callers, the entry of each key (`pendingInputs`), its timer
and the executions started; `Execute` may have any outcome. `ModifyVolume`
replaces it by `executeModifyVolumeRequest`: tags first, then ResizeOrModifyDisk with
its reads, validations, the ModifyVolume call, the polls and checkDesiredState, while EC2
makes progress by itself. It implements `Coalescer` (`ImplementsCoalescer`).
The state of a modification is read in batches that fail as a whole when one volume was
never modified. A request is a record with the fields of `modifyVolumeRequest`.

### Creation (`VolumeCreation`, `Sizes`, `CreateRequest`)

A client token is a name and a number, and EC2 makes at most one volume with it. State:
the handlers, the in-flight names, the cache `latest` of token numbers, the volumes EC2
made, and the volumes answered so far. Volumes may fail after CreateVolume has
answered; answers may be lost; the cache may lose a number and the controller may
restart (`MaxLosses`).

`VolumeCreation` leaves open what is asked of EC2. `CreateRequest` says it: a CSI request
`req` is read in `stage`s, its parameters (`left`) one by one in any order because they
are Go maps, into `opts` and then into the EC2 request `input`, through the choice of zone,
zone ID and outpost, the checks of the source, tags and formatting options, the size and
the limits of IOPS (`known`, the cache; a dry run; a table). The sidecar sends the same
request until it succeeds, and the point of the module is that all attempts must come to
the same EC2 request. `Sizes` has the arithmetic with two's complement at widths that are
constants, so that sums and products wrap on the small instance as they do at 2^31 and 2^63.

### Snapshots (`Snapshots`)

The handlers (lookup by name, creation, fast restores, lock, clean-up), the
in-flight names and IDs, and EC2's snapshots with their name, source, lock and
fast restores. A lookup by name and the creation are two EC2 calls; so are the creation and each of the
steps that complete the snapshot. A call may fail after it took effect, and the
clean-up may fail too.

### Volume initialization (`ExpiringCache`, `VolumeInitialization`)

`ExpiringCache` has the map, the timers that run and the goroutines of timers that have
gone off and wait for the mutex: `Get` sets a timer again, `Remove` leaves it running, and a
late goroutine deletes whatever is at the key. `VolumeInitialization` is the loop of
ControllerPublishVolume over that cache: look, wait until the estimated time or the end
of the call, describe (in the fast or the slow batch), parse.

### Node service (`NodeService`)

The host is part of the state: disks with their volumes, device links of udev, mounts,
file systems and their sizes. A goroutine's step is one system call or one look at the
host, so another RPC, EC2, udev, a broken mount, a restart of the plugin or of the host can
come in between. `view` is what kubelet was told; kubelet calls in the order that CSI
prescribes, and repeats what failed. FindDevicePath checks the serial number where `lsblk`
can be used.

### Taint watcher and preStop hook (`TaintWatcher`, `PreStop`, `NodeLifecycle`)

`TaintWatcher` has the goroutine that started the informer, the informer's handler, the
mutex between them, and the copies of the Node they work with; `PreStop` the hook, the
informer's handler, the channel both may close. A List or a patch may fail, the
informer lags, contexts are cancelled. They meet in the taints of the Node, which the
watcher replaces as a whole and in which the hook looks for a drain; `NodeLifecycle`
runs them together with a drain and a deletion of the Node.

### Limits (`VolumeLimits`, `MetadataLabeler`, `NodeInfo`)

The way from the ENIs and volumes of an instance to the limit that NodeGetInfo reports.
The labeler is two workers, the loop and the handler of new Nodes, each with its own
step of listing, describing and patching; a plugin takes its metadata from the first
source that answers, and updates it later from the same source. History variables
(`from`, `md.of`) remember which state of the instance a label or a report was made from.

## 3. Runs

Model values are small because everything a handler can meet is one other actor: a
second handler for the same volume, for another volume of the instance, or for the
same volume on another instance. States are distinct states.

| run | instance | what it shows | states |
|---|---|---|---|
| `attach` | 2 handlers, 2 volumes, 1 node, 2 names of which the first is taken in the AMI, 2 cards, 2 polls, 1 restart, with batching | names in flight are distinct and stay held until released; a detach frees the name of its volume; successful publishes are true | 1.5 M |
| `attach_live` | 2 handlers, 2 volumes, 1 name, 2 polls, without batching | successful unpublishes are true; every publish and unpublish ends, and the names in flight implement `NameReservation`, when names run out | 282 k |
| `batcher` | 2 callers, 2 resources, batches of 1 and of 2, delay 1 | results are neither lost nor sent twice, batches are bounded, every caller is answered; who is given a resource is given one that existed after the call began; the Describe calls implement `Batcher` | 39 k |
| `coalescer` | 2 callers, 1 key, 4 requests, delay 2 | callers are answered once, by an execution that has what they asked for in the merged fields | 10 k |
| `modify` | 2 callers, 1 volume, 4 requests, one of them for tags only | executions on EC2 implement `Coalescer`; InvalidArgument means nothing was changed; a success of an execution that never ran beside another one means that the volume has what was asked for | 951 k |
| `create` | 1 name, 3 tokens, 1 loss, some 200 requests | the EC2 request has the size, place and IOPS that are asked for and allowed, and of type, IOPS and throughput what the mutable parameters say; a name has one volume, all answers agree, retries succeed in the end | 149 k |
| `create_retry` | one request, for IOPS between the table's maximum and EC2's | violated, see section 6 | |
| `snapshots` | 2 goroutines, 1 name, 2 sources, 2 snapshots | a name has one snapshot; a call that made its snapshot succeeds only when lock and fast restores are there; a snapshot that was answered is kept until it is deleted | 250 k |
| `volume_init` | 2 publishes, 1 volume, 2 timers, EC2 lists what it initializes | a publish succeeds only when the volume is initialized, and ends once EC2 says so; no entry of the cache is left without a timer | 94 k |
| `node_service` | 2 goroutines, a file-system and a block volume, 2 disks, 2 device names, sizes up to 2 | a volume is never mounted for another one; what kubelet was told is true; only blank volumes are formatted, each by its own call | 583 k |
| `node_lifecycle` | 1 Node, 1 attachment, backoffs of 2 | a drain is never missed, though the taint watcher replaces the taints; the taint is removed once the limit is known; the hook ends after the attachments it knows are gone | 468 k |
| `node_info` | 2 Nodes of two kinds of instance, one of which changes once | the limit reported is what is left on the instance, whichever source it is from; every Node that joins is labelled | 174 k |

Why the bounds are enough. `NumNames` is 2 so that two volumes may both be served, and
1 so that one is turned away; with `HiddenNames` the free name that comes first never
works. `MaxPolls` is 2, since the `attachment` a poll leaves behind is used by the next
one. A batch of 2 is filled by two different tasks and not by duplicates, a batch of 1 at
once. `MaxToken` is 3: two tokens can be burned, one more succeeds; EC2 is not allowed
to fail the last one. `MaxLosses` and `MaxCrashes` bound faults, which for safety are covered
for every value by the theorems. `MaxSnaps` is 2, the least number that can violate
`OneSnapshot`. In `create` a GiB is 4 bytes, int32 ends at 511 and int64 at 4095: every
sum and product of the code can pass its bound, and the requests are chosen around each
of these bounds and around the limits of EC2. In `node_service` two disks and two names are
what it takes for a link to lead to the wrong volume. `Followed` restricts the instances
that change to one, because the workers treat Nodes alike. `MaxTimers` is 2: the timer of
a removed entry and the timer of its successor. `Steps` is 2, one try and one retry.
Symmetry is used over handlers, callers, disks and device names only (where a CHOOSE ranges
over them there is one candidate), and not where liveness is checked.

The second Node matters for `attach` only through volumes that may be attached to several
instances. `MCVolumeAttachment` with one volume, `Nodes = {n1, n2}` and `MultiAttach =
{v1}` has 1.4 M states and satisfies all properties of `attach`; the theorems of section 5
are about any number of nodes. In `modify` no request writes the tag that does not parse, which makes a
later modification InvalidArgument: with one caller and `MCMoreInputs`, which has it, the same properties hold (8 k states).

These also hold in the runs named, and can be added to their configurations: `TypeOK` of every
module (`RequestTypeOK` in `create`, `LifecycleTypeOK` in `node_lifecycle`, `PublishTypeOK` in `volume_init`); `TimerWhilePending` in `batcher` and `coalescer`;
`DelayFromFirst` in `coalescer`; `NameTagKept` in `create`;
`OneAttempt`, `RemovedWhenAllocatable` and `FinishedAfterAll` in `node_lifecycle`. They are left out
because they are proved, or because they follow closely from a few lines of the code.

Deadlock is checked except in `node_lifecycle`, where watcher and hook both come to their
end: callers and sidecars can always call again.

## 4. Fairness

- `VolumeAttachment`: weak fairness of every handler's next step. A goroutine that can
  run is scheduled, and an EC2 call returns (with an error if need be, by the
  SDK's timeouts). Nothing is assumed of EC2's progress: the backoff ends the wait.
- `BatchedDescribe`: weak fairness of taskManager, time, execFunc and the sends. Strong
  fairness of AddTask, because a sender on a full Go channel is queued in order.
- `Coalescer`: weak fairness of the timers, the thread's receive for each sender,
  executions and sends.
- `CreateRequest`: the provisioner retries for ever, EC2 neither fails nor limits every
  call, and a volume does not stay `creating` for ever (strong fairness of the calls that
  succeed). These are assumptions about the environment; the property says that the
  driver does not get in the way.
- `VolumeInitialization`: goroutines run, timers go off, and EC2 finishes the initialization
  and says so. Strong fairness of Parse only makes up for the bound on timers.
- `NodeLifecycle`: the informers catch up and deliver, the goroutines run, and the API server
  does not refuse every Get and every patch (strong fairness of CheckAllocatable and Patch).
  A List that fails is not excluded: `EndsAfterKnown` allows for it.
- `NodeInfo`: the loop and the handler of the labeler run. Nothing is assumed of the
  patches, which may all fail: `NodesLabelled` says what the code makes of that.
- `Snapshots`, `NodeService`, `ModifyVolume`: no liveness is claimed.

## 5. Proofs

tlapm checks 458 theorems and lemmas, for all values of the constants: any number of
handlers, volumes, nodes, names, cards, polls, restarts, callers, tasks, keys, tokens,
snapshots, disks, requests, parameters, tags, timers and instance types. The named ASSUMEs of
the modules say what the constants are: bounds are natural numbers and limits positive; sets
of which one member is needed are not empty; `Volumes` of the device manager are finite;
requests, parameters, terms and tables have the fields the code gives them; EC2's largest
volume fits into Go's integers; names, IDs and `None` are told apart. Where a property needs
more, the theorem says so in its own ASSUME, and section 6 has what TLC finds without it:

| hypothesis | theorem | why the code justifies it, and what happens without |
|---|---|---|
| `Lsblk` | `NodeServiceInvariant` and the three theorems from it | verifyVolumeSerialMatch compares only where `lsblk` prints a serial; else a stale link leads to another volume |
| `Followed \cap Foreign = {}` | `LimitAlwaysExact` | a plugin runs on an EC2 instance; else its labels are made from nothing |
| both options are -1 | `LimitAlwaysExact` | they are the defaults; else the limit is what the operator says |
| `~Batching` | `UnpublishTruthful` | the default of the flag (`options.go:130`), though not of the Helm chart; with batching "not found" may stand for a call that failed |
| `ListsState` | `PublishedAlwaysInitialized` | isVolumeStatusInitializing looks for the state among the details EC2 lists; an item without it is taken for an initialized volume |
| `SameOptions` | `NeverTwoVolumes` | what `RetriesMakeOneVolume` then shows of CreateVolume |
| `SizesFit` | `CapacityAlwaysHonoured` | no volume is within a GiB of 2^63 bytes; there the rounding wraps and a volume of 1 GiB is made |
| `UniformTerms` | `AlwaysOnePlace` | the terms of a provisioner have the same keys, those its nodes report |
| `TypesKnown` | `IOPSAlwaysWithinLimits`, `RetriesMakeOneVolume`, `MutableAlwaysPrecedes` | EC2 and the table know the type that is asked for |
| `LimitsConsistent` | `IOPSAlwaysWithinLimits` | the table has limits of EC2, and none of them is near 2^31 |
| `IncreaseOnce` | `IOPSAlwaysWithinLimits` | one key is not given in two spellings |
| `Unambiguous`, `LimitsAgree`, `ZoneFixed` | `RetriesMakeOneVolume`, `RetriesAnswerAlike`, `MutableAlwaysPrecedes` | no key twice in a request, no IOPS between the maximum of the table and that of EC2 where the two differ (gp3: 16000, `cloud.go:80`, and 80000, `cloud.go:220`), and the zone is given or listed alike. For one volume each of the three is needed: `create_retry` and section 6 |

**Attach and detach** (`VolumeAttachmentProofs`). The invariant behind all theorems is
`TypeOK`, exclusive keys, `InFlightNamesDistinct`, one condition for each handler and
two about EC2's attachments and the entries in flight. The properties alone are
not inductive: that a release does not mismatch depends on the key of the volume
having been held since the name was reserved, and that an answer is true depends on what the
handler saw before. So the condition on a handler says, for the
place it is at, which variables are set (Shape), which name is reserved for it
(Reserves), what EC2 has when it is about to answer success (Truthful), and
that its device agrees with the map (Agrees). The module goes from the facts
about names and cards over the steps that touch the map or only the
handler to the EC2 calls; each action is one step of the final proof.
Results: `TypeCorrect`, `NamesDistinct`, `ReservationKept`, `DetachAlwaysFrees`,
`PublishTruthful`, `UnpublishTruthful`, and `Refinement`: the names in flight
implement `NameReservation`. Two more theorems say how an RPC ends. `KeysNeverLeaked`: a key in flight
always has an RPC that will give it back. `HandlersBounded`: a rank, at most `MaxPolls + 8`, falls with
every step of the handler, is raised by no one and is zero when the RPC is over. `Falls` says
what both need of a step: the handler goes to a later place with its key, or answers and gives it back.

**Batcher** (`BatcherProofs`). The properties need one another: a batch is only bounded
because it is executed when its size equals the limit, and that suffices because the
pending tasks were below it; a batch has someone to answer because a timer runs only while
tasks are pending. The invariant adds that the maps of tasks are finite, which counting
them needs, and that no batch is empty. Results: `BatcherTypes`,
`ResultsNeitherLostNorTwice`, `TimerRunsWhilePending`, `NeverOverLimit`. The second half of the
module carries them over to the batched Describe calls: every step of `BatchedDescribe` is one of
`Batcher` or leaves its variables alone (`DescribeImplementsBatcher`), for which the calls still to
make must be IDs of the batch in execution (`Retrying`). For `FoundAlwaysTrue` the invariant
(`DescribeInvariant`) uses the history of what a caller's resource has been since the call began:
it says "there" if the resource exists now (`Watched`), and for every caller of a batch that has
found the resource, though it may be gone by the time the result is sent (`Truthful`).

**Coalescer** (`CoalescerProofs`). The invariant joins the checked properties with two
facts: an execution always has a channel left, and the time an entry has waited and
what is left of its timer add up to the delay. Results: `AnsweredOnce`,
`EntryHasTimer`, `MergeIsFaithful`, `DelayKept`. `MergeAlwaysJoin` adds the other direction, that a
merged request has nothing from elsewhere (`NothingInvented`), and concludes that it is the join of its
callers' requests, whatever the order they came in. The second half is about ResizeOrModifyDisk:
`ModifyImplementsCoalescer` needs no invariant, since an execution changes what the coalescer knows only by
returning. Its answers do. `ModifyInvariant` says that local variables belong to an execution that has
not returned (`Resting`, which rests on each channel being in one place), that options.IOPS is
unset until the volume is described (`NoIOPS`), and that what was changed before the ModifyVolume call
are tags (`Touches`). Each action then moves the local variables on or returns a result that is
justified at that place, and `AnswerJustified` shows that a result appears in no other way. Results:
`InfeasibleUntouched`. `FinishedBeforeSuccess`, which TLC refutes (section 6), is proved of every execution
that never ran beside another one (`FinishedUnlessOverlapped`; the history variable `met` has the others):
then EC2 is done with the volume when it is compared (`Settled`). Executions for other volumes count too,
since they share the batches that read the state of a modification.

**Creation** (`CreateRequestProofs`, `CreateRetryProofs`), in four layers. First tokens: if the
requests for a name ask for the same, a token before one that was used is burned, a
token before the number in the cache is burned, and an answered volume is available. It explains
why a lost cache is harmless: the retries walk over burned tokens to the only one that is
not (`NeverTwoVolumes`). `KeysNeverLeaked` needs no agreement: a name in flight has one call, which gives it
back. Second one attempt: `RequestInv` says what has been read and checked at
each stage, that the RPC in flight asks for what was prepared, and that EC2 has made
only what was asked for. The three picks of zone, zone ID and outpost, the chain of
roundings are each shown right as
operators first (`CapacityAlwaysHonoured`, `AlwaysOnePlace`), and so is that no tag of the user
replaces the one by which the driver finds a volume again (`NameTagAlwaysKept`). Third the limits:
`Knows` says that the cache of limits has EC2's and that a flag once read stays read
(`IOPSAlwaysWithinLimits`). Fourth the retries: `Collected` says what an attempt has
read after some of its parameters, in terms of the set that was read and not of the order. So two
attempts that have read everything have the same digest (`DigestUnique`), hence the same EC2
request, and the first layer applies without its hypothesis (`RetriesMakeOneVolume`,
`RetriesAnswerAlike`). The same digest has the mutable parameters over the others (`MutableAlwaysPrecedes`). That
the maximum may be the table's or EC2's makes no difference to IOPS below both (`CappedAlike`). That sets of tags grow by one without a change to the others is the lemma most of this
rests on (`AppendTag`).

**Snapshots** (`SnapshotsProofs`). Besides the exclusive keys the invariant says of a call
what it knows: nothing has its name when it is about to create (CallOK), the snapshot it is
completing is there and has what was done so far, and no other call has been told of it
(Apart). The last part is what the clean-up depends on: it deletes by ID a snapshot that
others find by name, and `KeptUntilDeleted` holds because they cannot while the
name is held. Results: `SnapshotTypes`, `NeverTwoSnapshots`, `OwnAsRequested`,
`NeverTakenAway`; and as for attach and detach `KeysNeverLeaked` and `CallsBounded`, with at most five steps
of a call.

**Node service** (`NodeServiceProofs`). A disk may change its volume between two steps of a
call, so the invariant has to say why it does not while it matters: EC2 detaches a volume only when kubelet
takes it for unstaged, and the in-flight key and kubelet's order of calls (`CallRight`:
during a call `view` is the uncertain state of its operation) exclude that. Then what a
call found and verified stays the disk of its volume until it has mounted it, and what is mounted stays so
(`VolumeRight`). Results: `MountsAlwaysOwn`, `ViewAlwaysTrue`, and the action property `FormatsOnlyOwnBlank`. Keys and steps do not depend on what the disks are, and are proved from an invariant of their own
(`KeyInvariant`) without the hypothesis on lsblk: `KeysNeverLeaked`, `CallsBounded`.

**Limits** (`PluginProofs`). The invariant follows one instance through the labeler's jobs, the
labels, a plugin's metadata and its report: each is what the code makes of the
instance that the history variable names (`JobRight`, `LabelRight`, `Matches`, `PluginRight`). Then
`LimitAlwaysExact` is arithmetic: root volume and first ENI are counted once between
getNonCSIManagedVolumes, the sources and getVolumesLimit, for every kind of instance type.

**Taint watcher and preStop hook** (`PluginProofs`). The test in the patch is what keeps a drain: a patch that
succeeds was made from the taints as they are. `DrainNeverSkipped` is an action property
over both programs. Also `RemovedOnlyWhenAllocatable`, `AlwaysOneAttempt` and `AlwaysFinishedAfterAll`.

**Volume initialization** (`PluginProofs`). A status in the cache, on its way to a publish, or answered, is one that EC2
has said (`CacheTruthful`, `CallTruthful`), and EC2 does not take it back. With the timers: `EntriesAlwaysExpire`,
`PublishedAlwaysInitialized`.

Only model-checked: all liveness properties (`HandlersTerminate`, `CallersAnswered`, `NotStuck`, `PublishEnds`,
`TaintRemoved`, `EndsAfterKnown`, `NodesLabelled`), since fairness is out of the prover's reach. Of `HandlersTerminate`
the part that needs no fairness is proved: `HandlersBounded` leaves only that a running handler has a step and takes it. Every
invariant, every action property and every refinement that a run checks has a theorem, some under a
hypothesis of the table above; where the hypothesis fails, TLC's instance is all there is.

## 6. Where the code differs from what is written about it

One is a run, and `PROJECT.json` has the details:

- `create_retry` (`OneVolume`): the limit of IOPS an attempt is capped by comes from a dry run or, when
  that tells nothing, from a table. If an attempt used the table and its answer is lost, the
  retry may ask for other IOPS with the same token; the mismatch is taken for a burned
  token, and a second volume is made for the name.

The others are definitions TLC refutes when they are added to the configuration named,
or properties it refutes when the constants are changed as said:

| what is written | what the code does | to see it |
|---|---|---|
| "We keep an active list of devices we have assigned but not yet attached, to avoid a race condition" (`manager.go:70-72`) | the AttachVolume call inside WaitForAttachmentState uses a name that is not in that list, and NewDevice may give it to another volume | `AttachCallsUseDistinctNames`, `MCVolumeAttachment.cfg` |
| "NewDevice retrieves the device if the device is already assigned" (`manager.go:56`) | a name in flight hides the mapping with the same name, and an attached volume is given a second name | `NewDeviceRetrievesAssigned`, `MCVolumeAttachment.cfg` |
| NameAllocator "minimizes device name reuse" (`allocator.go:30-34`) | GetNext keeps no position: the first free name is handed out again | by reading `allocator.go:51` |
| "ErrNotFound is returned when a resource is not found" (`cloud.go:180`) | the error of the single call for a remembered ID is only logged, and its caller is told ErrNotFound for a resource that exists | `NotFoundIsTrue`, `MCBatchedDescribe.cfg` |
| "ControllerUnpublishVolume: attachment not found" is logged (`controller.go:607`) and the call succeeds | with batching, which the Helm chart turns on (`values.yaml:203`) and the flag by default does not (`options.go:130`), the ErrNotFound of getInstance may stand for a call that failed: the unpublish succeeds with the volume attached | `UnpublishedIsDetached`, `MCVolumeAttachmentLive.cfg` with Batching TRUE |
| "maxDelay is the maximum duration the Batcher waits" (`batcher.go:68-69`) | a duplicate of the only pending task starts the timer again | `MaxDelayKept`, `MCBatchedDescribe.cfg` with MaxDelay 2 |
| mergeFunction "should return an error if the new input cannot be combined with the existing inputs" (`coalescer.go:46`) | a request that is merged into a pending one loses its IOPSPerGB and AllowIopsIncreaseOnResize without an error | `MergeServesAllFields`, `MCCoalescer.cfg` |
| "Wait for any existing modifications to prevent race conditions" (`cloud.go:2902-2903`) | two executions for one volume overlap, and one succeeds while EC2 is still modifying; and the batched poll fails for all volumes when one was never modified, and the failure is taken for "done". Without overlaps the comment is true (`FinishedUnlessOverlapped`) | `FinishedBeforeSuccess`, `MCModifyVolume.cfg`; for the second with two keys and the requests `Expansion(1)`, `Expansion(2)` |
| "If there is [a mismatch], the volume is still modifying and we should not return a success" (`cloud.go:2684-2685`) | a request with IOPSPerGB made during a modification is compared with IOPS 0, that is, not at all | `PerGBApplied`, `MCModifyVolume.cfg` with one caller and `MCMoreInputs` |
| "It should create a new volume only when such volume does not exist" (`docs/design.md:110`) | every attempt that comes to another EC2 request makes another volume. Attempts differ when two keys of the parameters differ in case only or two tags have one key (Go maps have no order), and when no topology is given and `randomAvailabilityZone` is told the zones in another order | `OneVolume`, `MCCreateRequest.cfg` with Requests `MCAmbiguous`, or with Requests `Places` and ZoneLists `{"za", "zb"}` |
| | the controller compares the file system as it is written, the node in lower case: a volume for `XFS` with an option xfs does not have is created and never staged (`controller.go:1320`) | `StageableAsCreated`, `MCCreateRequest.cfg` with Requests `MCUpperCase` |
| | zone, zone ID and outpost are picked by separate loops, and come from different terms if the terms have different keys | `OnePlace`, Requests `MCMixedTerms` |
| | with only a zone ID, the zone in the answer is empty | `AnswerHasZone`, Requests `MCZoneIDOnly` |
| | IOPS per GiB times the size wraps in int32 (`cloud.go:782`) and a negative product is not sent at all | `PerGBKept`, Requests `MCWrappedIOPS` |
| | a size within one GiB of the largest int64 wraps when it is rounded up (`util.go:87-89`), and a volume of 1 GiB is made and answered (found while proving `CapacityAlwaysHonoured`, whose hypothesis excludes it) | `CapacityHonoured`, Requests `MCWrappedSize` |
| "This ensures that the snapshot is not left in an unlocked state" (`docs/snapshot.md:84`) | a retry finds the snapshot an interrupted call left and answers success without lock and fast restores | `SnapshotAsRequested`, `MCSnapshots.cfg` |
| cache "automatically removes objects that are not accessed for a configurable delay" (`expiring_cache.go:25`) | an access between the timer and the mutex does not help, and Remove leaves a timer that ends its successor early | `ExpiresUnused`, `MCVolumeInitialization.cfg` |
| | a publish whose context is done goes on while EC2 gives no estimate, its volume locked against retries (`cloud.go:1529`) | `EndsWithContext` with SPECIFICATION `NoInitialize`, `MCVolumeInitialization.cfg` |
| | a volume whose status lists no initialization state is taken for initialized (`cloud.go:1570-1577`), so if EC2 leaves the state out, a publish succeeds early | `PublishedInitialized`, `MCVolumeInitialization.cfg` with ListsState FALSE |
| | a retry of NodeStageVolume after a failed resize finds the mount and succeeds with a small file system | `StagedFillsVolume`, `MCNodeService.cfg` |
| | where `lsblk` does not run or prints no serial, a stale link leads to another volume | `MountsAreOwn`, `MCNodeService.cfg` with Lsblk FALSE |
| "Try to remove the taint one last time" (`node.go:999`) | the last chance is dropped when a handler holds the mutex, and returning then cancels the handler's attempt | `LastChanceTaken`, `MCNodeLifecycle.cfg` |
| "No unnecessary delay is added to the termination workflow" (`prestop.go:41`) | attachments that are gone before the informer has listed them bring no event, and the hook waits until it is killed | `NoUnnecessaryDelay`, `MCNodeLifecycle.cfg` with two attachments |
| "error asserting object" is logged (`prestop.go:111`) | the handler then uses the nil pointer: a tombstone ends the hook with a panic while volumes are attached | `PanicAfterAll`, `MCNodeLifecycle.cfg` |
| continuousUpdateLabels "updates the metadata labels of each node once every `updateTime` minutes" (`labels.go:98`) | a failed update ends the loop, and a Node whose handler failed as well is never labelled | `NodesLabelledAgain`, `MCNodeInfo.cfg` |
| | handler and loop do not exclude one another: an older count may be written over a newer one | `LabelsNeverGoBack`, `MCNodeInfo.cfg` |
| | a Node whose instance ID is not one of EC2's is labelled with no volumes and no ENIs, from which the limit is computed | `LimitExact`, `MCNodeInfo.cfg` with Foreign `{n1}` |

The other way round, the comment at `manager.go:283-287`, that a mismatch in `release`
"actually can happen", is refuted by the lemma `ReleaseMatches` (`VolumeAttachmentProofs`) as long as all attaching and
detaching goes through RPCs that hold the key of the volume.

## 7. Modelling assumptions

EC2:

- A call takes effect by the time it returns, or not at all; its answer may
  be lost. A Describe call that is acted on later may be out of date by then.
- Only the driver attaches and detaches, except that instances may be terminated; there
  is one controller (leader election is the sidecars').
- DetachVolume answers IncorrectState or NotFound only for a volume that is not
  attached. An instance that is not found has no attachments; with `Batching` the answer may
  also be given for an instance that is there, as `NotFoundIsTrue` in section 6 shows.
- EC2 makes at most one modification of a volume at a time, never shrinks one, may
  describe new values before it has finished, and fails a DescribeVolumesModifications
  call with NotFound when one of its volumes was never modified.
- EC2 remembers a client token for longer than the sidecar retries, and a volume name is not used
  again after deletion. VolumeLimitExceeded may be the answer for a known token, and a
  failed volume may still be described. EC2 refuses what is above its size or IOPS limits.
- A dry run names the limit of IOPS or says nothing of use; the limits themselves do not change.
- CreateSnapshot makes at most one snapshot for each call.
- A volume that is initialized stays so. With `ListsState` EC2 lists the initialization state of every
  volume that it initializes, with an estimate or without.

The driver:

- The likely bad names and the caches of IDs may lose a value at any time, which covers
  their expiry and concurrent replacement. The cache of volume initialization has its timers.
- An RPC that is answered `Aborted` changes nothing, so it is not a step. `VolumeAttachment`
  takes the wait for initialization in ControllerPublishVolume to end; `VolumeInitialization`
  says when it does.
- The parameters of a request keep their keys and what is told apart of their values; a
  Go map is read in any order. Text templates and error texts are left out.

The node and the API server:

- kubelet calls stage, publish, unpublish and unstage of a volume in the order CSI allows,
  repeats a call that failed, and may lose an answer. A volume is detached only when
  kubelet has been told that it is unstaged.
- A restart of the plugin loses the keys in flight and ends the calls; one of the host also loses
  mounts. udev may update a link at any time after the disk has changed.
- `FormatAndMount` and the resizer of mount-utils are external: they format a disk only if it is blank, the mount
  may fail after that, and a resize fails or fills the disk.
- An informer sees every state of an object in order but late, may skip to the newest, and may deliver a
  tombstone. A patch with a test of the old taints fails if they have changed.
- The instances in `node_info` only grow, and the index of volumes lags behind.

## 8. Not modelled

- HyperPod nodes (`attachDiskHyperPod`, `detachDiskHyperPod`): SageMaker assigns the device and
  the code only forwards to it.
- `AsyncEC2Collector`: it follows detachments for a metric; nothing the driver does depends on it.
- Queries (ListSnapshots, ValidateVolumeCapabilities, NodeGetVolumeStats, capabilities): one
  read, no state. `newCreateVolumeResponse` formats the answer; what it says of the zone is
  `AnswerHasZone`.
- Leader election of the labeler, metrics and tracing, flags and start-up, the AWS SDK's settings,
  string templates, plugins: I/O, configuration, or libraries.
- Windows mounters, and on Linux the command lines of the mounters: they appear as what they do to the host.
- The generated tables of instance types: `node_info` has one type of each kind.

Hazards known that `PROJECT.json` does not list: `c.bm` is nil without
batching (`cloud.go:1621`), a volume missing in a DescribeVolumesModifications answer
is a nil pointer (`cloud.go:2711`), TagsToDelete are compared in order
(`controller_modify_volume.go:118`), an expansion to zero bytes (`controller.go:715`), a
volume found above the account limit is taken whatever its size (`cloud.go:839`).
