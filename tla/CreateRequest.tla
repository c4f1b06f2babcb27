--------------------------- MODULE CreateRequest ----------------------------
(***************************************************************************)
(* VolumeCreation with the requests: how CreateVolume in controller.go and *)
(* CreateDisk make an EC2 request of a CSI request.  Parameters are Go     *)
(* maps, so they are read in any order; the limits of IOPS come from a     *)
(* cache, a dry run or a table.  The sidecar repeats a request until it    *)
(* succeeds, and every attempt must come to the same EC2 request: another  *)
(* one is an IdempotentParameterMismatch, which the driver takes for a     *)
(* burned token.  Options of VolumeCreation are EC2 requests here, and the *)
(* entry of InFlight is `stage` as long as the request is read.            *)
(***************************************************************************)
EXTENDS VolumeCreation, Sizes, Sequences

CONSTANTS Requests,         \* the CSI requests
          Limits,           \* of each type: EC2's maximum, the fallback, minimum, per GiB
          ZoneLists,        \* the zones DescribeAvailabilityZones may list first
          Source,           \* the volume to clone
          WarnOnInvalidTag,
          MaxVolumeSize     \* EC2's, in GiB

ASSUME OneNameAssumption == \E n \in Names : Names = {n}

\* A parameter: its key as it is compared, and its value as a number or as a text.
Parameter == [key : STRING, n : Int, text : STRING]

\* A term of the topology requirement, "" for a key that it does not have.
TopologyTerm == [wellKnown : STRING, zone : STRING, zoneID : STRING, outpost : STRING]

ASSUME RequestsAssumption ==
    \A r \in Requests :
        /\ r.params \subseteq Parameter /\ r.mutable \subseteq Parameter
        /\ r.range.required \in Int /\ r.range.limit \in Int
        /\ r.preferred \in Seq(TopologyTerm) /\ r.requisite \in Seq(TopologyTerm)

ASSUME LimitsAssumption ==
    \A t \in DOMAIN Limits : Limits[t] \in [max : Nat, fallback : Nat, min : Nat, perGb : Nat]

\* EC2's sizes are within Go's integers.
ASSUME MaxVolumeSizeAssumption ==
    /\ MaxVolumeSize \in Nat /\ MaxVolumeSize < MaxInt32
    /\ MaxVolumeSize * GiB <= MaxInt64

Name == CHOOSE n \in Names : TRUE

IntKeys == {"iops", "iopspergb", "throughput", "volumeinitializationrate"}

TextKeys == {"type", "encrypted", "kmskeyid"}

FlagKeys == {"allowautoiopspergbincrease", "ext4bigalloc", "ext4encryptionsupport",
             "blockattachuntilinitialized"}

FormatKeys == {"blocksize", "inodesize", "bytesperinode", "numberofinodes", "ext4clustersize"}

PVCKeys == {"pvcname", "pvcnamespace", "pvname"}

VARIABLES req,     \* the request of the name
          stage,   \* how far the attempt has read it
          left,    \* parameters that are still to be read
          opts,    \* what was read
          input,   \* what is known of the EC2 request
          known    \* latestIOPSLimits: <<key, maximum>>

requestVars == <<req, stage, left, opts, input, known>>

allVars == <<call, inFlight, latest, vol, answered, losses, req, stage, left, opts, input, known>>

NoOptions == [ints |-> [k \in IntKeys |-> 0], texts |-> [k \in TextKeys |-> ""],
              flags |-> {}, format |-> {}, own |-> {}, tags |-> <<>>]

NoInput == [size |-> 0, type |-> "", zone |-> "", zoneID |-> "", outpost |-> "", encrypted |-> FALSE,
            kms |-> "", snapshot |-> FALSE, clone |-> FALSE, multi |-> FALSE, iops |-> 0,
            throughput |-> 0, rate |-> 0, tags |-> {}]

RequestInit ==
    /\ call = [p \in Procs |-> [pc |-> "idle", name |-> Name, opts |-> NoInput, id |-> 1]]
    /\ inFlight = {}
    /\ latest = [n \in Names |-> 0]
    /\ vol = [n \in Names |-> [t \in Tokens |-> [state |-> "none", opts |-> NoInput]]]
    /\ answered = [n \in Names |-> {}]
    /\ losses = 0
    /\ req \in Requests
    /\ stage = "idle" /\ left = {} /\ opts = NoOptions /\ input = NoInput /\ known = {}

\* The attempt ends with an error, before EC2 is asked for anything.
Refuse == stage' = "idle" /\ left' = {} /\ opts' = NoOptions /\ input' = NoInput

-----------------------------------------------------------------------------
(* CreateVolume: validation *)

IsValidCapability(c) == c.mode = "SingleNodeWriter" \/ (c.mode = "MultiNodeMultiWriter" /\ c.block)

\* validateCreateVolumeRequest and getVolSizeBytes.
Valid(r) ==
    /\ r.caps # {} /\ \A c \in r.caps : IsValidCapability(c)
    /\ GetVolSizeBytes(r.range) # -1

MultiAttach(r) == \E c \in r.caps : c.mode = "MultiNodeMultiWriter" /\ c.block

\* The sidecar calls, and nothing is in flight for the name.
Begin ==
    /\ stage = "idle" /\ inFlight = {}
    /\ Valid(req)
    /\ stage' = "parameters" /\ left' = req.params
    /\ opts' = NoOptions /\ input' = NoInput
    /\ UNCHANGED <<req, known>> /\ UNCHANGED vars

-----------------------------------------------------------------------------
(* CreateVolume: parameters, in the order of the map *)

\* The parameters that also become a tag of the driver's.
TagOf(p) == IF p.key \in PVCKeys \cup {"iopspergb", "allowautoiopsincreaseonmodify"} THEN {<<p.key, p.n>>} ELSE {}

\* A parameter that is read.
Set(p) ==
    CASE p.key \in IntKeys -> [opts EXCEPT !.ints[p.key] = p.n]
      [] p.key \in TextKeys -> [opts EXCEPT !.texts[p.key] = p.text]
      [] p.key \in FlagKeys -> [opts EXCEPT !.flags = IF p.text = "true" THEN @ \cup {p.key} ELSE @ \ {p.key}]
      [] p.key \in FormatKeys -> [opts EXCEPT !.format = IF p.text # "" THEN @ \cup {p.key} ELSE @ \ {p.key}]
      [] p.key = "tagspecification" -> [opts EXCEPT !.tags = Append(@, <<p.text, p.n>>)]
      [] OTHER -> opts

Read(p) == [Set(p) EXCEPT !.own = {t \in @ : t[1] # p.key} \cup TagOf(p)]

\* "bad" is a text that does not parse.
Readable(p) ==
    /\ p.key \in IntKeys \cup FormatKeys => p.text # "bad"
    /\ p.key \in IntKeys \cup TextKeys \cup FlagKeys \cup FormatKeys \cup PVCKeys
                 \cup {"tagspecification", "fstype", "blockexpress", "allowautoiopsincreaseonmodify"}

ReadParameter(p) ==
    /\ stage = "parameters" /\ p \in left
    /\ IF ~Readable(p) THEN Refuse
       ELSE /\ opts' = Read(p)
            /\ left' = left \ {p}
            /\ UNCHANGED <<stage, input>>
    /\ UNCHANGED <<req, known>> /\ UNCHANGED vars

ParametersRead ==
    /\ stage = "parameters" /\ left = {}
    /\ stage' = "mutable" /\ left' = req.mutable
    /\ UNCHANGED <<req, opts, input, known>> /\ UNCHANGED vars

\* Wrong: the deprecated key sets the type whenever it is read.
TypeKeyAlways(p) == p.key \in {"type", "volumeType"}

\* The keys that set the type.
TypeKey(p) ==
    \/ p.key = "type"
    \/ p.key = "volumeType" /\ \A q \in req.mutable : q.key # "type"

ReadMutable(p) ==
    /\ stage = "mutable" /\ p \in left
    /\ IF \/ p.key \notin {"iops", "throughput", "type", "volumeType", "tagspecification"}
          \/ p.key \in {"iops", "throughput"} /\ p.text = "bad"
       THEN Refuse
       ELSE /\ opts' = IF TypeKey(p) THEN [opts EXCEPT !.texts["type"] = p.text]
                       ELSE IF p.key = "volumeType" THEN opts ELSE Read(p)
            /\ left' = left \ {p}
            /\ UNCHANGED <<stage, input>>
    /\ UNCHANGED <<req, known>> /\ UNCHANGED vars

-----------------------------------------------------------------------------
(* CreateVolume: tags, formatting options, source and topology *)

Reserved == {"CSIVolumeName", "kubernetes.io/x"}

\* template.Evaluate: of two tags with one key the later one counts.
Evaluated ==
    {<<opts.tags[i][1], opts.tags[i][2]>> : i \in {i \in DOMAIN opts.tags :
        \A j \in DOMAIN opts.tags : j > i => opts.tags[j][1] # opts.tags[i][1]}}

\* validateExtraTags, when it only warns.
UserTags == {t \in Evaluated : t[1] \notin Reserved}

\* maps.Copy: the tags of the user over those of the driver; the value 0 is the driver's.
VolumeTags(user) ==
    user \cup {t \in {<<"CSIVolumeName", 0>>, <<"Name", 0>>} \cup opts.own : \A u \in user : u[1] # t[1]}

\* FileSystemConfigs[fs].NotSupportedParams; a name that is not in the map supports all.
NotSupported(fs) ==
    CASE fs = "ext3" -> {"ext4bigalloc", "ext4clustersize", "ext4encryptionsupport"}
      [] fs = "xfs" -> {"bytesperinode", "numberofinodes", "ext4bigalloc", "ext4clustersize",
                        "ext4encryptionsupport"}
      [] fs = "ntfs" -> FormatKeys \cup {"ext4bigalloc", "ext4encryptionsupport"}
      [] OTHER -> {}

FormatOptions == opts.format \cup (opts.flags \cap {"ext4bigalloc", "ext4encryptionsupport"})

\* validateFormattingOption for all of them.
FormatValid ==
    /\ FormatOptions # {} => \A c \in req.caps : ~c.block /\ FormatOptions \cap NotSupported(c.fs) = {}
    /\ "ext4clustersize" \in opts.format => "ext4bigalloc" \in opts.flags

\* BuildOutpostArn: an ID whose other parts are missing makes no ARN.
BuildOutpostArn(term) == IF term.outpost = "incomplete" THEN "" ELSE term.outpost

First(terms, Test(_)) == CHOOSE i \in DOMAIN terms :
    Test(terms[i]) /\ \A j \in 1..(i - 1) : ~Test(terms[j])

Terms == req.preferred \o req.requisite

Has(Test(_)) == \E i \in DOMAIN Terms : Test(Terms[i])

HasZone(term) == term.wellKnown # "" \/ term.zone # ""

HasZoneID(term) == term.zoneID # ""

HasOutpost(term) == term.outpost # ""

ZoneOf(term) == IF term.wellKnown # "" THEN term.wellKnown ELSE term.zone

PickAvailabilityZone == IF Has(HasZone) THEN ZoneOf(Terms[First(Terms, HasZone)]) ELSE ""

\* Wrong: only what is required is looked at.
PickRequisiteZoneID ==
    IF \E i \in DOMAIN req.requisite : HasZoneID(req.requisite[i])
    THEN req.requisite[First(req.requisite, HasZoneID)].zoneID ELSE ""

PickAvailabilityZoneID == IF Has(HasZoneID) THEN Terms[First(Terms, HasZoneID)].zoneID ELSE ""

GetOutpostArn == IF Has(HasOutpost) THEN BuildOutpostArn(Terms[First(Terms, HasOutpost)]) ELSE ""

\* checkSourceTopology: some required term is where the source is.
SourceTopologyOK ==
    req.requisite # <<>> =>
        \E i \in DOMAIN req.requisite :
            LET term == req.requisite[i]
            IN  /\ \/ Source.zone \in {term.wellKnown, term.zone} \ {""}
                   \/ Source.zoneID = term.zoneID /\ term.zoneID # ""
                /\ term.outpost # "" => BuildOutpostArn(term) = Source.outpost

\* The errors about the source.
SourceError ==
    \/ req.source \in {"both", "neither"}
    \/ /\ req.source = "volume"
       /\ \/ opts.texts["encrypted"] \notin {"", "true"}
          \/ opts.texts["kmskeyid"] \notin {"", Source.kms}
          \/ ~SourceTopologyOK

\* The checks at the start of CreateDisk.
DiskError(type) ==
    \/ opts.ints["iops"] > 0 /\ opts.ints["iopspergb"] > 0
    \/ MultiAttach(req) /\ type # "io2"

\* A number that is not positive is not sent.
Positive(n) == IF n > 0 THEN n ELSE 0

Prepared(type, zone, zoneID) ==
    LET clone == req.source = "volume"
    IN  [NoInput EXCEPT
           !.size = BytesToGiB(GetVolSizeBytes(req.range)), !.type = type,
           !.zone = zone, !.zoneID = zoneID,
           !.outpost = IF clone THEN Source.outpost ELSE GetOutpostArn,
           !.encrypted = opts.texts["encrypted"] = "true" \/ opts.texts["kmskeyid"] # "",
           !.kms = opts.texts["kmskeyid"], !.snapshot = req.source = "snapshot", !.clone = clone,
           !.multi = MultiAttach(req), !.throughput = Positive(opts.ints["throughput"]),
           !.rate = Positive(opts.ints["volumeinitializationrate"]), !.tags = VolumeTags(UserTags)]

\* The type, and where the volume is to be; "" for both: in the zone EC2 lists first.
Type == IF opts.texts["type"] = "" THEN "gp3" ELSE opts.texts["type"]

Zone == IF req.source = "volume" THEN Source.zone ELSE PickAvailabilityZone

ZoneID == IF req.source = "volume" THEN Source.zoneID ELSE PickAvailabilityZoneID

\* The rest of CreateVolume, and CreateDisk up to the limits.
Prepare ==
    /\ stage = "mutable" /\ left = {}
    /\ IF \/ ~WarnOnInvalidTag /\ \E t \in Evaluated : t[1] \in Reserved
          \/ ~FormatValid \/ SourceError \/ DiskError(Type)
       THEN Refuse
       ELSE /\ \E z \in ZoneLists :
                 input' = Prepared(Type, IF Zone = "" /\ ZoneID = "" THEN z ELSE Zone, ZoneID)
            /\ stage' = "limits"
            /\ UNCHANGED <<left, opts>>
    /\ UNCHANGED <<req, known>> /\ UNCHANGED vars

\* GetDiskByID does not find the volume to clone, or fails.
SourceFails ==
    /\ stage = "mutable" /\ left = {} /\ req.source = "volume"
    /\ Refuse
    /\ UNCHANGED <<req, known>> /\ UNCHANGED vars

\* randomAvailabilityZone: DescribeAvailabilityZones fails.
ZonesFail ==
    /\ stage = "mutable" /\ left = {} /\ Zone = "" /\ ZoneID = ""
    /\ Refuse
    /\ UNCHANGED <<req, known>> /\ UNCHANGED vars

-----------------------------------------------------------------------------
(* CreateDisk: the limits of IOPS, and the call *)

\* iops before and after capIOPS.
RequestedIOPS ==
    IF opts.ints["iops"] > 0 THEN opts.ints["iops"]
    ELSE IF opts.ints["iopspergb"] > 0 THEN Int32(opts.ints["iopspergb"] * input.size) ELSE 0

CappedIOPS(max) ==
    IF RequestedIOPS <= 0 THEN 0
    ELSE CapIOPS(input.size, RequestedIOPS,
                 [max |-> max, min |-> Limits[input.type].min, perGb |-> Limits[input.type].perGb],
                 "allowautoiopspergbincrease" \in opts.flags)

CacheKey == <<input.type, input.zone, input.zoneID, input.outpost>>

\* createVolumeHelper and createCloneHelper: a copy takes zone, encryption and snapshot from
\* its source.
EC2Input(in) ==
    IF in.clone
    THEN [in EXCEPT !.zone = "", !.zoneID = "", !.outpost = "", !.encrypted = FALSE,
                    !.kms = "", !.snapshot = FALSE, !.rate = 0]
    ELSE in

\* The EC2 request is complete: CreateDisk goes on with it.
Use(p, max) ==
    /\ stage = "limits"
    /\ input' = [input EXCEPT !.iops = CappedIOPS(max)]
    /\ CreateVolume(p, Name, EC2Input(input'))
    /\ stage' = "idle"
    /\ UNCHANGED <<req, left, opts>>

\* getVolumeLimits: from the cache.
CachedLimits(p) ==
    /\ \E k \in known : k[1] = CacheKey /\ Use(p, k[2])
    /\ UNCHANGED known

\* getVolumeLimits: the dry run fails with an error that names the maximum.
DryRunLimits(p) ==
    /\ \A k \in known : k[1] # CacheKey
    /\ Use(p, Limits[input.type].max)
    /\ known' = known \cup {<<CacheKey, Limits[input.type].max>>}

\* getVolumeLimits: it fails with another error, or succeeds; the table is not cached.
FallbackLimits(p) ==
    /\ \A k \in known : k[1] # CacheKey
    /\ Use(p, Limits[input.type].fallback)
    /\ UNCHANGED known

\* The limits expire.
Forget ==
    /\ known # {} /\ known' = {}
    /\ UNCHANGED <<req, stage, left, opts, input>> /\ UNCHANGED vars

\* EC2 has no volumes of this size.
Offered(p) == call[p].opts.size \in 1..MaxVolumeSize

Creates(p) == CreateSucceeds(p) /\ Offered(p) /\ UNCHANGED requestVars

Moves(p) == Mismatch(p) /\ UNCHANGED requestVars

Answers(p) == WaitSucceeds(p) /\ UNCHANGED requestVars

\* The EC2 calls of CreateDisk, and the response with what was read before.
Continue(p) == CreateDisk(p) /\ (vol' = vol \/ Offered(p)) /\ UNCHANGED requestVars

\* The volume becomes available, or its creation fails.
Settles == \E t \in Tokens : BecomesAvailable(Name, t) \/ CreationFails(Name, t)

Loses ==
    \/ Expire(Name) /\ UNCHANGED requestVars
    \/ Restart /\ Refuse /\ known' = {} /\ UNCHANGED req

Attempt ==
    \/ Begin \/ ParametersRead \/ Prepare \/ SourceFails \/ ZonesFail
    \/ \E p \in left : ReadParameter(p) \/ ReadMutable(p)
    \/ \E p \in Procs : CachedLimits(p) \/ DryRunLimits(p) \/ FallbackLimits(p)

RequestNext ==
    \/ Attempt
    \/ Forget
    \/ \E p \in Procs : Continue(p)
    \/ Settles /\ UNCHANGED requestVars
    \/ Loses
    \/ ~Valid(req) /\ UNCHANGED allVars     \* InvalidArgument

RequestSpec == RequestInit /\ [][RequestNext]_allVars

\* As in VolumeCreation: the sidecar repeats the request, goroutines run, and EC2 does not fail
\* every call.
RequestFairness ==
    /\ WF_allVars(Attempt) /\ SF_allVars(Prepare)
    /\ WF_allVars(\E p \in Procs : Continue(p))
    /\ SF_allVars(\E p \in Procs : Creates(p))
    /\ SF_allVars(\E p \in Procs : Moves(p))
    /\ SF_allVars(\E p \in Procs : Answers(p))
    /\ WF_allVars(Settles /\ UNCHANGED requestVars)

FairSpec == RequestSpec /\ RequestFairness

-----------------------------------------------------------------------------
(* Properties *)

\* The EC2 requests of the calls in progress.
Asked == {call[p].opts : p \in {q \in Procs : call[q].pc # "idle"}}

Made == {vol[Name][t].opts : t \in {t \in Tokens : vol[Name][t].state # "none"}}

RequestTypeOK ==
    /\ TypeOK
    /\ stage \in {"idle", "parameters", "mutable", "limits"} /\ (inFlight # {} => stage = "idle")
    /\ opts.ints \in [IntKeys -> Int] /\ opts.texts \in [TextKeys -> STRING]
    /\ opts.flags \subseteq FlagKeys /\ opts.format \subseteq FormatKeys
    /\ Cardinality(known) <= 1

\* What is made has the size that was asked for: at least `required` and, if there is a limit,
\* not more.
CapacityHonoured ==
    \A i \in Made : req.range.given =>
        /\ GiBToBytes(i.size) >= req.range.required
        /\ req.range.limit > 0 => GiBToBytes(i.size) <= req.range.limit

\* A volume carries the tag the driver finds it by, whatever tags the user asks for.
NameTagKept == \A i \in Asked : <<"CSIVolumeName", 0>> \in i.tags

\* "Values specified in mutable_parameters MUST take precedence over the values from
\* parameters", and `type` over the deprecated key, in whatever order the maps are read.
MutableTakesPrecedence ==
    \A p \in req.mutable, i \in Asked \cup Made :
        /\ p.key = "type" => i.type = IF p.text = "" THEN "gp3" ELSE p.text
        /\ p.key = "throughput" => i.throughput = Positive(p.n)

\* Zone, zone ID and outpost of a new volume are those of one place of the request.
OnePlace ==
    \A i \in Asked : ~i.clone /\ Terms # <<>> =>
        \E j \in DOMAIN Terms :
            /\ i.zone = ZoneOf(Terms[j])
            /\ i.zoneID = Terms[j].zoneID
            /\ i.outpost = BuildOutpostArn(Terms[j])

\* IOPS are within what EC2 has for the type and the size, unless that is less than the
\* minimum of the type; and with allowAutoIOPSPerGBIncrease they are not below the minimum.
IOPSWithinLimits ==
    \A i \in Made :
        LET limits == Limits[i.type]
        IN  /\ limits.max > 0 => i.iops <= limits.max
            /\ limits.perGb > 0 => \/ i.iops <= limits.perGb * i.size
                                   \/ limits.perGb * i.size < limits.min
            /\ i.iops > 0 /\ (\E p \in req.params : p.key = "allowautoiopspergbincrease" /\ p.text = "true") => i.iops >= limits.min

\* "To prevent becoming stuck for 12 hours": once EC2 has been asked for a volume it offers, the
\* retries succeed in the end, however often a creation fails behind the driver's back, a reply
\* is lost or the token is forgotten.
NotStuck == (\E i \in Asked : i.size \in 1..MaxVolumeSize) ~> answered[Name] # {}

-----------------------------------------------------------------------------
(* Refuted *)

\* recheckFormattingOptionParameter in NodeStageVolume, with the default of the node.
NodeAccepts(fs, context) ==
    context \cap NotSupported(CASE fs = "" -> "ext4" [] fs = "XFS" -> "xfs" [] OTHER -> fs) = {}

\* The node does not refuse the formatting options in the context of a volume that was created.
StageableAsCreated ==
    Asked # {} => \A c \in req.caps : c.block \/ NodeAccepts(c.fs, FormatOptions)

\* The answer says in which zone the volume is; it is "" when only a zone ID was asked for.
AnswerHasZone == Asked # {} => input.zone # ""

\* IOPS by GiB are not lost when the product passes int32.
PerGBKept == \A i \in Asked : (\E p \in req.params : p.key = "iopspergb" /\ p.n > 0) => i.iops > 0
=============================================================================
