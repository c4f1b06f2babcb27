------------------------- MODULE CreateRetryProofs --------------------------
(***************************************************************************)
(* Every attempt at a request comes to the same EC2 request: IOPS are      *)
(* within the limits wherever these come from, what is read does not       *)
(* depend on the order of the maps, and so the retries make one volume,    *)
(* for any number of goroutines, tokens, losses, parameters and tags.      *)
(***************************************************************************)
EXTENDS CreateRequestProofs, WellFoundedInduction

-----------------------------------------------------------------------------
(* CreateRequest: IOPS *)

\* The types that are named are types of EBS.
TypesKnown ==
    /\ "gp3" \in DOMAIN Limits
    /\ \A r \in Requests : \A p \in r.params \cup r.mutable :
         p.key \in {"type", "volumeType"} => p.text \in DOMAIN Limits \cup {""}

\* IOPS by size are int32, and the table says no more than EC2 does.
LimitsConsistent ==
    \A t \in DOMAIN Limits :
        /\ Limits[t].perGb * MaxVolumeSize <= MaxInt32
        /\ Limits[t].fallback > 0 => Limits[t].min <= Limits[t].fallback
        /\ Limits[t].max > 0 => Limits[t].fallback \in 1..Limits[t].max

Increase == "allowautoiopspergbincrease"

Raises(p) == p.key = Increase /\ p.text = "true"

\* The key that allows the increase is there once.
IncreaseOnce ==
    \A r \in Requests : \A p, q \in r.params : p.key = Increase /\ q.key = Increase => p = q

\* The IOPS of a volume EC2 offers are within the limits of its type.
Within(i) ==
    i.size \in 1..MaxVolumeSize =>
        LET limits == Limits[i.type]
        IN  /\ limits.max > 0 => i.iops <= limits.max
            /\ limits.perGb > 0 => \/ i.iops <= limits.perGb * i.size
                                   \/ limits.perGb * i.size < limits.min
            /\ i.iops > 0 /\ (\E p \in req.params : Raises(p)) => i.iops >= limits.min

\* What the attempt knows of type, limits and increase.
Knows ==
    /\ opts.texts["type"] \in DOMAIN Limits \cup {""}
    /\ \A k \in known : k[2] = Limits[k[1][1]].max
    /\ stage = "parameters" => \A p \in req.params \ left : Raises(p) => Increase \in opts.flags
    /\ stage \in {"mutable", "limits"} => \A p \in req.params : Raises(p) => Increase \in opts.flags
    /\ stage = "limits" => input.type \in DOMAIN Limits

Bounded ==
    /\ \A p \in Procs : call[p].pc # "idle" => Within(call[p].opts)
    /\ \A n \in Names, t \in Tokens : vol[n][t].state # "none" => Within(vol[n][t].opts)

PerformanceInv == RequestInv /\ Knows /\ Bounded

\* The bounds stay when no handler starts and only what is asked for is made.
LEMMA BoundedStays ==
    ASSUME Bounded, UNCHANGED req,
           \A p \in Procs : call'[p].pc # "idle" => call[p].pc # "idle" /\ call'[p].opts = call[p].opts,
           \A n \in Names, t \in Tokens : vol'[n][t].state # "none" =>
               \/ vol[n][t].state # "none" /\ vol'[n][t].opts = vol[n][t].opts
               \/ \E p \in Procs : call[p].pc # "idle" /\ vol'[n][t].opts = call[p].opts
    PROVE  Bounded'
<1>1. \A i : Within(i) => Within(i)'
  BY Zenon DEF Within
<1>2. ASSUME NEW p \in Procs, call'[p].pc # "idle"
      PROVE  Within(call[p].opts)'
  <2>1. PICK i : i = call'[p].opts
    BY Zenon
  <2>2. Within(i)'
    BY <1>1, <1>2, <2>1, Zenon DEF Bounded
  <2> QED
    BY <2>1, <2>2, Zenon DEF Within
<1>3. ASSUME NEW n \in Names, NEW t \in Tokens, vol'[n][t].state # "none"
      PROVE  Within(vol[n][t].opts)'
  <2>1. PICK i : i = vol'[n][t].opts
    BY Zenon
  <2>2. Within(i)'
    BY <1>1, <1>3, <2>1, Zenon DEF Bounded
  <2> QED
    BY <2>1, <2>2, Zenon DEF Within
<1> QED
  BY <1>2, <1>3, Zenon DEF Bounded

\* An attempt that is refused knows no type.
LEMMA RefuseKnows ==
    ASSUME Knows, Refuse, known' = known \/ known' = {}
    PROVE  Knows'
<1>1. stage' = "idle" /\ opts' = NoOptions
  BY Zenon DEF Refuse
<1>2. opts'.texts["type"] = ""
  BY Zenon, <1>1 DEF NoOptions, TextKeys
<1>3. \A k \in known' : k[2] = Limits[k[1][1]].max
  BY Zenon DEF Knows
<1> QED
  BY Zenon, <1>1, <1>2, <1>3 DEF Knows

\* What a parameter changes of type and increase.
LEMMA ReadKnows ==
    ASSUME OptsShape, NEW p \in Parameter, opts' = Read(p)
    PROVE  /\ opts'.texts["type"] = IF p.key = "type" THEN p.text ELSE opts.texts["type"]
           /\ p.key # Increase => opts'.flags \cap {Increase} = opts.flags \cap {Increase}
           /\ Raises(p) => Increase \in opts'.flags
<1>1. Changes(Read(p), p)
  BY ReadChanges, Zenon
<1>2. "type" \in TextKeys /\ Increase \in FlagKeys
  BY Zenon DEF TextKeys, FlagKeys, Increase
<1>3. opts'.texts["type"] = IF p.key = "type" THEN p.text ELSE opts.texts["type"]
  BY Zenon, <1>1, <1>2 DEF Changes
<1>4. opts'.flags = IF p.key \notin FlagKeys THEN opts.flags
                    ELSE IF p.text = "true" THEN opts.flags \cup {p.key} ELSE opts.flags \ {p.key}
  BY <1>1, Zenon DEF Changes
<1>5. Raises(p) => Increase \in opts'.flags
  BY Zenon, <1>2, <1>4 DEF Raises
<1>6. p.key # Increase => opts'.flags \cap {Increase} = opts.flags \cap {Increase}
  BY Zenon, <1>4
<1> QED
  BY Zenon, <1>3, <1>5, <1>6

\* An attempt leaves handlers and volumes alone.
LEMMA AttemptBounded ==
    ASSUME Bounded, UNCHANGED vars, UNCHANGED req
    PROVE  Bounded'
BY BoundedStays, Zenon DEF vars

\* The steps of the attempt up to the limits.
LEMMA BeginKnows ==
    ASSUME RequestInv, Knows, Begin \/ ParametersRead
    PROVE  Knows'
<1>1. CASE Begin
  <2>1. /\ stage' = "parameters" /\ left' = req.params /\ opts' = NoOptions /\ UNCHANGED <<req, known>>
    BY <1>1, Zenon DEF Begin
  <2>2. opts'.texts["type"] = ""
    BY Zenon, <2>1 DEF NoOptions, TextKeys
  <2> QED
    BY Zenon, <2>1, <2>2 DEF Knows
<1>2. CASE ParametersRead
  <2>1. /\ stage = "parameters" /\ left = {} /\ stage' = "mutable" /\ UNCHANGED <<req, opts, known>>
    BY <1>2, Zenon DEF ParametersRead
  <2> QED
    BY Zenon, <2>1 DEF Knows
<1> QED
  BY Zenon, <1>1, <1>2

\* A parameter is read.
LEMMA ReadParameterKnows ==
    ASSUME TypesKnown, IncreaseOnce, RequestInv, Knows, NEW p \in left, ReadParameter(p)
    PROVE  Knows'
<1>1. stage = "parameters" /\ UNCHANGED <<req, known>>
  BY Zenon DEF ReadParameter
<1>2. CASE Refuse
  BY Zenon, <1>1, <1>2, RefuseKnows
<1>3. CASE opts' = Read(p) /\ left' = left \ {p} /\ UNCHANGED stage
  <2>1. OptsShape /\ p \in req.params /\ left \subseteq req.params /\ req \in Requests
    BY Zenon, <1>1 DEF RequestInv, Reading
  <2>2. p \in Parameter
    BY <2>1, RequestsAssumption, Zenon
  <2>3. /\ opts'.texts["type"] = IF p.key = "type" THEN p.text ELSE opts.texts["type"]
        /\ p.key # Increase => opts'.flags \cap {Increase} = opts.flags \cap {Increase}
        /\ Raises(p) => Increase \in opts'.flags
    BY <1>3, <2>1, <2>2, ReadKnows, Zenon
  <2>4. opts'.texts["type"] \in DOMAIN Limits \cup {""}
    BY Zenon, <2>1, <2>3 DEF TypesKnown, Knows
  <2>5. ASSUME NEW q \in req.params \ left', Raises(q)
        PROVE  Increase \in opts'.flags
    <3>1. CASE q = p
      BY Zenon, <2>3, <2>5, <3>1
    <3>2. CASE q # p
      <4>1. q \in req.params \ left
        BY Zenon, <1>3, <2>5, <3>2
      <4>2. p.key # Increase
        BY <2>1, <2>5, <3>2, Zenon DEF IncreaseOnce, Raises
      <4> QED
        BY Zenon, <1>1, <2>3, <2>5, <4>1, <4>2 DEF Knows
    <3> QED
      BY Zenon, <3>1, <3>2
  <2> QED
    BY Zenon, <1>1, <1>3, <2>4, <2>5 DEF Knows
<1> QED
  BY <1>2, <1>3, Zenon DEF ReadParameter

\* A mutable parameter is read.
LEMMA ReadMutableKnows ==
    ASSUME TypesKnown, RequestInv, Knows, NEW p \in left, ReadMutable(p)
    PROVE  Knows'
<1>1. stage = "mutable" /\ UNCHANGED <<req, known>>
  BY Zenon DEF ReadMutable
<1>2. CASE Refuse
  BY Zenon, <1>1, <1>2, RefuseKnows
<1>3. CASE /\ p.key \in {"iops", "throughput", "type", "volumeType", "tagspecification"}
           /\ opts' = IF TypeKey(p) THEN [opts EXCEPT !.texts["type"] = p.text]
                      ELSE IF p.key = "volumeType" THEN opts ELSE Read(p)
           /\ UNCHANGED stage
  <2>1. OptsShape /\ p \in req.mutable /\ req \in Requests
    BY Zenon, <1>1 DEF RequestInv, Reading
  <2>2. p \in Parameter
    BY <2>1, RequestsAssumption, Zenon
  <2>3. /\ opts'.texts["type"] \in DOMAIN Limits \cup {""}
        /\ Increase \in opts.flags => Increase \in opts'.flags
    <3>1. CASE TypeKey(p)
      <4>1. p.key \in {"type", "volumeType"}
        BY Zenon, <3>1 DEF TypeKey
      <4>2. opts' = [opts EXCEPT !.texts["type"] = p.text]
        BY <1>3, <3>1, Zenon
      <4>3. opts'.texts["type"] = p.text /\ opts'.flags = opts.flags
        BY Zenon, <2>1, <4>2 DEF OptsShape, OptFields, TextKeys
      <4> QED
        BY Zenon, <2>1, <4>1, <4>3 DEF TypesKnown
    <3>2. CASE UNCHANGED opts
      BY <3>2, Zenon DEF Knows
    <3>3. CASE opts' = Read(p)
      <4>1. p.key # Increase
        BY Zenon, <1>3 DEF Increase
      <4>2. /\ opts'.texts["type"] = IF p.key = "type" THEN p.text ELSE opts.texts["type"]
            /\ p.key # Increase => opts'.flags \cap {Increase} = opts.flags \cap {Increase}
        BY <2>1, <2>2, <3>3, ReadKnows, Zenon
      <4> QED
        BY Zenon, <2>1, <4>1, <4>2 DEF TypesKnown, Knows
    <3> QED
      BY <1>3, <3>1, <3>2, <3>3, Zenon
  <2> QED
    BY Zenon, <1>1, <1>3, <2>3 DEF Knows
<1> QED
  BY <1>2, <1>3, Zenon DEF ReadMutable

\* The EC2 request is prepared, or the attempt is refused.
LEMMA PrepareKnows ==
    ASSUME TypesKnown, RequestInv, Knows, Prepare \/ SourceFails \/ ZonesFail
    PROVE  Knows'
<1>1. stage = "mutable" /\ UNCHANGED <<req, known>>
  BY Zenon DEF Prepare, SourceFails, ZonesFail
<1>2. CASE Refuse
  BY Zenon, <1>1, <1>2, RefuseKnows
<1>3. ASSUME NEW zone, NEW zoneID, stage' = "limits", UNCHANGED opts, input' = Prepared(Type, zone, zoneID)
      PROVE  Knows'
  <2>1. PICK type : type = Type
    BY Zenon
  <2>2. input'.type = type
    BY Zenon, <1>3, <2>1 DEF Prepared, NoInput
  <2>3. type \in DOMAIN Limits
    BY Zenon, <2>1 DEF Knows, Type, TypesKnown
  <2> QED
    BY Zenon, <1>1, <1>3, <2>2, <2>3 DEF Knows
<1> QED
  BY <1>2, <1>3, Zenon DEF Prepare, SourceFails, ZonesFail

\* What CreateDisk asks for is within the limits, those of EC2 and those of the table.
LEMMA CappedWithin ==
    ASSUME LimitsConsistent, OptsShape, input.type \in DOMAIN Limits, input.size \in 1..MaxVolumeSize,
           \A p \in req.params : Raises(p) => Increase \in opts.flags,
           NEW max, max = Limits[input.type].max \/ max = Limits[input.type].fallback
    PROVE  LET limits == Limits[input.type]
           IN  /\ limits.max > 0 => CappedIOPS(max) <= limits.max
               /\ limits.perGb > 0 => \/ CappedIOPS(max) <= limits.perGb * input.size
                                      \/ limits.perGb * input.size < limits.min
               /\ CappedIOPS(max) > 0 /\ (\E p \in req.params : Raises(p)) => CappedIOPS(max) >= limits.min
<1> DEFINE limits == Limits[input.type]
<1>1. PICK most, least, perGb, fallback \in Nat :
         most = limits.max /\ least = limits.min /\ perGb = limits.perGb /\ fallback = limits.fallback
  BY Zenon, LimitsAssumption
<1>2. /\ max \in Nat /\ (max > 0 => least <= max) /\ (most > 0 => max > 0 /\ max <= most)
      /\ perGb * MaxVolumeSize <= MaxInt32
  BY <1>1 DEF LimitsConsistent
<1>3. PICK gib \in 1..MaxVolumeSize : gib = input.size
  BY Zenon
<1>4. CASE RequestedIOPS <= 0
  <2>1. CappedIOPS(max) = 0
    BY Zenon, <1>4 DEF CappedIOPS
  <2>2. perGb * gib \in Nat
    BY <1>1, <1>3, ProductGrows, MaxVolumeSizeAssumption
  <2> QED
    BY <1>1, <1>3, <2>1, <2>2
<1>5. CASE ~(RequestedIOPS <= 0)
  <2>1. RequestedIOPS \in Int
    <3>1. opts.ints["iops"] \in Int /\ opts.ints["iopspergb"] \in Int
      BY Zenon DEF OptsShape, IntKeys
    <3>2. opts.ints["iopspergb"] * input.size \in Int
      BY <3>1, MaxVolumeSizeAssumption
    <3>3. Int32(opts.ints["iopspergb"] * input.size) \in Int
      BY Zenon, <3>2, WrapType, WidthsAssumption DEF Int32
    <3> QED
      BY <3>1, <3>3 DEF RequestedIOPS
  <2>2. PICK requested \in Nat \ {0} : requested = RequestedIOPS
    BY <1>5, <2>1
  <2>3. PICK increase : increase = ("allowautoiopspergbincrease" \in opts.flags)
    BY Zenon
  <2>4. CappedIOPS(max) = CapIOPS(gib, requested, [max |-> max, min |-> least, perGb |-> perGb], increase)
    BY <1>1, <1>3, <1>5, <2>2, <2>3, Zenon DEF CappedIOPS
  <2>5. /\ CappedIOPS(max) \in Nat
        /\ max > 0 => CappedIOPS(max) <= max
        /\ perGb > 0 => CappedIOPS(max) <= perGb * gib \/ perGb * gib < least
        /\ increase => CappedIOPS(max) >= least
    BY <1>2, <2>4, CapIOPSBounds
  <2>6. (\E p \in req.params : Raises(p)) => increase
    BY <2>3, Zenon DEF Increase
  <2> QED
    BY <1>1, <1>2, <1>3, <2>5, <2>6
<1> QED
  BY Zenon, <1>4, <1>5

\* CreateDisk goes on with an EC2 request within the limits.
LEMMA UsePerforms ==
    ASSUME LimitsConsistent, PerformanceInv, NEW p \in Procs, NEW max, Use(p, max),
           max = Limits[input.type].max \/ max = Limits[input.type].fallback,
           \A k \in known' : k[2] = Limits[k[1][1]].max
    PROVE  Knows' /\ Bounded'
<1>1. /\ stage = "limits" /\ stage' = "idle" /\ UNCHANGED <<req, left, opts>>
      /\ CreateVolume(p, Name, EC2Input([input EXCEPT !.iops = CappedIOPS(max)]))
  BY Zenon DEF Use
<1>2. DOMAIN input = InFields /\ Asks(input) /\ OptsShape
  BY <1>1, Zenon DEF PerformanceInv, RequestInv, Reading
<1>3. /\ input.type \in DOMAIN Limits
      /\ \A q \in req.params : Raises(q) => Increase \in opts.flags
  BY Zenon, <1>1 DEF PerformanceInv, Knows
<1>4. PICK i : i = EC2Input([input EXCEPT !.iops = CappedIOPS(max)])
  BY Zenon
<1>5. i.type = input.type /\ i.size = input.size /\ i.iops = CappedIOPS(max) /\ CreateVolume(p, Name, i)
  BY <1>1, <1>2, <1>4, EC2InputAsks, Zenon
<1>6. Within(i)
  BY Zenon, <1>2, <1>3, <1>5, CappedWithin DEF Within
<1>7. /\ call'[p].opts = i /\ \A q \in Procs : q # p => call'[q] = call[q]
      /\ UNCHANGED vol
  <2>1. UNCHANGED vol
    BY <1>5, Zenon DEF CreateVolume
  <2>2. Formed
    BY Zenon DEF PerformanceInv, RequestInv
  <2>3. PICK n : n = Name
    BY Zenon
  <2>4. n \in Names /\ CreateVolume(p, n, i)
    BY <1>5, <2>3, NameOnly, Zenon
  <2>5. call'[p].opts = i /\ \A q \in Procs : q # p => call'[q] = call[q]
    BY <2>2, <2>4, CallSound
  <2> QED
    BY <2>1, <2>5, Zenon
<1>8. \A j : Within(j) => Within(j)'
  BY <1>1, Zenon DEF Within
<1>9. Bounded'
  <2>1. ASSUME NEW q \in Procs, call'[q].pc # "idle"
        PROVE  Within(call[q].opts)'
    <3>1. PICK j : j = call'[q].opts
      BY Zenon
    <3>2. Within(j)
      BY <1>6, <1>7, <2>1, <3>1, Zenon DEF PerformanceInv, Bounded
    <3> QED
      BY <1>8, <3>1, <3>2, Zenon DEF Within
  <2>2. ASSUME NEW n \in Names, NEW t \in Tokens, vol'[n][t].state # "none"
        PROVE  Within(vol[n][t].opts)'
    <3>1. PICK j : j = vol[n][t].opts
      BY Zenon
    <3>2. Within(j)
      BY <1>7, <2>2, <3>1, Zenon DEF PerformanceInv, Bounded
    <3> QED
      BY <1>7, <1>8, <3>1, <3>2, Zenon DEF Within
  <2> QED
    BY <2>1, <2>2, Zenon DEF Bounded
<1>10. Knows'
  BY Zenon, <1>1 DEF PerformanceInv, Knows
<1> QED
  BY Zenon, <1>9, <1>10

\* The steps outside the attempt.
Outside ==
    \/ \E p \in Procs : Continue(p)
    \/ Settles /\ UNCHANGED requestVars
    \/ Loses

\* They start no handler, make only what a handler asks for, and leave the attempt alone or end
\* it; the tokens stay in order as long as the handlers agree with the volumes.
LEMMA OutsideMakes ==
    ASSUME RequestInv, Outside
    PROVE  /\ UNCHANGED requestVars \/ (Refuse /\ known' = {} /\ UNCHANGED req)
           /\ \A p \in Procs : call'[p].pc # "idle" => call[p].pc # "idle" /\ call'[p].opts = call[p].opts
           /\ \A n \in Names, t \in Tokens : vol'[n][t].state # "none" =>
                \/ vol[n][t].state # "none" /\ vol'[n][t].opts = vol[n][t].opts
                \/ \E p \in Procs : call[p].pc # "idle" /\ vol'[n][t].opts = call[p].opts
           /\ Burned /\ (\A p \in Procs : call[p].pc # "idle" => Agreed(p)) => Burned'
<1>n. Name \in Names
  BY Zenon, NameOnly
<1>f. Formed
  BY Zenon DEF RequestInv
<1>1. ASSUME NEW p \in Procs, Continue(p)
      PROVE  /\ UNCHANGED requestVars
             /\ \A q \in Procs : call'[q].pc # "idle" => call[q].pc # "idle" /\ call'[q].opts = call[q].opts
             /\ \A n \in Names, t \in Tokens : vol'[n][t].state # "none" =>
                  \/ vol[n][t].state # "none" /\ vol'[n][t].opts = vol[n][t].opts
                  \/ \E q \in Procs : call[q].pc # "idle" /\ vol'[n][t].opts = call[q].opts
             /\ Burned /\ (\A q \in Procs : call[q].pc # "idle" => Agreed(q)) => Burned'
  <2>1. CreateDisk(p) /\ UNCHANGED requestVars
    BY <1>1, Zenon DEF Continue
  <2>2. Serves(p) /\ (Burned /\ Agreed(p) => Burned')
    BY <1>f, <2>1, CreateDiskServes, Zenon DEF Served
  <2>3. \A q \in Procs : call'[q].pc # "idle" => call[q].pc # "idle" /\ call'[q].opts = call[q].opts
    BY Zenon, <2>2 DEF Serves
  <2>4. \A n \in Names, t \in Tokens : vol'[n][t].state # "none" =>
          \/ vol[n][t].state # "none" /\ vol'[n][t].opts = vol[n][t].opts
          \/ \E q \in Procs : call[q].pc # "idle" /\ vol'[n][t].opts = call[q].opts
    BY <2>2, Zenon DEF Serves
  <2>5. call[p].pc # "idle"
    BY <2>2, Zenon DEF Serves
  <2> QED
    BY <2>1, <2>2, <2>3, <2>4, <2>5, Zenon
<1>2. CASE Settles /\ UNCHANGED requestVars
  <2>1. PICK t \in Tokens, state \in {"available", "failed"} : Becomes(Name, t, state)
    BY Zenon, <1>2 DEF Settles, BecomesAvailable, CreationFails
  <2>2. /\ UNCHANGED <<call, inFlight>> /\ (Burned => Burned')
        /\ \A m \in Names, r \in Tokens :
             /\ vol'[m][r].opts = vol[m][r].opts
             /\ vol'[m][r].state # "none" => vol[m][r].state # "none"
    BY <1>f, <1>n, <2>1, BecomesSound, Zenon
  <2> QED
    BY <1>2, <2>2, Zenon
<1>3. CASE Expire(Name) /\ UNCHANGED requestVars
  <2>1. UNCHANGED <<call, inFlight, vol>> /\ (Burned => Burned')
    BY <1>f, <1>n, <1>3, ExpireSound, Zenon
  <2> QED
    BY <1>3, <2>1, Zenon
<1>4. CASE Restart /\ Refuse /\ known' = {} /\ UNCHANGED req
  <2>1. UNCHANGED vol /\ (Burned => Burned') /\ \A p \in Procs : call'[p].pc = "idle"
    BY <1>f, <1>4, RestartSound, Zenon
  <2> QED
    BY <1>4, <2>1, Zenon
<1> QED
  BY <1>1, <1>2, <1>3, <1>4, Zenon DEF Outside, Loses

\* They take nothing from what is known, but may end it.
LEMMA OutsideKnows ==
    ASSUME RequestInv, Knows, Outside
    PROVE  Knows'
<1>1. CASE UNCHANGED requestVars
  BY <1>1, Zenon DEF requestVars, Knows
<1>2. CASE Refuse /\ known' = {}
  BY <1>2, RefuseKnows, Zenon
<1> QED
  BY <1>1, <1>2, OutsideMakes, Zenon

\* The limits come from EC2, from the cache or from the table.
LEMMA LimitsTaken ==
    ASSUME Knows, NEW p \in Procs, CachedLimits(p) \/ DryRunLimits(p) \/ FallbackLimits(p)
    PROVE  /\ Use(p, Limits[input.type].max) \/ Use(p, Limits[input.type].fallback)
           /\ \A k \in known' : k[2] = Limits[k[1][1]].max
<1>1. CASE CachedLimits(p)
  <2>1. PICK k \in known : k[1] = CacheKey /\ Use(p, k[2]) /\ UNCHANGED known
    BY <1>1, Zenon DEF CachedLimits
  <2>2. k[1][1] = input.type
    BY <2>1 DEF CacheKey
  <2>3. k[2] = Limits[input.type].max
    BY <2>2, Zenon DEF Knows
  <2> QED
    BY <2>1, <2>3, Zenon DEF Knows
<1>2. CASE DryRunLimits(p)
  <2>1. Use(p, Limits[input.type].max) /\ known' = known \cup {<<CacheKey, Limits[input.type].max>>}
    BY <1>2, Zenon DEF DryRunLimits
  <2>2. CacheKey[1] = input.type
    BY Zenon DEF CacheKey
  <2>3. PICK k : k = <<CacheKey, Limits[input.type].max>>
    BY Zenon
  <2>4. k[1] = CacheKey /\ k[2] = Limits[input.type].max
    BY Zenon, <2>3
  <2>5. k[2] = Limits[k[1][1]].max
    BY Zenon, <2>2, <2>4
  <2> QED
    BY <2>1, <2>3, <2>5, Zenon DEF Knows
<1>3. CASE FallbackLimits(p)
  <2>1. Use(p, Limits[input.type].fallback) /\ UNCHANGED known
    BY <1>3, Zenon DEF FallbackLimits
  <2> QED
    BY <2>1, Zenon DEF Knows
<1> QED
  BY Zenon, <1>1, <1>2, <1>3

\* Every step keeps the IOPS within the limits.
LEMMA PerformanceStep ==
    ASSUME TypesKnown, LimitsConsistent, IncreaseOnce
    PROVE  PerformanceInv /\ [RequestNext]_allVars => PerformanceInv'
<1> SUFFICES ASSUME PerformanceInv, [RequestNext]_allVars
             PROVE  Knows' /\ Bounded'
  BY RequestStep, Zenon DEF PerformanceInv
<1>i. RequestInv /\ Knows /\ Bounded
  BY Zenon DEF PerformanceInv
<1>1. CASE Begin \/ ParametersRead
  BY <1>i, <1>1, BeginKnows, AttemptBounded, Zenon DEF Begin, ParametersRead
<1>2. ASSUME NEW p \in left, ReadParameter(p) \/ ReadMutable(p)
      PROVE  Knows' /\ Bounded'
  BY <1>i, <1>2, ReadParameterKnows, ReadMutableKnows, AttemptBounded, Zenon DEF ReadParameter, ReadMutable
<1>3. CASE Prepare \/ SourceFails \/ ZonesFail
  <2>1. UNCHANGED vars /\ UNCHANGED req
    BY <1>3, Zenon DEF Prepare, SourceFails, ZonesFail
  <2> QED
    BY <1>i, <1>3, <2>1, PrepareKnows, AttemptBounded, Zenon
<1>4. ASSUME NEW p \in Procs, CachedLimits(p) \/ DryRunLimits(p) \/ FallbackLimits(p)
      PROVE  Knows' /\ Bounded'
  BY <1>i, <1>4, LimitsTaken, UsePerforms, Zenon
<1>5. CASE Forget
  <2>1. known' = {} /\ UNCHANGED <<req, stage, left, opts, input>> /\ UNCHANGED vars
    BY <1>5, Zenon DEF Forget
  <2>2. Knows'
    BY Zenon, <1>i, <2>1 DEF Knows
  <2> QED
    BY <1>i, <2>1, <2>2, AttemptBounded, Zenon
<1>6. CASE UNCHANGED allVars
  <2>1. UNCHANGED <<req, stage, left, opts, input, known>> /\ UNCHANGED vars
    BY <1>6, Zenon DEF allVars, vars
  <2>2. Knows'
    BY <1>i, <2>1, Zenon DEF Knows
  <2> QED
    BY <1>i, <2>1, <2>2, AttemptBounded, Zenon
<1>7. CASE Outside
  <2>1. UNCHANGED req
    BY <1>i, <1>7, OutsideMakes, Zenon DEF requestVars
  <2>2. Bounded'
    BY <1>i, <1>7, <2>1, OutsideMakes, BoundedStays, Zenon
  <2> QED
    BY <1>i, <1>7, <2>2, OutsideKnows, Zenon
<1> QED
  BY <1>1, <1>2, <1>3, <1>4, <1>5, <1>6, <1>7, Zenon DEF RequestNext, Attempt, Outside

\* IOPS of a volume are within the limits of its type, whether they come from EC2, from the cache
\* or from the table (capIOPS, getVolumeLimits).
THEOREM IOPSAlwaysWithinLimits ==
    ASSUME TypesKnown, LimitsConsistent, IncreaseOnce
    PROVE  RequestSpec => []IOPSWithinLimits
<1>1. RequestInit => PerformanceInv
  <2> SUFFICES ASSUME RequestInit
               PROVE  Knows /\ Bounded
    BY RequestStart, Zenon DEF PerformanceInv
  <2>1. Knows
    BY Zenon DEF RequestInit, Knows, NoOptions, TextKeys
  <2>2. Bounded
    BY Zenon, NameOnly DEF RequestInit, Bounded
  <2> QED
    BY Zenon, <2>1, <2>2
<1>2. PerformanceInv /\ [RequestNext]_allVars => PerformanceInv'
  BY Zenon, PerformanceStep
<1>3. PerformanceInv => IOPSWithinLimits
  <2> SUFFICES ASSUME PerformanceInv, NEW i \in Made
               PROVE  LET limits == Limits[i.type]
                      IN  /\ limits.max > 0 => i.iops <= limits.max
                          /\ limits.perGb > 0 => \/ i.iops <= limits.perGb * i.size
                                                 \/ limits.perGb * i.size < limits.min
                          /\ i.iops > 0 /\ (\E p \in req.params : Raises(p)) => i.iops >= limits.min
    BY Zenon DEF IOPSWithinLimits, Raises, Increase
  <2>1. i.size \in 1..MaxVolumeSize
    BY MadeAsks, Zenon DEF PerformanceInv
  <2>2. PICK t \in Tokens : vol[Name][t].state # "none" /\ i = vol[Name][t].opts
    BY Zenon DEF Made
  <2>3. Within(i)
    BY <2>2, NameOnly, Zenon DEF PerformanceInv, Bounded
  <2> QED
    BY <2>1, <2>3, Zenon DEF Within
<1> QED
  BY <1>1, <1>2, <1>3, PTL DEF RequestSpec

-----------------------------------------------------------------------------
(* CreateRequest: every attempt comes to the same EC2 request *)

\* Of two parameters with one key, or two tags with one key, there is at most one.
Distinct(S) ==
    \A p, q \in S : p.key = q.key /\ (p.key = "tagspecification" => p.text = q.text) => p = q

Unambiguous == \A r \in Requests : Distinct(r.params) /\ Distinct(r.mutable)

\* A mutable parameter sets the text with this key; N are the mutable parameters.
Writes(p, k, N) ==
    p.key = k \/ (k = "type" /\ p.key = "volumeType" /\ \A q \in N : q.key # "type")

\* The number and the text that are read with a key from parameters S and mutable parameters M.
IntRead(n, k, S, M) ==
    /\ \A p \in M : p.key = k => n = p.n
    /\ (\A p \in M : p.key # k) =>
         /\ \A p \in S : p.key = k => n = p.n
         /\ (\A p \in S : p.key # k) => n = 0

TextRead(t, k, S, M, N) ==
    /\ \A p \in M : Writes(p, k, N) => t = p.text
    /\ (\A p \in M : ~Writes(p, k, N)) =>
         /\ \A p \in S : p.key = k => t = p.text
         /\ (\A p \in S : p.key # k) => t = ""

TagParameters(S) == {p \in S : p.key = "tagspecification"}

\* The tags of the user, those of mutable parameters over the others.
TagsRead(S, M) ==
    {<<p.text, p.n>> : p \in TagParameters(M)}
    \cup {<<p.text, p.n>> : p \in {q \in TagParameters(S) : \A m \in TagParameters(M) : m.text # q.text}}

\* Evaluated, of any list of tags.
EvaluatedOf(tags) ==
    {<<tags[i][1], tags[i][2]>> : i \in {i \in DOMAIN tags :
        \A j \in DOMAIN tags : j > i => tags[j][1] # tags[i][1]}}

\* What has been read, in whatever order.
Collected(o, S, M, N) ==
    /\ \A k \in IntKeys : IntRead(o.ints[k], k, S, M)
    /\ \A k \in TextKeys : TextRead(o.texts[k], k, S, M, N)
    /\ Increase \in o.flags <=> \E p \in S : Raises(p)
    /\ o.own = UNION {TagOf(p) : p \in S}
    /\ o.tags \in Seq(STRING \X Int)
    /\ EvaluatedOf(o.tags) = TagsRead(S, M)

Others(tags, k) == {t \in tags : t[1] # k}

\* A tag that is appended replaces those with its key.
LEMMA AppendTag ==
    ASSUME NEW tags \in Seq(STRING \X Int), NEW e \in STRING \X Int
    PROVE  /\ Append(tags, e) \in Seq(STRING \X Int)
           /\ EvaluatedOf(Append(tags, e)) = Others(EvaluatedOf(tags), e[1]) \cup {e}
<1>0. PICK k, n : e = <<k, n>> /\ e[1] = k
  OBVIOUS
<1> DEFINE more == Append(tags, e)
           len == Len(tags)
           Lasts(s) == {i \in DOMAIN s : \A j \in DOMAIN s : j > i => s[j][1] # s[i][1]}
<1>1. /\ more \in Seq(STRING \X Int) /\ len \in Nat /\ DOMAIN tags = 1..len /\ DOMAIN more = 1..(len + 1)
      /\ \A i \in 1..len : more[i] = tags[i]
      /\ more[len + 1] = e
  OBVIOUS
<1> HIDE DEF more, len
<1>2. more[len + 1][1] = k /\ more[len + 1][2] = n
  BY <1>0, <1>1
<1>3. len + 1 \in Lasts(more)
  BY <1>1
<1>4. \A i \in 1..len : i \in Lasts(more) <=> i \in Lasts(tags) /\ tags[i][1] # k
  <2> SUFFICES ASSUME NEW i \in 1..len
               PROVE  i \in Lasts(more) <=> i \in Lasts(tags) /\ tags[i][1] # k
    OBVIOUS
  <2>1. i \in DOMAIN more /\ i \in DOMAIN tags /\ more[i] = tags[i] /\ len + 1 \in DOMAIN more /\ len + 1 > i
    BY <1>1
  <2>2. ASSUME i \in Lasts(more) PROVE tags[i][1] # k
    BY Zenon, <1>2, <2>1, <2>2
  <2>3. ASSUME i \in Lasts(more) PROVE i \in Lasts(tags)
    <3> SUFFICES ASSUME NEW j \in DOMAIN tags, j > i
                 PROVE  tags[j][1] # tags[i][1]
      BY Zenon, <2>1
    <3>1. j \in DOMAIN more /\ more[j] = tags[j]
      BY <1>1
    <3> QED
      BY Zenon, <2>1, <2>3, <3>1
  <2>4. ASSUME i \in Lasts(tags), tags[i][1] # k PROVE i \in Lasts(more)
    <3> SUFFICES ASSUME NEW j \in DOMAIN more, j > i
                 PROVE  more[j][1] # more[i][1]
      BY Zenon, <2>1
    <3>1. CASE j = len + 1
      BY Zenon, <1>2, <2>1, <2>4, <3>1
    <3>2. CASE j # len + 1
      <4>1. j \in 1..len
        BY <1>1, <3>2
      <4>2. j \in DOMAIN tags /\ more[j] = tags[j]
        BY Zenon, <1>1, <4>1
      <4> QED
        BY Zenon, <2>1, <2>4, <4>2
    <3> QED
      BY Zenon, <3>1, <3>2
  <2> QED
    BY Zenon, <2>2, <2>3, <2>4
<1>5. \A i \in Lasts(more) : i = len + 1 \/ i \in 1..len
  BY <1>1
<1>6. \A i \in Lasts(tags) : i \in 1..len
  BY Zenon, <1>1
<1> DEFINE Pair(s, i) == <<s[i][1], s[i][2]>>
<1>7. \A i \in 1..len : Pair(more, i) = Pair(tags, i)
  BY Zenon, <1>1
<1>8. Pair(more, len + 1) = <<k, n>>
  BY Zenon, <1>2
<1>9. \A i : Pair(tags, i)[1] = tags[i][1]
  OBVIOUS
<1>10. EvaluatedOf(more) = {Pair(more, i) : i \in Lasts(more)} /\ EvaluatedOf(tags) = {Pair(tags, i) : i \in Lasts(tags)}
  BY Zenon DEF EvaluatedOf
<1> HIDE DEF Pair, Lasts
<1>11. ASSUME NEW t \in EvaluatedOf(more)
       PROVE  t \in {s \in EvaluatedOf(tags) : s[1] # k} \cup {<<k, n>>}
  <2>1. PICK i \in Lasts(more) : t = Pair(more, i)
    BY Zenon, <1>10, <1>11
  <2>2. CASE i = len + 1
    BY Zenon, <1>8, <2>1, <2>2
  <2>3. CASE i \in 1..len
    BY Zenon, <1>4, <1>7, <1>9, <1>10, <2>1, <2>3
  <2> QED
    BY Zenon, <1>5, <2>2, <2>3
<1>12. ASSUME NEW t \in EvaluatedOf(tags), t[1] # k
       PROVE  t \in EvaluatedOf(more)
  <2>1. PICK i \in Lasts(tags) : t = Pair(tags, i)
    BY <1>10, <1>12
  <2> QED
    BY <1>4, <1>6, <1>7, <1>9, <1>10, <1>12, <2>1
<1>13. <<k, n>> \in EvaluatedOf(more)
  BY Zenon, <1>3, <1>8, <1>10
<1>14. EvaluatedOf(more) = {s \in EvaluatedOf(tags) : s[1] # k} \cup {<<k, n>>}
  BY Zenon, <1>11, <1>12, <1>13
<1> QED
  BY Zenon, <1>0, <1>1, <1>14 DEF Others, more

\* The tags after one more parameter.
LEMMA TagsGrow ==
    ASSUME NEW S, NEW p, Distinct(S \cup {p})
    PROVE  TagsRead(S \cup {p}, {}) =
             IF p.key = "tagspecification"
             THEN {t \in TagsRead(S, {}) : t[1] # p.text} \cup {<<p.text, p.n>>} ELSE TagsRead(S, {})
<1> DEFINE Pair(q) == <<q.text, q.n>>
<1>1. \A R : TagsRead(R, {}) = {Pair(q) : q \in TagParameters(R)}
  BY Zenon DEF TagsRead, TagParameters
<1>2. \A q : Pair(q)[1] = q.text
  OBVIOUS
<1>3. CASE p.key = "tagspecification"
  <2>1. \A q \in TagParameters(S) : q.text = p.text => q = p
    BY Zenon, <1>3 DEF Distinct, TagParameters
  <2>2. TagParameters(S \cup {p}) = TagParameters(S) \cup {p}
    BY Zenon, <1>3 DEF TagParameters
  <2> HIDE DEF Pair
  <2>3. {Pair(q) : q \in TagParameters(S) \cup {p}}
          = {t \in {Pair(q) : q \in TagParameters(S)} : t[1] # p.text} \cup {Pair(p)}
    BY Zenon, <1>2, <2>1
  <2> QED
    BY Zenon, <1>1, <1>3, <2>2, <2>3 DEF Pair
<1>4. CASE p.key # "tagspecification"
  <2>1. TagParameters(S \cup {p}) = TagParameters(S)
    BY Zenon, <1>4 DEF TagParameters
  <2> QED
    BY Zenon, <1>1, <1>4, <2>1
<1> QED
  BY Zenon, <1>3, <1>4

\* The tags after one more mutable parameter.
LEMMA MutableTagsGrow ==
    ASSUME NEW S, NEW M, NEW p, Distinct(M \cup {p})
    PROVE  TagsRead(S, M \cup {p}) =
             IF p.key = "tagspecification"
             THEN {t \in TagsRead(S, M) : t[1] # p.text} \cup {<<p.text, p.n>>} ELSE TagsRead(S, M)
<1> DEFINE Pair(q) == <<q.text, q.n>>
           Kept(R) == {q \in TagParameters(S) : \A m \in TagParameters(R) : m.text # q.text}
<1>1. \A R : TagsRead(S, R) = {Pair(q) : q \in TagParameters(R)} \cup {Pair(q) : q \in Kept(R)}
  BY Zenon DEF TagsRead
<1>2. \A q : Pair(q)[1] = q.text
  OBVIOUS
<1>3. CASE p.key = "tagspecification"
  <2>1. \A q \in TagParameters(M) : q.text = p.text => q = p
    BY Zenon, <1>3 DEF Distinct, TagParameters
  <2>2. TagParameters(M \cup {p}) = TagParameters(M) \cup {p}
    BY Zenon, <1>3 DEF TagParameters
  <2>3. Kept(M \cup {p}) = {q \in Kept(M) : q.text # p.text}
    BY Zenon, <2>2
  <2> HIDE DEF Pair, Kept
  <2>4. {Pair(q) : q \in TagParameters(M) \cup {p}} \cup {Pair(q) : q \in {q \in Kept(M) : q.text # p.text}}
          = {t \in {Pair(q) : q \in TagParameters(M)} \cup {Pair(q) : q \in Kept(M)} : t[1] # p.text}
            \cup {Pair(p)}
    BY Zenon, <1>2, <2>1
  <2> QED
    BY Zenon, <1>1, <1>3, <2>2, <2>3, <2>4 DEF Pair
<1>4. CASE p.key # "tagspecification"
  <2>1. TagParameters(M \cup {p}) = TagParameters(M)
    BY Zenon, <1>4 DEF TagParameters
  <2>2. Kept(M \cup {p}) = Kept(M)
    BY Zenon, <2>1
  <2> HIDE DEF Kept, Pair
  <2> QED
    BY Zenon, <1>1, <1>4, <2>1, <2>2
<1> QED
  BY Zenon, <1>3, <1>4

\* The tags of the driver.
LEMMA OwnGrows ==
    ASSUME NEW S, NEW p, Distinct(S \cup {p})
    PROVE  UNION {TagOf(q) : q \in S \cup {p}}
             = {t \in UNION {TagOf(q) : q \in S} : t[1] # p.key} \cup TagOf(p)
<1>1. \A q : \A t \in TagOf(q) : t[1] = q.key /\ q.key # "tagspecification"
  BY DEF TagOf, PVCKeys
<1>2. \A q \in S : q.key = p.key /\ q.key # "tagspecification" => q = p
  BY Zenon DEF Distinct
<1> QED
  BY Zenon, <1>1, <1>2

\* One more parameter.
LEMMA CollectParameter ==
    ASSUME NEW S, NEW N, NEW p \in Parameter, NEW o, Changes(o, p), Distinct(S \cup {p}),
           Collected(opts, S, {}, N)
    PROVE  Collected(o, S \cup {p}, {}, N)
<1>1. \A k \in IntKeys : IntRead(o.ints[k], k, S \cup {p}, {})
  <2> SUFFICES ASSUME NEW k \in IntKeys
               PROVE  IntRead(o.ints[k], k, S \cup {p}, {})
    OBVIOUS
  <2>1. k # "tagspecification"
    BY Zenon, KeysDisjoint
  <2>2. IntRead(opts.ints[k], k, S, {}) /\ o.ints[k] = IF k = p.key THEN p.n ELSE opts.ints[k]
    BY Zenon DEF Collected, Changes
  <2>3. \A q \in S : q.key = p.key /\ q.key # "tagspecification" => q = p
    BY Zenon DEF Distinct
  <2> QED
    BY <2>1, <2>2, <2>3 DEF IntRead
<1>2. \A k \in TextKeys : TextRead(o.texts[k], k, S \cup {p}, {}, N)
  <2> SUFFICES ASSUME NEW k \in TextKeys
               PROVE  TextRead(o.texts[k], k, S \cup {p}, {}, N)
    OBVIOUS
  <2>1. k # "tagspecification"
    BY Zenon, KeysDisjoint
  <2>2. TextRead(opts.texts[k], k, S, {}, N) /\ o.texts[k] = IF k = p.key THEN p.text ELSE opts.texts[k]
    BY Zenon DEF Collected, Changes
  <2>3. \A q \in S : q.key = p.key /\ q.key # "tagspecification" => q = p
    BY Zenon DEF Distinct
  <2> QED
    BY Zenon, <2>1, <2>2, <2>3 DEF TextRead
<1>3. Increase \in o.flags <=> \E q \in S \cup {p} : Raises(q)
  <2>1. Increase \in FlagKeys /\ Increase # "tagspecification"
    BY Zenon DEF FlagKeys, Increase
  <2>2. o.flags = IF p.key \notin FlagKeys THEN opts.flags
                  ELSE IF p.text = "true" THEN opts.flags \cup {p.key} ELSE opts.flags \ {p.key}
    BY Zenon DEF Changes
  <2>3. Increase \in opts.flags <=> \E q \in S : Raises(q)
    BY Zenon DEF Collected
  <2>4. CASE p.key = Increase
    <3>1. \A q \in S : Raises(q) => q = p
      BY Zenon, <2>1, <2>4 DEF Distinct, Raises
    <3> QED
      BY Zenon, <2>1, <2>2, <2>4, <3>1 DEF Raises
  <2>5. CASE p.key # Increase
    <3>1. Increase \in o.flags <=> Increase \in opts.flags
      BY Zenon, <2>2, <2>5
    <3> QED
      BY Zenon, <2>3, <2>5, <3>1 DEF Raises
  <2> QED
    BY Zenon, <2>4, <2>5
<1>4. o.own = UNION {TagOf(q) : q \in S \cup {p}}
  <2>1. o.own = {t \in opts.own : t[1] # p.key} \cup TagOf(p)
    BY Zenon DEF Changes
  <2>2. opts.own = UNION {TagOf(q) : q \in S}
    BY Zenon DEF Collected
  <2>3. o.own = {t \in UNION {TagOf(q) : q \in S} : t[1] # p.key} \cup TagOf(p)
    BY Zenon, <2>1, <2>2
  <2> QED
    BY Zenon, <2>3, OwnGrows
<1>5. o.tags \in Seq(STRING \X Int) /\ EvaluatedOf(o.tags) = TagsRead(S \cup {p}, {})
  <2>1. o.tags = IF p.key = "tagspecification" THEN Append(opts.tags, <<p.text, p.n>>) ELSE opts.tags
    BY Zenon DEF Changes
  <2>2. p.text \in STRING /\ p.n \in Int
    BY Zenon DEF Parameter
  <2>3. opts.tags \in Seq(STRING \X Int) /\ EvaluatedOf(opts.tags) = TagsRead(S, {})
    BY Zenon DEF Collected
  <2> QED
    <3>1. CASE p.key = "tagspecification"
      <4>1. o.tags = Append(opts.tags, <<p.text, p.n>>)
        BY Zenon, <2>1, <3>1
      <4>2. /\ o.tags \in Seq(STRING \X Int)
            /\ EvaluatedOf(o.tags) = {t \in EvaluatedOf(opts.tags) : t[1] # p.text} \cup {<<p.text, p.n>>}
        <5>1. PICK ts \in Seq(STRING \X Int), e \in STRING \X Int :
                ts = opts.tags /\ e = <<p.text, p.n>> /\ e[1] = p.text
          <6>1. <<p.text, p.n>> \in STRING \X Int /\ <<p.text, p.n>>[1] = p.text
            BY Zenon, <2>2, <2>3
          <6> QED
            BY <2>2, <2>3, <6>1, Zenon
        <5>2. Append(ts, e) \in Seq(STRING \X Int) /\ EvaluatedOf(Append(ts, e)) = Others(EvaluatedOf(ts), e[1]) \cup {e}
          BY AppendTag, Zenon
        <5> QED
          BY <4>1, <5>1, <5>2, Zenon DEF Others
      <4>3. TagsRead(S \cup {p}, {}) = {t \in TagsRead(S, {}) : t[1] # p.text} \cup {<<p.text, p.n>>}
        BY Zenon, <3>1, TagsGrow
      <4> QED
        BY Zenon, <2>3, <4>2, <4>3
    <3>2. CASE p.key # "tagspecification"
      <4>1. o.tags = opts.tags /\ TagsRead(S \cup {p}, {}) = TagsRead(S, {})
        BY Zenon, <2>1, <3>2, TagsGrow
      <4> QED
        BY Zenon, <2>3, <4>1
    <3> QED
      BY Zenon, <3>1, <3>2
<1> QED
  BY <1>1, <1>2, <1>3, <1>4, <1>5, Zenon DEF Collected

MutableKeys == {"iops", "throughput", "type", "volumeType", "tagspecification"}

\* What ReadMutable makes of the options.
MutableRead(p, N) ==
    IF Writes(p, "type", N) THEN [opts EXCEPT !.texts["type"] = p.text]
    ELSE IF p.key = "volumeType" THEN opts ELSE Read(p)

\* One more mutable parameter: `type` and the deprecated key set the type, the others are read.
LEMMA CollectMutable ==
    ASSUME NEW S, NEW M, NEW N, NEW p \in Parameter, p \in N, M \subseteq N, NEW o, OptsShape,
           p.key \in MutableKeys, o = MutableRead(p, N),
           Distinct(N), Collected(opts, S, M, N)
    PROVE  Collected(o, S, M \cup {p}, N)
<1>1. \A q \in M : q.key = p.key /\ q.key # "tagspecification" => q = p
  BY Zenon DEF Distinct
<1>2. /\ Distinct(M \cup {p})
      /\ p.key \notin {"encrypted", "kmskeyid", "tagspecification"} \/ p.key = "tagspecification"
      /\ "type" \notin IntKeys /\ "volumeType" \notin IntKeys /\ "volumeType" \notin TextKeys
      /\ p.key \notin FlagKeys
  BY Zenon DEF Distinct, IntKeys, TextKeys, FlagKeys, MutableKeys
<1>3. TagOf(p) = {} /\ \A q : \A t \in TagOf(q) : t[1] # p.key
  BY DEF TagOf, PVCKeys, MutableKeys
<1>4. /\ p.key = "type" => Writes(p, "type", N)
      /\ Writes(p, "type", N) => p.key \in {"type", "volumeType"}
  BY Zenon DEF Writes
<1>5. /\ DOMAIN opts = OptFields /\ DOMAIN opts.texts = TextKeys
  BY Zenon DEF OptsShape
<1>6. \* What changes.
      /\ \A k \in IntKeys : o.ints[k] = IF k = p.key THEN p.n ELSE opts.ints[k]
      /\ \A k \in TextKeys : o.texts[k] = IF k = "type" /\ Writes(p, "type", N) THEN p.text ELSE opts.texts[k]
      /\ o.flags = opts.flags /\ o.own = {t \in opts.own : t[1] # p.key}
      /\ o.tags = IF p.key = "tagspecification" THEN Append(opts.tags, <<p.text, p.n>>) ELSE opts.tags
  <2>0. opts.own = {t \in opts.own : t[1] # p.key}
    BY <1>3 DEF Collected
  <2>1. CASE Writes(p, "type", N)
    <3>1. o = [opts EXCEPT !.texts["type"] = p.text]
      BY <2>1, Zenon DEF MutableRead
    <3>2. /\ o.ints = opts.ints /\ o.flags = opts.flags /\ o.own = opts.own /\ o.tags = opts.tags
          /\ \A k \in TextKeys : o.texts[k] = IF k = "type" THEN p.text ELSE opts.texts[k]
      BY Zenon, <1>5, <3>1 DEF OptFields
    <3>3. p.key \notin IntKeys /\ p.key # "tagspecification"
      BY Zenon, <1>2, <1>4, <2>1
    <3> QED
      BY Zenon, <2>0, <2>1, <3>2, <3>3
  <2>2. CASE ~Writes(p, "type", N) /\ p.key = "volumeType"
    <3>1. o = opts
      BY <2>2, Zenon DEF MutableRead
    <3> QED
      BY Zenon, <1>2, <2>0, <2>2, <3>1
  <2>3. CASE ~Writes(p, "type", N) /\ p.key # "volumeType"
    <3>1. Changes(o, p)
      BY <2>3, ReadChanges, Zenon DEF MutableRead
    <3>2. p.key \notin TextKeys
      BY Zenon, <1>4, <2>3 DEF TextKeys, MutableKeys
    <3>3. /\ \A k \in IntKeys : o.ints[k] = IF k = p.key THEN p.n ELSE opts.ints[k]
          /\ \A k \in TextKeys : o.texts[k] = IF k = p.key THEN p.text ELSE opts.texts[k]
          /\ o.own = {t \in opts.own : t[1] # p.key} \cup TagOf(p)
          /\ o.tags = IF p.key = "tagspecification" THEN Append(opts.tags, <<p.text, p.n>>) ELSE opts.tags
      BY <3>1, Zenon DEF Changes
    <3>4. o.flags = opts.flags
      BY Zenon, <1>2, <3>1 DEF Changes
    <3>5. o.own = {t \in opts.own : t[1] # p.key}
      BY Zenon, <1>3, <3>3
    <3>6. \A k \in TextKeys : o.texts[k] = opts.texts[k]
      BY Zenon, <3>2, <3>3
    <3> QED
      BY Zenon, <2>3, <3>3, <3>4, <3>5, <3>6
  <2> QED
    BY Zenon, <2>1, <2>2, <2>3
<1>7. \A k \in IntKeys : IntRead(o.ints[k], k, S, M \cup {p})
  <2> SUFFICES ASSUME NEW k \in IntKeys
               PROVE  IntRead(o.ints[k], k, S, M \cup {p})
    OBVIOUS
  <2>1. IntRead(opts.ints[k], k, S, M) /\ k # "tagspecification"
    BY Zenon, KeysDisjoint DEF Collected
  <2> QED
    BY <1>1, <1>6, <2>1 DEF IntRead
<1>8. \A k \in TextKeys : TextRead(o.texts[k], k, S, M \cup {p}, N)
  <2> SUFFICES ASSUME NEW k \in TextKeys
               PROVE  TextRead(o.texts[k], k, S, M \cup {p}, N)
    OBVIOUS
  <2>1. TextRead(opts.texts[k], k, S, M, N) /\ o.texts[k] = IF k = "type" /\ Writes(p, "type", N) THEN p.text ELSE opts.texts[k]
    BY Zenon, <1>6 DEF Collected
  <2>2. CASE k = "type" /\ Writes(p, "type", N)
    <3>1. \A q \in M : Writes(q, "type", N) => q = p
      BY Zenon, <1>1, <2>2 DEF Writes
    <3> QED
      BY Zenon, <2>1, <2>2, <3>1 DEF TextRead
  <2>3. CASE k = "type" /\ ~Writes(p, "type", N)
    BY Zenon, <2>1, <2>3 DEF TextRead
  <2>4. CASE k # "type"
    <3>1. ~Writes(p, k, N)
      BY Zenon, <2>4 DEF Writes, TextKeys, MutableKeys
    <3> QED
      BY Zenon, <2>1, <2>4, <3>1 DEF TextRead
  <2> QED
    BY Zenon, <2>2, <2>3, <2>4
<1>9. Increase \in o.flags <=> \E q \in S : Raises(q)
  BY Zenon, <1>6 DEF Collected
<1>10. o.own = UNION {TagOf(q) : q \in S}
  <2>1. opts.own = UNION {TagOf(q) : q \in S}
    BY Zenon DEF Collected
  <2> QED
    BY <1>3, <1>6, <2>1
<1>11. o.tags \in Seq(STRING \X Int) /\ EvaluatedOf(o.tags) = TagsRead(S, M \cup {p})
  <2>2. p.text \in STRING /\ p.n \in Int
    BY Zenon DEF Parameter
  <2>3. opts.tags \in Seq(STRING \X Int) /\ EvaluatedOf(opts.tags) = TagsRead(S, M)
    BY Zenon DEF Collected
  <2>4. CASE p.key = "tagspecification"
    <3>1. o.tags = Append(opts.tags, <<p.text, p.n>>)
      BY Zenon, <1>6, <2>4
    <3>2. /\ o.tags \in Seq(STRING \X Int)
          /\ EvaluatedOf(o.tags) = {t \in EvaluatedOf(opts.tags) : t[1] # p.text} \cup {<<p.text, p.n>>}
      <4>1. PICK ts \in Seq(STRING \X Int), e \in STRING \X Int :
              ts = opts.tags /\ e = <<p.text, p.n>> /\ e[1] = p.text
        <5>1. <<p.text, p.n>> \in STRING \X Int /\ <<p.text, p.n>>[1] = p.text
          BY Zenon, <2>2, <2>3
        <5> QED
          BY <2>2, <2>3, <5>1, Zenon
      <4>2. Append(ts, e) \in Seq(STRING \X Int) /\ EvaluatedOf(Append(ts, e)) = Others(EvaluatedOf(ts), e[1]) \cup {e}
        BY AppendTag, Zenon
      <4> QED
        BY <3>1, <4>1, <4>2, Zenon DEF Others
    <3>3. TagsRead(S, M \cup {p}) = {t \in TagsRead(S, M) : t[1] # p.text} \cup {<<p.text, p.n>>}
      BY <1>2, <2>4, MutableTagsGrow, Zenon
    <3> QED
      BY Zenon, <2>3, <3>2, <3>3
  <2>5. CASE p.key # "tagspecification"
    <3>1. TagsRead(S, M \cup {p}) = TagsRead(S, M)
      BY <1>2, <2>5, MutableTagsGrow, Zenon
    <3>2. o.tags = opts.tags
      BY <1>6, <2>5, Zenon
    <3> QED
      BY <2>3, <3>1, <3>2, Zenon
  <2> QED
    BY Zenon, <2>4, <2>5
<1> QED
  BY <1>7, <1>8, <1>9, <1>10, <1>11, Zenon DEF Collected

-----------------------------------------------------------------------------
(* CreateRequest: what was read makes one EC2 request *)

\* What an EC2 request takes from what was read.
Digest(o) == [ints |-> [k \in IntKeys |-> o.ints[k]], texts |-> [k \in TextKeys |-> o.texts[k]],
              increase |-> Increase \in o.flags, own |-> o.own, tags |-> EvaluatedOf(o.tags)]

TypeOf(d) == IF d.texts["type"] = "" THEN "gp3" ELSE d.texts["type"]

\* VolumeTags(UserTags).
TagsOf(tags, own) ==
    LET user == {t \in tags : t[1] \notin Reserved}
    IN  user \cup {t \in {<<"CSIVolumeName", 0>>, <<"Name", 0>>} \cup own : \A u \in user : u[1] # t[1]}

ZoneIn(z) == IF Zone = "" /\ ZoneID = "" THEN z ELSE Zone

\* The zones the volume may come to.
ZonesIn == {ZoneIn(z) : z \in ZoneLists}

\* Prepared.
Filled(type, zone, encrypted, kms, throughput, rate, tags) ==
    [NoInput EXCEPT
       !.size = BytesToGiB(GetVolSizeBytes(req.range)), !.type = type, !.zone = zone, !.zoneID = ZoneID,
       !.outpost = IF req.source = "volume" THEN Source.outpost ELSE GetOutpostArn,
       !.encrypted = encrypted, !.kms = kms, !.snapshot = req.source = "snapshot",
       !.clone = req.source = "volume", !.multi = MultiAttach(req), !.throughput = Positive(throughput),
       !.rate = Positive(rate), !.tags = tags]

Basic(d, zone) ==
    Filled(TypeOf(d), zone, d.texts["encrypted"] = "true" \/ d.texts["kmskeyid"] # "", d.texts["kmskeyid"],
           d.ints["throughput"], d.ints["volumeinitializationrate"], TagsOf(d.tags, d.own))

\* CappedIOPS with EC2's maximum.
IOPSOf(d, size, type) ==
    LET wanted == IF d.ints["iops"] > 0 THEN d.ints["iops"]
                  ELSE IF d.ints["iopspergb"] > 0 THEN Int32(d.ints["iopspergb"] * size) ELSE 0
    IN  IF wanted <= 0 THEN 0
        ELSE CapIOPS(size, wanted,
                     [max |-> Limits[type].max, min |-> Limits[type].min, perGb |-> Limits[type].perGb],
                     d.increase)

EC2Of(d, zone) ==
    LET in == Basic(d, zone) IN EC2Input([in EXCEPT !.iops = IOPSOf(d, in.size, in.type)])

\* The EC2 request that the CSI request comes to.
Wanted(i) ==
    \E o, d : /\ Collected(o, req.params, req.mutable, req.mutable) /\ d = Digest(o)
              /\ \E zone \in ZonesIn : i = EC2Of(d, zone)

\* How far the attempt has come.
Collects ==
    /\ stage = "parameters" => Collected(opts, req.params \ left, {}, req.mutable)
    /\ stage = "mutable" => Collected(opts, req.params, req.mutable \ left, req.mutable)
    /\ stage = "limits" =>
         /\ Collected(opts, req.params, req.mutable, req.mutable)
         /\ \E d, zone : d = Digest(opts) /\ zone \in ZonesIn /\ input = Basic(d, zone)

\* Handlers and volumes have it.
Wants ==
    /\ \A p \in Procs : call[p].pc # "idle" => \A i : i = call[p].opts => Wanted(i)
    /\ \A n \in Names, t \in Tokens : vol[n][t].state # "none" => \A i : i = vol[n][t].opts => Wanted(i)

RetryInv == RequestInv /\ Knows /\ Collects /\ Wants /\ Burned

\* The types a request may come to: those it names, and gp3 if it names none.
ComesTo(r, t) ==
    LET named == {p \in r.params : p.key = "type"} \cup {p \in r.mutable : p.key \in {"type", "volumeType"}}
    IN  \/ \E p \in named : p.text = t
        \/ t = "gp3" /\ (named = {} \/ \E p \in named : p.text = "")

\* The IOPS it may ask for, by number or by GiB.
AsksIOPS(r, n) ==
    \E p \in r.params \cup r.mutable :
        \/ p.key = "iops" /\ n = p.n
        \/ p.key = "iopspergb" /\ n = Int32(p.n * BytesToGiB(GetVolSizeBytes(r.range)))

\* The table has EC2's maximum for the types of a request, or the request is within both.
LimitsAgree ==
    \A r \in Requests, t \in DOMAIN Limits : ComesTo(r, t) =>
        \/ Limits[t].fallback = Limits[t].max
        \/ \A m \in {Limits[t].fallback, Limits[t].max} :
              Limits[t].min <= m /\ \A n \in Int : AsksIOPS(r, n) => n <= m

\* The request, or the source, says where the volume is to be.
NamesZone(r) ==
    IF r.source = "volume" THEN Source.zone # "" \/ Source.zoneID # ""
    ELSE \E i \in DOMAIN (r.preferred \o r.requisite) :
            HasZone((r.preferred \o r.requisite)[i]) \/ HasZoneID((r.preferred \o r.requisite)[i])

\* Otherwise DescribeAvailabilityZones lists the same zone first.
ZoneFixed == (\A y, z \in ZoneLists : y = z) \/ \A r \in Requests : NamesZone(r)

\* What is collected does not depend on the order.
LEMMA DigestUnique ==
    ASSUME NEW S, NEW M, NEW N, NEW o, NEW q, Collected(o, S, M, N), Collected(q, S, M, N)
    PROVE  Digest(o) = Digest(q)
<1>1. \A k \in IntKeys : o.ints[k] = q.ints[k]
  <2> SUFFICES ASSUME NEW k \in IntKeys
               PROVE  o.ints[k] = q.ints[k]
    OBVIOUS
  <2>1. IntRead(o.ints[k], k, S, M) /\ IntRead(q.ints[k], k, S, M)
    BY Zenon DEF Collected
  <2> QED
    BY <2>1, Zenon DEF IntRead
<1>2. \A k \in TextKeys : o.texts[k] = q.texts[k]
  <2> SUFFICES ASSUME NEW k \in TextKeys
               PROVE  o.texts[k] = q.texts[k]
    OBVIOUS
  <2>1. TextRead(o.texts[k], k, S, M, N) /\ TextRead(q.texts[k], k, S, M, N)
    BY Zenon DEF Collected
  <2> QED
    BY <2>1, Zenon DEF TextRead
<1>3. (Increase \in o.flags) = (Increase \in q.flags)
  <2>1. Increase \in o.flags <=> Increase \in q.flags
    BY Zenon DEF Collected
  <2> QED
    BY <2>1
<1>4. o.own = q.own /\ EvaluatedOf(o.tags) = EvaluatedOf(q.tags)
  BY Zenon DEF Collected
<1>5. [k \in IntKeys |-> o.ints[k]] = [k \in IntKeys |-> q.ints[k]]
  BY Zenon, <1>1
<1>6. [k \in TextKeys |-> o.texts[k]] = [k \in TextKeys |-> q.texts[k]]
  BY Zenon, <1>2
<1> QED
  BY <1>3, <1>4, <1>5, <1>6, Zenon DEF Digest

\* Of the terms that have what is looked for, one is the first.
LEMMA FirstThere ==
    ASSUME NEW T, T \subseteq Nat, T # {}
    PROVE  \E i \in T : \A j \in T : i <= j
<1> DEFINE R == OpToRel(<, Nat)
<1>1. IsWellFoundedOn(R, Nat)
  BY Zenon, NatLessThanWellFounded
<1>2. \A i, j \in Nat : i < j => <<i, j>> \in R
  BY Zenon DEF OpToRel
<1> HIDE DEF R
<1>3. PICK i \in T : \A j \in T : ~(<<j, i>> \in R)
  BY Zenon, <1>1, WFMin
<1>4. \A j \in T : ~(j < i)
  BY Zenon, <1>2, <1>3
<1> QED
  BY <1>4

\* A zone or an ID that the request names is picked.
LEMMA ZonePicked ==
    ASSUME req \in Requests, NamesZone(req)
    PROVE  ~(Zone = "" /\ ZoneID = "")
<1>1. CASE req.source = "volume"
  BY <1>1, Zenon DEF NamesZone, Zone, ZoneID
<1>2. CASE req.source # "volume"
  <2>1. PICK i \in DOMAIN Terms : HasZone(Terms[i]) \/ HasZoneID(Terms[i])
    BY <1>2, Zenon DEF NamesZone, Terms
  <2>2. Terms \in Seq(TopologyTerm)
    BY RequestsAssumption DEF Terms
  <2>3. DOMAIN Terms \subseteq Nat \ {0} /\ \A j \in DOMAIN Terms : \A k \in 1..(j - 1) : k \in DOMAIN Terms
    <3> HIDE DEF Terms
    <3> QED
      BY <2>2
  <2>4. CASE HasZone(Terms[i])
    <3> DEFINE T == {j \in DOMAIN Terms : HasZone(Terms[j])}
    <3>1. PICK f \in T : \A j \in T : f <= j
      BY Zenon, <2>1, <2>3, <2>4, FirstThere
    <3>2. f \in DOMAIN Terms /\ HasZone(Terms[f]) /\ \A j \in 1..(f - 1) : ~HasZone(Terms[j])
      BY <2>3, <3>1
    <3>3. HasZone(Terms[First(Terms, HasZone)])
      BY Zenon, <3>2, SMT DEF First
    <3>4. PickAvailabilityZone # ""
      BY Zenon, <2>4, <3>3 DEF PickAvailabilityZone, Has, HasZone, ZoneOf
    <3> QED
      BY <1>2, <3>4, Zenon DEF Zone
  <2>5. CASE HasZoneID(Terms[i])
    <3> DEFINE T == {j \in DOMAIN Terms : HasZoneID(Terms[j])}
    <3>1. PICK f \in T : \A j \in T : f <= j
      BY Zenon, <2>1, <2>3, <2>5, FirstThere
    <3>2. f \in DOMAIN Terms /\ HasZoneID(Terms[f]) /\ \A j \in 1..(f - 1) : ~HasZoneID(Terms[j])
      BY <2>3, <3>1
    <3>3. HasZoneID(Terms[First(Terms, HasZoneID)])
      BY Zenon, <3>2, SMT DEF First
    <3>4. PickAvailabilityZoneID # ""
      BY Zenon, <2>5, <3>3 DEF PickAvailabilityZoneID, Has, HasZoneID
    <3> QED
      BY <1>2, <3>4, Zenon DEF ZoneID
  <2> QED
    BY Zenon, <2>1, <2>4, <2>5
<1> QED
  BY Zenon, <1>1, <1>2

\* The request comes to one EC2 request.
LEMMA WantedOne ==
    ASSUME ZoneFixed, req \in Requests, NEW i, NEW j, Wanted(i), Wanted(j)
    PROVE  i = j
<1>1. PICK P, M : P = req.params /\ M = req.mutable
  BY Zenon
<1>2. PICK o, d, y : y \in ZonesIn /\ Collected(o, P, M, M) /\ d = Digest(o) /\ i = EC2Of(d, y)
  BY <1>1, Zenon DEF Wanted
<1>3. PICK q, e, z : z \in ZonesIn /\ Collected(q, P, M, M) /\ e = Digest(q) /\ j = EC2Of(e, z)
  BY <1>1, Zenon DEF Wanted
<1>4. Collected(o, P, M, M)
  BY <1>2, Zenon
<1>5. Collected(q, P, M, M)
  BY <1>3, Zenon
<1>6. Digest(o) = Digest(q)
  BY <1>4, <1>5, DigestUnique
<1>7. d = e
  BY <1>2, <1>3, <1>6, Zenon
<1>8. \A u, w \in ZoneLists : ZoneIn(u) = ZoneIn(w)
  BY ZonePicked, Zenon DEF ZoneFixed, ZoneIn
<1>9. y = z
  <2>1. PICK u \in ZoneLists : y = ZoneIn(u)
    BY <1>2, Zenon DEF ZonesIn
  <2>2. PICK w \in ZoneLists : z = ZoneIn(w)
    BY <1>3, Zenon DEF ZonesIn
  <2> QED
    BY <1>8, <2>1, <2>2, Zenon
<1> QED
  BY <1>2, <1>3, <1>7, <1>9, Zenon

\* What is made of the same request and the same reading stays.
LEMMA BasicStays ==
    ASSUME UNCHANGED req, NEW d, NEW zone
    PROVE  /\ Basic(d, zone)' = Basic(d, zone) /\ EC2Of(d, zone)' = EC2Of(d, zone)
           /\ ZonesIn' = ZonesIn
<1>1. Zone' = Zone /\ ZoneID' = ZoneID /\ GetOutpostArn' = GetOutpostArn
  BY SameRequest, Zenon DEF Zone, ZoneID
<1>2. Basic(d, zone)' = Basic(d, zone)
  BY <1>1, Zenon DEF Basic, Filled
<1>3. EC2Of(d, zone)' = EC2Of(d, zone)
  BY <1>2, Zenon DEF EC2Of
<1>4. ZonesIn' = ZonesIn
  BY <1>1, Zenon DEF ZonesIn, ZoneIn
<1> QED
  BY <1>2, <1>3, <1>4, Zenon

\* The same request wants the same.
LEMMA WantedStays ==
    ASSUME UNCHANGED req, NEW i, Wanted(i)
    PROVE  Wanted(i)'
<1>1. PICK o, d, zone : zone \in ZonesIn /\
          Collected(o, req.params, req.mutable, req.mutable) /\ d = Digest(o) /\ i = EC2Of(d, zone)
  BY Zenon DEF Wanted
<1>2. i = EC2Of(d, zone)' /\ zone \in ZonesIn'
  BY <1>1, BasicStays, Zenon
<1>3. Collected(o, req.params, req.mutable, req.mutable)'
  BY <1>1, Zenon
<1>4. (d = Digest(o))'
  BY <1>1, Zenon
<1> QED
  BY <1>2, <1>3, <1>4, Zenon DEF Wanted

\* Prepare makes it of what was read, but for the IOPS.
LEMMA PreparedBasic ==
    ASSUME NEW zone, NEW d, d = Digest(opts)
    PROVE  Prepared(Type, zone, ZoneID) = Basic(d, zone)
<1>1. /\ \A k \in IntKeys : d.ints[k] = opts.ints[k]
      /\ \A k \in TextKeys : d.texts[k] = opts.texts[k]
      /\ d.own = opts.own /\ d.tags = EvaluatedOf(opts.tags)
  BY Zenon DEF Digest
<1>2. /\ d.ints["throughput"] = opts.ints["throughput"]
      /\ d.ints["volumeinitializationrate"] = opts.ints["volumeinitializationrate"]
      /\ d.texts["type"] = opts.texts["type"] /\ d.texts["encrypted"] = opts.texts["encrypted"]
      /\ d.texts["kmskeyid"] = opts.texts["kmskeyid"]
  BY Zenon, <1>1 DEF IntKeys, TextKeys
<1>3. Type = TypeOf(d)
  BY <1>2, Zenon DEF Type, TypeOf
<1>4. VolumeTags(UserTags) = TagsOf(d.tags, d.own)
  BY <1>1, Zenon DEF VolumeTags, UserTags, TagsOf, Evaluated, EvaluatedOf
<1>5. (opts.texts["encrypted"] = "true" \/ opts.texts["kmskeyid"] # "")
      = (d.texts["encrypted"] = "true" \/ d.texts["kmskeyid"] # "")
  BY <1>2, Zenon
<1>6. Prepared(Type, zone, ZoneID) =
        Filled(Type, zone, opts.texts["encrypted"] = "true" \/ opts.texts["kmskeyid"] # "",
               opts.texts["kmskeyid"], opts.ints["throughput"], opts.ints["volumeinitializationrate"],
               VolumeTags(UserTags))
  BY Zenon DEF Prepared, Filled
<1> QED
  BY <1>2, <1>3, <1>4, <1>5, <1>6, Zenon DEF Basic

\* With the IOPS it is what is wanted.
LEMMA UseBuilds ==
    ASSUME NEW zone, NEW d, d = Digest(opts), input = Basic(d, zone),
           NEW max, max = Limits[input.type].max
    PROVE  EC2Input([input EXCEPT !.iops = CappedIOPS(max)]) = EC2Of(d, zone)
<1>1. /\ d.ints["iops"] = opts.ints["iops"] /\ d.ints["iopspergb"] = opts.ints["iopspergb"]
      /\ d.increase = (Increase \in opts.flags)
  BY Zenon DEF Digest, IntKeys
<1>2. CappedIOPS(max) = IOPSOf(d, input.size, input.type)
  BY <1>1, Zenon DEF CappedIOPS, RequestedIOPS, IOPSOf, Increase
<1> QED
  BY <1>2, Zenon DEF EC2Of

\* Reading starts with nothing, and goes on to the mutable parameters.
LEMMA BeginCollects ==
    ASSUME Collects, Begin \/ ParametersRead
    PROVE  Collects'
<1>1. CASE Begin
  <2>1. /\ stage' = "parameters" /\ left' = req.params /\ opts' = NoOptions /\ UNCHANGED req
    BY <1>1, Zenon DEF Begin
  <2>2. ASSUME NEW N, NEW o, o = NoOptions
        PROVE  Collected(o, {}, {}, N)
    <3>1. /\ \A k \in IntKeys : o.ints[k] = 0
          /\ \A k \in TextKeys : o.texts[k] = ""
          /\ o.flags = {} /\ o.own = {} /\ o.tags = <<>>
      BY Zenon, <2>2 DEF NoOptions
    <3>2. \A k \in IntKeys : IntRead(o.ints[k], k, {}, {})
      BY Zenon, <3>1 DEF IntRead
    <3>3. \A k \in TextKeys : TextRead(o.texts[k], k, {}, {}, N)
      BY Zenon, <3>1 DEF TextRead
    <3>4. o.tags \in Seq(STRING \X Int) /\ EvaluatedOf(o.tags) = {} /\ TagsRead({}, {}) = {}
      <4>0. <<>> \in Seq(STRING \X Int) /\ DOMAIN <<>> = {}
        OBVIOUS
      <4>1. DOMAIN o.tags = {} /\ o.tags \in Seq(STRING \X Int)
        BY <3>1, <4>0, Zenon
      <4>2. EvaluatedOf(o.tags) = {}
        BY <4>1, Zenon DEF EvaluatedOf
      <4>3. TagsRead({}, {}) = {}
        BY Zenon DEF TagsRead, TagParameters
      <4> QED
        BY Zenon, <4>1, <4>2, <4>3
    <3>5. o.own = UNION {TagOf(q) : q \in {}} /\ ~(Increase \in o.flags)
      BY Zenon, <3>1
    <3> QED
      BY Zenon, <3>2, <3>3, <3>4, <3>5 DEF Collected
  <2>3. PICK o, N : o = NoOptions /\ N = req.mutable
    BY Zenon
  <2>4. Collected(o, {}, {}, N) /\ req'.params \ left' = {}
    BY Zenon, <2>1, <2>2, <2>3
  <2> QED
    BY Zenon, <2>1, <2>3, <2>4 DEF Collects
<1>2. CASE ParametersRead
  <2>1. /\ stage = "parameters" /\ left = {} /\ stage' = "mutable" /\ left' = req.mutable
        /\ UNCHANGED <<req, opts>>
    BY <1>2, Zenon DEF ParametersRead
  <2>2. req.params \ left = req.params /\ req'.mutable \ left' = {}
    BY Zenon, <2>1
  <2>3. Collected(opts, req.params \ left, {}, req.mutable)
    BY <2>1, Zenon DEF Collects
  <2> QED
    BY Zenon, <2>1, <2>2, <2>3 DEF Collects
<1> QED
  BY Zenon, <1>1, <1>2

\* A parameter is read.
LEMMA ReadCollects ==
    ASSUME Unambiguous, RequestInv, Collects, NEW p \in left, ReadParameter(p)
    PROVE  Collects'
<1>1. stage = "parameters" /\ UNCHANGED req
  BY Zenon DEF ReadParameter
<1>2. CASE Refuse
  BY Zenon, <1>2 DEF Refuse, Collects
<1>3. CASE opts' = Read(p) /\ left' = left \ {p} /\ UNCHANGED stage
  <2>1. OptsShape /\ left \subseteq req.params /\ req \in Requests
    BY Zenon, <1>1 DEF RequestInv, Reading
  <2>2. p \in Parameter
    BY Zenon, <2>1, RequestsAssumption
  <2>3. PICK o, S, N : o = Read(p) /\ S = req.params \ left /\ N = req.mutable
    BY Zenon
  <2>4. Changes(o, p)
    BY <2>1, <2>2, <2>3, ReadChanges, Zenon
  <2>5. Distinct(S \cup {p})
    BY <2>1, <2>3 DEF Unambiguous, Distinct
  <2>6. Collected(opts, S, {}, N)
    BY <1>1, <2>3, Zenon DEF Collects
  <2>7. Collected(o, S \cup {p}, {}, N)
    BY <2>2, <2>4, <2>5, <2>6, CollectParameter, Zenon
  <2>8. req'.params \ left' = S \cup {p} /\ opts' = o /\ req'.mutable = N
    <3>1. req.params \ (left \ {p}) = (req.params \ left) \cup {p}
      BY <2>1, Zenon
    <3> QED
      BY <1>1, <1>3, <2>3, <3>1, Zenon
  <2>9. stage' = "parameters"
    BY <1>1, <1>3, Zenon
  <2> QED
    BY Zenon, <2>7, <2>8, <2>9 DEF Collects
<1> QED
  BY <1>2, <1>3, Zenon DEF ReadParameter

\* A mutable parameter is read.
LEMMA ReadMutableCollects ==
    ASSUME Unambiguous, RequestInv, Collects, NEW p \in left, ReadMutable(p)
    PROVE  Collects'
<1>1. stage = "mutable" /\ UNCHANGED req
  BY Zenon DEF ReadMutable
<1>2. CASE Refuse
  BY Zenon, <1>2 DEF Refuse, Collects
<1>3. CASE /\ p.key \in MutableKeys /\ opts' = MutableRead(p, req.mutable)
           /\ left' = left \ {p} /\ UNCHANGED stage
  <2>1. OptsShape /\ left \subseteq req.mutable /\ req \in Requests
    BY <1>1 DEF RequestInv, Reading
  <2>2. p \in Parameter
    BY Zenon, <2>1, RequestsAssumption
  <2>3. PICK o, S, M, N :
          o = MutableRead(p, req.mutable) /\ S = req.params /\ M = req.mutable \ left /\ N = req.mutable
    BY Zenon
  <2>4. Distinct(N)
    BY <2>1, <2>3, Zenon DEF Unambiguous
  <2>5. Collected(opts, S, M, N)
    BY <1>1, <2>3, Zenon DEF Collects
  <2>6. p \in N /\ M \subseteq N /\ o = MutableRead(p, N)
    BY Zenon, <2>1, <2>3
  <2>7. Collected(o, S, M \cup {p}, N)
    BY <1>3, <2>1, <2>2, <2>4, <2>5, <2>6, CollectMutable, Zenon
  <2>8. req'.mutable \ left' = M \cup {p} /\ opts' = o /\ req'.mutable = N /\ req'.params = S
    <3>1. req.mutable \ (left \ {p}) = (req.mutable \ left) \cup {p}
      BY <2>1, Zenon
    <3> QED
      BY <1>1, <1>3, <2>3, <3>1, Zenon
  <2>9. stage' = "mutable"
    BY Zenon, <1>1, <1>3
  <2> QED
    BY Zenon, <2>7, <2>8, <2>9 DEF Collects
<1>4. TypeKey(p) <=> Writes(p, "type", req.mutable)
  BY Zenon DEF TypeKey, Writes
<1> QED
  BY <1>2, <1>3, <1>4, Zenon DEF ReadMutable, MutableRead, MutableKeys

\* The EC2 request is prepared.
LEMMA PrepareCollects ==
    ASSUME Collects, Prepare \/ SourceFails \/ ZonesFail
    PROVE  Collects'
<1>1. stage = "mutable" /\ left = {} /\ UNCHANGED req
  BY Zenon DEF Prepare, SourceFails, ZonesFail
<1>2. CASE Refuse
  BY Zenon, <1>2 DEF Refuse, Collects
<1>3. ASSUME NEW zone \in ZonesIn, input' = Prepared(Type, zone, ZoneID), stage' = "limits", UNCHANGED opts
      PROVE  Collects'
  <2>1. Collected(opts, req.params, req.mutable, req.mutable)
    <3>1. req.mutable \ left = req.mutable
      BY Zenon, <1>1
    <3> QED
      BY Zenon, <1>1, <3>1 DEF Collects
  <2>5. PICK d : d = Digest(opts)
    BY Zenon
  <2>6. input' = Basic(d, zone)
    BY <1>3, <2>5, PreparedBasic, Zenon
  <2>7. (input = Basic(d, zone))' /\ zone \in ZonesIn' /\ (d = Digest(opts))'
    BY <1>1, <1>3, <2>5, <2>6, BasicStays, Zenon
  <2>8. Collected(opts, req.params, req.mutable, req.mutable)'
    BY <1>1, <1>3, <2>1
  <2>9. stage' # "parameters" /\ stage' # "mutable"
    BY Zenon, <1>3
  <2> QED
    BY <2>7, <2>8, <2>9, Zenon DEF Collects
<1> QED
  BY <1>2, <1>3, Zenon DEF Prepare, SourceFails, ZonesFail, ZonesIn, ZoneIn

\* What is wanted stays as long as only that is made.
LEMMA WantsStays ==
    ASSUME Wants, UNCHANGED req,
           \A p \in Procs : call'[p].pc # "idle" =>
               \/ call[p].pc # "idle" /\ call'[p].opts = call[p].opts
               \/ \A i : i = call'[p].opts => Wanted(i),
           \A n \in Names, t \in Tokens : vol'[n][t].state # "none" =>
               \/ vol[n][t].state # "none" /\ vol'[n][t].opts = vol[n][t].opts
               \/ \E p \in Procs : call[p].pc # "idle" /\ vol'[n][t].opts = call[p].opts
    PROVE  Wants'
<1>1. \A i : Wanted(i) => Wanted(i)'
  BY Zenon, WantedStays
<1>2. ASSUME NEW p \in Procs, call'[p].pc # "idle", NEW i, i = call'[p].opts
      PROVE  Wanted(i)'
  <2>1. Wanted(i)
    BY <1>2, Zenon DEF Wants
  <2> QED
    BY <1>1, <2>1, Zenon
<1>3. ASSUME NEW n \in Names, NEW t \in Tokens, vol'[n][t].state # "none", NEW i, i = vol'[n][t].opts
      PROVE  Wanted(i)'
  <2>1. Wanted(i)
    BY <1>3, Zenon DEF Wants
  <2> QED
    BY <1>1, <2>1, Zenon
<1> QED
  BY <1>2, <1>3, Zenon DEF Wants

\* Handlers and volumes agree.
LEMMA WantsAgree ==
    ASSUME ZoneFixed, RequestInv, Wants, NEW p \in Procs, call[p].pc # "idle"
    PROVE  Agreed(p)
<1>1. req \in Requests /\ call[p].name \in Names
  <2>1. req \in Requests
    BY Zenon DEF RequestInv, Reading
  <2>2. call[p].name \in Names
    BY Zenon DEF RequestInv, Formed, Shape
  <2> QED
    BY Zenon, <2>1, <2>2
<1>2. ASSUME NEW n \in Names, NEW t \in Tokens, vol[n][t].state # "none"
      PROVE  vol[n][t].opts = call[p].opts
  <2>1. PICK i, j : i = vol[n][t].opts /\ j = call[p].opts
    BY Zenon
  <2>2. Wanted(i) /\ Wanted(j)
    BY <1>2, <2>1, Zenon DEF Wants
  <2>3. i = j
    BY <1>1, <2>2, WantedOne, Zenon
  <2> QED
    BY <2>1, <2>3, Zenon
<1> QED
  BY <1>1, <1>2, Zenon DEF Agreed

\* A size in GiB is a number, whatever the range.
LEMMA SizeType ==
    ASSUME NEW range, range.required \in Int
    PROVE  BytesToGiB(GetVolSizeBytes(range)) \in Int
<1>1. ASSUME NEW a \in Int
      PROVE  Quotient(a, GiB) \in Int
  BY <1>1, WidthsAssumption DEF Quotient
<1>2. PICK a : a = Quotient(Int64(range.required + GiB - 1), GiB)
  BY Zenon
<1>3. a \in Int
  <2>1. range.required + GiB - 1 \in Int
    BY WidthsAssumption
  <2>2. Int64(range.required + GiB - 1) \in Int
    BY <2>1, WrapType, WidthsAssumption, Zenon DEF Int64
  <2> QED
    BY <1>1, <1>2, <2>2, Zenon
<1>4. Int64(a * GiB) \in Int
  <2>1. a * GiB \in Int
    BY <1>3, WidthsAssumption
  <2> QED
    BY <2>1, WrapType, WidthsAssumption, Zenon DEF Int64
<1>5. PICK b : b = GetVolSizeBytes(range)
  BY Zenon
<1>6. b \in Int
  <2>1. b \in {DefaultVolumeSize, -1, Int64(a * GiB)}
    BY <1>2, <1>5, Zenon DEF GetVolSizeBytes, RoundUpBytes, RoundUpSize
  <2> QED
    BY <1>4, <2>1, WidthsAssumption
<1>7. Int32(Quotient(b, GiB)) \in Int
  BY <1>1, <1>6, WrapType, WidthsAssumption, Zenon DEF Int32
<1>8. MaxInt32 \in Int
  BY WidthsAssumption
<1> QED
  BY <1>5, <1>7, <1>8, Zenon DEF BytesToGiB

\* A maximum that is above the minimum and what is asked for caps nothing.
LEMMA CapFree ==
    ASSUME NEW gib, NEW n \in Int, NEW increase, NEW min \in Nat, NEW perGb \in Nat,
           NEW m \in Nat, NEW k \in Nat, n <= m, n <= k, min <= m, min <= k
    PROVE  CapIOPS(gib, n, [max |-> m, min |-> min, perGb |-> perGb], increase)
           = CapIOPS(gib, n, [max |-> k, min |-> min, perGb |-> perGb], increase)
BY DEF CapIOPS

\* IOPS are capped alike with EC2's maximum and with the one of the table.
LEMMA CappedAlike ==
    ASSUME LimitsAgree, RequestInv, Knows, Collects, stage = "limits"
    PROVE  CappedIOPS(Limits[input.type].fallback) = CappedIOPS(Limits[input.type].max)
<1>1. PICK t : t = input.type
  BY Zenon
<1>2. t \in DOMAIN Limits /\ req \in Requests /\ OptsShape
  BY <1>1, Zenon DEF Knows, RequestInv, Reading
<1>3. Collected(opts, req.params, req.mutable, req.mutable)
  BY Zenon DEF Collects
<1>4. PICK d, zone : d = Digest(opts) /\ input = Basic(d, zone)
  BY Zenon DEF Collects
<1>5. /\ t = IF opts.texts["type"] = "" THEN "gp3" ELSE opts.texts["type"]
      /\ input.size = BytesToGiB(GetVolSizeBytes(req.range))
  <2>1. d.texts["type"] = opts.texts["type"]
    BY <1>4, Zenon DEF Digest, TextKeys
  <2>2. PICK type : type = TypeOf(d)
    BY Zenon
  <2>3. input.type = type /\ input.size = BytesToGiB(GetVolSizeBytes(req.range))
    BY <1>4, <2>2, Zenon DEF Basic, Filled, NoInput
  <2> QED
    BY <1>1, <2>1, <2>2, <2>3, Zenon DEF TypeOf
<1>6. ComesTo(req, t)
  <2>1. TextRead(opts.texts["type"], "type", req.params, req.mutable, req.mutable)
    BY <1>3, Zenon DEF Collected, TextKeys
  <2> QED
    BY <1>5, <2>1, Zenon DEF TextRead, Writes, ComesTo
<1>7. PICK n : n = RequestedIOPS
  BY Zenon
<1>8. n \in Int /\ (n > 0 => AsksIOPS(req, n))
  <2>1. /\ opts.ints["iops"] \in Int /\ opts.ints["iopspergb"] \in Int
        /\ IntRead(opts.ints["iops"], "iops", req.params, req.mutable)
        /\ IntRead(opts.ints["iopspergb"], "iopspergb", req.params, req.mutable)
    BY <1>2, <1>3, Zenon DEF OptsShape, Collected, IntKeys
  <2>2. CASE opts.ints["iops"] > 0
    <3>1. PICK p \in req.params \cup req.mutable : p.key = "iops" /\ p.n = opts.ints["iops"]
      BY <2>1, <2>2 DEF IntRead
    <3> QED
      BY <1>7, <2>1, <2>2, <3>1, Zenon DEF RequestedIOPS, AsksIOPS
  <2>3. CASE ~(opts.ints["iops"] > 0) /\ opts.ints["iopspergb"] > 0
    <3>1. PICK p \in req.params \cup req.mutable : p.key = "iopspergb" /\ p.n = opts.ints["iopspergb"]
      BY <2>1, <2>3 DEF IntRead
    <3>2. n = Int32(p.n * BytesToGiB(GetVolSizeBytes(req.range)))
      BY <1>5, <1>7, <2>3, <3>1, Zenon DEF RequestedIOPS
    <3>3. n \in Int
      <4>1. PICK size \in Int : size = BytesToGiB(GetVolSizeBytes(req.range))
        BY <1>2, RequestsAssumption, SizeType, Zenon
      <4>2. p.n * size \in Int
        BY <2>1, <3>1
      <4> QED
        BY <3>2, <4>1, <4>2, WrapType, WidthsAssumption, Zenon DEF Int32
    <3> QED
      BY <3>1, <3>2, <3>3, Zenon DEF AsksIOPS
  <2>4. CASE ~(opts.ints["iops"] > 0) /\ ~(opts.ints["iopspergb"] > 0)
    <3>1. n = 0
      BY <1>7, <2>4, Zenon DEF RequestedIOPS
    <3> QED
      BY <3>1
  <2> QED
    BY <2>2, <2>3, <2>4, Zenon
<1>9. CASE n <= 0
  BY <1>7, <1>9, Zenon DEF CappedIOPS
<1>10. CASE Limits[t].fallback = Limits[t].max
  BY <1>1, <1>10, Zenon
<1>11. CASE ~(n <= 0) /\ Limits[t].fallback # Limits[t].max
  <2>1. /\ n > 0 /\ Limits[t].fallback \in Nat /\ Limits[t].max \in Nat
        /\ Limits[t].min \in Nat /\ Limits[t].perGb \in Nat
    BY <1>2, <1>8, <1>11, LimitsAssumption
  <2>2. \A m \in {Limits[t].fallback, Limits[t].max} : Limits[t].min <= m /\ n <= m
    BY <1>2, <1>6, <1>8, <1>11, <2>1, Zenon DEF LimitsAgree
  <2>3. PICK m, k, min, perGb \in Nat :
          m = Limits[t].fallback /\ k = Limits[t].max /\ min = Limits[t].min /\ perGb = Limits[t].perGb
    BY <2>1, Zenon
  <2>4. n <= m /\ n <= k /\ min <= m /\ min <= k
    BY <2>2, <2>3, Zenon
  <2>5. \A gib, increase :
          CapIOPS(gib, n, [max |-> m, min |-> min, perGb |-> perGb], increase)
          = CapIOPS(gib, n, [max |-> k, min |-> min, perGb |-> perGb], increase)
    BY <1>8, <2>4, CapFree
  <2> QED
    BY <1>1, <1>7, <1>11, <2>3, <2>5, Zenon DEF CappedIOPS
<1> QED
  BY <1>9, <1>10, <1>11, Zenon

\* CreateDisk goes on with what is wanted.
LEMMA UseWants ==
    ASSUME LimitsAgree, RequestInv, Knows, Collects, Wants, Burned, NEW p \in Procs,
           Use(p, Limits[input.type].max) \/ Use(p, Limits[input.type].fallback),
           \A k \in known' : k[2] = Limits[k[1][1]].max
    PROVE  Knows' /\ Collects' /\ Wants' /\ Burned'
<1>1. PICK max : max = Limits[input.type].max
  BY Zenon
<1>2. stage = "limits"
  BY Zenon DEF Use
<1>3. CappedIOPS(Limits[input.type].fallback) = CappedIOPS(max)
  BY <1>1, <1>2, CappedAlike, Zenon
<1>4. /\ stage' = "idle" /\ UNCHANGED <<req, opts>>
      /\ CreateVolume(p, Name, EC2Input([input EXCEPT !.iops = CappedIOPS(max)]))
  BY <1>1, <1>3, Zenon DEF Use
<1>5. Collected(opts, req.params, req.mutable, req.mutable)
  BY <1>2, Zenon DEF Collects
<1>6. PICK d, zone : zone \in ZonesIn /\ d = Digest(opts) /\ input = Basic(d, zone)
  BY <1>2, Zenon DEF Collects
<1>7. PICK i : i = EC2Input([input EXCEPT !.iops = CappedIOPS(max)])
  BY Zenon
<1>8. i = EC2Of(d, zone)
  BY <1>1, <1>6, <1>7, UseBuilds, Zenon
<1>9. Wanted(i)
  BY <1>5, <1>6, <1>8, Zenon DEF Wanted
<1>10. /\ call'[p].opts = i /\ (Burned => Burned')
       /\ \A q \in Procs : q # p => call'[q] = call[q]
  <2>1. Formed
    BY Zenon DEF RequestInv
  <2>2. PICK n : n = Name
    BY Zenon
  <2>3. n \in Names
    BY <2>2, NameOnly, Zenon
  <2>4. CreateVolume(p, n, i)
    BY <1>4, <1>7, <2>2, Zenon
  <2> QED
    BY <2>1, <2>3, <2>4, CallSound
<1>11. UNCHANGED vol
  BY <1>4, Zenon DEF CreateVolume
<1>12. Wants'
  <2>1. \A q \in Procs : call'[q].pc # "idle" =>
          \/ call[q].pc # "idle" /\ call'[q].opts = call[q].opts
          \/ \A j : j = call'[q].opts => Wanted(j)
    BY <1>9, <1>10, Zenon
  <2> QED
    BY <1>4, <1>11, <2>1, WantsStays, Zenon
<1>13. Knows'
  BY Zenon, <1>4 DEF Knows
<1>14. Collects'
  BY Zenon, <1>4 DEF Collects
<1> QED
  BY Zenon, <1>10, <1>12, <1>13, <1>14

\* Every step keeps what the attempts come to.
LEMMA RetryStep ==
    ASSUME Unambiguous, TypesKnown, LimitsAgree, ZoneFixed
    PROVE  RetryInv /\ [RequestNext]_allVars => RetryInv'
<1> SUFFICES ASSUME RetryInv, [RequestNext]_allVars
             PROVE  Knows' /\ Collects' /\ Wants' /\ Burned'
  BY RequestStep, Zenon DEF RetryInv
<1>i. RequestInv /\ Knows /\ Collects /\ Wants /\ Burned
  BY Zenon DEF RetryInv
<1>o. IncreaseOnce
  <2>1. \A r \in Requests : Distinct(r.params)
    BY Zenon DEF Unambiguous
  <2>2. Increase # "tagspecification"
    BY Zenon DEF Increase
  <2> QED
    BY <2>1, <2>2, Zenon DEF IncreaseOnce, Distinct
<1>a. UNCHANGED vars /\ UNCHANGED req => Wants' /\ Burned'
  <2> SUFFICES ASSUME UNCHANGED vars, UNCHANGED req
               PROVE  Wants' /\ Burned'
    OBVIOUS
  <2>1. UNCHANGED <<call, inFlight, latest, vol, answered>>
    BY Zenon DEF vars
  <2>2. Burned'
    BY <1>i, <2>1, Zenon DEF Burned, BurnedBefore, BurnedBehind, AnsweredAvailable
  <2> QED
    BY <1>i, <2>1, <2>2, WantsStays, Zenon
<1>1. CASE Begin \/ ParametersRead
  BY <1>a, <1>i, <1>1, BeginKnows, BeginCollects, Zenon DEF Begin, ParametersRead
<1>2. ASSUME NEW p \in left, ReadParameter(p) \/ ReadMutable(p)
      PROVE  Knows' /\ Collects' /\ Wants' /\ Burned'
  <2>1. UNCHANGED vars /\ UNCHANGED req
    BY <1>2, Zenon DEF ReadParameter, ReadMutable
  <2>2. Knows'
    BY <1>i, <1>o, <1>2, ReadParameterKnows, ReadMutableKnows, Zenon
  <2>3. Collects'
    BY <1>i, <1>2, ReadCollects, ReadMutableCollects, Zenon
  <2> QED
    BY <1>a, <2>1, <2>2, <2>3, Zenon
<1>3. CASE Prepare \/ SourceFails \/ ZonesFail
  <2>1. UNCHANGED vars /\ UNCHANGED req
    BY <1>3, Zenon DEF Prepare, SourceFails, ZonesFail
  <2> QED
    BY <1>a, <1>i, <1>3, <2>1, PrepareKnows, PrepareCollects, Zenon
<1>4. ASSUME NEW p \in Procs, CachedLimits(p) \/ DryRunLimits(p) \/ FallbackLimits(p)
      PROVE  Knows' /\ Collects' /\ Wants' /\ Burned'
  BY <1>i, <1>4, LimitsTaken, UseWants, Zenon
<1>c. UNCHANGED <<req, stage, left, opts, input>> => Collects'
  <2> SUFFICES ASSUME UNCHANGED <<req, stage, left, opts, input>>
               PROVE  Collects'
    OBVIOUS
  <2>1. CASE stage = "limits"
    <3>1. PICK d, zone : zone \in ZonesIn /\ d = Digest(opts) /\ input = Basic(d, zone)
      BY <1>i, <2>1, Zenon DEF Collects
    <3>2. (d = Digest(opts))'
      BY <3>1, Zenon
    <3>3. (input = Basic(d, zone))' /\ zone \in ZonesIn'
      BY <3>1, BasicStays, Zenon
    <3>4. Collected(opts, req.params, req.mutable, req.mutable)'
      BY <1>i, <2>1, Zenon DEF Collects
    <3>5. stage' # "parameters" /\ stage' # "mutable"
      BY Zenon, <2>1
    <3> QED
      BY <3>2, <3>3, <3>4, <3>5, Zenon DEF Collects
  <2>2. CASE stage # "limits"
    BY <1>i, <2>2, Zenon DEF Collects
  <2> QED
    BY <2>1, <2>2
<1>5. CASE Forget
  <2>1. known' = {} /\ UNCHANGED <<req, stage, left, opts, input>> /\ UNCHANGED vars
    BY <1>5, Zenon DEF Forget
  <2>2. Knows'
    BY Zenon, <1>i, <2>1 DEF Knows
  <2> QED
    BY <1>a, <1>c, <2>1, <2>2, Zenon
<1>6. CASE UNCHANGED allVars
  <2>1. UNCHANGED <<req, stage, left, opts, input, known>> /\ UNCHANGED vars
    BY <1>6, Zenon DEF allVars, vars
  <2>2. Knows'
    BY <1>i, <2>1, Zenon DEF Knows
  <2> QED
    BY <1>a, <1>c, <2>1, <2>2, Zenon
<1>7. CASE Outside
  <2>1. Burned'
    BY <1>i, <1>7, OutsideMakes, WantsAgree, Zenon
  <2>2. UNCHANGED req
    BY <1>i, <1>7, OutsideMakes, Zenon DEF requestVars
  <2>3. Wants'
    BY <1>i, <1>7, <2>2, OutsideMakes, WantsStays, Zenon
  <2>4. Collects'
    <3>1. Refuse => Collects'
      BY Zenon DEF Refuse, Collects
    <3> QED
      BY <1>i, <1>7, <1>c, <3>1, OutsideMakes, Zenon DEF requestVars
  <2> QED
    BY <1>i, <1>7, <2>1, <2>3, <2>4, OutsideKnows, Zenon
<1> QED
  BY <1>1, <1>2, <1>3, <1>4, <1>5, <1>6, <1>7, Zenon DEF RequestNext, Attempt, Outside

\* The invariant behind what retries of a request do: every attempt at CreateVolume collects, and
\* CreateDisk sends under a token, what the request alone determines, whatever the order in which
\* the maps are read and wherever the limits come from.
THEOREM RetryInvariant ==
    ASSUME Unambiguous, TypesKnown, LimitsAgree, ZoneFixed
    PROVE  RequestSpec => []RetryInv
<1>1. RequestInit => RetryInv
  <2> SUFFICES ASSUME RequestInit
               PROVE  Knows /\ Collects /\ Wants /\ Burned
    BY RequestStart, Zenon DEF RetryInv
  <2>1. Knows
    BY Zenon DEF RequestInit, Knows, NoOptions, TextKeys
  <2>2. Collects
    BY Zenon DEF RequestInit, Collects
  <2>3. Wants
    BY Zenon, NameOnly DEF RequestInit, Wants
  <2>4. Burned
    BY BoundsAssumption DEF RequestInit, Burned, BurnedBefore, BurnedBehind, AnsweredAvailable, Tokens
  <2> QED
    BY Zenon, <2>1, <2>2, <2>3, <2>4
<1>2. RetryInv /\ [RequestNext]_allVars => RetryInv'
  BY Zenon, RetryStep
<1> QED
  BY <1>1, <1>2, PTL DEF RequestSpec

\* However often an attempt fails, loses its answer or is cut off by a restart: the retries of a
\* request make one volume, as long as no key is there twice, the IOPS it asks for are not between
\* the maximum of the table and EC2's, and the zone does not depend on what EC2 lists first
\* (CreateVolume, CreateDisk).
THEOREM RetriesMakeOneVolume ==
    ASSUME Unambiguous, TypesKnown, LimitsAgree, ZoneFixed
    PROVE  RequestSpec => []OneVolume
<1>1. RetryInv => OneVolume
  BY SoundOne, Zenon DEF RetryInv, RequestInv, Sound
<1> QED
  BY <1>1, RetryInvariant, PTL

\* Under the same conditions the attempts that succeed answer with the same volume.
THEOREM RetriesAnswerAlike ==
    ASSUME Unambiguous, TypesKnown, LimitsAgree, ZoneFixed
    PROVE  RequestSpec => []SameAnswer
<1>1. RetryInv => SameAnswer
  BY SoundOne, Zenon DEF RetryInv, RequestInv, Sound
<1> QED
  BY <1>1, RetryInvariant, PTL

\* Under the same conditions the type and the throughput of every EC2 request, and of every volume
\* that is made, are those of the mutable parameters if these have them (CreateVolume).
THEOREM MutableAlwaysPrecedes ==
    ASSUME Unambiguous, TypesKnown, LimitsAgree, ZoneFixed
    PROVE  RequestSpec => []MutableTakesPrecedence
<1>1. RetryInv => MutableTakesPrecedence
  <2> SUFFICES ASSUME RetryInv, NEW p \in req.mutable, NEW i \in Asked \cup Made
               PROVE  /\ p.key = "type" => i.type = IF p.text = "" THEN "gp3" ELSE p.text
                      /\ p.key = "throughput" => i.throughput = Positive(p.n)
    BY Zenon DEF MutableTakesPrecedence
  <2>1. Wanted(i)
    BY NameOnly, Zenon DEF RetryInv, Wants, Asked, Made
  <2>2. PICK o, d, zone : Collected(o, req.params, req.mutable, req.mutable) /\ d = Digest(o) /\ i = EC2Of(d, zone)
    BY <2>1, Zenon DEF Wanted
  <2>3. /\ d.texts["type"] = o.texts["type"] /\ d.ints["throughput"] = o.ints["throughput"]
        /\ TextRead(o.texts["type"], "type", req.params, req.mutable, req.mutable)
        /\ IntRead(o.ints["throughput"], "throughput", req.params, req.mutable)
    BY <2>2, Zenon DEF Digest, Collected, IntKeys, TextKeys
  <2>4. PICK in, type, n, iops :
          /\ in = Basic(d, zone) /\ type = TypeOf(d) /\ n = Positive(d.ints["throughput"])
          /\ iops = IOPSOf(d, in.size, in.type)
    BY Zenon
  <2>5. in.type = type /\ in.throughput = n /\ DOMAIN in = DOMAIN NoInput
    BY <2>4, Zenon DEF Basic, Filled, NoInput
  <2>6. PICK e : e = [in EXCEPT !.iops = iops]
    BY Zenon
  <2>7. e.type = type /\ e.throughput = n /\ DOMAIN e = DOMAIN NoInput
    BY <2>5, <2>6, Zenon DEF NoInput
  <2>8. i = EC2Input(e)
    BY <2>2, <2>4, <2>6, Zenon DEF EC2Of
  <2>9. i.type = type /\ i.throughput = n
    BY <2>7, <2>8, Zenon DEF EC2Input, NoInput
  <2>10. p.key = "type" => i.type = IF p.text = "" THEN "gp3" ELSE p.text
    BY <2>3, <2>4, <2>9, Zenon DEF TextRead, Writes, TypeOf
  <2>11. p.key = "throughput" => i.throughput = Positive(p.n)
    BY <2>3, <2>4, <2>9, Zenon DEF IntRead
  <2> QED
    BY <2>10, <2>11, Zenon
<1> QED
  BY <1>1, RetryInvariant, PTL
=============================================================================
