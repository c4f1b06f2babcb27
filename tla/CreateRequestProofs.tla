------------------------ MODULE CreateRequestProofs -------------------------
(***************************************************************************)
(* CreateVolume never makes a second volume for a name, and what it asks   *)
(* EC2 for is what the request says: for any number of goroutines, tokens  *)
(* and losses of the token numbers, all requests and all orders in which   *)
(* their parameters are read.                                              *)
(***************************************************************************)
EXTENDS CreateRequest, FiniteSetTheorems, TLAPS

-----------------------------------------------------------------------------
(* VolumeCreation: calls, tokens and volumes *)

CallFields == {"pc", "name", "opts", "id"}

VolFields == {"state", "opts"}

VolStates == {"none", "creating", "available", "failed"}

\* What is needed of the types, whatever the EC2 requests are.
Shape ==
    /\ DOMAIN call = Procs
    /\ \A p \in Procs : /\ DOMAIN call[p] = CallFields
                        /\ call[p].name \in Names /\ call[p].id \in Tokens
    /\ inFlight \subseteq Names
    /\ latest \in [Names -> {0} \cup 2..MaxToken]
    /\ DOMAIN vol = Names
    /\ \A n \in Names : DOMAIN vol[n] = Tokens
    /\ \A n \in Names, t \in Tokens : DOMAIN vol[n][t] = VolFields
    /\ answered \in [Names -> SUBSET Tokens]

\* The tokens before one that was used are burned.
BurnedBefore ==
    \A n \in Names : \A s, t \in Tokens :
        s < t /\ vol[n][t].state # "none" => vol[n][s].state = "failed"

\* The tokens before the number in the cache are burned.
BurnedBehind ==
    \A n \in Names : \A s \in Tokens : s < latest[n] => vol[n][s].state = "failed"

AnsweredAvailable ==
    \A n \in Names : \A t \in answered[n] : vol[n][t].state = "available"

Burned == BurnedBefore /\ BurnedBehind /\ AnsweredAvailable

\* What a handler asks for is what the volumes of its name were asked for.
Agreed(p) ==
    \A t \in Tokens : vol[call[p].name][t].state # "none" => vol[call[p].name][t].opts = call[p].opts

\* Typed states have the shape.
LEMMA TypeShape == TypeOK => Shape
BY DEF TypeOK, Shape, Call, Volume, CallFields, VolFields

\* The token number a handler uses is one of the tokens.
LEMMA TokenNumberIsToken ==
    ASSUME Shape, NEW n \in Names
    PROVE  TokenNumber(n) \in Tokens
BY BoundsAssumption DEF Shape, TokenNumber, Tokens

\* A handler goes on.
Moved(p, pc, id) ==
    /\ DOMAIN call' = Procs
    /\ \A q \in Procs : q # p => call'[q] = call[q]
    /\ DOMAIN call'[p] = CallFields
    /\ call'[p].pc = pc /\ call'[p].id = id
    /\ call'[p].name = call[p].name /\ call'[p].opts = call[p].opts

\* Goto changes the place of one handler.
LEMMA GotoMoves ==
    ASSUME Shape, NEW p \in Procs, NEW pc, Goto(p, pc)
    PROVE  Moved(p, pc, call[p].id)
BY Zenon DEF Shape, Goto, Moved, CallFields

\* So does a step that also sets the volume.
LEMMA WaitMoves ==
    ASSUME Shape, NEW p \in Procs, NEW t, call' = [call EXCEPT ![p].pc = "wait", ![p].id = t]
    PROVE  Moved(p, "wait", t)
BY Zenon DEF Shape, Moved, CallFields

\* What a call of EC2 leaves: all volumes but one are what they were, and that one is what the
\* handler asks for.
Makes(n, t, o) ==
    /\ DOMAIN vol' = Names
    /\ \A m \in Names : DOMAIN vol'[m] = Tokens
    /\ \A m \in Names, s \in Tokens : m # n \/ s # t => vol'[m][s] = vol[m][s]
    /\ DOMAIN vol'[n][t] = VolFields
    /\ vol'[n][t] = vol[n][t]
       \/ (vol[n][t].state = "none" /\ vol'[n][t].state = "creating" /\ vol'[n][t].opts = o)

\* CreateVolume and CopyVolumes in EC2.
LEMMA CreatedMakes ==
    ASSUME Shape, NEW n \in Names, NEW t \in Tokens, NEW o, vol' = Created(n, t, o)
    PROVE  Makes(n, t, o)
<1>1. CASE vol[n][t].state # "none"
  <2>1. vol' = vol
    BY Zenon, <1>1 DEF Created
  <2> QED
    BY <2>1 DEF Shape, Makes
<1>2. CASE vol[n][t].state = "none"
  <2>1. vol' = [vol EXCEPT ![n][t] = [state |-> "creating", opts |-> o]]
    BY Zenon, <1>2 DEF Created
  <2>2. /\ DOMAIN vol' = Names
        /\ \A m \in Names : DOMAIN vol'[m] = Tokens
        /\ \A m \in Names, s \in Tokens : m # n \/ s # t => vol'[m][s] = vol[m][s]
        /\ vol'[n][t] = [state |-> "creating", opts |-> o]
    BY <2>1 DEF Shape
  <2>3. /\ DOMAIN vol'[n][t] = VolFields /\ vol'[n][t].state = "creating"
        /\ vol'[n][t].opts = o
    BY <2>2 DEF VolFields
  <2> QED
    BY <1>2, <2>2, <2>3, Zenon DEF Makes
<1> QED
  BY Zenon, <1>1, <1>2

\* A volume becomes available or fails.
LEMMA BecomesMoves ==
    ASSUME Shape, NEW n \in Names, NEW t \in Tokens, NEW state, Becomes(n, t, state)
    PROVE  /\ DOMAIN vol' = Names
           /\ \A m \in Names : DOMAIN vol'[m] = Tokens
           /\ \A m \in Names, s \in Tokens : m # n \/ s # t => vol'[m][s] = vol[m][s]
           /\ DOMAIN vol'[n][t] = VolFields
           /\ vol'[n][t].state = state /\ vol'[n][t].opts = vol[n][t].opts
           /\ vol[n][t].state = "creating"
BY DEF Shape, Becomes, VolFields

-----------------------------------------------------------------------------
(* VolumeCreation: tokens are burned one after the other *)

\* Making a volume keeps the tokens in order: every token before the one used is burned, and
\* no later one was ever used.
LEMMA MakesKeeps ==
    ASSUME Shape, Burned, NEW n \in Names, NEW o, Makes(n, TokenNumber(n), o),
           UNCHANGED <<latest, answered>>
    PROVE  Burned'
<1> DEFINE t == TokenNumber(n)
<1>1. t \in Tokens
  BY Zenon, TokenNumberIsToken
<1>2. \A s \in Tokens : s < t => vol[n][s].state = "failed"
  BY <1>1 DEF Shape, Burned, BurnedBehind, TokenNumber, Tokens
<1> HIDE DEF t
<1>3. \A m \in Names, s \in Tokens : m # n \/ s # t => vol'[m][s] = vol[m][s]
  BY Zenon DEF Makes, t
<1>4. vol'[n][t] = vol[n][t] \/ (vol[n][t].state = "none" /\ vol'[n][t].state = "creating")
  BY Zenon DEF Makes, t
<1>5. CASE vol'[n][t] = vol[n][t]
  <2>1. \A m \in Names, s \in Tokens : vol'[m][s] = vol[m][s]
    BY Zenon, <1>3, <1>5
  <2> QED
    BY <2>1 DEF Shape, Burned, BurnedBefore, BurnedBehind, AnsweredAvailable
<1>6. CASE vol[n][t].state = "none" /\ vol'[n][t].state = "creating"
  <2>1. \A s \in Tokens : t < s => vol[n][s].state = "none"
    BY Zenon, <1>1, <1>6 DEF Burned, BurnedBefore
  <2>2. BurnedBefore'
    BY <1>1, <1>2, <1>3, <1>6, <2>1 DEF Burned, BurnedBefore, Tokens
  <2>3. BurnedBehind'
    BY <1>1, <1>3, <1>6 DEF Burned, BurnedBehind
  <2>4. AnsweredAvailable'
    BY <1>1, <1>3, <1>6 DEF Burned, Shape, AnsweredAvailable
  <2> QED
    BY Zenon, <2>2, <2>3, <2>4 DEF Burned
<1> QED
  BY Zenon, <1>4, <1>5, <1>6

\* Steps that leave the volumes, the token numbers and the answers.
LEMMA BurnedStays ==
    ASSUME Burned, UNCHANGED <<latest, vol, answered>>
    PROVE  Burned'
BY Zenon DEF Burned, BurnedBefore, BurnedBehind, AnsweredAvailable

\* While all that is asked for a name agrees, a token EC2 does not accept is a burned one.
LEMMA RefusedIsBurned ==
    ASSUME Shape, NEW p \in Procs, NEW n \in Names, n = call[p].name, Agreed(p),
           \A t \in Tokens : vol[n][t].state \in VolStates,
           ~Accepts(n, TokenNumber(n), call[p].opts)
    PROVE  vol[n][TokenNumber(n)].state = "failed"
<1>1. TokenNumber(n) \in Tokens
  BY Zenon, TokenNumberIsToken
<1> QED
  BY Zenon, <1>1 DEF Agreed, Accepts, Live, VolStates

\* What a step of CreateDisk does to its handler and to EC2.
Serves(p) ==
    /\ call[p].pc # "idle"
    /\ \A q \in Procs : q # p => call'[q] = call[q]
    /\ call'[p].name = call[p].name /\ call'[p].opts = call[p].opts
    /\ \/ call'[p].pc # "idle" /\ inFlight' = inFlight
       \/ call'[p].pc = "idle" /\ inFlight' = inFlight \ {call[p].name}
    /\ \A n \in Names, t \in Tokens :
         \/ vol'[n][t] = vol[n][t]
         \/ /\ n = call[p].name /\ vol[n][t].state = "none"
            /\ vol'[n][t].state = "creating" /\ vol'[n][t].opts = call[p].opts

States == \A n \in Names, t \in Tokens : vol[n][t].state \in VolStates

Formed == Shape /\ States

Sound == Formed /\ Burned

\* What every step of CreateDisk comes to; the tokens stay in order as long as what is asked
\* for agrees.
Served(p) == Formed' /\ Serves(p) /\ (Burned /\ Agreed(p) => Burned')

\* A handler goes on and EC2 makes a volume or does not.
LEMMA ServeStep ==
    ASSUME Formed, NEW p \in Procs, NEW n \in Names, n = call[p].name, call[p].pc # "idle",
           NEW pc, NEW id \in Tokens, Moved(p, pc, id),
           \/ pc # "idle" /\ inFlight' = inFlight
           \/ pc = "idle" /\ inFlight' = inFlight \ {n},
           UNCHANGED vol \/ (Makes(n, TokenNumber(n), call[p].opts) /\ UNCHANGED <<latest, answered>>),
           latest' \in [Names -> {0} \cup 2..MaxToken], answered' \in [Names -> SUBSET Tokens],
           UNCHANGED vol => (Burned /\ Agreed(p) => Burned')
    PROVE  Served(p)
<1>1. TokenNumber(n) \in Tokens
  BY Zenon, TokenNumberIsToken DEF Formed
<1>0. /\ DOMAIN call' = Procs
      /\ \A q \in Procs : /\ DOMAIN call'[q] = CallFields
                          /\ call'[q].name \in Names /\ call'[q].id \in Tokens
      /\ inFlight' \subseteq Names
  BY Zenon DEF Formed, Shape, Moved
<1>2. CASE UNCHANGED vol
  <2>1. /\ DOMAIN vol' = Names
        /\ \A m \in Names : DOMAIN vol'[m] = Tokens
        /\ \A m \in Names, t \in Tokens : DOMAIN vol'[m][t] = VolFields
        /\ \A m \in Names, t \in Tokens : vol'[m][t] = vol[m][t]
        /\ \A m \in Names, t \in Tokens : vol'[m][t].state \in VolStates
    BY <1>2, Zenon DEF Formed, Shape, States
  <2>2. Serves(p)
    BY Zenon, <2>1 DEF Serves, Moved
  <2>3. Shape' /\ States'
    BY <1>0, <2>1, Zenon DEF Formed, Shape, States
  <2> QED
    BY <1>2, <2>2, <2>3, Zenon DEF Formed, Served
<1>3. CASE Makes(n, TokenNumber(n), call[p].opts) /\ UNCHANGED <<latest, answered>>
  <2>1. Burned => Burned'
    BY <1>3, MakesKeeps, Zenon DEF Formed
  <2>2. /\ DOMAIN vol' = Names
        /\ \A m \in Names : DOMAIN vol'[m] = Tokens
        /\ \A m \in Names, t \in Tokens : DOMAIN vol'[m][t] = VolFields
        /\ \A m \in Names, t \in Tokens :
             \/ vol'[m][t] = vol[m][t]
             \/ /\ m = n /\ vol[m][t].state = "none"
                /\ vol'[m][t].state = "creating" /\ vol'[m][t].opts = call[p].opts
    <3> DEFINE u == TokenNumber(n)
    <3>1. /\ DOMAIN vol' = Names
          /\ \A m \in Names : DOMAIN vol'[m] = Tokens
          /\ \A m \in Names, t \in Tokens : m # n \/ t # u => vol'[m][t] = vol[m][t]
          /\ DOMAIN vol'[n][u] = VolFields
      BY <1>3, Zenon DEF Makes
    <3>2. \/ vol'[n][u] = vol[n][u]
          \/ (vol[n][u].state = "none" /\ vol'[n][u].state = "creating" /\ vol'[n][u].opts = call[p].opts)
      BY <1>3, Zenon DEF Makes
    <3>3. \A m \in Names, t \in Tokens : DOMAIN vol[m][t] = VolFields
      BY Zenon DEF Formed, Shape
    <3> HIDE DEF u
    <3>4. ASSUME NEW m \in Names, NEW t \in Tokens
          PROVE  /\ DOMAIN vol'[m][t] = VolFields
                 /\ \/ vol'[m][t] = vol[m][t]
                    \/ /\ m = n /\ vol[m][t].state = "none"
                       /\ vol'[m][t].state = "creating" /\ vol'[m][t].opts = call[p].opts
      <4>1. CASE m = n /\ t = u
        BY Zenon, <3>1, <3>2, <4>1
      <4>2. CASE m # n \/ t # u
        BY <3>1, <3>3, <4>2
      <4> QED
        BY Zenon, <4>1, <4>2
    <3> QED
      BY <3>1, <3>4, Zenon
  <2>3. States'
    BY <2>2 DEF Formed, States, VolStates
  <2>4. Shape'
    BY Zenon, <1>0, <2>2 DEF Formed, Shape
  <2>5. Serves(p)
    BY <1>0, <2>2 DEF Serves, Moved
  <2> QED
    BY <2>1, <2>3, <2>4, <2>5, Zenon DEF Formed, Served
<1> QED
  BY Zenon, <1>2, <1>3

\* The handler returns, and nothing else happens.
LEMMA ReturnServes ==
    ASSUME Formed, NEW p \in Procs, call[p].pc # "idle", Return(p), UNCHANGED vol,
           latest' \in [Names -> {0} \cup 2..MaxToken], answered' \in [Names -> SUBSET Tokens],
           Burned /\ Agreed(p) => Burned'
    PROVE  Served(p)
<1>1. PICK n \in Names : n = call[p].name
  BY Zenon DEF Formed, Shape
<1>2. Moved(p, "idle", call[p].id) /\ call[p].id \in Tokens
  BY Zenon, GotoMoves DEF Return, Formed, Shape
<1> QED
  BY <1>1, <1>2, ServeStep, Zenon DEF Return

\* CreateVolume of EC2 returns, or its answer is lost.
LEMMA CreateServes ==
    ASSUME Formed, NEW p \in Procs, CreateSucceeds(p) \/ CreateFails(p)
    PROVE  Served(p)
<1>1. PICK n \in Names : n = call[p].name
  BY Zenon DEF Formed, Shape
<1>2. TokenNumber(n) \in Tokens
  BY Zenon, TokenNumberIsToken DEF Formed
<1>3. vol' = Created(n, TokenNumber(n), call[p].opts) => Makes(n, TokenNumber(n), call[p].opts)
  BY <1>2, CreatedMakes, Zenon DEF Formed
<1>4. call[p].pc = "create" /\ UNCHANGED <<latest, answered>>
  BY Zenon DEF CreateSucceeds, CreateFails
<1>5. UNCHANGED vol => (Burned => Burned')
  BY <1>4, BurnedStays, Zenon
<1>6. latest' \in [Names -> {0} \cup 2..MaxToken] /\ answered' \in [Names -> SUBSET Tokens]
  BY <1>4, Zenon DEF Formed, Shape
<1>7. "create" # "idle" /\ "wait" # "idle"
  OBVIOUS
<1>8. CASE CreateSucceeds(p)
  <2>1. /\ vol' = Created(n, TokenNumber(n), call[p].opts) /\ inFlight' = inFlight
        /\ call' = [call EXCEPT ![p].pc = "wait", ![p].id = TokenNumber(n)]
    BY <1>1, <1>8, Zenon DEF CreateSucceeds
  <2>2. Moved(p, "wait", TokenNumber(n))
    BY <2>1, WaitMoves, Zenon DEF Formed
  <2> QED
    BY <1>1, <1>2, <1>3, <1>4, <1>5, <1>6, <1>7, <2>1, <2>2, ServeStep, Zenon
<1>9. CASE CreateFails(p)
  <2>1. UNCHANGED vol \/ vol' = Created(n, TokenNumber(n), call[p].opts)
    BY <1>1, <1>9, Zenon DEF CreateFails
  <2>2. Return(p)
    BY <1>9, Zenon DEF CreateFails
  <2>3. Moved(p, "idle", call[p].id) /\ call[p].id \in Tokens /\ inFlight' = inFlight \ {n}
    BY Zenon, <1>1, <2>2, GotoMoves DEF Return, Formed, Shape
  <2> QED
    BY <1>1, <1>2, <1>3, <1>4, <1>5, <1>6, <1>7, <2>1, <2>3, ServeStep, Zenon
<1> QED
  BY Zenon, <1>8, <1>9

\* The token is burned, and the driver moves on to the next one.
LEMMA MismatchServes ==
    ASSUME Formed, NEW p \in Procs, Mismatch(p)
    PROVE  Served(p)
<1>1. PICK n \in Names : n = call[p].name
  BY Zenon DEF Formed, Shape
<1>2. TokenNumber(n) \in Tokens /\ TokenNumber(n) < MaxToken
  BY Zenon, <1>1, TokenNumberIsToken DEF Mismatch, Formed
<1>3. Agreed(p) => vol[n][TokenNumber(n)].state = "failed"
  <2>1. ~Accepts(n, TokenNumber(n), call[p].opts)
    BY <1>1, Zenon DEF Mismatch
  <2> QED
    BY <1>1, <2>1, RefusedIsBurned, Zenon DEF Formed, States
<1>4. latest' = [latest EXCEPT ![n] = TokenNumber(n) + 1] /\ UNCHANGED <<vol, answered>>
  BY <1>1, Zenon DEF Mismatch, NextToken
<1>5. latest' \in [Names -> {0} \cup 2..MaxToken]
  BY <1>2, <1>4, BoundsAssumption DEF Formed, Shape, Tokens
<1>6. ASSUME Burned, Agreed(p)
      PROVE  BurnedBehind'
  BY <1>1, <1>2, <1>3, <1>4, <1>6, BoundsAssumption
     DEF Formed, Burned, BurnedBehind, Shape, TokenNumber, Tokens
<1>7. Burned /\ Agreed(p) => Burned'
  BY <1>4, <1>6, Zenon DEF Burned, BurnedBefore, AnsweredAvailable
<1>8. answered' \in [Names -> SUBSET Tokens]
  BY <1>4, Zenon DEF Formed, Shape
<1>9. call[p].pc # "idle"
  BY Zenon DEF Mismatch
<1> QED
  BY <1>4, <1>5, <1>7, <1>8, <1>9, ReturnServes, Zenon DEF Mismatch

\* The volumes with the name are looked for, or a step ends the RPC with an error.
LEMMA DescribeServes ==
    ASSUME Formed, NEW p \in Procs,
           LimitExceeded(p) \/ DescribeByName(p) \/ DescribeFails(p) \/ WaitFails(p)
    PROVE  Served(p)
<1>1. PICK n \in Names : n = call[p].name
  BY Zenon DEF Formed, Shape
<1>2. UNCHANGED <<latest, vol, answered>> /\ call[p].pc # "idle"
  BY Zenon DEF LimitExceeded, DescribeByName, DescribeFails, WaitFails
<1>3. Burned => Burned'
  BY <1>2, BurnedStays, Zenon
<1>4. latest' \in [Names -> {0} \cup 2..MaxToken] /\ answered' \in [Names -> SUBSET Tokens]
  BY <1>2, Zenon DEF Formed, Shape
<1>5. "describe" # "idle" /\ "wait" # "idle"
  OBVIOUS
<1>6. Return(p) => Served(p)
  BY <1>2, <1>3, <1>4, ReturnServes, Zenon
<1>7. CASE LimitExceeded(p)
  <2>1. Moved(p, "describe", call[p].id) /\ call[p].id \in Tokens /\ inFlight' = inFlight
    BY Zenon, <1>7, GotoMoves DEF LimitExceeded, Formed, Shape
  <2> QED
    BY <1>1, <1>2, <1>3, <1>4, <1>5, <2>1, ServeStep, Zenon
<1>8. CASE DescribeByName(p)
  <2>1. PICK gone \in SUBSET {t \in Tokens : vol[call[p].name][t].state = "failed"} :
          LET found == {t \in Tokens : Live(call[p].name, t)} \cup gone
          IN  IF Cardinality(found) = 1
              THEN /\ call' = [call EXCEPT ![p].pc = "wait",
                                           ![p].id = CHOOSE t \in found : TRUE]
                   /\ UNCHANGED inFlight
              ELSE Return(p)
    BY Zenon, <1>8 DEF DescribeByName
  <2> DEFINE found == {t \in Tokens : Live(call[p].name, t)} \cup gone
  <2>2. CASE Cardinality(found) = 1
    <3>1. found # {}
      BY <2>2, FS_EmptySet
    <3>2. PICK t \in Tokens : t = CHOOSE u \in found : TRUE
      BY Zenon, <3>1
    <3>3. call' = [call EXCEPT ![p].pc = "wait", ![p].id = t] /\ inFlight' = inFlight
      BY <2>1, <2>2, <3>2, Zenon
    <3> HIDE DEF found
    <3>4. Moved(p, "wait", t)
      BY <3>3, WaitMoves, Zenon DEF Formed
    <3> QED
      BY <1>1, <1>2, <1>3, <1>4, <1>5, <3>3, <3>4, ServeStep, Zenon
  <2>3. CASE Cardinality(found) # 1
    BY <1>6, <2>1, <2>3, Zenon
  <2> QED
    BY Zenon, <2>2, <2>3
<1> QED
  BY <1>6, <1>7, <1>8, Zenon DEF DescribeFails, WaitFails

\* The RPC succeeds.
LEMMA WaitServes ==
    ASSUME Formed, NEW p \in Procs, WaitSucceeds(p)
    PROVE  Served(p)
<1>1. PICK n \in Names : n = call[p].name
  BY Zenon DEF Formed, Shape
<1>2. PICK t \in Tokens : t = call[p].id
  BY Zenon DEF Formed, Shape
<1>3. /\ vol[n][t].state = "available" /\ answered' = [answered EXCEPT ![n] = @ \cup {t}]
      /\ Return(p) /\ UNCHANGED <<latest, vol>> /\ call[p].pc = "wait"
  BY <1>1, <1>2, Zenon DEF WaitSucceeds, IsCreated
<1>4. /\ answered' \in [Names -> SUBSET Tokens]
      /\ \A m \in Names : \A s \in answered'[m] : s \in answered[m] \/ (m = n /\ s = t)
  BY Zenon, <1>3 DEF Formed, Shape
<1>5. Burned => AnsweredAvailable'
  BY <1>3, <1>4, Zenon DEF Burned, AnsweredAvailable
<1>6. Burned => Burned'
  BY <1>3, <1>5, Zenon DEF Burned, BurnedBefore, BurnedBehind
<1>7. latest' \in [Names -> {0} \cup 2..MaxToken] /\ call[p].pc # "idle"
  BY Zenon, <1>3 DEF Formed, Shape
<1> QED
  BY <1>3, <1>4, <1>6, <1>7, ReturnServes, Zenon

\* Every step of CreateDisk.
LEMMA CreateDiskServes ==
    ASSUME Formed, NEW p \in Procs, CreateDisk(p)
    PROVE  Served(p)
BY CreateServes, MismatchServes, DescribeServes, WaitServes, Zenon DEF CreateDisk

\* A handler is called.
LEMMA CallSound ==
    ASSUME Formed, NEW p \in Procs, NEW n \in Names, NEW o, CreateVolume(p, n, o)
    PROVE  /\ Formed' /\ (Burned => Burned')
           /\ call'[p].pc = "create" /\ call'[p].name = n /\ call'[p].opts = o
           /\ \A q \in Procs : q # p => call'[q] = call[q]
<1> DEFINE c == [pc |-> "create", name |-> n, opts |-> o, id |-> 1]
<1>1. /\ call' = [call EXCEPT ![p] = c] /\ inFlight' = inFlight \cup {n}
      /\ UNCHANGED <<latest, vol, answered, losses>>
  BY Zenon DEF CreateVolume
<1>2. c.pc = "create" /\ c.name = n /\ c.opts = o /\ c.id = 1 /\ DOMAIN c = CallFields
  BY Zenon DEF CallFields
<1>3. 1 \in Tokens
  BY BoundsAssumption DEF Tokens
<1> HIDE DEF c
<1>4. DOMAIN call' = Procs /\ call'[p] = c /\ \A q \in Procs : q # p => call'[q] = call[q]
  BY Zenon, <1>1 DEF Formed, Shape
<1>5. /\ \A q \in Procs : /\ DOMAIN call'[q] = CallFields
                          /\ call'[q].name \in Names /\ call'[q].id \in Tokens
      /\ inFlight' \subseteq Names
  BY Zenon, <1>1, <1>2, <1>3, <1>4 DEF Formed, Shape
<1>6. Burned => Burned'
  BY <1>1, BurnedStays, Zenon
<1>7. Shape' /\ States'
  BY <1>1, <1>4, <1>5, Zenon DEF Formed, Shape, States
<1> QED
  BY <1>2, <1>4, <1>6, <1>7, Zenon DEF Formed

\* EC2 settles a volume.
LEMMA BecomesSound ==
    ASSUME Formed, NEW n \in Names, NEW t \in Tokens, NEW state \in {"available", "failed"},
           Becomes(n, t, state)
    PROVE  /\ Formed' /\ (Burned => Burned')
           /\ UNCHANGED <<call, inFlight>>
           /\ \A m \in Names, s \in Tokens :
                /\ vol'[m][s].opts = vol[m][s].opts
                /\ vol'[m][s].state # "none" => vol[m][s].state # "none"
<1>1. /\ DOMAIN vol' = Names
      /\ \A m \in Names : DOMAIN vol'[m] = Tokens
      /\ \A m \in Names, s \in Tokens : m # n \/ s # t => vol'[m][s] = vol[m][s]
      /\ DOMAIN vol'[n][t] = VolFields
      /\ vol'[n][t].state = state /\ vol'[n][t].opts = vol[n][t].opts
      /\ vol[n][t].state = "creating"
  BY BecomesMoves, Zenon DEF Formed
<1>2. UNCHANGED <<call, inFlight, latest, answered, losses>>
  BY Zenon DEF Becomes
<1>3. Shape'
  BY <1>1, <1>2 DEF Formed, Shape
<1>4. States'
  BY <1>1 DEF Formed, States, VolStates
<1>5. Burned => BurnedBefore'
  BY <1>1 DEF Burned, BurnedBefore
<1>6. Burned => BurnedBehind' /\ AnsweredAvailable'
  BY <1>1, <1>2 DEF Formed, Shape, Burned, BurnedBehind, AnsweredAvailable
<1>7. \A m \in Names, s \in Tokens :
         /\ vol'[m][s].opts = vol[m][s].opts
         /\ vol'[m][s].state # "none" => vol[m][s].state # "none"
  BY Zenon, <1>1
<1> QED
  BY <1>2, <1>3, <1>4, <1>5, <1>6, <1>7, Zenon DEF Formed, Burned

\* The cache drops a number.
LEMMA ExpireSound ==
    ASSUME Formed, NEW n \in Names, Expire(n)
    PROVE  Formed' /\ (Burned => Burned') /\ UNCHANGED <<call, inFlight, vol>>
<1>1. latest' = [latest EXCEPT ![n] = 0] /\ UNCHANGED <<call, inFlight, vol, answered>>
  BY Zenon DEF Expire
<1>2. /\ latest' \in [Names -> {0} \cup 2..MaxToken]
      /\ \A m \in Names : latest'[m] = latest[m] \/ latest'[m] = 0
  BY Zenon, <1>1 DEF Formed, Shape
<1>3. Burned => BurnedBehind'
  BY <1>1, <1>2 DEF Burned, BurnedBehind, Tokens
<1> QED
  <2>1. Shape'
    BY <1>1, <1>2, Zenon DEF Formed, Shape
  <2>2. States' /\ (Burned => BurnedBefore' /\ AnsweredAvailable')
    BY <1>1, Zenon DEF Formed, States, Burned, BurnedBefore, AnsweredAvailable
  <2> QED
    BY <1>1, <1>3, <2>1, <2>2, Zenon DEF Formed, Burned

\* The controller restarts.
LEMMA RestartSound ==
    ASSUME Formed, Restart
    PROVE  Formed' /\ (Burned => Burned') /\ UNCHANGED vol /\ inFlight' = {} /\ \A p \in Procs : call'[p].pc = "idle"
<1>1. /\ call' = [p \in Procs |-> [call[p] EXCEPT !.pc = "idle"]]
      /\ inFlight' = {} /\ latest' = [n \in Names |-> 0] /\ UNCHANGED <<vol, answered>>
  BY Zenon DEF Restart
<1>2. /\ DOMAIN call' = Procs
      /\ \A p \in Procs : /\ DOMAIN call'[p] = CallFields /\ call'[p].pc = "idle"
                          /\ call'[p].name = call[p].name /\ call'[p].id = call[p].id
  BY Zenon, <1>1 DEF Formed, Shape, CallFields
<1>3. latest' \in [Names -> {0} \cup 2..MaxToken] /\ \A n \in Names : latest'[n] = 0
  BY Zenon, <1>1
<1>4. BurnedBehind'
  BY <1>3 DEF BurnedBehind, Tokens
<1>5. inFlight' \subseteq Names
  BY Zenon, <1>1
<1>6. Shape'
  BY <1>1, <1>2, <1>3, <1>5, Zenon DEF Formed, Shape
<1>7. States' /\ (Burned => BurnedBefore' /\ AnsweredAvailable')
  BY <1>1, Zenon DEF Formed, States, Burned, BurnedBefore, AnsweredAvailable
<1> QED
  BY <1>1, <1>2, <1>4, <1>6, <1>7, Zenon DEF Formed, Burned

\* A name has one volume, and one answer.
LEMMA SoundOne == Sound => OneVolume /\ SameAnswer
<1> SUFFICES ASSUME Sound
             PROVE  OneVolume /\ SameAnswer
  OBVIOUS
<1>1. OneVolume
  BY DEF Sound, Formed, Burned, BurnedBefore, OneVolume, Live, Tokens
<1>2. SameAnswer
  BY DEF Sound, Formed, Shape, Burned, BurnedBefore, AnsweredAvailable, SameAnswer, Tokens
<1> QED
  BY Zenon, <1>1, <1>2

-----------------------------------------------------------------------------
(* VolumeCreation: types, and the theorems when all requests agree *)

\* A handler that moves on leaves well-typed calls.
LEMMA GotoType ==
    ASSUME call \in [Procs -> Call], NEW p \in Procs,
           NEW pc \in {"idle", "create", "describe", "wait"}, NEW id \in Tokens,
           \/ call' = [call EXCEPT ![p].pc = pc]
           \/ call' = [call EXCEPT ![p].pc = pc, ![p].id = id]
    PROVE  call' \in [Procs -> Call]
<1>1. call[p] \in Call
  OBVIOUS
<1>2. [call[p] EXCEPT !.pc = pc] \in Call /\ [call[p] EXCEPT !.pc = pc, !.id = id] \in Call
  BY Zenon, <1>1 DEF Call
<1> QED
  BY Zenon, <1>2

\* A handler that returns leaves well-typed calls and keys.
LEMMA ReturnType ==
    ASSUME TypeOK, NEW p \in Procs, Return(p)
    PROVE  call' \in [Procs -> Call] /\ inFlight' \in SUBSET Names
<1>1. 1 \in Tokens
  BY BoundsAssumption DEF Tokens
<1> QED
  BY Zenon, <1>1, GotoType DEF TypeOK, Return, Goto

\* Every step keeps the types.
LEMMA NextType == TypeOK /\ [Next]_vars => TypeOK'
<1> SUFFICES ASSUME TypeOK, [Next]_vars
             PROVE  TypeOK'
  OBVIOUS
<1>s. Shape /\ 1 \in Tokens
  BY TypeShape, BoundsAssumption DEF Tokens
<1>1. ASSUME NEW p \in Procs, NEW n \in Names, NEW o \in Options, CreateVolume(p, n, o)
      PROVE  TypeOK'
  BY Zenon, <1>1, <1>s DEF CreateVolume, TypeOK, Call
<1>2. ASSUME NEW n \in Names, NEW t \in Tokens, NEW o \in Options, vol' = Created(n, t, o)
      PROVE  vol' \in [Names -> [Tokens -> Volume]]
  BY Zenon, <1>2 DEF TypeOK, Created, Volume
<1>3. ASSUME NEW p \in Procs, CreateSucceeds(p) \/ CreateFails(p)
      PROVE  TypeOK'
  <2>1. PICK n \in Names : n = call[p].name
    BY Zenon DEF TypeOK, Call
  <2>2. PICK o \in Options : o = call[p].opts
    BY Zenon DEF TypeOK, Call
  <2>3. PICK t \in Tokens : t = TokenNumber(n)
    BY Zenon, <1>s, TokenNumberIsToken
  <2>4. vol' \in [Names -> [Tokens -> Volume]]
    <3>1. vol' = Created(n, t, o) \/ vol' = vol
      BY <1>3, <2>1, <2>2, <2>3, Zenon DEF CreateSucceeds, CreateFails
    <3> QED
      BY <1>2, <3>1, Zenon DEF TypeOK
  <2>5. CASE CreateSucceeds(p)
    <3>1. call' \in [Procs -> Call]
      BY Zenon, <2>1, <2>3, <2>5, GotoType DEF CreateSucceeds, TypeOK
    <3> QED
      BY <2>4, <2>5, <3>1, Zenon DEF CreateSucceeds, TypeOK
  <2>6. CASE CreateFails(p)
    BY <2>4, <2>6, ReturnType, Zenon DEF CreateFails, TypeOK
  <2> QED
    BY Zenon, <1>3, <2>5, <2>6
<1>4. ASSUME NEW p \in Procs, Mismatch(p)
      PROVE  TypeOK'
  <2>1. PICK n \in Names : n = call[p].name
    BY Zenon DEF TypeOK, Call
  <2>2. TokenNumber(n) \in Tokens /\ TokenNumber(n) < MaxToken
    BY Zenon, <1>4, <1>s, <2>1, TokenNumberIsToken DEF Mismatch
  <2>3. latest' = [latest EXCEPT ![n] = TokenNumber(n) + 1]
    BY <1>4, <2>1, Zenon DEF Mismatch, NextToken
  <2>4. latest' \in [Names -> {0} \cup 2..MaxToken]
    BY <2>2, <2>3, BoundsAssumption DEF TypeOK, Tokens
  <2> QED
    BY <1>4, <2>4, ReturnType, Zenon DEF Mismatch, TypeOK
<1>5. ASSUME NEW p \in Procs, LimitExceeded(p) \/ DescribeFails(p) \/ WaitFails(p)
      PROVE  TypeOK'
  <2>1. call' \in [Procs -> Call] /\ inFlight' \in SUBSET Names
    BY Zenon, <1>5, <1>s, GotoType, ReturnType
       DEF LimitExceeded, DescribeFails, WaitFails, Goto, TypeOK
  <2> QED
    BY <1>5, <2>1, Zenon DEF LimitExceeded, DescribeFails, WaitFails, TypeOK
<1>6. ASSUME NEW p \in Procs, DescribeByName(p)
      PROVE  TypeOK'
  <2>1. PICK gone \in SUBSET {t \in Tokens : vol[call[p].name][t].state = "failed"} :
          LET found == {t \in Tokens : Live(call[p].name, t)} \cup gone
          IN  IF Cardinality(found) = 1
              THEN /\ call' = [call EXCEPT ![p].pc = "wait",
                                           ![p].id = CHOOSE t \in found : TRUE]
                   /\ UNCHANGED inFlight
              ELSE Return(p)
    BY Zenon, <1>6 DEF DescribeByName
  <2> DEFINE found == {t \in Tokens : Live(call[p].name, t)} \cup gone
  <2>2. call' \in [Procs -> Call] /\ inFlight' \in SUBSET Names
    <3>1. CASE Cardinality(found) = 1
      <4>1. found # {}
        BY <3>1, FS_EmptySet
      <4>2. (CHOOSE t \in found : TRUE) \in Tokens
        BY Zenon, <4>1
      <4> HIDE DEF found
      <4> QED
        BY Zenon, <2>1, <3>1, <4>2, GotoType DEF TypeOK, found
    <3>2. CASE Cardinality(found) # 1
      BY <2>1, <3>2, ReturnType, Zenon
    <3> QED
      BY Zenon, <3>1, <3>2
  <2> QED
    BY <1>6, <2>2, Zenon DEF DescribeByName, TypeOK
<1>7. ASSUME NEW p \in Procs, WaitSucceeds(p)
      PROVE  TypeOK'
  <2>1. call[p].name \in Names /\ call[p].id \in Tokens
    BY Zenon DEF TypeOK, Call
  <2>2. answered' \in [Names -> SUBSET Tokens]
    BY Zenon, <1>7, <2>1 DEF WaitSucceeds, TypeOK
  <2> QED
    BY <1>7, <2>2, ReturnType, Zenon DEF WaitSucceeds, TypeOK
<1>8. ASSUME NEW n \in Names, NEW t \in Tokens, NEW state \in {"available", "failed"},
             Becomes(n, t, state)
      PROVE  TypeOK'
  <2>1. [vol[n][t] EXCEPT !.state = state] \in Volume
    <3>1. vol[n][t] \in Volume
      BY Zenon DEF TypeOK
    <3> QED
      BY Zenon, <3>1 DEF Volume
  <2>2. vol' \in [Names -> [Tokens -> Volume]]
    BY Zenon, <1>8, <2>1 DEF Becomes, TypeOK
  <2> QED
    BY <1>8, <2>2, Zenon DEF Becomes, TypeOK
<1>9. ASSUME NEW n \in Names, Expire(n)
      PROVE  TypeOK'
  BY <1>9, BoundsAssumption DEF Expire, TypeOK
<1>10. CASE Restart
  <2>1. \A p \in Procs : [call[p] EXCEPT !.pc = "idle"] \in Call
    BY Zenon DEF TypeOK, Call
  <2> QED
    BY <1>10, <2>1, BoundsAssumption DEF Restart, TypeOK
<1>11. CASE UNCHANGED vars
  BY <1>11, Zenon DEF vars, TypeOK
<1> QED
  BY Zenon, <1>1, <1>3, <1>4, <1>5, <1>6, <1>7, <1>8, <1>9, <1>10, <1>11
     DEF Next, CreateDisk, BecomesAvailable, CreationFails

\* The requests for a name all ask EC2 for the same.
SameOptions == \A o, q \in Options : o = q

IInv == TypeOK /\ Burned

\* The invariant of VolumeCreation holds as long as all requests for a name agree.
THEOREM CreationInvariant ==
    ASSUME SameOptions
    PROVE  Spec => []IInv
<1>1. Init => IInv
  BY BoundsAssumption DEF Init, IInv, TypeOK, Burned, BurnedBefore, BurnedBehind,
     AnsweredAvailable, Call, Volume, Tokens
<1>2. IInv /\ [Next]_vars => IInv'
  <2> SUFFICES ASSUME IInv, [Next]_vars
               PROVE  Burned'
    BY NextType, Zenon DEF IInv
  <2>1. Sound
    BY Zenon, TypeShape DEF IInv, Sound, Formed, States, TypeOK, Volume, VolStates
  <2>2. \A p \in Procs : Agreed(p)
    BY DEF IInv, TypeOK, Call, Volume, SameOptions, Agreed
  <2>3. ASSUME NEW p \in Procs, NEW n \in Names, NEW o \in Options, CreateVolume(p, n, o)
        PROVE  Burned'
    BY <2>1, <2>3, CallSound, Zenon DEF Sound
  <2>4. ASSUME NEW p \in Procs, CreateDisk(p)
        PROVE  Burned'
    BY <2>1, <2>2, <2>4, CreateDiskServes, Zenon DEF Sound, Served
  <2>5. ASSUME NEW n \in Names, NEW t \in Tokens, BecomesAvailable(n, t) \/ CreationFails(n, t)
        PROVE  Burned'
    BY Zenon, <2>1, <2>5, BecomesSound DEF Sound, BecomesAvailable, CreationFails
  <2>6. ASSUME NEW n \in Names, Expire(n)
        PROVE  Burned'
    BY <2>1, <2>6, ExpireSound, Zenon DEF Sound
  <2>7. CASE Restart
    BY <2>1, <2>7, RestartSound, Zenon DEF Sound
  <2>8. CASE UNCHANGED vars
    BY <2>1, <2>8, BurnedStays, Zenon DEF Sound, vars
  <2> QED
    BY <2>3, <2>4, <2>5, <2>6, <2>7, <2>8, Zenon DEF Next
<1> QED
  BY <1>1, <1>2, PTL DEF Spec

\* CreateVolume never makes a second volume for a name while the first one lives, and all
\* successful calls for a name answer the same volume.
THEOREM NeverTwoVolumes ==
    ASSUME SameOptions
    PROVE  Spec => [](OneVolume /\ SameAnswer)
<1>1. IInv => OneVolume /\ SameAnswer
  BY Zenon, TypeShape, SoundOne DEF IInv, Sound, Formed, States, TypeOK, Volume, VolStates
<1> QED
  BY <1>1, CreationInvariant, PTL

-----------------------------------------------------------------------------
(* VolumeCreation: the keys, whatever the requests ask for *)

\* One RPC at a time is served for a name.
KeysHeld ==
    \A p, q \in Procs :
        call[p].pc # "idle" =>
            /\ call[p].name \in inFlight
            /\ call[q].pc # "idle" /\ call[q].name = call[p].name => p = q

\* Every key is that of an RPC.
KeysOwned == \A n \in inFlight : \E p \in Procs : call[p].pc # "idle" /\ call[p].name = n

KeyInv == Formed /\ KeysHeld /\ KeysOwned

\* A step of CreateDisk keeps the key or gives it back with the answer.
LEMMA ServesKeys ==
    ASSUME KeyInv, NEW p \in Procs, CreateDisk(p)
    PROVE  KeyInv'
<1>1. Formed' /\ Serves(p)
  BY Zenon, CreateDiskServes DEF KeyInv, Served
<1>2. /\ call[p].pc # "idle" /\ call'[p].name = call[p].name
      /\ \A q \in Procs : q # p => call'[q] = call[q]
      /\ \/ call'[p].pc # "idle" /\ inFlight' = inFlight
         \/ call'[p].pc = "idle" /\ inFlight' = inFlight \ {call[p].name}
  BY Zenon, <1>1 DEF Serves
<1>3. KeysOwned'
  <2> SUFFICES ASSUME NEW n \in inFlight'
               PROVE  \E q \in Procs : call'[q].pc # "idle" /\ call'[q].name = n
    BY Zenon DEF KeysOwned
  <2>1. n \in inFlight /\ (call'[p].pc = "idle" => n # call[p].name)
    BY Zenon, <1>2
  <2>2. PICK q \in Procs : call[q].pc # "idle" /\ call[q].name = n
    BY Zenon, <2>1 DEF KeyInv, KeysOwned
  <2> QED
    BY Zenon, <1>2, <2>1, <2>2
<1>4. KeysHeld'
  <2> SUFFICES ASSUME NEW q \in Procs, NEW r \in Procs, call'[q].pc # "idle"
               PROVE  /\ call'[q].name \in inFlight'
                      /\ call'[r].pc # "idle" /\ call'[r].name = call'[q].name => q = r
    BY Zenon DEF KeysHeld
  <2>1. \A s \in Procs : call'[s].pc # "idle" => call[s].pc # "idle" /\ call'[s].name = call[s].name
    BY Zenon, <1>2
  <2>2. call[q].name \in inFlight /\ (q # p => call[q].name # call[p].name)
    BY Zenon, <1>2, <2>1 DEF KeyInv, KeysHeld
  <2>3. call'[q].name \in inFlight'
    <3>1. PICK m : m = call[q].name
      OBVIOUS
    <3>2. m \in inFlight /\ call'[q].name = m /\ (q # p => m # call[p].name)
      BY Zenon, <2>1, <2>2, <3>1
    <3>3. m \in inFlight'
      BY Zenon, <1>2, <3>2
    <3> QED
      BY Zenon, <3>2, <3>3
  <2> QED
    BY Zenon, <2>1, <2>3 DEF KeyInv, KeysHeld
<1> QED
  BY Zenon, <1>1, <1>3, <1>4 DEF KeyInv

\* An RPC begins only with a key that nobody holds.
LEMMA BeginsKeys ==
    ASSUME KeyInv, NEW p \in Procs, NEW n \in Names, NEW o, CreateVolume(p, n, o)
    PROVE  KeyInv'
<1>1. /\ Formed' /\ call'[p].pc = "create" /\ call'[p].name = n
      /\ \A q \in Procs : q # p => call'[q] = call[q]
  BY Zenon, CallSound DEF KeyInv
<1>2. call[p].pc = "idle" /\ n \notin inFlight /\ inFlight' = inFlight \cup {n}
  BY Zenon DEF CreateVolume
<1>3. \A q \in Procs : call[q].pc # "idle" => call[q].name \in inFlight /\ call[q].name # n
  BY Zenon, <1>2 DEF KeyInv, KeysHeld
<1>4. KeysOwned'
  <2> SUFFICES ASSUME NEW m \in inFlight'
               PROVE  \E q \in Procs : call'[q].pc # "idle" /\ call'[q].name = m
    BY Zenon DEF KeysOwned
  <2>1. CASE m = n
    BY Zenon, <1>1, <2>1
  <2>2. CASE m \in inFlight
    <3>1. PICK q \in Procs : call[q].pc # "idle" /\ call[q].name = m
      BY Zenon, <2>2 DEF KeyInv, KeysOwned
    <3>2. q # p
      BY Zenon, <1>2, <3>1
    <3> QED
      BY Zenon, <1>1, <3>1, <3>2
  <2> QED
    BY Zenon, <1>2, <2>1, <2>2
<1>5. KeysHeld'
  <2> SUFFICES ASSUME NEW q \in Procs, NEW r \in Procs, call'[q].pc # "idle"
               PROVE  /\ call'[q].name \in inFlight'
                      /\ call'[r].pc # "idle" /\ call'[r].name = call'[q].name => q = r
    BY Zenon DEF KeysHeld
  <2>1. CASE q = p
    BY Zenon, <1>1, <1>2, <1>3, <2>1
  <2>2. CASE q # p
    BY Zenon, <1>1, <1>2, <1>3, <2>2 DEF KeyInv, KeysHeld
  <2> QED
    BY Zenon, <2>1, <2>2
<1> QED
  BY Zenon, <1>1, <1>4, <1>5 DEF KeyInv

\* One CreateVolume at a time is served for a name, and the name it put in InFlight leaves it
\* with the RPC, whatever EC2 answers and whenever the controller restarts; the requests need not
\* agree. No name is left for which every retry is told that an operation is in progress.
THEOREM KeysNeverLeaked == Spec => [](KeysHeld /\ KeysOwned)
<1>1. Init => KeyInv
  <2> SUFFICES ASSUME Init PROVE KeyInv
    OBVIOUS
  <2>1. Formed
    BY BoundsAssumption DEF Init, Formed, Shape, States, Call, Tokens, CallFields, VolFields, VolStates
  <2>2. KeysHeld /\ KeysOwned
    BY Zenon DEF Init, KeysHeld, KeysOwned
  <2> QED
    BY Zenon, <2>1, <2>2 DEF KeyInv
<1>2. KeyInv /\ [Next]_vars => KeyInv'
  <2> SUFFICES ASSUME KeyInv, [Next]_vars PROVE KeyInv'
    OBVIOUS
  <2>1. ASSUME Formed', UNCHANGED <<call, inFlight>> PROVE KeyInv'
    BY Zenon, <2>1 DEF KeyInv, KeysHeld, KeysOwned
  <2>2. ASSUME NEW n \in Names, NEW t \in Tokens, BecomesAvailable(n, t) \/ CreationFails(n, t)
        PROVE  KeyInv'
    <3>1. PICK state \in {"available", "failed"} : Becomes(n, t, state)
      BY Zenon, <2>2 DEF BecomesAvailable, CreationFails
    <3> QED
      BY Zenon, <2>1, <3>1, BecomesSound DEF KeyInv, Becomes
  <2>3. ASSUME NEW n \in Names, Expire(n) PROVE KeyInv'
    BY Zenon, <2>1, <2>3, ExpireSound DEF KeyInv
  <2>4. CASE Restart
    BY Zenon, <2>4, RestartSound DEF KeyInv, KeysHeld, KeysOwned
  <2>5. CASE UNCHANGED vars
    BY Zenon, <2>1, <2>5 DEF vars, KeyInv, Formed, Shape, States
  <2> QED
    BY Zenon, <2>2, <2>3, <2>4, <2>5, ServesKeys, BeginsKeys DEF Next
<1>3. KeyInv => KeysHeld /\ KeysOwned
  BY Zenon DEF KeyInv
<1> QED
  BY <1>1, <1>2, <1>3, PTL DEF Spec

-----------------------------------------------------------------------------
(* Sizes and IOPS *)

\* A product grows with its factors.
LEMMA ProductGrows ==
    ASSUME NEW a \in Nat, NEW b \in Nat, NEW c \in Nat, b <= c
    PROVE  a * b <= a * c /\ a * b \in Nat /\ a * c \in Nat
OBVIOUS

\* A number within the width does not wrap.
LEMMA NoWrap ==
    ASSUME NEW max \in Nat, NEW n \in 0..max
    PROVE  Wrap(n, max) = n
<1> DEFINE m == 2 * (max + 1)
           k == n + max + 1
<1>1. k \in Nat /\ m \in Nat /\ k < m /\ m > 0
  OBVIOUS
<1> HIDE DEF m, k
<1>2. k % m = k
  BY <1>1
<1> QED
  BY <1>2 DEF Wrap, k, m

\* And what wraps stays within it.
LEMMA WrapType ==
    ASSUME NEW max \in Nat, NEW n \in Int
    PROVE  Wrap(n, max) \in Int /\ Wrap(n, max) <= max
<1> DEFINE m == 2 * (max + 1)
           k == n + max + 1
<1>1. k \in Int /\ m \in Nat /\ m > 0
  OBVIOUS
<1> HIDE DEF m, k
<1>2. k % m \in 0..m - 1
  BY <1>1
<1> QED
  BY <1>2 DEF Wrap, k, m

\* Division rounds down.
LEMMA Division ==
    ASSUME NEW a \in Nat, NEW b \in Nat \ {0}
    PROVE  /\ a \div b \in Nat
           /\ (a \div b) * b <= a
           /\ a < (a \div b) * b + b
OBVIOUS

\* Division undoes multiplication.
LEMMA DivisionExact ==
    ASSUME NEW q \in Nat, NEW b \in Nat \ {0}
    PROVE  (q * b) \div b = q
OBVIOUS

\* A volume of the size CreateDisk makes of a capacity range holds what is required, and is
\* not above the limit.
LEMMA SizeHonoured ==
    ASSUME NEW range, range.given, range.required \in 0..(MaxInt64 - GiB + 1), range.limit \in Int,
           GetVolSizeBytes(range) # -1,
           NEW gib \in 1..MaxVolumeSize, gib = BytesToGiB(GetVolSizeBytes(range))
    PROVE  /\ GiBToBytes(gib) >= range.required
           /\ range.limit > 0 => GiBToBytes(gib) <= range.limit
<1> DEFINE a == range.required + GiB - 1
           q == a \div GiB
<1>1. /\ a \in Nat /\ a <= MaxInt64 /\ GiB \in Nat \ {0} /\ MaxInt64 \in Nat /\ MaxInt32 \in Nat
      /\ range.required \in Nat
  BY WidthsAssumption
<1>2. q \in Nat /\ q * GiB <= a /\ a < q * GiB + GiB /\ q * GiB \in Nat
  BY <1>1, Division, ProductGrows
<1>3. RoundUpSize(range.required, GiB) = q
  <2>1. Int64(a) = a
    BY <1>1, NoWrap DEF Int64
  <2> QED
    BY <1>1, <2>1 DEF RoundUpSize, Quotient
<1> HIDE DEF q
<1>4. RoundUpBytes(range.required) = q * GiB
  <2>1. q * GiB \in 0..MaxInt64
    BY <1>1, <1>2
  <2> QED
    BY <1>1, <1>3, <2>1, NoWrap, Zenon DEF RoundUpBytes, Int64
<1>5. GetVolSizeBytes(range) = q * GiB /\ (range.limit > 0 => q * GiB <= range.limit)
  <2> DEFINE size == RoundUpBytes(range.required)
  <2>1. GetVolSizeBytes(range) = IF range.limit > 0 /\ range.limit < size THEN -1 ELSE size
    BY Zenon DEF GetVolSizeBytes
  <2>2. size \in Nat
    BY Zenon, <1>2, <1>4
  <2> HIDE DEF size
  <2>3. ~(range.limit > 0 /\ range.limit < size)
    BY <2>1, Zenon
  <2>4. GetVolSizeBytes(range) = size
    BY <2>1, <2>3, Zenon
  <2>5. range.limit > 0 => size <= range.limit
    BY <2>2, <2>3
  <2> QED
    BY Zenon, <1>4, <2>4, <2>5 DEF size
<1>6. Quotient(q * GiB, GiB) = q
  BY <1>1, <1>2, DivisionExact DEF Quotient
<1>7. gib = IF q > MaxInt32 THEN MaxInt32 ELSE Int32(q)
  BY <1>5, <1>6, Zenon DEF BytesToGiB
<1>8. gib < MaxInt32
  BY <1>1, MaxVolumeSizeAssumption
<1>9. gib = q
  <2>1. q <= MaxInt32
    BY <1>1, <1>2, <1>7, <1>8
  <2>2. Int32(q) = q
    BY <1>1, <1>2, <2>1, NoWrap DEF Int32
  <2> QED
    BY <1>1, <1>2, <1>7, <2>1, <2>2
<1>10. q * GiB <= MaxInt64
  BY <1>1, <1>2
<1>11. GiBToBytes(gib) = q * GiB
  BY <1>1, <1>2, <1>9, <1>10, NoWrap DEF GiBToBytes, Int64
<1> QED
  BY <1>1, <1>2, <1>5, <1>11

\* capIOPS stays within the maximum and, unless that is below the minimum, within what a
\* volume of the size may have; and it reaches the minimum when it may.
LEMMA CapIOPSBounds ==
    ASSUME NEW gib \in 1..MaxVolumeSize, NEW requested \in Nat \ {0},
           NEW max \in Nat, NEW min \in Nat, NEW perGb \in Nat, max > 0 => min <= max,
           perGb * MaxVolumeSize <= MaxInt32, NEW increase
    PROVE  LET iops == CapIOPS(gib, requested, [max |-> max, min |-> min, perGb |-> perGb], increase)
           IN  /\ iops \in Nat
               /\ max > 0 => iops <= max
               /\ perGb > 0 => iops <= perGb * gib \/ perGb * gib < min
               /\ increase => iops >= min
<1> DEFINE iops == CapIOPS(gib, requested, [max |-> max, min |-> min, perGb |-> perGb], increase)
           raised == IF min > 0 /\ requested < min /\ increase THEN min ELSE requested
           capped == IF max > 0 /\ raised > max THEN max ELSE raised
           bySize == Int32(perGb * gib)
<1>1. iops = IF requested = 0 THEN 0
             ELSE IF bySize > 0 /\ capped > bySize /\ bySize >= min THEN bySize ELSE capped
  BY Zenon DEF CapIOPS
<1>2. MaxVolumeSize \in Nat /\ MaxInt32 \in Nat
  BY Zenon, WidthsAssumption, MaxVolumeSizeAssumption
<1>3. perGb * gib \in 0..MaxInt32
  <2>1. perGb * gib <= perGb * MaxVolumeSize /\ perGb * gib \in Nat /\ perGb * MaxVolumeSize \in Nat
    BY <1>2, ProductGrows
  <2> QED
    BY <1>2, <2>1
<1>4. bySize = perGb * gib
  BY Zenon, <1>2, <1>3, NoWrap DEF Int32
<1>5. perGb > 0 => perGb * gib > 0
  BY <1>2
<1>6. PICK b \in Nat : b = perGb * gib
  BY <1>3
<1>7. raised \in Nat \ {0} /\ (increase => raised >= min)
  OBVIOUS
<1>8. /\ capped \in Nat \ {0} /\ (max > 0 => capped <= max)
      /\ increase => capped >= min
  BY <1>7
<1> HIDE DEF iops, raised, capped, bySize
<1>9. iops = IF b > 0 /\ capped > b /\ b >= min THEN b ELSE capped
  BY Zenon, <1>1, <1>4, <1>6
<1>10. perGb > 0 => b > 0
  BY <1>5, <1>6, Zenon
<1>11. iops \in Nat /\ (max > 0 => iops <= max)
  BY <1>6, <1>8, <1>9
<1>12. perGb > 0 => iops <= b \/ b < min
  BY <1>6, <1>8, <1>9, <1>10
<1>13. increase => iops >= min
  BY Zenon, <1>6, <1>8, <1>9
<1> QED
  BY <1>6, <1>11, <1>12, <1>13, Zenon DEF iops

-----------------------------------------------------------------------------
(* CreateRequest: reading parameters *)

OptFields == {"ints", "texts", "flags", "format", "own", "tags"}

InFields == {"size", "type", "zone", "zoneID", "outpost", "encrypted", "kms", "snapshot", "clone",
             "multi", "iops", "throughput", "rate", "tags"}

\* What was read has its fields.
OptsShape ==
    /\ DOMAIN opts = OptFields
    /\ DOMAIN opts.ints = IntKeys /\ \A k \in IntKeys : opts.ints[k] \in Int
    /\ DOMAIN opts.texts = TextKeys
    /\ opts.flags \subseteq FlagKeys /\ opts.format \subseteq FormatKeys

\* What one parameter changes, by its key.
Changes(o, p) ==
    /\ DOMAIN o = OptFields
    /\ DOMAIN o.ints = IntKeys /\ DOMAIN o.texts = TextKeys
    /\ \A k \in IntKeys : o.ints[k] = IF k = p.key THEN p.n ELSE opts.ints[k]
    /\ \A k \in TextKeys : o.texts[k] = IF k = p.key THEN p.text ELSE opts.texts[k]
    /\ o.flags = IF p.key \notin FlagKeys THEN opts.flags
                 ELSE IF p.text = "true" THEN opts.flags \cup {p.key} ELSE opts.flags \ {p.key}
    /\ o.format = IF p.key \notin FormatKeys THEN opts.format
                  ELSE IF p.text # "" THEN opts.format \cup {p.key} ELSE opts.format \ {p.key}
    /\ o.own = {t \in opts.own : t[1] # p.key} \cup TagOf(p)
    /\ o.tags = IF p.key = "tagspecification" THEN Append(opts.tags, <<p.text, p.n>>) ELSE opts.tags

\* No key is of two kinds.
LEMMA KeysDisjoint ==
    /\ IntKeys \cap TextKeys = {} /\ IntKeys \cap FlagKeys = {} /\ IntKeys \cap FormatKeys = {}
    /\ TextKeys \cap FlagKeys = {} /\ TextKeys \cap FormatKeys = {} /\ FlagKeys \cap FormatKeys = {}
    /\ "tagspecification" \notin IntKeys \cup TextKeys \cup FlagKeys \cup FormatKeys
    /\ {"iops", "throughput"} \subseteq IntKeys /\ "type" \in TextKeys
    /\ "iopspergb" \in IntKeys /\ "allowautoiopspergbincrease" \in FlagKeys
    /\ {"encrypted", "kmskeyid"} \subseteq TextKeys /\ "volumeinitializationrate" \in IntKeys
BY Zenon DEF IntKeys, TextKeys, FlagKeys, FormatKeys

\* The five kinds of parameter, one after the other.
LEMMA ReadChanges ==
    ASSUME OptsShape, NEW p \in Parameter
    PROVE  Changes(Read(p), p)
<1> DEFINE w == {t \in opts.own : t[1] # p.key} \cup TagOf(p)
<1>0. Read(p) = [Set(p) EXCEPT !.own = {t \in Set(p).own : t[1] # p.key} \cup TagOf(p)]
  BY Zenon DEF Read
<1>s. /\ DOMAIN opts = OptFields /\ DOMAIN opts.ints = IntKeys /\ DOMAIN opts.texts = TextKeys
  BY Zenon DEF OptsShape
<1>a. ASSUME NEW x, DOMAIN x = OptFields, Set(p) = x, x.own = opts.own
      PROVE  /\ DOMAIN Read(p) = OptFields /\ Read(p).own = w
             /\ Read(p).ints = x.ints /\ Read(p).texts = x.texts /\ Read(p).flags = x.flags
             /\ Read(p).format = x.format /\ Read(p).tags = x.tags
  <2>1. Read(p) = [x EXCEPT !.own = w]
    BY <1>0, <1>a, Zenon
  <2> HIDE DEF w
  <2> QED
    BY Zenon, <1>a, <2>1 DEF OptFields
<1>1. CASE p.key \in IntKeys
  <2> DEFINE i == [opts.ints EXCEPT ![p.key] = p.n]
             x == [opts EXCEPT !.ints = i]
  <2>5. p.key \notin TextKeys /\ p.key \notin FlagKeys /\ p.key \notin FormatKeys /\ p.key # "tagspecification"
    BY Zenon, <1>1, KeysDisjoint
  <2>1. Set(p) = [opts EXCEPT !.ints[p.key] = p.n]
    BY Zenon, <1>1, <2>5 DEF Set
  <2>2. Set(p) = x
    BY <2>1, Zenon
  <2>3. DOMAIN i = IntKeys /\ \A k \in IntKeys : i[k] = IF k = p.key THEN p.n ELSE opts.ints[k]
    BY Zenon, <1>s
  <2> HIDE DEF i
  <2>4. /\ DOMAIN x = OptFields /\ x.own = opts.own /\ x.ints = i /\ x.texts = opts.texts
        /\ x.flags = opts.flags /\ x.format = opts.format /\ x.tags = opts.tags
    BY Zenon, <1>s DEF OptFields
  <2> HIDE DEF x
  <2> QED
    BY <1>a, <1>s, <2>2, <2>3, <2>4, <2>5 DEF Changes
<1>2. CASE p.key \in TextKeys
  <2> DEFINE i == [opts.texts EXCEPT ![p.key] = p.text]
             x == [opts EXCEPT !.texts = i]
  <2>5. p.key \notin IntKeys /\ p.key \notin FlagKeys /\ p.key \notin FormatKeys /\ p.key # "tagspecification"
    BY Zenon, <1>2, KeysDisjoint
  <2>1. Set(p) = [opts EXCEPT !.texts[p.key] = p.text]
    BY Zenon, <1>2, <2>5 DEF Set
  <2>2. Set(p) = x
    BY <2>1, Zenon
  <2>3. DOMAIN i = TextKeys /\ \A k \in TextKeys : i[k] = IF k = p.key THEN p.text ELSE opts.texts[k]
    BY Zenon, <1>s
  <2> HIDE DEF i
  <2>4. /\ DOMAIN x = OptFields /\ x.own = opts.own /\ x.ints = opts.ints /\ x.texts = i
        /\ x.flags = opts.flags /\ x.format = opts.format /\ x.tags = opts.tags
    BY Zenon, <1>s DEF OptFields
  <2> HIDE DEF x
  <2> QED
    BY <1>a, <1>s, <2>2, <2>3, <2>4, <2>5 DEF Changes
<1>3. CASE p.key \in FlagKeys
  <2> DEFINE i == IF p.text = "true" THEN opts.flags \cup {p.key} ELSE opts.flags \ {p.key}
             x == [opts EXCEPT !.flags = i]
  <2>5. p.key \notin IntKeys /\ p.key \notin TextKeys /\ p.key \notin FormatKeys /\ p.key # "tagspecification"
    BY <1>3, KeysDisjoint
  <2>1. Set(p) = [opts EXCEPT !.flags = IF p.text = "true" THEN @ \cup {p.key} ELSE @ \ {p.key}]
    BY Zenon, <1>3, <2>5 DEF Set
  <2>2. Set(p) = x
    BY <2>1, Zenon
  <2>3. i = IF p.text = "true" THEN opts.flags \cup {p.key} ELSE opts.flags \ {p.key}
    OBVIOUS
  <2> HIDE DEF i
  <2>4. /\ DOMAIN x = OptFields /\ x.own = opts.own /\ x.ints = opts.ints /\ x.texts = opts.texts
        /\ x.flags = i /\ x.format = opts.format /\ x.tags = opts.tags
    BY Zenon, <1>s DEF OptFields
  <2> HIDE DEF x
  <2> QED
    BY <1>a, <1>s, <1>3, <2>2, <2>3, <2>4, <2>5 DEF Changes
<1>4. CASE p.key \in FormatKeys
  <2> DEFINE i == IF p.text # "" THEN opts.format \cup {p.key} ELSE opts.format \ {p.key}
             x == [opts EXCEPT !.format = i]
  <2>5. p.key \notin IntKeys /\ p.key \notin TextKeys /\ p.key \notin FlagKeys /\ p.key # "tagspecification"
    BY Zenon, <1>4, KeysDisjoint
  <2>1. Set(p) = [opts EXCEPT !.format = IF p.text # "" THEN @ \cup {p.key} ELSE @ \ {p.key}]
    BY Zenon, <1>4, <2>5 DEF Set
  <2>2. Set(p) = x
    BY <2>1, Zenon
  <2>3. i = IF p.text # "" THEN opts.format \cup {p.key} ELSE opts.format \ {p.key}
    OBVIOUS
  <2> HIDE DEF i
  <2>4. /\ DOMAIN x = OptFields /\ x.own = opts.own /\ x.ints = opts.ints /\ x.texts = opts.texts
        /\ x.flags = opts.flags /\ x.format = i /\ x.tags = opts.tags
    BY Zenon, <1>s DEF OptFields
  <2> HIDE DEF x
  <2> QED
    BY <1>a, <1>s, <1>4, <2>2, <2>3, <2>4, <2>5 DEF Changes
<1>5. CASE p.key = "tagspecification"
  <2> DEFINE i == Append(opts.tags, <<p.text, p.n>>)
             x == [opts EXCEPT !.tags = i]
  <2>5. p.key \notin IntKeys /\ p.key \notin TextKeys /\ p.key \notin FlagKeys /\ p.key \notin FormatKeys
    BY Zenon, <1>5, KeysDisjoint
  <2>1. Set(p) = [opts EXCEPT !.tags = Append(@, <<p.text, p.n>>)]
    BY Zenon, <1>5, <2>5 DEF Set
  <2>2. Set(p) = x
    BY <2>1, Zenon
  <2>3. i = Append(opts.tags, <<p.text, p.n>>)
    OBVIOUS
  <2> HIDE DEF i
  <2>4. /\ DOMAIN x = OptFields /\ x.own = opts.own /\ x.ints = opts.ints /\ x.texts = opts.texts
        /\ x.flags = opts.flags /\ x.format = opts.format /\ x.tags = i
    BY Zenon, <1>s DEF OptFields
  <2> HIDE DEF x
  <2> QED
    BY Zenon, <1>a, <1>s, <1>5, <2>2, <2>3, <2>4, <2>5 DEF Changes
<1>6. CASE p.key \notin IntKeys \cup TextKeys \cup FlagKeys \cup FormatKeys \cup {"tagspecification"}
  <2>1. Set(p) = opts
    BY Zenon, <1>6 DEF Set
  <2> QED
    BY Zenon, <1>a, <1>s, <1>6, <2>1 DEF Changes
<1> QED
  BY Zenon, <1>1, <1>2, <1>3, <1>4, <1>5, <1>6

-----------------------------------------------------------------------------
(* CreateRequest: the inductive invariant *)

\* What Prepare puts into an EC2 request.
Placed(i) ==
    ~i.clone => \E z \in ZoneLists :
        /\ i.zone = IF PickAvailabilityZone = "" /\ PickAvailabilityZoneID = "" THEN z
                    ELSE PickAvailabilityZone
        /\ i.zoneID = PickAvailabilityZoneID
        /\ i.outpost = GetOutpostArn

Asks(i) ==
    /\ Valid(req)
    /\ i.size = BytesToGiB(GetVolSizeBytes(req.range))
    /\ Placed(i)
    /\ <<"CSIVolumeName", 0>> \in i.tags

\* The attempt is read when no RPC for the name is in flight.
Reading ==
    /\ req \in Requests
    /\ stage \in {"idle", "parameters", "mutable", "limits"}
    /\ stage # "idle" => inFlight = {} /\ Valid(req)
    /\ stage = "parameters" => left \subseteq req.params
    /\ stage = "mutable" => left \subseteq req.mutable
    /\ OptsShape
    /\ stage = "limits" => DOMAIN input = InFields /\ Asks(input) /\ FormatValid

\* One RPC is in flight, and it asks for what was prepared.
Asking ==
    \A p \in Procs : call[p].pc # "idle" =>
        /\ Name \in inFlight
        /\ \A q \in Procs : call[q].pc # "idle" => q = p
        /\ Asks(call[p].opts) /\ FormatValid

\* The volumes were asked for, and EC2 offers them.
Making ==
    \A n \in Names, t \in Tokens : vol[n][t].state # "none" =>
        Asks(vol[n][t].opts) /\ vol[n][t].opts.size \in 1..MaxVolumeSize

RequestInv == Formed /\ Reading /\ Asking /\ Making

\* There is one name.
LEMMA NameOnly == Name \in Names /\ \A n \in Names : n = Name
<1>1. PICK n : Names = {n}
  BY Zenon, OneNameAssumption
<1> QED
  BY Zenon, <1>1 DEF Name

\* The request stays, and with it what it asks for.
LEMMA SameRequest ==
    ASSUME UNCHANGED req
    PROVE  /\ PickAvailabilityZone' = PickAvailabilityZone
           /\ PickAvailabilityZoneID' = PickAvailabilityZoneID
           /\ GetOutpostArn' = GetOutpostArn
           /\ UNCHANGED opts => (FormatValid' <=> FormatValid)
<1>1. Terms' = Terms
  BY Zenon DEF Terms
<1>2. PickAvailabilityZone' = PickAvailabilityZone
  BY SMT DEF PickAvailabilityZone, Has, First, Terms, HasZone, ZoneOf
<1>3. PickAvailabilityZoneID' = PickAvailabilityZoneID
  BY SMT DEF PickAvailabilityZoneID, Has, First, Terms, HasZoneID
<1>4. GetOutpostArn' = GetOutpostArn
  BY SMT DEF GetOutpostArn, Has, First, Terms, HasOutpost, BuildOutpostArn
<1>5. UNCHANGED opts => (FormatValid' <=> FormatValid)
  BY Zenon DEF FormatValid, FormatOptions
<1> QED
  BY Zenon, <1>2, <1>3, <1>4, <1>5

\* A handler or a volume that asks for the same.
LEMMA AsksStays ==
    ASSUME UNCHANGED req, NEW i, Asks(i)
    PROVE  Asks(i)'
BY SameRequest, Zenon DEF Asks, Placed, Valid

\* Volumes that are not made stay right.
LEMMA MakingStays ==
    ASSUME Making, UNCHANGED req,
           \A n \in Names, t \in Tokens :
               vol'[n][t].state # "none" => vol[n][t].state # "none" /\ vol'[n][t].opts = vol[n][t].opts
    PROVE  Making'
<1> SUFFICES ASSUME NEW n \in Names, NEW t \in Tokens, vol'[n][t].state # "none"
             PROVE  Asks(vol[n][t].opts)' /\ vol'[n][t].opts.size \in 1..MaxVolumeSize
  BY Zenon DEF Making
<1>1. PICK i : i = vol[n][t].opts
  OBVIOUS
<1>2. Asks(i) /\ i.size \in 1..MaxVolumeSize /\ vol'[n][t].opts = i
  BY <1>1, Zenon DEF Making
<1>3. Asks(i)'
  BY Zenon, <1>2, AsksStays
<1>4. Asks(vol[n][t].opts)'
  BY <1>2, <1>3, Zenon DEF Asks, Placed
<1> QED
  BY <1>2, <1>4, Zenon

\* A step of the attempt: nothing is in flight, and EC2 is not called.
LEMMA AttemptStep ==
    ASSUME RequestInv, UNCHANGED vars, UNCHANGED req, stage # "idle" \/ inFlight = {}, Reading'
    PROVE  RequestInv'
<1>1. UNCHANGED <<call, inFlight, latest, vol, answered>>
  BY Zenon DEF vars
<1>2. Formed'
  BY <1>1, Zenon DEF RequestInv, Formed, Shape, States
<1>3. \A p \in Procs : call[p].pc = "idle"
  <2>1. inFlight = {}
    BY Zenon DEF RequestInv, Reading
  <2> QED
    BY Zenon, <2>1 DEF RequestInv, Asking
<1>4. Asking'
  BY <1>1, <1>3, Zenon DEF Asking
<1>5. Making'
  BY <1>1, MakingStays, Zenon DEF RequestInv
<1> QED
  BY <1>2, <1>4, <1>5, Zenon DEF RequestInv

\* The shape of what nothing was read into.
LEMMA NoOptionsShape ==
    /\ DOMAIN NoOptions = OptFields
    /\ DOMAIN NoOptions.ints = IntKeys /\ \A k \in IntKeys : NoOptions.ints[k] = 0
    /\ DOMAIN NoOptions.texts = TextKeys /\ \A k \in TextKeys : NoOptions.texts[k] = ""
    /\ NoOptions.flags = {} /\ NoOptions.format = {} /\ NoOptions.own = {} /\ NoOptions.tags = <<>>
    /\ DOMAIN NoInput = InFields
BY Zenon DEF NoOptions, OptFields, NoInput, InFields

\* An attempt that is refused.
LEMMA RefuseReads ==
    ASSUME Reading, Refuse, UNCHANGED req
    PROVE  Reading'
<1>1. stage' = "idle" /\ opts' = NoOptions
  BY Zenon DEF Refuse
<1>2. OptsShape'
  <2>1. 0 \in Int
    OBVIOUS
  <2> QED
    BY <1>1, <2>1, NoOptionsShape, Zenon DEF OptsShape
<1>3. req' \in Requests
  BY Zenon DEF Reading
<1> QED
  BY Zenon, <1>1, <1>2, <1>3 DEF Reading

\* Another parameter leaves what was read in shape.
LEMMA ReadShape ==
    ASSUME OptsShape, NEW p \in Parameter, opts' = Read(p)
    PROVE  OptsShape'
<1>1. Changes(Read(p), p)
  BY ReadChanges, Zenon
<1> DEFINE o == Read(p)
<1>2. /\ DOMAIN o = OptFields
      /\ DOMAIN o.ints = IntKeys /\ DOMAIN o.texts = TextKeys
      /\ \A k \in IntKeys : o.ints[k] = IF k = p.key THEN p.n ELSE opts.ints[k]
      /\ o.flags = IF p.key \notin FlagKeys THEN opts.flags
                   ELSE IF p.text = "true" THEN opts.flags \cup {p.key} ELSE opts.flags \ {p.key}
      /\ o.format = IF p.key \notin FormatKeys THEN opts.format
                    ELSE IF p.text # "" THEN opts.format \cup {p.key} ELSE opts.format \ {p.key}
  BY <1>1, Zenon DEF Changes
<1> HIDE DEF o
<1>3. \A k \in IntKeys : o.ints[k] \in Int
  BY Zenon, <1>2 DEF OptsShape, Parameter
<1>4. o.flags \subseteq FlagKeys /\ o.format \subseteq FormatKeys
  BY <1>2 DEF OptsShape
<1> QED
  BY <1>2, <1>3, <1>4, Zenon DEF OptsShape, o

\* The sidecar calls.
LEMMA BeginKeeps == RequestInv /\ Begin => RequestInv'
<1> SUFFICES ASSUME RequestInv, Begin
             PROVE  RequestInv'
  OBVIOUS
<1>1. /\ stage = "idle" /\ inFlight = {} /\ Valid(req) /\ stage' = "parameters"
      /\ left' = req.params /\ opts' = NoOptions /\ UNCHANGED <<req, inFlight>> /\ UNCHANGED vars
  BY Zenon DEF Begin, vars
<1>2. OptsShape'
  <2>1. 0 \in Int
    OBVIOUS
  <2> QED
    BY <1>1, <2>1, NoOptionsShape, Zenon DEF OptsShape
<1>3. Reading'
  BY Zenon, <1>1, <1>2 DEF RequestInv, Reading, Valid
<1> QED
  BY Zenon, <1>1, <1>3, AttemptStep

\* A parameter is read.
LEMMA ReadParameterKeeps ==
    ASSUME RequestInv, NEW p \in left, ReadParameter(p)
    PROVE  RequestInv'
<1>1. stage = "parameters" /\ UNCHANGED req /\ UNCHANGED vars /\ UNCHANGED inFlight
  BY Zenon DEF ReadParameter, vars
<1>2. CASE Refuse
  BY Zenon, <1>1, <1>2, RefuseReads, AttemptStep DEF RequestInv
<1>3. CASE opts' = Read(p) /\ left' = left \ {p} /\ UNCHANGED stage
  <2>1. p \in Parameter
    BY <1>1, RequestsAssumption, Zenon DEF RequestInv, Reading
  <2>2. OptsShape'
    BY <2>1, <1>3, ReadShape, Zenon DEF RequestInv, Reading
  <2>3. Reading'
    BY Zenon, <1>1, <1>3, <2>2 DEF RequestInv, Reading, Valid
  <2> QED
    BY Zenon, <1>1, <2>3, AttemptStep
<1> QED
  BY <1>2, <1>3, Zenon DEF ReadParameter

\* The parameters have been read.
LEMMA ParametersReadKeeps == RequestInv /\ ParametersRead => RequestInv'
<1> SUFFICES ASSUME RequestInv, ParametersRead
             PROVE  RequestInv'
  OBVIOUS
<1>1. /\ stage = "parameters" /\ stage' = "mutable" /\ left' = req.mutable
      /\ UNCHANGED <<req, opts, inFlight>> /\ UNCHANGED vars
  BY Zenon DEF ParametersRead, vars
<1>2. OptsShape'
  BY <1>1, Zenon DEF RequestInv, Reading, OptsShape
<1>3. Reading'
  BY Zenon, <1>1, <1>2 DEF RequestInv, Reading, Valid
<1> QED
  BY Zenon, <1>1, <1>3, AttemptStep

\* A mutable parameter is read.
LEMMA ReadMutableKeeps ==
    ASSUME RequestInv, NEW p \in left, ReadMutable(p)
    PROVE  RequestInv'
<1>1. stage = "mutable" /\ UNCHANGED req /\ UNCHANGED vars /\ UNCHANGED inFlight
  BY Zenon DEF ReadMutable, vars
<1>2. CASE Refuse
  BY Zenon, <1>1, <1>2, RefuseReads, AttemptStep DEF RequestInv
<1>3. CASE /\ opts' = IF TypeKey(p) THEN [opts EXCEPT !.texts["type"] = p.text]
                      ELSE IF p.key = "volumeType" THEN opts ELSE Read(p)
           /\ left' = left \ {p} /\ UNCHANGED stage
  <2>1. p \in Parameter
    BY <1>1, RequestsAssumption, Zenon DEF RequestInv, Reading
  <2>2. OptsShape'
    <3>1. CASE TypeKey(p)
      <4> DEFINE t == [opts.texts EXCEPT !["type"] = p.text]
                 x == [opts EXCEPT !.texts = t]
      <4>1. opts' = x
        BY <1>3, <3>1, Zenon
      <4>2. DOMAIN t = TextKeys
        BY Zenon DEF RequestInv, Reading, OptsShape
      <4> HIDE DEF t
      <4>3. DOMAIN opts = OptFields
        BY Zenon DEF RequestInv, Reading, OptsShape
      <4>4. /\ DOMAIN x = OptFields /\ x.ints = opts.ints /\ x.texts = t
            /\ x.flags = opts.flags /\ x.format = opts.format
        BY Zenon, <4>3 DEF OptFields
      <4> HIDE DEF x
      <4> QED
        BY <4>1, <4>2, <4>4, Zenon DEF RequestInv, Reading, OptsShape
    <3>2. CASE UNCHANGED opts
      BY <3>2, Zenon DEF RequestInv, Reading, OptsShape
    <3>3. CASE opts' = Read(p)
      BY <2>1, <3>3, ReadShape, Zenon DEF RequestInv, Reading
    <3> QED
      BY <1>3, <3>1, <3>2, <3>3, Zenon
  <2>3. Reading'
    BY Zenon, <1>1, <1>3, <2>2 DEF RequestInv, Reading, Valid
  <2> QED
    BY Zenon, <1>1, <2>3, AttemptStep
<1> QED
  BY <1>2, <1>3, Zenon DEF ReadMutable

\* No tag of the user takes the place of the one with the name.
LEMMA NameTagged == <<"CSIVolumeName", 0>> \in VolumeTags(UserTags)
<1> DEFINE t == <<"CSIVolumeName", 0>>
<1>1. t[1] = "CSIVolumeName" /\ "CSIVolumeName" \in Reserved
  BY DEF Reserved
<1>2. t \in {<<"CSIVolumeName", 0>>, <<"Name", 0>>} \cup opts.own
  OBVIOUS
<1> HIDE DEF t
<1>3. \A u \in UserTags : u[1] # t[1]
  BY Zenon, <1>1 DEF UserTags
<1>4. t \in VolumeTags(UserTags)
  BY Zenon, <1>2, <1>3 DEF VolumeTags
<1> QED
  BY Zenon, <1>4 DEF t

\* The EC2 request is prepared, or the attempt is refused.
LEMMA PrepareKeeps ==
    ASSUME RequestInv, Prepare \/ SourceFails \/ ZonesFail
    PROVE  RequestInv'
<1>1. stage = "mutable" /\ UNCHANGED req /\ UNCHANGED vars /\ UNCHANGED inFlight
  BY Zenon DEF Prepare, SourceFails, ZonesFail, vars
<1>2. CASE Refuse
  BY Zenon, <1>1, <1>2, RefuseReads, AttemptStep DEF RequestInv
<1>3. ASSUME NEW z \in ZoneLists, stage' = "limits", UNCHANGED <<left, opts>>, FormatValid,
             input' = Prepared(Type, IF Zone = "" /\ ZoneID = "" THEN z ELSE Zone, ZoneID)
      PROVE  RequestInv'
  <2>1. /\ DOMAIN input' = InFields
        /\ input'.size = BytesToGiB(GetVolSizeBytes(req.range))
        /\ input'.zone = IF Zone = "" /\ ZoneID = "" THEN z ELSE Zone
        /\ input'.zoneID = ZoneID
        /\ input'.clone = (req.source = "volume")
        /\ input'.outpost = IF req.source = "volume" THEN Source.outpost ELSE GetOutpostArn
        /\ input'.tags = VolumeTags(UserTags)
    <3>1. PICK a, b, c : a = Type /\ b = (IF Zone = "" /\ ZoneID = "" THEN z ELSE Zone) /\ c = ZoneID
      OBVIOUS
    <3>2. input' = Prepared(a, b, c)
      BY <1>3, <3>1, Zenon
    <3>3. /\ DOMAIN input' = InFields
          /\ input'.size = BytesToGiB(GetVolSizeBytes(req.range))
          /\ input'.zone = b /\ input'.zoneID = c
          /\ input'.clone = (req.source = "volume")
          /\ input'.outpost = IF req.source = "volume" THEN Source.outpost ELSE GetOutpostArn
          /\ input'.tags = VolumeTags(UserTags)
      BY Zenon, <3>2 DEF Prepared, NoInput, InFields
    <3> QED
      BY Zenon, <3>1, <3>3
  <2>2. Placed(input)'
    BY <1>1, <1>3, <2>1, SameRequest, Zenon DEF Placed, Zone, ZoneID
  <2>3. Asks(input)'
    BY <1>1, <2>1, <2>2, NameTagged, Zenon DEF Asks, Valid, RequestInv, Reading
  <2>4. FormatValid'
    BY <1>1, <1>3, SameRequest, Zenon
  <2>5. OptsShape'
    BY <1>3, Zenon DEF RequestInv, Reading, OptsShape
  <2>6. Reading'
    BY Zenon, <1>1, <1>3, <2>1, <2>3, <2>4, <2>5 DEF RequestInv, Reading, Valid
  <2> QED
    BY Zenon, <1>1, <2>6, AttemptStep
<1> QED
  BY <1>2, <1>3, Zenon DEF Prepare, SourceFails, ZonesFail

\* What is added and left out before EC2 is called changes neither size nor place.
LEMMA EC2InputAsks ==
    ASSUME DOMAIN input = InFields, Asks(input), NEW iops
    PROVE  LET i == EC2Input([input EXCEPT !.iops = iops])
           IN  /\ Asks(i) /\ i.type = input.type /\ i.size = input.size /\ i.iops = iops
               /\ DOMAIN i = InFields
<1> DEFINE j == [input EXCEPT !.iops = iops]
<1>1. /\ DOMAIN j = InFields /\ j.size = input.size /\ j.type = input.type /\ j.iops = iops
      /\ j.zone = input.zone /\ j.zoneID = input.zoneID /\ j.outpost = input.outpost
      /\ j.clone = input.clone /\ j.tags = input.tags
  BY Zenon DEF InFields
<1> HIDE DEF j
<1>2. CASE j.clone
  <2>1. /\ DOMAIN EC2Input(j) = InFields /\ EC2Input(j).size = j.size /\ EC2Input(j).type = j.type
        /\ EC2Input(j).iops = j.iops /\ EC2Input(j).clone = j.clone
        /\ EC2Input(j).tags = j.tags
    BY Zenon, <1>1, <1>2 DEF EC2Input, InFields
  <2> QED
    BY <1>1, <1>2, <2>1, Zenon DEF Asks, Placed, j
<1>3. CASE ~j.clone
  <2>1. EC2Input(j) = j
    BY <1>3, Zenon DEF EC2Input
  <2>2. Asks(j)
    BY <1>1, Zenon DEF Asks, Placed
  <2> QED
    BY <1>1, <2>1, <2>2, Zenon DEF j
<1> QED
  BY Zenon, <1>2, <1>3

\* CreateDisk goes on with the EC2 request.
LEMMA UseKeeps ==
    ASSUME RequestInv, NEW p \in Procs, NEW max, Use(p, max)
    PROVE  RequestInv'
<1>1. /\ stage = "limits" /\ stage' = "idle" /\ UNCHANGED <<req, left, opts>>
      /\ input' = [input EXCEPT !.iops = CappedIOPS(max)]
      /\ CreateVolume(p, Name, EC2Input([input EXCEPT !.iops = CappedIOPS(max)]))
  BY Zenon DEF Use
<1>2. /\ inFlight = {} /\ DOMAIN input = InFields /\ Asks(input) /\ FormatValid /\ OptsShape
      /\ req \in Requests
  BY <1>1, Zenon DEF RequestInv, Reading
<1>3. PICK i : i = EC2Input([input EXCEPT !.iops = CappedIOPS(max)])
  OBVIOUS
<1>4. Asks(i) /\ CreateVolume(p, Name, i)
  BY <1>1, <1>2, <1>3, EC2InputAsks, Zenon
<1>5. Formed' /\ call'[p].opts = i /\ \A q \in Procs : q # p => call'[q] = call[q]
  BY <1>4, NameOnly, CallSound, Zenon DEF RequestInv
<1>6. inFlight' = inFlight \cup {Name} /\ UNCHANGED vol
  BY <1>4, Zenon DEF CreateVolume
<1>7. Reading'
  <2>1. OptsShape'
    BY <1>1, <1>2, Zenon DEF OptsShape
  <2> QED
    BY Zenon, <1>1, <1>2, <2>1 DEF Reading
<1>8. Asking'
  <2>1. \A q \in Procs : call[q].pc = "idle"
    BY <1>2, Zenon DEF RequestInv, Asking
  <2>2. Asks(i)' /\ FormatValid'
    BY <1>1, <1>2, <1>4, AsksStays, SameRequest, Zenon
  <2>3. Asks(call[p].opts)'
    BY <1>5, <2>2, Zenon DEF Asks, Placed
  <2>4. \A q \in Procs : call'[q].pc # "idle" => q = p
    BY <1>5, <2>1, Zenon
  <2>5. Name \in inFlight'
    BY Zenon, <1>6
  <2> QED
    BY <2>2, <2>3, <2>4, <2>5, Zenon DEF Asking
<1>9. Making'
  BY <1>1, <1>6, MakingStays, Zenon DEF RequestInv
<1> QED
  BY <1>5, <1>7, <1>8, <1>9, Zenon DEF RequestInv

\* The limits are forgotten, or the request is not valid: nothing else changes.
LEMMA ForgetKeeps ==
    ASSUME RequestInv, UNCHANGED <<req, stage, left, opts, input>>, UNCHANGED vars
    PROVE  RequestInv'
<1>1. UNCHANGED <<call, inFlight, latest, vol, answered>>
  BY Zenon DEF vars
<1>2. Formed'
  BY <1>1, Zenon DEF RequestInv, Formed, Shape, States
<1>s. FormatValid' <=> FormatValid
  BY SameRequest, Zenon
<1>i. Asks(input) => Asks(input)'
  BY SameRequest, Zenon DEF Asks, Placed, Valid
<1>3. OptsShape'
  BY Zenon DEF RequestInv, Reading, OptsShape
<1>4. Reading'
  BY <1>1, <1>s, <1>i, <1>3, Zenon DEF RequestInv, Reading, Valid
<1>5. Asking'
  <2> SUFFICES ASSUME NEW p \in Procs, call[p].pc # "idle"
               PROVE  Asks(call[p].opts)'
    BY <1>1, <1>s, Zenon DEF RequestInv, Asking
  <2> QED
    BY <1>1, SameRequest, Zenon DEF RequestInv, Asking, Asks, Placed, Valid
<1>6. Making'
  BY <1>1, MakingStays, Zenon DEF RequestInv
<1> QED
  BY <1>2, <1>4, <1>5, <1>6, Zenon DEF RequestInv

\* A step of CreateDisk.
LEMMA ContinueKeeps ==
    ASSUME RequestInv, NEW p \in Procs, Continue(p)
    PROVE  RequestInv'
<1>1. CreateDisk(p) /\ (vol' = vol \/ Offered(p)) /\ UNCHANGED <<req, stage, left, opts, input, known>>
  BY Zenon DEF Continue, requestVars
<1>2. Formed' /\ Serves(p)
  BY <1>1, CreateDiskServes, Zenon DEF RequestInv, Served
<1>3. /\ call[p].pc # "idle" /\ Name \in inFlight /\ Asks(call[p].opts) /\ FormatValid
      /\ \A q \in Procs : call[q].pc # "idle" => q = p
  BY <1>2, Zenon DEF Serves, RequestInv, Asking
<1>4. stage = "idle"
  BY Zenon, <1>3 DEF RequestInv, Reading
<1>5. Reading'
  <2>1. OptsShape'
    BY <1>1, Zenon DEF RequestInv, Reading, OptsShape
  <2> QED
    BY Zenon, <1>1, <1>4, <2>1 DEF RequestInv, Reading
<1>6. PICK i : i = call[p].opts
  OBVIOUS
<1>7. Asks(i)' /\ FormatValid'
  BY <1>1, <1>3, <1>6, AsksStays, SameRequest, Zenon
<1>8. Asking'
  <2>0. call'[p].opts = i /\ \A q \in Procs : q # p => call'[q] = call[q]
    BY Zenon, <1>2, <1>6 DEF Serves
  <2>1. Asks(call[p].opts)'
    BY <2>0, <1>7, Zenon DEF Asks, Placed
  <2>2. \A q \in Procs : call'[q].pc # "idle" => q = p
    BY <2>0, <1>3, Zenon
  <2>3. call'[p].pc # "idle" => Name \in inFlight'
    BY <1>2, <1>3, Zenon DEF Serves
  <2> QED
    BY <1>7, <2>1, <2>2, <2>3, Zenon DEF Asking
<1>9. Making'
  <2>1. CASE UNCHANGED vol
    BY <1>1, <2>1, MakingStays, Zenon DEF RequestInv
  <2>2. CASE Offered(p)
    <3> SUFFICES ASSUME NEW n \in Names, NEW t \in Tokens, vol'[n][t].state # "none"
                 PROVE  Asks(vol[n][t].opts)' /\ vol'[n][t].opts.size \in 1..MaxVolumeSize
      BY Zenon DEF Making
    <3>1. PICK j : j = vol'[n][t].opts
      OBVIOUS
    <3>2. Asks(j) /\ j.size \in 1..MaxVolumeSize
      <4>1. CASE vol'[n][t] = vol[n][t]
        BY <3>1, <4>1, Zenon DEF RequestInv, Making
      <4>2. CASE vol'[n][t].opts = call[p].opts
        BY <1>3, <2>2, <3>1, <4>2, Zenon DEF Offered
      <4> QED
        BY <1>2, <4>1, <4>2, Zenon DEF Serves
    <3>3. Asks(j)'
      BY Zenon, <1>1, <3>2, AsksStays
    <3>4. Asks(vol[n][t].opts)'
      BY <3>1, <3>3, Zenon DEF Asks, Placed
    <3> QED
      BY <3>1, <3>2, <3>4, Zenon
  <2> QED
    BY Zenon, <1>1, <2>1, <2>2
<1> QED
  BY <1>2, <1>5, <1>8, <1>9, Zenon DEF RequestInv

\* A step that is not the driver's: the handlers stay, and no volume is made.
LEMMA OtherKeeps ==
    ASSUME RequestInv, Formed', UNCHANGED requestVars, UNCHANGED <<call, inFlight>>,
           \A n \in Names, t \in Tokens :
               vol'[n][t].state # "none" => vol[n][t].state # "none" /\ vol'[n][t].opts = vol[n][t].opts
    PROVE  RequestInv'
<1>1. UNCHANGED <<req, stage, left, opts, input, known>>
  BY Zenon DEF requestVars
<1>2. FormatValid' <=> FormatValid
  BY <1>1, SameRequest, Zenon
<1>3. Reading'
  <2>1. Asks(input) => Asks(input)'
    BY <1>1, SameRequest, Zenon DEF Asks, Placed, Valid
  <2>2. OptsShape'
    BY <1>1, Zenon DEF RequestInv, Reading, OptsShape
  <2> QED
    BY <1>1, <1>2, <2>1, <2>2, Zenon DEF RequestInv, Reading, Valid
<1>4. Asking'
  <2> SUFFICES ASSUME NEW p \in Procs, call[p].pc # "idle"
               PROVE  Asks(call[p].opts)'
    BY <1>2, Zenon DEF RequestInv, Asking
  <2> QED
    BY <1>1, SameRequest, Zenon DEF RequestInv, Asking, Asks, Placed, Valid
<1>5. Making'
  BY <1>1, MakingStays, Zenon DEF RequestInv
<1> QED
  BY <1>3, <1>4, <1>5, Zenon DEF RequestInv

\* EC2 settles a volume, or the token numbers are lost.
LEMMA SettlesKeeps ==
    ASSUME RequestInv, (Settles /\ UNCHANGED requestVars) \/ Loses
    PROVE  RequestInv'
<1>n. Name \in Names
  BY Zenon, NameOnly
<1>1. CASE Settles /\ UNCHANGED requestVars
  <2>1. PICK t \in Tokens, state \in {"available", "failed"} : Becomes(Name, t, state)
    BY Zenon, <1>1 DEF Settles, BecomesAvailable, CreationFails
  <2> QED
    BY <1>1, <1>n, <2>1, BecomesSound, OtherKeeps, Zenon DEF RequestInv
<1>2. CASE Expire(Name) /\ UNCHANGED requestVars
  <2>1. Formed' /\ UNCHANGED <<call, inFlight, vol>>
    BY <1>2, <1>n, ExpireSound, Zenon DEF RequestInv
  <2> QED
    BY <1>2, <2>1, OtherKeeps, Zenon
<1>3. CASE Restart /\ Refuse /\ UNCHANGED req
  <2>1. Formed' /\ UNCHANGED vol /\ inFlight' = {} /\ \A p \in Procs : call'[p].pc = "idle"
    BY <1>3, RestartSound, Zenon DEF RequestInv
  <2>2. Reading'
    BY Zenon, <1>3, RefuseReads DEF RequestInv
  <2>3. Asking'
    BY <2>1, Zenon DEF Asking
  <2>4. Making'
    BY <1>3, <2>1, MakingStays, Zenon DEF RequestInv
  <2> QED
    BY <2>1, <2>2, <2>3, <2>4, Zenon DEF RequestInv
<1> QED
  BY <1>1, <1>2, <1>3, Zenon DEF Loses

\* Every step keeps the invariant.
LEMMA RequestStep == RequestInv /\ [RequestNext]_allVars => RequestInv'
<1> SUFFICES ASSUME RequestInv, [RequestNext]_allVars
             PROVE  RequestInv'
  OBVIOUS
<1>1. CASE Attempt
  <2>1. ASSUME NEW p \in Procs, CachedLimits(p) \/ DryRunLimits(p) \/ FallbackLimits(p)
        PROVE  RequestInv'
    BY <2>1, UseKeeps, Zenon DEF CachedLimits, DryRunLimits, FallbackLimits
  <2> QED
    BY <1>1, <2>1, BeginKeeps, ParametersReadKeeps, PrepareKeeps, ReadParameterKeeps,
       ReadMutableKeeps, Zenon DEF Attempt
<1>2. CASE Forget
  BY <1>2, ForgetKeeps, Zenon DEF Forget
<1>3. CASE UNCHANGED allVars
  BY <1>3, ForgetKeeps, Zenon DEF allVars, vars
<1> QED
  BY <1>1, <1>2, <1>3, ContinueKeeps, SettlesKeeps, Zenon DEF RequestNext

\* Nothing has been read or made.
LEMMA RequestStart == RequestInit => RequestInv
<1> SUFFICES ASSUME RequestInit
             PROVE  RequestInv
  OBVIOUS
<1>n. Name \in Names
  BY Zenon, NameOnly
<1>1. Formed
  BY <1>n, BoundsAssumption DEF RequestInit, Formed, Shape, States, Tokens, CallFields, VolFields, VolStates
<1>2. Reading
  <2>1. 0 \in Int
    OBVIOUS
  <2>2. OptsShape
    BY <2>1, NoOptionsShape, Zenon DEF OptsShape, RequestInit
  <2> QED
    BY Zenon, <2>2 DEF RequestInit, Reading
<1>3. Asking
  BY Zenon DEF RequestInit, Asking
<1>4. Making
  BY Zenon DEF RequestInit, Making
<1> QED
  BY Zenon, <1>1, <1>2, <1>3, <1>4 DEF RequestInv

\* Whatever the request is, an EC2 request has its size and its place, and what was made was asked
\* for: in every state, for every order of the parameters, every failure and every restart.
THEOREM RequestInvariant == RequestSpec => []RequestInv
BY RequestStart, RequestStep, PTL DEF RequestSpec

-----------------------------------------------------------------------------
(* CreateRequest: the safety properties *)

\* What was made was asked for, and EC2 offers its size.
LEMMA MadeAsks ==
    ASSUME RequestInv, NEW i \in Made
    PROVE  Asks(i) /\ i.size \in 1..MaxVolumeSize
<1>1. PICK t \in Tokens : vol[Name][t].state # "none" /\ i = vol[Name][t].opts
  BY Zenon DEF Made
<1> QED
  BY <1>1, NameOnly, Zenon DEF RequestInv, Making

\* Every EC2 request, and every volume that was made, carries the tag by which CreateDisk looks
\* for the volume when EC2 says that the limit is exceeded, whatever tags the parameters ask for
\* (validateExtraTags leaves out the reserved ones, and maps.Copy comes after the driver's own).
THEOREM NameTagAlwaysKept ==
    RequestSpec => [](NameTagKept /\ \A i \in Made : <<"CSIVolumeName", 0>> \in i.tags)
<1>1. RequestInv => NameTagKept /\ \A i \in Made : <<"CSIVolumeName", 0>> \in i.tags
  <2> SUFFICES ASSUME RequestInv PROVE NameTagKept /\ \A i \in Made : <<"CSIVolumeName", 0>> \in i.tags
    OBVIOUS
  <2>1. \A i \in Made : <<"CSIVolumeName", 0>> \in i.tags
    BY Zenon, MadeAsks DEF Asks
  <2>2. NameTagKept
    BY Zenon DEF NameTagKept, Asked, RequestInv, Asking, Asks
  <2> QED
    BY Zenon, <2>1, <2>2
<1> QED
  BY <1>1, RequestInvariant, PTL

\* The size of a request in bytes fits into int64 after it has been rounded up.
SizesFit == \A r \in Requests : r.range.given => r.range.required \in 0..(MaxInt64 - GiB + 1)

\* A volume has the size that was asked for, whatever EC2 offers (getVolSizeBytes, RoundUpBytes,
\* BytesToGiB).
THEOREM CapacityAlwaysHonoured ==
    ASSUME SizesFit
    PROVE  RequestSpec => []CapacityHonoured
<1>1. RequestInv => CapacityHonoured
  <2> SUFFICES ASSUME RequestInv, NEW i \in Made, req.range.given
               PROVE  /\ GiBToBytes(i.size) >= req.range.required
                      /\ req.range.limit > 0 => GiBToBytes(i.size) <= req.range.limit
    BY Zenon DEF CapacityHonoured
  <2>1. /\ Valid(req) /\ i.size = BytesToGiB(GetVolSizeBytes(req.range)) /\ i.size \in 1..MaxVolumeSize
        /\ req \in Requests
    BY MadeAsks, Zenon DEF Asks, RequestInv, Reading
  <2> QED
    BY Zenon, <2>1, SizeHonoured, RequestsAssumption, MaxVolumeSizeAssumption DEF SizesFit, Valid
<1> QED
  BY <1>1, RequestInvariant, PTL

\* What is asked for is one EC2 request.
LEMMA AskedAsks ==
    ASSUME RequestInv, NEW i \in Asked
    PROVE  Asks(i) /\ FormatValid
<1>1. PICK p \in Procs : call[p].pc # "idle" /\ i = call[p].opts
  BY Zenon DEF Asked
<1> QED
  BY <1>1, Zenon DEF RequestInv, Asking

\* The terms of a request have the same keys, and each names a zone or the ID of one.
UniformTerms ==
    \A r \in Requests :
        LET terms == r.preferred \o r.requisite
        IN  \A i, j \in DOMAIN terms :
                /\ HasZone(terms[i]) <=> HasZone(terms[j])
                /\ HasZoneID(terms[i]) <=> HasZoneID(terms[j])
                /\ HasOutpost(terms[i]) <=> HasOutpost(terms[j])
                /\ HasZone(terms[i]) \/ HasZoneID(terms[i])

\* The terms are numbered from 1.
LEMMA TermsNumbered ==
    ASSUME req \in Requests, Terms # <<>>
    PROVE  1 \in DOMAIN Terms /\ DOMAIN Terms \subseteq Nat \ {0}
<1>1. Terms \in Seq(TopologyTerm)
  BY RequestsAssumption DEF Terms
<1> HIDE DEF Terms
<1> QED
  BY <1>1

\* Of terms with the same keys the first one is taken, whatever is looked for.
LEMMA FirstTaken ==
    ASSUME UniformTerms, req \in Requests, Terms # <<>>
    PROVE  /\ PickAvailabilityZone = ZoneOf(Terms[1])
           /\ PickAvailabilityZoneID = Terms[1].zoneID
           /\ GetOutpostArn = BuildOutpostArn(Terms[1])
           /\ PickAvailabilityZone # "" \/ PickAvailabilityZoneID # ""
<1>1. 1 \in DOMAIN Terms /\ DOMAIN Terms \subseteq Nat \ {0}
  BY Zenon, TermsNumbered
<1>2. \A i, j \in DOMAIN Terms :
        /\ HasZone(Terms[i]) <=> HasZone(Terms[j])
        /\ HasZoneID(Terms[i]) <=> HasZoneID(Terms[j])
        /\ HasOutpost(Terms[i]) <=> HasOutpost(Terms[j])
        /\ HasZone(Terms[i]) \/ HasZoneID(Terms[i])
  BY Zenon DEF UniformTerms, Terms
<1>3. PickAvailabilityZone = ZoneOf(Terms[1])
  <2>1. CASE HasZone(Terms[1])
    <3>1. \A i \in DOMAIN Terms : (\A j \in 1..(i - 1) : ~HasZone(Terms[j])) => i = 1
      BY <1>1, <2>1
    <3>2. \A j \in 1..(1 - 1) : ~HasZone(Terms[j])
      OBVIOUS
    <3>3. First(Terms, HasZone) = 1
      BY Zenon, <1>1, <2>1, <3>1, <3>2 DEF First
    <3> QED
      BY <1>1, <2>1, <3>3, Zenon DEF PickAvailabilityZone, Has
  <2>2. CASE ~HasZone(Terms[1])
    <3>1. ZoneOf(Terms[1]) = ""
      BY <2>2, Zenon DEF HasZone, ZoneOf
    <3> QED
      BY <1>1, <1>2, <2>2, <3>1, Zenon DEF PickAvailabilityZone, Has
  <2> QED
    BY Zenon, <2>1, <2>2
<1>4. PickAvailabilityZoneID = Terms[1].zoneID
  <2>1. CASE HasZoneID(Terms[1])
    <3>1. \A i \in DOMAIN Terms : (\A j \in 1..(i - 1) : ~HasZoneID(Terms[j])) => i = 1
      BY <1>1, <2>1
    <3>2. \A j \in 1..(1 - 1) : ~HasZoneID(Terms[j])
      OBVIOUS
    <3>3. First(Terms, HasZoneID) = 1
      BY Zenon, <1>1, <2>1, <3>1, <3>2 DEF First
    <3> QED
      BY <1>1, <2>1, <3>3, Zenon DEF PickAvailabilityZoneID, Has
  <2>2. CASE ~HasZoneID(Terms[1])
    BY <1>1, <1>2, <2>2, Zenon DEF PickAvailabilityZoneID, Has, HasZoneID
  <2> QED
    BY Zenon, <2>1, <2>2
<1>5. GetOutpostArn = BuildOutpostArn(Terms[1])
  <2>1. CASE HasOutpost(Terms[1])
    <3>1. \A i \in DOMAIN Terms : (\A j \in 1..(i - 1) : ~HasOutpost(Terms[j])) => i = 1
      BY <1>1, <2>1
    <3>2. \A j \in 1..(1 - 1) : ~HasOutpost(Terms[j])
      OBVIOUS
    <3>3. First(Terms, HasOutpost) = 1
      BY Zenon, <1>1, <2>1, <3>1, <3>2 DEF First
    <3> QED
      BY <1>1, <2>1, <3>3, Zenon DEF GetOutpostArn, Has
  <2>2. CASE ~HasOutpost(Terms[1])
    <3>1. BuildOutpostArn(Terms[1]) = ""
      BY <2>2, Zenon DEF HasOutpost, BuildOutpostArn
    <3> QED
      BY <1>1, <1>2, <2>2, <3>1, Zenon DEF GetOutpostArn, Has
  <2> QED
    BY Zenon, <2>1, <2>2
<1>6. PickAvailabilityZone # "" \/ PickAvailabilityZoneID # ""
  BY <1>1, <1>2, <1>3, <1>4, Zenon DEF HasZone, HasZoneID, ZoneOf
<1> QED
  BY Zenon, <1>3, <1>4, <1>5, <1>6

\* Zone, zone ID and outpost of an EC2 request are those of one term (pickAvailabilityZone,
\* pickAvailabilityZoneID, getOutpostArn).
THEOREM AlwaysOnePlace ==
    ASSUME UniformTerms
    PROVE  RequestSpec => []OnePlace
<1>1. RequestInv => OnePlace
  <2> SUFFICES ASSUME RequestInv, NEW i \in Asked, ~i.clone, Terms # <<>>
               PROVE  \E j \in DOMAIN Terms :
                         /\ i.zone = ZoneOf(Terms[j])
                         /\ i.zoneID = Terms[j].zoneID
                         /\ i.outpost = BuildOutpostArn(Terms[j])
    BY Zenon DEF OnePlace
  <2>1. Placed(i) /\ req \in Requests
    BY AskedAsks, Zenon DEF Asks, RequestInv, Reading
  <2>2. 1 \in DOMAIN Terms
    BY Zenon, <2>1, TermsNumbered
  <2> QED
    BY <2>1, <2>2, FirstTaken, Zenon DEF Placed
<1> QED
  BY <1>1, RequestInvariant, PTL
=============================================================================
