-------------------------- MODULE CoalescerProofs ---------------------------
(***************************************************************************)
(* The coalescer's invariants for any number of callers, keys and requests *)
(* and any delay.  A merged input serves its callers only because none of  *)
(* them can start another call meanwhile, and that follows from each of    *)
(* their channels being in one place: the two are proved together.  As it  *)
(* also has nothing from anyone else, it is the join of what they ask for. *)
(*                                                                         *)
(* ModifyVolume implements the coalescer, so they hold of it too, and with *)
(* them what its answers say: an execution's local variables stay under    *)
(* the first of its callers because no other execution has that channel.   *)
(* Executions that do not overlap have finished when they say so.          *)
(***************************************************************************)
EXTENDS ModifyVolume, TLAPS

\* A timer that is running was started when the first input came and never since.
WaitedForTimer ==
    \A k \in Keys : waited[k] = IF timer[k] = Off THEN 0 ELSE Delay - timer[k]

\* The inductive invariant; an execution is dropped with its last channel.
IInv ==
    /\ TypeOK
    /\ ChannelsInOnePlace
    /\ TimerWhilePending
    /\ MergeServesCallers
    /\ \A e \in executing : e.resultChannels # <<>>
    /\ WaitedForTimer

-----------------------------------------------------------------------------
(* mergeModifyVolumeRequest *)

\* Merging two requests makes a request.
LEMMA MergedType ==
    ASSUME NEW i \in Request, NEW e \in Request
    PROVE  Merged(i, e) \in Request
BY Zenon DEF Merged, Request, Fields, MergedFields, Asks, Nothing, NoTags, Tags

\* What the earlier callers asked for is still asked for, unless the merge is refused.
LEMMA MergedKeeps ==
    ASSUME NEW i \in Request, NEW e \in Request, ~Different(i, e),
           NEW f \in MergedFields, Asks(e, f)
    PROVE  Merged(i, e)[f] = e[f]
BY Zenon DEF Merged, Different, Fields, MergedFields, Asks, Nothing

\* What the new caller asks for is asked for.
LEMMA MergedTakes ==
    ASSUME NEW i \in Request, NEW e \in Request, NEW f \in MergedFields, Asks(i, f)
    PROVE  Merged(i, e)[f] = i[f]
BY Zenon DEF Merged, Fields, MergedFields, Asks, Nothing

-----------------------------------------------------------------------------

\* At the start nothing is pending.
LEMMA InitIInv == Init => IInv
<1> SUFFICES ASSUME Init PROVE IInv
    OBVIOUS
<1>1. TypeOK
  <2>1. Nothing \in Request
    BY DEF Nothing, Request, NoTags, Tags
  <2>2. (CHOOSE k \in Keys : TRUE) \in Keys /\ (CHOOSE i \in Inputs : TRUE) \in Inputs
    BY Zenon, SomeKey, InputsAssumption
  <2> QED
    BY <2>1, <2>2, DelayAssumption
    DEF Init, TypeOK, Call, Pending, None, Answers, Off
<1>2. ChannelsInOnePlace
  BY DEF Init, ChannelsInOnePlace, Waits, Once, None
<1>3. TimerWhilePending
  BY Zenon DEF Init, TimerWhilePending, IsPending, None, Off
<1>4. MergeServesCallers
  BY DEF Init, MergeServesCallers, InputServes, None
<1> QED
  BY Zenon, <1>1, <1>2, <1>3, <1>4 DEF IInv, Init, WaitedForTimer

-----------------------------------------------------------------------------
(* The steps *)

\* A merged input serves its callers as long as they keep their keys and inputs.
LEMMA ServesStable ==
    ASSUME NEW a, NEW b, NEW p, NEW k, InputServes(a, p, k, MergedFields),
           \A j \in DOMAIN p.resultChannels :
              /\ b[p.resultChannels[j]].key = a[p.resultChannels[j]].key
              /\ b[p.resultChannels[j]].input = a[p.resultChannels[j]].input
    PROVE  InputServes(b, p, k, MergedFields)
BY ZenonT(60) DEF InputServes

\* The channels are those of callers.
LEMMA Channels ==
    ASSUME TypeOK
    PROVE  /\ \A k \in Keys : /\ pendingInputs[k].resultChannels \in Seq(Callers)
                             /\ \A j \in DOMAIN pendingInputs[k].resultChannels :
                                   pendingInputs[k].resultChannels[j] \in Callers
           /\ \A e \in executing : /\ e.resultChannels \in Seq(Callers)
                                  /\ \A j \in DOMAIN e.resultChannels :
                                        e.resultChannels[j] \in Callers
BY DEF TypeOK, Pending, Execution

\* A step that moves no channel and changes neither key nor input of a caller that waits.
LEMMA CallerStep ==
    ASSUME IInv, NEW c \in Callers, call[c].pc # "wait", NEW new \in Call, new.pc # "wait",
           call' = [call EXCEPT ![c] = new],
           UNCHANGED <<pendingInputs, timer, waited, executing>>
    PROVE  IInv'
<1>1. TypeOK'
  BY Zenon DEF IInv, TypeOK
<1>2. \A d \in Callers : call[d].pc = "wait" => call'[d] = call[d]
  BY Zenon DEF IInv, TypeOK
<1>3. \A d \in Callers : call'[d].pc = "wait" <=> call[d].pc = "wait"
  BY Zenon DEF IInv, TypeOK
<1>4. ChannelsInOnePlace'
  BY <1>3 DEF IInv, ChannelsInOnePlace, Waits, Once
<1>5. TimerWhilePending'
  BY Zenon DEF IInv, TimerWhilePending, IsPending
<1>6. MergeServesCallers'
  <2>1. ASSUME NEW k \in Keys PROVE InputServes(call', pendingInputs'[k], k, MergedFields)
    <3>1. \A j \in DOMAIN pendingInputs[k].resultChannels :
             call'[pendingInputs[k].resultChannels[j]] = call[pendingInputs[k].resultChannels[j]]
      <4> TAKE j \in DOMAIN pendingInputs[k].resultChannels
      <4>1. pendingInputs[k].resultChannels[j] \in Callers
        BY DEF IInv, TypeOK, Pending
      <4>2. Waits(pendingInputs[k], pendingInputs[k].resultChannels[j])
        BY Zenon DEF Waits
      <4>3. call[pendingInputs[k].resultChannels[j]].pc = "wait"
        BY <4>1, <4>2, Zenon DEF IInv, ChannelsInOnePlace
      <4> QED
        BY Zenon, <4>1, <4>3, <1>2
    <3> QED
      BY Zenon, <3>1, ServesStable DEF IInv, MergeServesCallers
  <2>2. ASSUME NEW e \in executing PROVE InputServes(call', e, e.key, MergedFields)
    <3>1. \A j \in DOMAIN e.resultChannels : call'[e.resultChannels[j]] = call[e.resultChannels[j]]
      <4> TAKE j \in DOMAIN e.resultChannels
      <4>1. e.resultChannels[j] \in Callers
        BY DEF IInv, TypeOK, Execution
      <4>2. Waits(e, e.resultChannels[j])
        BY Zenon DEF Waits
      <4>3. call[e.resultChannels[j]].pc = "wait"
        BY <4>1, <4>2, Zenon DEF IInv, ChannelsInOnePlace
      <4> QED
        BY Zenon, <4>1, <4>3, <1>2
    <3> QED
      BY Zenon, <3>1, ServesStable DEF IInv, MergeServesCallers
  <2> QED
    BY Zenon, <2>1, <2>2 DEF MergeServesCallers
<1> QED
  BY Zenon, <1>1, <1>4, <1>5, <1>6 DEF IInv, WaitedForTimer

\* A caller asks: CallerStep.
LEMMA CoalesceIInv ==
    ASSUME IInv, NEW c \in Callers, NEW k \in Keys, NEW i \in Inputs, Coalesce(c, k, i)
    PROVE  IInv'
<1> DEFINE new == [pc |-> "coalesce", key |-> k, input |-> i, answer |-> "none"]
<1>1. new \in Call /\ new.pc # "wait"
  BY Zenon DEF Call, Answers
<1>2. call[c].pc # "wait" /\ call' = [call EXCEPT ![c] = new]
  BY Zenon DEF Coalesce
<1> QED
  BY Zenon, <1>1, <1>2, CallerStep DEF Coalesce

\* An input that does not merge is answered: CallerStep.
LEMMA RejectIInv ==
    ASSUME IInv, NEW c \in Callers, Reject(c)
    PROVE  IInv'
<1> DEFINE new == [call[c] EXCEPT !.pc = "idle", !.answer = "Different"]
<1>1. new \in Call /\ new.pc # "wait"
  BY Zenon DEF IInv, TypeOK, Call, Answers, Errors
<1>2. call[c].pc # "wait" /\ call' = [call EXCEPT ![c] = new]
  BY Zenon DEF Reject, IInv, TypeOK, Call
<1> QED
  BY Zenon, <1>1, <1>2, CallerStep DEF Reject

\* Append adds one channel at the end.
LEMMA AppendWaits ==
    ASSUME NEW s \in Seq(Callers), NEW c \in Callers
    PROVE  /\ Append(s, c) \in Seq(Callers) /\ Append(s, c) # <<>>
           /\ \A j \in DOMAIN Append(s, c) :
                \/ j = Len(s) + 1 /\ Append(s, c)[j] = c
                \/ j \in DOMAIN s /\ Append(s, c)[j] = s[j]
           /\ \A d : (\E j \in DOMAIN Append(s, c) : Append(s, c)[j] = d)
                   <=> (d = c \/ \E j \in DOMAIN s : s[j] = d)
<1>1. /\ DOMAIN Append(s, c) = 1..(Len(s) + 1) /\ DOMAIN s = 1..Len(s) /\ Len(s) \in Nat
      /\ \A j \in 1..Len(s) : Append(s, c)[j] = s[j]
      /\ Append(s, c)[Len(s) + 1] = c
  OBVIOUS
<1>2. \A j \in DOMAIN s : j \in DOMAIN Append(s, c)
  BY <1>1
<1>3. Len(s) + 1 \in DOMAIN Append(s, c)
  BY <1>1
<1>4. \A j \in DOMAIN Append(s, c) : j = Len(s) + 1 \/ j \in DOMAIN s
  BY <1>1
<1> QED
  BY <1>1, <1>2, <1>3, <1>4

\* An entry with one more channel.
LEMMA AddChannel ==
    ASSUME NEW p, NEW q, NEW c \in Callers, p.resultChannels \in Seq(Callers),
           q.resultChannels = Append(p.resultChannels, c)
    PROVE  /\ q.resultChannels \in Seq(Callers) /\ q.resultChannels # <<>>
           /\ \A j \in DOMAIN q.resultChannels :
                \/ q.resultChannels[j] = c
                \/ j \in DOMAIN p.resultChannels /\ q.resultChannels[j] = p.resultChannels[j]
           /\ \A d \in Callers : Waits(q, d) <=> (d = c \/ Waits(p, d))
           /\ Once(p) /\ ~Waits(p, c) => Once(q)
<1> DEFINE s == p.resultChannels
           t == Append(s, c)
<1>1. s \in Seq(Callers) /\ q.resultChannels = t
  OBVIOUS
<1>2. /\ t \in Seq(Callers) /\ t # <<>>
      /\ \A j \in DOMAIN t : \/ j = Len(s) + 1 /\ t[j] = c
                             \/ j \in DOMAIN s /\ t[j] = s[j]
      /\ \A d : (\E j \in DOMAIN t : t[j] = d) <=> (d = c \/ \E j \in DOMAIN s : s[j] = d)
  BY Zenon, <1>1, AppendWaits
<1> HIDE DEF t
<1>3. \A d \in Callers : Waits(q, d) <=> (d = c \/ Waits(p, d))
  BY Zenon, <1>1, <1>2 DEF Waits
<1>4. ASSUME Once(p), ~Waits(p, c) PROVE Once(q)
  BY <1>1, <1>2, <1>4 DEF Waits, Once
<1> QED
  BY Zenon, <1>1, <1>2, <1>3, <1>4

\* An input is received: its channel is new in the entry, and the entry serves it.
LEMMA ReceiveIInv ==
    ASSUME IInv, NEW c \in Callers, Receive(c)
    PROVE  IInv'
<1> DEFINE k == call[c].key
           p == pendingInputs[k]
           q == Add(c, k)
<1>1. /\ k \in Keys /\ call[c] \in Call /\ call[c].input \in Request
      /\ p \in Pending /\ p.resultChannels \in Seq(Callers) /\ p.input \in Request
  BY Zenon, InputsAssumption DEF IInv, TypeOK, Call, Pending
<1>2. q.resultChannels = Append(p.resultChannels, c)
  BY Zenon DEF Add
<1>3. q.input \in Request
  BY Zenon, <1>1, MergedType DEF Add
<1>4. q \in Pending
  BY Zenon, <1>1, <1>2, <1>3, AppendWaits DEF Pending, Add
<1>5. pendingInputs' = [pendingInputs EXCEPT ![k] = q] /\ UNCHANGED <<waited, executing>>
  BY Zenon DEF Receive
<1>6. pendingInputs'[k] = q /\ \A l \in Keys : l # k => pendingInputs'[l] = pendingInputs[l]
  BY Zenon, <1>1, <1>5 DEF IInv, TypeOK
<1>7. /\ call' \in [Callers -> Call]
      /\ call'[c].pc = "wait"
      /\ \A d \in Callers : d # c => call'[d] = call[d]
      /\ \A d \in Callers : call'[d].key = call[d].key /\ call'[d].input = call[d].input
  BY Zenon, <1>1 DEF Receive, IInv, TypeOK, Call
<1>8. timer' = StartTimer(k) /\ timer' \in [Keys -> 0..Delay \cup {Off}]
  BY <1>1, DelayAssumption DEF Receive, StartTimer, IInv, TypeOK
<1>9. TypeOK'
  BY Zenon, <1>4, <1>5, <1>7, <1>8, <1>1 DEF IInv, TypeOK
<1>10. \A d \in Callers : Waits(q, d) <=> (d = c \/ Waits(p, d))
  <2> HIDE DEF p, q
  <2> QED
    BY ZenonT(60), <1>1, <1>2, AddChannel
<1>11. ~Waits(p, c) /\ \A l \in Keys : ~Waits(pendingInputs[l], c)
  BY <1>1, Zenon DEF IInv, ChannelsInOnePlace, Receive
<1>12. \A e \in executing : ~Waits(e, c)
  BY <1>1, Zenon DEF IInv, ChannelsInOnePlace, Receive
<1>13. Once(q)
  <2>1. Once(p)
    BY <1>1, Zenon DEF IInv, ChannelsInOnePlace
  <2> HIDE DEF p, q
  <2> QED
    BY Zenon, <2>1, <1>1, <1>2, <1>11, AddChannel
<1>14. ChannelsInOnePlace'
  <2>1. \A d \in Callers, l \in Keys :
          Waits(pendingInputs'[l], d) <=> Waits(pendingInputs[l], d) \/ (l = k /\ d = c)
    BY Zenon, <1>6, <1>10
  <2>2. \A d \in Callers : call'[d].pc = "wait" <=> (d = c \/ call[d].pc = "wait")
    BY Zenon, <1>7
  <2>3. \A l \in Keys : Once(pendingInputs'[l])
    BY Zenon, <1>6, <1>13 DEF IInv, ChannelsInOnePlace
  <2>4. \A d \in Callers : call'[d].pc = "wait" <=>
          (\E l \in Keys : Waits(pendingInputs'[l], d)) \/ (\E e \in executing : Waits(e, d))
    BY Zenon, <2>1, <2>2, <1>1 DEF IInv, ChannelsInOnePlace
  <2>5. \A d \in Callers, l, m \in Keys :
          Waits(pendingInputs'[l], d) /\ Waits(pendingInputs'[m], d) => l = m
    BY <2>1, <1>11 DEF IInv, ChannelsInOnePlace
  <2>6. \A d \in Callers, l \in Keys, e \in executing :
          ~(Waits(pendingInputs'[l], d) /\ Waits(e, d))
    BY <2>1, <1>12 DEF IInv, ChannelsInOnePlace
  <2> QED
    <3>1. executing' = executing
      BY Zenon, <1>5
    <3>2. \A e \in executing : Once(e)
      BY Zenon DEF IInv, ChannelsInOnePlace
    <3>3. \A d \in Callers, e, g \in executing : Waits(e, d) /\ Waits(g, d) => e = g
      BY Zenon DEF IInv, ChannelsInOnePlace
    <3> QED
      BY Zenon, <2>3, <2>4, <2>5, <2>6, <3>1, <3>2, <3>3 DEF ChannelsInOnePlace
<1>15. TimerWhilePending'
  <2>1. q.resultChannels # <<>>
    <3> HIDE DEF p, q
    <3> QED
      BY Zenon, <1>1, <1>2, AddChannel
  <2>2. timer'[k] # Off
    BY <1>1, <1>8, DelayAssumption DEF StartTimer, IInv, TypeOK, TimerWhilePending, Off
  <2>3. \A l \in Keys : l # k => timer'[l] = timer[l]
    BY Zenon, <1>1, <1>8 DEF StartTimer, IInv, TypeOK
  <2> QED
    BY Zenon, <2>1, <2>2, <2>3, <1>6 DEF IInv, TimerWhilePending, IsPending
<1>16. MergeServesCallers'
  <2>1. ASSUME NEW l \in Keys, l # k PROVE InputServes(call', pendingInputs'[l], l, MergedFields)
    BY <2>1, <1>6, <1>7, Channels, ServesStable DEF IInv, MergeServesCallers
  <2>2. ASSUME NEW e \in executing PROVE InputServes(call', e, e.key, MergedFields)
    BY Zenon, <1>7, Channels, ServesStable DEF IInv, MergeServesCallers
  <2>3. \A f \in MergedFields : Asks(call[c].input, f) => q.input[f] = call[c].input[f]
    BY Zenon, <1>1, MergedTakes DEF Add
  <2>4. IsPending(k) =>
          \A f \in MergedFields : Asks(p.input, f) => q.input[f] = p.input[f]
    BY Zenon, <1>1, MergedKeeps DEF Add, Receive
  <2>5. InputServes(call, p, k, MergedFields)
    BY Zenon, <1>1 DEF IInv, MergeServesCallers
  <2>6. ASSUME NEW j \in DOMAIN q.resultChannels, NEW f \in MergedFields
        PROVE  LET d == q.resultChannels[j] IN
               d \in Callers /\ call[d].key = k
               /\ (Asks(call[d].input, f) => q.input[f] = call[d].input[f])
    <3>1. CASE q.resultChannels[j] = c
      BY Zenon, <3>1, <2>3
    <3>2. CASE q.resultChannels[j] # c
      <4>1. /\ j \in DOMAIN p.resultChannels
            /\ q.resultChannels[j] = p.resultChannels[j]
        <5> HIDE DEF p, q
        <5> QED
          BY <3>2, <1>1, <1>2, AddChannel
      <4>4. p.resultChannels[j] \in Callers
        BY <4>1, <1>1
      <4>2. IsPending(k)
        BY <4>1 DEF IsPending
      <4>3. /\ call[p.resultChannels[j]].key = k
            /\ Asks(call[p.resultChannels[j]].input, f) =>
                  p.input[f] = call[p.resultChannels[j]].input[f]
        BY Zenon, <4>1, <2>5 DEF InputServes
      <4> QED
        BY Zenon, <4>1, <4>2, <4>3, <4>4, <2>4 DEF Asks
    <3> QED
      BY Zenon, <3>1, <3>2
  <2>7. "newSize" \in MergedFields
    BY Zenon DEF MergedFields
  <2>8. InputServes(call', pendingInputs'[k], k, MergedFields)
    <3>1. pendingInputs'[k] = q
      BY Zenon, <1>1, <1>6
    <3>2. \A d \in Callers : call'[d].key = call[d].key /\ call'[d].input = call[d].input
      BY Zenon, <1>7
    <3> HIDE DEF p, q
    <3>3. InputServes(call', q, k, MergedFields)
      BY Zenon, <2>6, <2>7, <3>2 DEF InputServes
    <3> QED
      BY Zenon, <3>1, <3>3
  <2> QED
    BY <2>1, <2>2, <2>8, <1>5, ZenonT(60) DEF MergeServesCallers
<1>17. WaitedForTimer'
  BY <1>1, <1>5, <1>8, DelayAssumption
  DEF IInv, TypeOK, WaitedForTimer, TimerWhilePending, StartTimer, Off
<1> QED
  BY Zenon, <1>5, <1>9, <1>14, <1>15, <1>16, <1>17 DEF IInv

\* The timer fires: the entry of the key becomes an execution.
LEMMA TimerFiresIInv ==
    ASSUME IInv, NEW k \in Keys, TimerFires(k)
    PROVE  IInv'
<1> DEFINE p == pendingInputs[k]
           n == [key |-> k, input |-> p.input, resultChannels |-> p.resultChannels,
                 result |-> "none"]
<1>1. p \in Pending /\ p.resultChannels # <<>>
  BY DEF TimerFires, IInv, TypeOK, TimerWhilePending, IsPending, Off
<1>2. /\ executing' = executing \cup {n} /\ call' = call
      /\ pendingInputs' = [pendingInputs EXCEPT ![k] = None]
      /\ timer' = [timer EXCEPT ![k] = Off] /\ waited' = [waited EXCEPT ![k] = 0]
  BY Zenon DEF TimerFires
<1>3. n \in Execution /\ n.key = k /\ n.input = p.input /\ n.resultChannels = p.resultChannels
  BY Zenon, <1>1 DEF Execution, Pending, Answers
<1>4. None \in Pending /\ None.resultChannels = <<>>
  BY DEF None, Pending, Nothing, Request, NoTags, Tags
<1>5. TypeOK'
  BY Zenon, <1>2, <1>3, <1>4 DEF IInv, TypeOK
<1>6. pendingInputs'[k] = None /\ \A l \in Keys : l # k => pendingInputs'[l] = pendingInputs[l]
  BY Zenon, <1>2 DEF IInv, TypeOK
<1>7. \A d \in Callers : (Waits(n, d) <=> Waits(p, d)) /\ ~Waits(None, d)
  BY <1>3, <1>4 DEF Waits
<1>8. Once(n) /\ Once(None)
  BY <1>3, <1>4 DEF Once, IInv, ChannelsInOnePlace
<1> HIDE DEF n
<1>9. ChannelsInOnePlace'
  <2>1. \A d \in Callers : call'[d].pc = "wait" <=>
          (\E l \in Keys : Waits(pendingInputs'[l], d)) \/ (\E e \in executing' : Waits(e, d))
    BY <1>2, <1>6, <1>7 DEF IInv, ChannelsInOnePlace
  <2>2. (\A l \in Keys : Once(pendingInputs'[l])) /\ (\A e \in executing' : Once(e))
    BY Zenon, <1>2, <1>6, <1>8 DEF IInv, ChannelsInOnePlace
  <2>3. \A d \in Callers, l, m \in Keys :
          Waits(pendingInputs'[l], d) /\ Waits(pendingInputs'[m], d) => l = m
    BY Zenon, <1>6, <1>7 DEF IInv, ChannelsInOnePlace
  <2>4. \A d \in Callers, a, b \in executing' : Waits(a, d) /\ Waits(b, d) => a = b
    BY <1>2, <1>7 DEF IInv, ChannelsInOnePlace
  <2>5. \A d \in Callers, l \in Keys, e \in executing' :
          ~(Waits(pendingInputs'[l], d) /\ Waits(e, d))
    BY <1>2, <1>6, <1>7 DEF IInv, ChannelsInOnePlace
  <2> QED
    BY Zenon, <2>1, <2>2, <2>3, <2>4, <2>5 DEF ChannelsInOnePlace, Waits, Once
<1>10. TimerWhilePending'
  BY Zenon, <1>2, <1>4, <1>6 DEF IInv, TypeOK, TimerWhilePending, IsPending
<1>11. MergeServesCallers'
  <2>1. InputServes(call, n, n.key, MergedFields) /\ InputServes(call, None, k, MergedFields)
    BY <1>3, <1>4 DEF IInv, MergeServesCallers, InputServes
  <2>2. \A l \in Keys : InputServes(call', pendingInputs'[l], l, MergedFields)
    BY Zenon, <2>1, <1>2, <1>6 DEF IInv, MergeServesCallers
  <2>3. \A e \in executing' : InputServes(call', e, e.key, MergedFields)
    BY Zenon, <2>1, <1>2 DEF IInv, MergeServesCallers
  <2> QED
    BY <2>2, <2>3, Zenon DEF MergeServesCallers
<1>12. WaitedForTimer'
  BY Zenon, <1>2 DEF IInv, TypeOK, WaitedForTimer
<1> QED
  BY Zenon, <1>1, <1>2, <1>3, <1>5, <1>9, <1>10, <1>11, <1>12 DEF IInv

\* Time passes, with every timer that has not fired.
LEMMA TickIInv ==
    ASSUME IInv, Tick
    PROVE  IInv'
<1>1. TypeOK'
  BY DelayAssumption DEF IInv, TypeOK, Tick, Off
<1>2. TimerWhilePending'
  BY DelayAssumption DEF IInv, TypeOK, TimerWhilePending, IsPending, Tick, Off
<1>3. ChannelsInOnePlace' /\ MergeServesCallers'
  <2>1. UNCHANGED <<call, pendingInputs, executing>>
    BY Zenon DEF Tick
  <2>2. ChannelsInOnePlace'
    BY Zenon, <2>1 DEF IInv, ChannelsInOnePlace
  <2>3. MergeServesCallers'
    BY Zenon, <2>1 DEF IInv, MergeServesCallers
  <2> QED
    BY Zenon, <2>2, <2>3
<1>4. WaitedForTimer'
  BY DelayAssumption DEF IInv, TypeOK, WaitedForTimer, Tick, Off
<1> QED
  BY Zenon, <1>1, <1>2, <1>3, <1>4 DEF IInv, Tick

\* executeFunction returns: the channels stay where they are.
LEMMA ExecuteIInv ==
    ASSUME IInv, NEW e \in executing, Execute(e)
    PROVE  IInv'
<1>1. PICK r \in Answers : Finish(e, r)
  BY Zenon DEF Execute
<1> DEFINE n == [e EXCEPT !.result = r]
<1>2. /\ executing' = (executing \ {e}) \cup {n}
      /\ UNCHANGED <<call, pendingInputs, timer, waited>>
  BY Zenon, <1>1 DEF Finish, Execute
<1>3. n \in Execution /\ n.key = e.key /\ n.input = e.input /\ n.resultChannels = e.resultChannels
  BY Zenon DEF IInv, TypeOK, Execution
<1> HIDE DEF n
<1>4. TypeOK'
  BY Zenon, <1>2, <1>3 DEF IInv, TypeOK
<1>5. (\A d \in Callers : Waits(n, d) <=> Waits(e, d)) /\ Once(n)
  BY <1>3 DEF Waits, Once, IInv, ChannelsInOnePlace
<1>6. ChannelsInOnePlace'
  <2>1. \A d \in Callers : (\E a \in executing' : Waits(a, d)) <=> (\E a \in executing : Waits(a, d))
    BY Zenon, <1>2, <1>5
  <2>2. \A a \in executing' : Once(a)
    BY Zenon, <1>2, <1>5 DEF IInv, ChannelsInOnePlace
  <2>3. \A d \in Callers, a, b \in executing' : Waits(a, d) /\ Waits(b, d) => a = b
    BY <1>2, <1>5 DEF IInv, ChannelsInOnePlace
  <2>4. \A d \in Callers, l \in Keys, a \in executing' :
          ~(Waits(pendingInputs[l], d) /\ Waits(a, d))
    BY Zenon, <1>2, <1>5 DEF IInv, ChannelsInOnePlace
  <2> QED
    BY <2>1, <2>2, <2>3, <2>4, <1>2 DEF IInv, ChannelsInOnePlace, Waits, Once
<1>7. TimerWhilePending'
  BY Zenon, <1>2 DEF IInv, TimerWhilePending, IsPending
<1>8. MergeServesCallers'
  <2>1. InputServes(call, n, n.key, MergedFields)
    BY <1>3 DEF IInv, MergeServesCallers, InputServes
  <2> QED
    BY Zenon, <2>1, <1>2 DEF IInv, MergeServesCallers
<1> QED
  BY Zenon, <1>2, <1>3, <1>4, <1>6, <1>7, <1>8 DEF IInv, WaitedForTimer

\* Tail takes the first channel away.
LEMMA TailWaits ==
    ASSUME NEW p, NEW q, p.resultChannels \in Seq(Callers), p.resultChannels # <<>>,
           q.resultChannels = Tail(p.resultChannels), Once(p)
    PROVE  /\ Head(p.resultChannels) \in Callers
           /\ q.resultChannels \in Seq(Callers)
           /\ Once(q)
           /\ \A j \in DOMAIN q.resultChannels :
                 j + 1 \in DOMAIN p.resultChannels /\ q.resultChannels[j] = p.resultChannels[j + 1]
           /\ \A d : Waits(p, d) <=> (d = Head(p.resultChannels) \/ Waits(q, d))
           /\ ~Waits(q, Head(p.resultChannels))
<1> DEFINE s == p.resultChannels
           t == Tail(s)
<1>1. /\ s \in Seq(Callers) /\ s # <<>> /\ q.resultChannels = t
      /\ Len(s) \in Nat /\ Len(s) > 0 /\ DOMAIN s = 1..Len(s)
      /\ Head(s) = s[1] /\ s[1] \in Callers
      /\ t \in Seq(Callers) /\ DOMAIN t = 1..(Len(s) - 1)
      /\ \A j \in 1..(Len(s) - 1) : t[j] = s[j + 1]
  OBVIOUS
<1> HIDE DEF t
<1>2. Once(q)
  <2>1. \A i, j \in DOMAIN s : s[i] = s[j] => i = j
    BY Zenon DEF Once
  <2>2. ASSUME NEW i \in DOMAIN t, NEW j \in DOMAIN t, t[i] = t[j] PROVE i = j
    <3>1. i + 1 \in DOMAIN s /\ j + 1 \in DOMAIN s
      BY <1>1
    <3>2. s[i + 1] = s[j + 1]
      BY Zenon, <1>1, <2>2
    <3>3. i + 1 = j + 1
      BY Zenon, <2>1, <3>1, <3>2
    <3> QED
      BY <1>1, <3>3
  <2> QED
    BY Zenon, <1>1, <2>2 DEF Once
<1>3. \A j \in DOMAIN t : j + 1 \in DOMAIN s /\ t[j] = s[j + 1] /\ j + 1 # 1
  BY <1>1
<1>4. \A j \in DOMAIN s : j = 1 \/ (j - 1 \in DOMAIN t /\ t[j - 1] = s[j])
  BY <1>1
<1>5. \A d : Waits(p, d) <=> (d = Head(s) \/ Waits(q, d))
  <2> TAKE d
  <2>1. ASSUME NEW j \in DOMAIN s, s[j] = d PROVE d = Head(s) \/ \E i \in DOMAIN t : t[i] = d
    BY Zenon, <1>1, <1>4, <2>1
  <2>2. ASSUME NEW j \in DOMAIN t, t[j] = d PROVE \E i \in DOMAIN s : s[i] = d
    BY Zenon, <1>3, <2>2
  <2>3. \E i \in DOMAIN s : s[i] = Head(s)
    BY <1>1
  <2> QED
    BY Zenon, <1>1, <2>1, <2>2, <2>3 DEF Waits
<1>6. ~Waits(q, Head(s))
  BY <1>1, <1>3 DEF Waits, Once
<1> QED
  BY Zenon, <1>1, <1>2, <1>3, <1>5, <1>6

\* A result is sent: the channel of its caller is nowhere else and leaves the execution.
LEMMA SendIInv ==
    ASSUME IInv, NEW e \in executing, Send(e)
    PROVE  IInv'
<1> DEFINE c == Head(e.resultChannels)
           rest == Tail(e.resultChannels)
           n == [e EXCEPT !.resultChannels = rest]
           N == IF rest = <<>> THEN {} ELSE {n}
<1>1. /\ e \in Execution /\ e.resultChannels \in Seq(Callers) /\ e.resultChannels # <<>>
      /\ Once(e)
  BY Zenon DEF IInv, TypeOK, Execution, ChannelsInOnePlace
<1>2. n.resultChannels = Tail(e.resultChannels) /\ n.key = e.key /\ n.input = e.input
  BY Zenon, <1>1 DEF Execution
<1>3. /\ c \in Callers /\ rest \in Seq(Callers) /\ Once(n)
      /\ \A j \in DOMAIN n.resultChannels :
            j + 1 \in DOMAIN e.resultChannels /\ n.resultChannels[j] = e.resultChannels[j + 1]
      /\ \A d : Waits(e, d) <=> (d = c \/ Waits(n, d))
      /\ ~Waits(n, c)
  <2> HIDE DEF n
  <2>1. /\ Head(e.resultChannels) \in Callers
        /\ n.resultChannels \in Seq(Callers)
        /\ Once(n)
        /\ \A j \in DOMAIN n.resultChannels :
              j + 1 \in DOMAIN e.resultChannels /\ n.resultChannels[j] = e.resultChannels[j + 1]
        /\ \A d : Waits(e, d) <=> (d = Head(e.resultChannels) \/ Waits(n, d))
        /\ ~Waits(n, Head(e.resultChannels))
    BY <1>1, <1>2, TailWaits, Zenon
  <2> QED
    BY <2>1, <1>2, Zenon
<1>4. n \in Execution
  BY Zenon, <1>1, <1>3 DEF Execution
<1>5. /\ executing' = (executing \ {e}) \cup N
      /\ call' = [call EXCEPT ![c].pc = "idle", ![c].answer = e.result]
      /\ UNCHANGED <<pendingInputs, timer, waited>>
  BY Zenon DEF Send
<1>6. rest = <<>> => \A d : ~Waits(n, d)
  BY <1>2 DEF Waits
<1> DEFINE new == [call[c] EXCEPT !.pc = "idle", !.answer = e.result]
<1>6a. /\ call' = [call EXCEPT ![c] = new] /\ new \in Call
       /\ new.pc = "idle" /\ new.key = call[c].key /\ new.input = call[c].input
  <2> HIDE DEF c
  <2>1. call[c] \in Call /\ e.result \in Answers
    BY Zenon, <1>1, <1>3 DEF IInv, TypeOK, Execution
  <2>2. call' = [call EXCEPT ![c] = new]
    BY Zenon, <1>3, <1>5, <2>1 DEF IInv, TypeOK, Call
  <2> QED
    BY Zenon, <2>1, <2>2 DEF Call
<1>6b. \A a \in executing' : a = n \/ (a \in executing /\ a # e)
  BY Zenon, <1>5
<1> HIDE DEF n, rest, c, new
<1>7. /\ call' \in [Callers -> Call] /\ call'[c].pc = "idle"
      /\ \A d \in Callers : d # c => call'[d] = call[d]
      /\ \A d \in Callers : call'[d].key = call[d].key /\ call'[d].input = call[d].input
  BY Zenon, <1>3, <1>6a DEF IInv, TypeOK
<1>8. TypeOK'
  BY Zenon, <1>4, <1>5, <1>7 DEF IInv, TypeOK
<1>9. /\ \A l \in Keys : ~Waits(pendingInputs[l], c)
      /\ \A a \in executing : a # e => ~Waits(a, c)
  BY Zenon, <1>3 DEF IInv, ChannelsInOnePlace
<1>10. \A d \in Callers, a \in executing' :
          Waits(a, d) => (d # c /\ ((a \in executing /\ a # e) \/ (a = n /\ Waits(e, d))))
  <2> TAKE d \in Callers, a \in executing'
  <2>1. CASE a = n
    BY <2>1, <1>3, Zenon
  <2>2. CASE a \in executing /\ a # e
    BY <2>2, <1>9, Zenon
  <2> QED
    BY Zenon, <2>1, <2>2, <1>6b
<1>11. ChannelsInOnePlace'
  <2>1. \A d \in Callers : call'[d].pc = "wait" <=> (call[d].pc = "wait" /\ d # c)
    BY <1>3, <1>7
  <2>2. \A d \in Callers : (\E a \in executing' : Waits(a, d))
                             <=> (d # c /\ \E a \in executing : Waits(a, d))
    BY Zenon, <1>3, <1>5, <1>6, <1>9
  <2>3. \A d \in Callers : call'[d].pc = "wait" <=>
          (\E l \in Keys : Waits(pendingInputs[l], d)) \/ (\E a \in executing' : Waits(a, d))
    BY <2>1, <2>2, <1>9 DEF IInv, ChannelsInOnePlace
  <2>4. \A a \in executing' : Once(a)
    BY Zenon, <1>3, <1>5 DEF IInv, ChannelsInOnePlace
  <2>5. \A d \in Callers, a, b \in executing' : Waits(a, d) /\ Waits(b, d) => a = b
    BY <1>10 DEF IInv, ChannelsInOnePlace
  <2>6. \A d \in Callers, l \in Keys, a \in executing' :
          ~(Waits(pendingInputs[l], d) /\ Waits(a, d))
    BY Zenon, <1>10 DEF IInv, ChannelsInOnePlace
  <2>7. pendingInputs' = pendingInputs
    BY Zenon, <1>5
  <2> QED
    BY <2>3, <2>4, <2>5, <2>6, <2>7 DEF IInv, ChannelsInOnePlace
<1>12. TimerWhilePending' /\ WaitedForTimer'
  BY Zenon, <1>5 DEF IInv, TimerWhilePending, IsPending, WaitedForTimer
<1>13. MergeServesCallers'
  <2>1. InputServes(call, n, n.key, MergedFields)
    <3>1. InputServes(call, e, e.key, MergedFields)
      BY Zenon DEF IInv, MergeServesCallers
    <3> QED
      BY <3>1, <1>2, <1>3 DEF InputServes
  <2>2. \A j \in DOMAIN n.resultChannels : n.resultChannels[j] \in Callers
    BY <1>4 DEF Execution
  <2>3. InputServes(call', n, n.key, MergedFields)
    BY <2>1, <2>2, <1>7, ServesStable
  <2>4. \A l \in Keys : InputServes(call', pendingInputs[l], l, MergedFields)
    BY <1>7, Channels, ServesStable DEF IInv, MergeServesCallers
  <2>5. \A a \in executing : InputServes(call', a, a.key, MergedFields)
    BY <1>7, Channels, ServesStable DEF IInv, MergeServesCallers
  <2>6. \A a \in executing' : InputServes(call', a, a.key, MergedFields)
    BY Zenon, <2>3, <2>5, <1>5
  <2> QED
    BY Zenon, <2>4, <2>6, <1>5 DEF MergeServesCallers
<1>14. \A a \in executing' : a.resultChannels # <<>>
  BY Zenon, <1>2, <1>5 DEF IInv, rest
<1> QED
  BY Zenon, <1>8, <1>11, <1>12, <1>13, <1>14 DEF IInv

-----------------------------------------------------------------------------

\* Every step of the coalescer preserves the invariant.
LEMMA NextIInv == IInv /\ [Next]_vars => IInv'
<1> SUFFICES ASSUME IInv, [Next]_vars PROVE IInv'
    OBVIOUS
<1>1. ASSUME NEW c \in Callers, NEW k \in Keys, NEW i \in Inputs, Coalesce(c, k, i) PROVE IInv'
  BY Zenon, <1>1, CoalesceIInv
<1>2. ASSUME NEW c \in Callers, Receive(c) \/ Reject(c) PROVE IInv'
  BY Zenon, <1>2, ReceiveIInv, RejectIInv
<1>3. ASSUME NEW k \in Keys, TimerFires(k) PROVE IInv'
  BY Zenon, <1>3, TimerFiresIInv
<1>4. CASE Tick
  BY Zenon, <1>4, TickIInv
<1>5. ASSUME NEW e \in executing, Execute(e) \/ Send(e) PROVE IInv'
  BY Zenon, <1>5, ExecuteIInv, SendIInv
<1>6. CASE UNCHANGED vars
  <2>1. UNCHANGED <<call, pendingInputs, timer, waited, executing>>
    BY Zenon, <1>6 DEF vars
  <2>2. TypeOK'
    BY Zenon, <2>1 DEF IInv, TypeOK
  <2>3. ChannelsInOnePlace'
    BY Zenon, <2>1 DEF IInv, ChannelsInOnePlace
  <2>4. TimerWhilePending' /\ WaitedForTimer'
    BY Zenon, <2>1 DEF IInv, TimerWhilePending, WaitedForTimer, IsPending
  <2>5. MergeServesCallers'
    BY Zenon, <2>1 DEF IInv, MergeServesCallers
  <2> QED
    BY Zenon, <2>1, <2>2, <2>3, <2>4, <2>5 DEF IInv
<1> QED
  BY Zenon, <1>1, <1>2, <1>3, <1>4, <1>5, <1>6 DEF Next, Thread

\* The coalescer keeps its inductive invariant.
THEOREM CoalescerInvariant == Spec => []IInv
BY InitIInv, NextIInv, PTL DEF Spec

\* coalescerThread and the executions answer every caller of Coalesce once: its channel
\* is in one place as long as the caller waits, and nowhere before and after.
THEOREM AnsweredOnce == Spec => []ChannelsInOnePlace
<1>1. IInv => ChannelsInOnePlace
  BY Zenon DEF IInv
<1> QED
  BY <1>1, CoalescerInvariant, PTL

\* An entry of pendingInputs has a timer, and a timer its entry.
THEOREM EntryHasTimer == Spec => []TimerWhilePending
<1>1. IInv => TimerWhilePending
  BY Zenon DEF IInv
<1> QED
  BY <1>1, CoalescerInvariant, PTL

\* mergeModifyVolumeRequest loses nothing of the fields it merges: what is executed has,
\* for each of them, the value that each of the callers it answers asked for.
THEOREM MergeIsFaithful == Spec => []MergeServesCallers
<1>1. IInv => MergeServesCallers
  BY Zenon DEF IInv
<1> QED
  BY <1>1, CoalescerInvariant, PTL

\* The execution for a key is due `delay` after the first input, whatever comes later.
THEOREM DelayKept == Spec => []DelayFromFirst
<1>1. IInv => DelayFromFirst
  BY DelayAssumption DEF IInv, TypeOK, WaitedForTimer, DelayFromFirst, Off
<1> QED
  BY <1>1, CoalescerInvariant, PTL

-----------------------------------------------------------------------------
(* ResizeOrModifyDisk implements the coalescer's executeFunction *)

\* What it may return.
Returned == Answers \ {"none", "Different"}

\* A step of an execution returns, or does nothing the coalescer knows of.
LEMMA ExecutionMoves ==
    ASSUME NEW e \in executing, ExecuteModifyVolumeRequest(e)
    PROVE  /\ e.result = "none" /\ UNCHANGED <<call, pendingInputs, timer, waited>>
           /\ UNCHANGED executing \/ \E r \in Returned : Returns(e, r)
<1>1. {"ok", "Internal", "NotFound", "InvalidArgument", "ResourceExhausted"} \subseteq Returned
  BY DEF Returned, Answers, Errors
<1>2. Invalid(e.input) \in Returned
  BY Zenon, <1>1 DEF Invalid
<1>3. e.result = "none" /\ UNCHANGED <<call, pendingInputs, timer, waited>>
  BY Zenon DEF ExecuteModifyVolumeRequest, DeleteTags, CreateTags, NoDisk, GetVolume, Validate,
     ValidateState, Modify, Poll, CheckDesiredState, TagsDone, At, coalescing
<1>4. ASSUME DeleteTags(e) \/ CreateTags(e) \/ NoDisk(e) \/ GetVolume(e)
      PROVE  UNCHANGED executing \/ \E r \in Returned : Returns(e, r)
  BY Zenon, <1>1, <1>4 DEF DeleteTags, CreateTags, NoDisk, GetVolume
<1>5. ASSUME Validate(e) \/ ValidateState(e) \/ Modify(e)
      PROVE  UNCHANGED executing \/ \E r \in Returned : Returns(e, r)
  BY Zenon, <1>1, <1>2, <1>5 DEF Validate, ValidateState, Modify, Goto
<1>6. ASSUME Poll(e) \/ CheckDesiredState(e)
      PROVE  UNCHANGED executing \/ \E r \in Returned : Returns(e, r)
  BY Zenon, <1>1, <1>6 DEF Poll, CheckDesiredState, Goto
<1> QED
  BY Zenon, <1>3, <1>4, <1>5, <1>6 DEF ExecuteModifyVolumeRequest

\* Every step is one of the coalescer, or changes nothing of it.
LEMMA ModifyImplements == [ModifyNext]_allVars => [Next]_vars
<1> SUFFICES ASSUME [ModifyNext]_allVars PROVE [Next]_vars
  OBVIOUS
<1>1. ASSUME NEW c \in Callers, NEW k \in Keys, NEW i \in Inputs, Coalesce(c, k, i) PROVE Next
  BY Zenon, <1>1 DEF Next
<1>2. ASSUME Thread \/ Tick \/ \E e \in executing : Send(e) PROVE Next
  BY Zenon, <1>2 DEF Next
<1>3. ASSUME NEW e \in executing, ExecuteModifyVolumeRequest(e) PROVE Next \/ UNCHANGED vars
  <2>1. CASE UNCHANGED executing
    BY Zenon, <1>3, <2>1, ExecutionMoves DEF vars
  <2>2. ASSUME NEW r \in Returned, Returns(e, r) PROVE Next
    BY Zenon, <1>3, <2>2, ExecutionMoves DEF Next, Execute, Returns, Returned
  <2> QED
    BY Zenon, <1>3, <2>1, <2>2, ExecutionMoves
<1>4. ASSUME NEW k \in Keys, Progress(k) PROVE UNCHANGED vars
  BY Zenon, <1>4 DEF Progress, vars
<1>5. ASSUME UNCHANGED allVars PROVE UNCHANGED vars
  BY Zenon, <1>5 DEF allVars, vars
<1> QED
  BY Zenon, <1>1, <1>2, <1>3, <1>4, <1>5 DEF ModifyNext

\* executeModifyVolumeRequest is an executeFunction as the coalescer expects it, however many EC2
\* calls it makes, whichever of them fails, and though the executions for a volume overlap: it
\* returns once, and never with the answer of a merge.
THEOREM ModifyImplementsCoalescer == ModifySpec => ImplementsCoalescer
<1>1. ModifyInit => Init
  BY Zenon DEF ModifyInit
<1> QED
  BY <1>1, ModifyImplements, PTL DEF ModifySpec, ImplementsCoalescer, Spec

-----------------------------------------------------------------------------
(* What the answers of ResizeOrModifyDisk say *)

WorkFields == {"pc", "seen", "IOPS", "touched"}

Shape ==
    /\ work = [c \in Callers |-> work[c]]
    /\ \A c \in Callers : work[c] = [f \in WorkFields |-> work[c][f]]

\* EC2's volumes have a size.
SizesThere ==
    /\ DOMAIN volume = Keys /\ DOMAIN mod = Keys
    /\ \A k \in Keys : volume[k].size \in Nat /\ mod[k].target.size \in Nat

\* The local variables are those of an execution that has not returned.
Resting == \A c \in Callers :
    work[c] = Idle \/ \E e \in executing : e.result = "none" /\ Leader(e) = c

Early == {"start", "deleted", "added"}

Late == {"wait", "check"}

\* Before the volume is described, options.IOPS is not set.
NoIOPS == \A c \in Callers : work[c].pc \in Early => work[c].IOPS = 0

\* What was changed before the ModifyVolume call are tags.
Touches == \A e \in executing :
    e.result = "none" /\ work[Leader(e)].touched => AsksTags(e.input) \/ work[Leader(e)].pc \in Late

ModifyInv == IInv /\ Shape /\ SizesThere /\ Resting /\ NoIOPS /\ Touches

\* The first of the callers of an execution leads no other, and none that is still to come.
LEMMA Leads ==
    ASSUME IInv, NEW e \in executing
    PROVE  /\ Leader(e) \in Callers
           /\ \A d \in executing : Leader(d) = Leader(e) => d = e
           /\ \A k \in Keys : IsPending(k) => Head(pendingInputs[k].resultChannels) # Leader(e)
<1>1. \A d \in executing : Leader(d) \in Callers /\ Waits(d, Leader(d))
  <2> SUFFICES ASSUME NEW d \in executing PROVE Leader(d) \in Callers /\ Waits(d, Leader(d))
    OBVIOUS
  <2>1. d.resultChannels \in Seq(Callers) /\ d.resultChannels # <<>>
    BY Zenon DEF IInv, TypeOK, Execution
  <2> QED
    BY <2>1 DEF Leader, Waits
<1>2. ASSUME NEW k \in Keys, IsPending(k)
      PROVE  Waits(pendingInputs[k], Head(pendingInputs[k].resultChannels))
  <2>1. pendingInputs[k].resultChannels \in Seq(Callers) /\ pendingInputs[k].resultChannels # <<>>
    BY Zenon, <1>2 DEF IInv, TypeOK, Pending, IsPending
  <2> QED
    BY <2>1 DEF Waits
<1>3. ASSUME NEW d \in executing, Leader(d) = Leader(e) PROVE d = e
  <2>1. Waits(d, Leader(e))
    BY Zenon, <1>1, <1>3
  <2> QED
    BY Zenon, <1>1, <2>1 DEF IInv, ChannelsInOnePlace
<1>4. ASSUME NEW k \in Keys, IsPending(k), Head(pendingInputs[k].resultChannels) = Leader(e)
      PROVE  FALSE
  <2>1. Waits(pendingInputs[k], Leader(e))
    BY Zenon, <1>2, <1>4
  <2> QED
    BY Zenon, <1>1, <2>1 DEF IInv, ChannelsInOnePlace
<1> QED
  BY Zenon, <1>1, <1>3, <1>4

\* An execution has one outcome.
LEMMA OneResult ==
    ASSUME IInv, NEW e \in executing, NEW d \in executing,
           d.resultChannels = e.resultChannels
    PROVE  d = e
  BY Zenon, Leads DEF Leader

\* The local variables of one execution are set.
LEMMA WorkSet ==
    ASSUME Shape, NEW c \in Callers, NEW x, work' = [work EXCEPT ![c] = x],
           x = [f \in WorkFields |-> x[f]]
    PROVE  Shape' /\ work'[c] = x /\ \A d \in Callers \ {c} : work'[d] = work[d]
<1>1. /\ work' = [d \in Callers |-> work'[d]] /\ work'[c] = x
      /\ \A d \in Callers \ {c} : work'[d] = work[d]
  BY DEF Shape
<1>2. \A d \in Callers : work'[d] = [f \in WorkFields |-> work'[d][f]]
  BY Zenon, <1>1 DEF Shape
<1> QED
  BY Zenon, <1>1, <1>2 DEF Shape, WorkFields

\* The execution goes on to p.
LEMMA PcSet ==
    ASSUME Shape, NEW c \in Callers, NEW p,
           work' = [work EXCEPT ![c].pc = p]
    PROVE  /\ Shape' /\ \A d \in Callers \ {c} : work'[d] = work[d]
           /\ work'[c].pc = p /\ work'[c].IOPS = work[c].IOPS /\ work'[c].touched = work[c].touched
<1>1. PICK x : x = [work[c] EXCEPT !.pc = p]
  BY Zenon
<1>2. work' = [work EXCEPT ![c] = x]
  BY <1>1 DEF Shape
<1>3. x = [f \in WorkFields |-> x[f]]
  BY <1>1 DEF Shape, WorkFields
<1>4. Shape' /\ work'[c] = x /\ \A d \in Callers \ {c} : work'[d] = work[d]
  BY Zenon, <1>2, <1>3, WorkSet
<1> QED
  BY <1>1, <1>4 DEF Shape, WorkFields

\* It goes on to p after EC2 changed something for it.
LEMMA TouchedSet ==
    ASSUME Shape, NEW c \in Callers, NEW p,
           work' = [work EXCEPT ![c].pc = p, ![c].touched = TRUE]
    PROVE  /\ Shape' /\ \A d \in Callers \ {c} : work'[d] = work[d]
           /\ work'[c].pc = p /\ work'[c].IOPS = work[c].IOPS
<1>1. PICK x : x = [work[c] EXCEPT !.pc = p, !.touched = TRUE]
  BY Zenon
<1>2. work' = [work EXCEPT ![c] = x]
  BY Zenon, <1>1 DEF Shape
<1>3. x = [f \in WorkFields |-> x[f]]
  BY Zenon, <1>1 DEF Shape, WorkFields
<1>4. Shape' /\ work'[c] = x /\ \A d \in Callers \ {c} : work'[d] = work[d]
  BY Zenon, <1>2, <1>3, WorkSet
<1> QED
  BY <1>1, <1>4 DEF Shape, WorkFields

\* It goes on to p with the volume described and options.IOPS set.
LEMMA SeenSet ==
    ASSUME Shape, NEW c \in Callers, NEW p, NEW s, NEW i,
           work' = [work EXCEPT ![c].pc = p, ![c].seen = s, ![c].IOPS = i]
    PROVE  /\ Shape' /\ \A d \in Callers \ {c} : work'[d] = work[d]
           /\ work'[c].pc = p /\ work'[c].IOPS = i /\ work'[c].touched = work[c].touched
<1>1. PICK x : x = [work[c] EXCEPT !.pc = p, !.seen = s, !.IOPS = i]
  BY Zenon
<1>2. work' = [work EXCEPT ![c] = x]
  BY Zenon, <1>1 DEF Shape
<1>3. x = [f \in WorkFields |-> x[f]]
  BY Zenon, <1>1 DEF Shape, WorkFields
<1>4. Shape' /\ work'[c] = x /\ \A d \in Callers \ {c} : work'[d] = work[d]
  BY Zenon, <1>2, <1>3, WorkSet
<1> QED
  BY <1>1, <1>4 DEF Shape, WorkFields

\* It goes on to p with options.IOPS set.
LEMMA IOPSSet ==
    ASSUME Shape, NEW c \in Callers, NEW p, NEW i,
           work' = [work EXCEPT ![c].pc = p, ![c].IOPS = i]
    PROVE  /\ Shape' /\ \A d \in Callers \ {c} : work'[d] = work[d]
           /\ work'[c].pc = p /\ work'[c].IOPS = i /\ work'[c].touched = work[c].touched
<1>1. PICK x : x = [work[c] EXCEPT !.pc = p, !.IOPS = i]
  BY Zenon
<1>2. work' = [work EXCEPT ![c] = x]
  BY Zenon, <1>1 DEF Shape
<1>3. x = [f \in WorkFields |-> x[f]]
  BY Zenon, <1>1 DEF Shape, WorkFields
<1>4. Shape' /\ work'[c] = x /\ \A d \in Callers \ {c} : work'[d] = work[d]
  BY Zenon, <1>2, <1>3, WorkSet
<1> QED
  BY Zenon, <1>1, <1>4 DEF Shape, WorkFields

\* It forgets its local variables.
LEMMA IdleSet ==
    ASSUME Shape, NEW c \in Callers, work' = [work EXCEPT ![c] = Idle]
    PROVE  Shape' /\ work'[c] = Idle /\ \A d \in Callers \ {c} : work'[d] = work[d]
<1>1. Idle = [f \in WorkFields |-> Idle[f]]
  BY DEF Idle, WorkFields
<1> QED
  BY Zenon, <1>1, WorkSet

\* The local variables w of an execution with input r become x.
Moves(w, x, r) ==
    /\ x.touched => w.touched \/ AsksTags(r) \/ x.pc \in Late
    /\ w.pc \in Late => x.pc \in Late
    /\ x.pc \in Early => w.pc \in Early /\ x.IOPS = w.IOPS

\* The volume has what is asked for, or is about to.
UnderWay(e) ==
    LET has(v) == HasAll(v, e.input, work[Leader(e)].IOPS)
    IN  has(volume[e.key]) \/ (mod[e.key].state = "modifying" /\ has(mod[e.key].target))

\* What an execution knows when it returns r.
Justified(e, r) ==
    /\ r \in Returned
    /\ r = "InvalidArgument" => ~AsksTags(e.input) /\ work[Leader(e)].pc \notin Late
    /\ r = "ok" => /\ UnderWay(e)
                   /\ \/ work[Leader(e)].pc = "check"
                      \/ HasAll(volume[e.key], e.input, work[Leader(e)].IOPS)

Goes(e) ==
    \/ /\ UNCHANGED executing /\ Moves(work[Leader(e)], work'[Leader(e)], e.input)
       /\ Shape' /\ \A d \in Callers \ {Leader(e)} : work'[d] = work[d]
    \/ \E r \in Returned : Justified(e, r) /\ Returns(e, r)

\* The results that say nothing.
LEMMA Failures ==
    ASSUME NEW e
    PROVE  \A r \in {"Internal", "NotFound", "ResourceExhausted"} : r \in Returned /\ Justified(e, r)
  BY DEF Justified, Returned, Answers, Errors

\* An invalid argument is one only as long as no tag was asked for.
LEMMA InvalidJustified ==
    ASSUME NEW e, work[Leader(e)].pc \notin Late
    PROVE  Invalid(e.input) \in Returned /\ Justified(e, Invalid(e.input))
  BY DEF Invalid, Justified, Returned, Answers, Errors

\* Tags that are added or deleted are asked for.
LEMMA TagsAsked ==
    ASSUME NEW r \in Request, AddsTags(r) \/ DeletesTags(r)
    PROVE  AsksTags(r)
  BY DEF AsksTags, Asks, AddsTags, DeletesTags, Nothing, NoTags

\* The calls for tags.
LEMMA TagsGo ==
    ASSUME ModifyInv, NEW e \in executing, DeleteTags(e) \/ CreateTags(e)
    PROVE  Goes(e)
<1> DEFINE c == Leader(e)
<1>1. IInv /\ Shape /\ c \in Callers
  BY Zenon, Leads DEF ModifyInv
<1>2. e.input \in Request
  BY Zenon, <1>1 DEF IInv, TypeOK, Execution
<1>3. AsksTags(e.input) /\ work[c].pc \notin Late
  BY Zenon, <1>2, TagsAsked DEF DeleteTags, CreateTags, At, Late
<1>4. CASE Returns(e, "Internal")
  BY Zenon, <1>4, Failures DEF Goes
<1>5. ASSUME NEW p, work' = [work EXCEPT ![c].pc = p, ![c].touched = TRUE], UNCHANGED executing,
             p \in {"deleted", "added"}, work[c].pc \in Early
      PROVE  Goes(e)
  <2>2. /\ Shape' /\ \A d \in Callers \ {c} : work'[d] = work[d]
        /\ work'[c].pc = p /\ work'[c].IOPS = work[c].IOPS
    BY Zenon, <1>1, <1>5, TouchedSet
  <2>3. Moves(work[c], work'[c], e.input)
    BY Zenon, <1>3, <1>5, <2>2 DEF Moves
  <2> QED
    BY Zenon, <1>5, <2>2, <2>3 DEF Goes
<1> QED
  BY Zenon, <1>4, <1>5 DEF DeleteTags, CreateTags, At, Early

\* Only tags were asked for.
LEMMA NoDiskGoes ==
    ASSUME ModifyInv, NEW e \in executing, NoDisk(e)
    PROVE  Goes(e)
<1> DEFINE c == Leader(e)
<1>1. IInv /\ Shape /\ SizesThere /\ NoIOPS /\ c \in Callers
  BY Zenon, Leads DEF ModifyInv
<1>2. e.input \in Request /\ e.key \in Keys
  BY Zenon, <1>1 DEF IInv, TypeOK, Execution
<1>3. work[c].pc \in Early /\ ~AsksDisk(e.input) /\ Returns(e, "ok")
  BY Zenon DEF NoDisk, TagsDone, At, Early
<1>4. work[c].IOPS = 0
  BY Zenon, <1>1, <1>3 DEF NoIOPS
<1>5. volume[e.key].size \in Nat
  BY Zenon, <1>1, <1>2 DEF SizesThere
<1>6. e.input.newSize = 0 /\ ~Asks(e.input, "VolumeType") /\ ~Asks(e.input, "Throughput")
  BY <1>2, <1>3 DEF AsksDisk, Asks, Nothing
<1>7. HasAll(volume[e.key], e.input, work[c].IOPS)
  BY <1>4, <1>5, <1>6 DEF HasAll
<1>8. "ok" \in Returned /\ Justified(e, "ok")
  BY <1>7 DEF Justified, UnderWay, Returned, Answers, Errors
<1> QED
  BY Zenon, <1>3, <1>8 DEF Goes

\* The volume is described.
LEMMA GetVolumeGoes ==
    ASSUME ModifyInv, NEW e \in executing, GetVolume(e)
    PROVE  Goes(e)
<1> DEFINE c == Leader(e)
<1>1. IInv /\ Shape /\ c \in Callers
  BY Zenon, Leads DEF ModifyInv
<1>2. work[c].pc \notin Late
  BY Zenon DEF GetVolume, TagsDone, At, Late
<1>3. ASSUME NEW r \in {"NotFound", "Internal"}, Returns(e, r) PROVE Goes(e)
  BY Zenon, <1>3, Failures DEF Goes
<1>4. ASSUME NEW s, NEW i, work' = [work EXCEPT ![c].pc = "validate", ![c].seen = s, ![c].IOPS = i],
             UNCHANGED executing
      PROVE  Goes(e)
  <2>2. /\ Shape' /\ \A d \in Callers \ {c} : work'[d] = work[d]
        /\ work'[c].pc = "validate" /\ work'[c].touched = work[c].touched
    BY Zenon, <1>1, <1>4, SeenSet
  <2>3. Moves(work[c], work'[c], e.input)
    BY Zenon, <1>2, <2>2 DEF Moves, Early
  <2> QED
    BY Zenon, <1>4, <2>2, <2>3 DEF Goes
<1> QED
  BY Zenon, <1>3, <1>4 DEF GetVolume

\* The volume and the IOPS are validated.
LEMMA ValidateGoes ==
    ASSUME ModifyInv, NEW e \in executing, Validate(e) \/ ValidateState(e)
    PROVE  Goes(e)
<1> DEFINE c == Leader(e)
<1>1. IInv /\ Shape /\ c \in Callers
  BY Zenon, Leads DEF ModifyInv
<1>2. work[c].pc \notin Late
  BY Zenon DEF Validate, ValidateState, At, Late
<1>3. CASE Returns(e, "Internal")
  BY Zenon, <1>3, Failures DEF Goes
<1>4. CASE Returns(e, Invalid(e.input))
  BY Zenon, <1>2, <1>4, InvalidJustified DEF Goes
<1>5. ASSUME NEW p \in {"wait", "state", "modify"}, UNCHANGED executing,
             \/ work' = [work EXCEPT ![c].pc = p]
             \/ \E i : work' = [work EXCEPT ![c].pc = p, ![c].IOPS = i]
      PROVE  Goes(e)
  <2>1. /\ Shape' /\ \A d \in Callers \ {c} : work'[d] = work[d]
        /\ work'[c].pc = p /\ work'[c].touched = work[c].touched
    <3>1. CASE work' = [work EXCEPT ![c].pc = p]
      BY Zenon, <1>1, <3>1, PcSet
    <3>2. ASSUME NEW i, work' = [work EXCEPT ![c].pc = p, ![c].IOPS = i]
          PROVE  /\ Shape' /\ \A d \in Callers \ {c} : work'[d] = work[d]
                 /\ work'[c].pc = p /\ work'[c].touched = work[c].touched
      BY Zenon, <1>1, <3>2, IOPSSet
    <3> QED
      BY Zenon, <1>5, <3>1, <3>2
  <2>2. Moves(work[c], work'[c], e.input)
    BY Zenon, <1>2, <1>5, <2>1 DEF Moves, Early
  <2> QED
    BY Zenon, <1>5, <2>1, <2>2 DEF Goes
<1>6. CASE ValidateState(e)
  BY Zenon, <1>3, <1>5, <1>6 DEF ValidateState, Goto
<1>7. CASE Validate(e)
  <2> DEFINE iops == IopsForModify(e.input, work[c].seen)
  <2>1. AfterValidate(e, iops) \in {"wait", "state", "modify"}
    BY Zenon DEF AfterValidate
  <2> HIDE DEF iops
  <2>2. \/ Returns(e, "Internal") \/ Returns(e, Invalid(e.input)) \/ Goto(e, "wait")
        \/ /\ work' = [work EXCEPT ![c].pc = AfterValidate(e, iops), ![c].IOPS = iops]
           /\ UNCHANGED executing
    BY Zenon, <1>7 DEF Validate, iops
  <2> QED
    BY Zenon, <1>3, <1>4, <1>5, <2>1, <2>2 DEF Goto
<1> QED
  BY Zenon, <1>6, <1>7

\* EC2 is asked to modify the volume.
LEMMA ModifyGoes ==
    ASSUME ModifyInv, NEW e \in executing, Modify(e)
    PROVE  Goes(e)
<1> DEFINE c == Leader(e)
<1>1. IInv /\ Shape /\ c \in Callers
  BY Zenon, Leads DEF ModifyInv
<1>2. work[c].pc \notin Late
  BY Zenon DEF Modify, At, Late
<1>3. ASSUME NEW r \in {Invalid(e.input), "ResourceExhausted", "Internal"}, Returns(e, r)
      PROVE  Goes(e)
  BY Zenon, <1>2, <1>3, Failures, InvalidJustified DEF Goes
<1>4. ASSUME NEW s, work' = [work EXCEPT ![c].pc = AfterModify(s), ![c].touched = TRUE],
             UNCHANGED executing
      PROVE  Goes(e)
  <2>1. AfterModify(s) \in Late
    BY Zenon DEF AfterModify, Late
  <2>2. /\ Shape' /\ \A d \in Callers \ {c} : work'[d] = work[d]
        /\ work'[c].pc = AfterModify(s)
    BY Zenon, <1>1, <1>4, TouchedSet
  <2>3. Moves(work[c], work'[c], e.input)
    BY Zenon, <2>1, <2>2 DEF Moves, Early, Late
  <2> QED
    BY Zenon, <1>4, <2>2, <2>3 DEF Goes
<1> QED
  BY Zenon, <1>3, <1>4 DEF Modify

\* The modification is waited for, and its outcome compared.
LEMMA WaitGoes ==
    ASSUME ModifyInv, NEW e \in executing, Poll(e) \/ CheckDesiredState(e)
    PROVE  Goes(e)
<1> DEFINE c == Leader(e)
<1>1. IInv /\ Shape /\ c \in Callers
  BY Zenon, Leads DEF ModifyInv
<1>2. ASSUME NEW r \in {"NotFound", "Internal"}, Returns(e, r) PROVE Goes(e)
  BY Zenon, <1>2, Failures DEF Goes
<1>3. CASE Goto(e, "check")
  <2>1. /\ Shape' /\ \A d \in Callers \ {c} : work'[d] = work[d]
        /\ work'[c].pc = "check"
    BY Zenon, <1>1, <1>3, PcSet DEF Goto
  <2>2. Moves(work[c], work'[c], e.input)
    BY Zenon, <2>1 DEF Moves, Early, Late
  <2> QED
    BY Zenon, <1>3, <2>1, <2>2 DEF Goes, Goto
<1>4. ASSUME NEW v \in Described(e.key), HasAll(v, e.input, work[c].IOPS), Returns(e, "ok"),
             work[c].pc = "check"
      PROVE  Goes(e)
  <2>1. v = volume[e.key] \/ (mod[e.key].state = "modifying" /\ v = mod[e.key].target)
    BY DEF Described
  <2>2. UnderWay(e)
    BY Zenon, <1>4, <2>1 DEF UnderWay
  <2>3. "ok" \in Returned /\ Justified(e, "ok")
    BY <1>4, <2>2 DEF Justified, Returned, Answers, Errors
  <2> QED
    BY Zenon, <1>4, <2>3 DEF Goes
<1>5. CASE Poll(e)
  BY Zenon, <1>2, <1>3, <1>5 DEF Poll
<1>6. CASE CheckDesiredState(e)
  <2>1. \/ \E r \in {"NotFound", "Internal"} : Returns(e, r)
        \/ \E v \in Described(e.key) : HasAll(v, e.input, work[c].IOPS) /\ Returns(e, "ok")
    BY Zenon, <1>6 DEF CheckDesiredState
  <2>2. work[c].pc = "check"
    BY Zenon, <1>6 DEF CheckDesiredState, At
  <2> QED
    BY Zenon, <1>2, <1>4, <2>1, <2>2
<1> QED
  BY Zenon, <1>5, <1>6

\* A step of an execution moves its local variables on, or returns a result that is justified.
LEMMA ExecutionGoes ==
    ASSUME ModifyInv, NEW e \in executing, ExecuteModifyVolumeRequest(e)
    PROVE  Goes(e)
  BY Zenon, TagsGo, NoDiskGoes, GetVolumeGoes, ValidateGoes, ModifyGoes, WaitGoes
     DEF ExecuteModifyVolumeRequest

\* A step of the coalescer starts only executions whose leaders have no local variables yet, and
\* ends none that has not returned.
LEMMA CoalescerSteps ==
    ASSUME ModifyInv,
           \/ \E c \in Callers, k \in Keys, i \in Inputs : Coalesce(c, k, i)
           \/ Thread
           \/ Tick
           \/ \E e \in executing : Send(e)
    PROVE  /\ \A e \in executing : e.result = "none" => e \in executing'
           /\ \A e \in executing' : e.result = "none" => e \in executing \/ work[Leader(e)] = Idle
<1>1. IInv /\ Resting
  BY Zenon DEF ModifyInv
<1>2. ASSUME UNCHANGED executing
      PROVE  /\ \A e \in executing : e.result = "none" => e \in executing'
             /\ \A e \in executing' : e.result = "none" => e \in executing \/ work[Leader(e)] = Idle
  BY Zenon, <1>2
<1>3. ASSUME NEW k \in Keys, TimerFires(k)
      PROVE  /\ \A e \in executing : e.result = "none" => e \in executing'
             /\ \A e \in executing' : e.result = "none" => e \in executing \/ work[Leader(e)] = Idle
  <2>1. PICK n : n = [key |-> k, input |-> pendingInputs[k].input,
                      resultChannels |-> pendingInputs[k].resultChannels, result |-> "none"]
    BY Zenon
  <2>2. executing' = executing \cup {n}
    BY Zenon, <1>3, <2>1 DEF TimerFires
  <2>3. IsPending(k)
    BY <1>1, <1>3 DEF IInv, TimerWhilePending, TimerFires, Off
  <2>4. pendingInputs[k].resultChannels \in Seq(Callers) /\ pendingInputs[k].resultChannels # <<>>
    BY Zenon, <1>1, <2>3 DEF IInv, TypeOK, Pending, IsPending
  <2>5. Leader(n) = Head(pendingInputs[k].resultChannels) /\ Leader(n) \in Callers
    BY <2>1, <2>4 DEF Leader
  <2>6. \A e \in executing : Leader(e) # Leader(n)
    BY Zenon, <1>1, <2>3, <2>5, Leads
  <2>7. work[Leader(n)] = Idle
    BY Zenon, <1>1, <2>5, <2>6 DEF Resting
  <2> QED
    BY Zenon, <2>2, <2>7
<1>4. ASSUME NEW d \in executing, Send(d)
      PROVE  /\ \A e \in executing : e.result = "none" => e \in executing'
             /\ \A e \in executing' : e.result = "none" => e \in executing \/ work[Leader(e)] = Idle
  <2>1. PICK n : n = [d EXCEPT !.resultChannels = Tail(d.resultChannels)]
    BY Zenon
  <2>2. d.result # "none"
    BY Zenon, <1>4 DEF Send
  <2>3. d \in Execution
    BY Zenon, <1>1 DEF IInv, TypeOK
  <2>4. n.result = d.result
    BY <2>1, <2>3 DEF Execution
  <2>5. executing \ {d} \subseteq executing' /\ executing' \subseteq (executing \ {d}) \cup {n}
    BY Zenon, <1>4, <2>1 DEF Send
  <2> QED
    BY Zenon, <2>2, <2>4, <2>5
<1> QED
  BY Zenon, <1>2, <1>3, <1>4 DEF Thread, Coalesce, Receive, Reject, Tick

\* What is said of local variables holds on if they stay as they are.
LEMMA WorkStays ==
    ASSUME ModifyInv, UNCHANGED work,
           \A e \in executing : e.result = "none" => e \in executing',
           \A e \in executing' : e.result = "none" => e \in executing \/ work[Leader(e)] = Idle
    PROVE  Shape' /\ Resting' /\ NoIOPS' /\ Touches'
<1>1. Shape' /\ NoIOPS'
  BY Zenon DEF ModifyInv, Shape, NoIOPS
<1>2. Resting'
  BY Zenon DEF ModifyInv, Resting, Leader
<1>3. Idle.touched = FALSE
  BY DEF Idle
<1>4. ASSUME NEW e \in executing', e.result = "none", work'[Leader(e)].touched
      PROVE  AsksTags(e.input) \/ work'[Leader(e)].pc \in Late
  <2>1. work[Leader(e)].touched
    BY Zenon, <1>4
  <2>2. work[Leader(e)] # Idle
    BY Zenon, <1>3, <2>1
  <2>3. e \in executing
    BY Zenon, <1>4, <2>2
  <2>4. AsksTags(e.input) \/ work[Leader(e)].pc \in Late
    BY Zenon, <1>4, <2>1, <2>3 DEF ModifyInv, Touches
  <2> QED
    BY Zenon, <2>4
<1>5. Touches'
  BY Zenon, <1>4 DEF Touches, Leader
<1> QED
  BY Zenon, <1>1, <1>2, <1>5

\* ... and if an execution moves them on, or returns.
LEMMA WorkGoes ==
    ASSUME ModifyInv, NEW e \in executing, e.result = "none", Goes(e)
    PROVE  Shape' /\ Resting' /\ NoIOPS' /\ Touches'
<1> DEFINE c == Leader(e)
<1>1. IInv /\ Shape /\ Resting /\ NoIOPS /\ Touches /\ c \in Callers
  BY Zenon, Leads DEF ModifyInv
<1>2. \A d \in executing \ {e} : Leader(d) \in Callers \ {c}
  BY Zenon, <1>1, Leads
<1>3. CASE /\ UNCHANGED executing /\ Moves(work[c], work'[c], e.input)
           /\ Shape' /\ \A d \in Callers \ {c} : work'[d] = work[d]
  <2>1. Resting'
    <3> SUFFICES ASSUME NEW d \in Callers
                 PROVE  work'[d] = Idle \/ \E x \in executing : x.result = "none" /\ Leader(x) = d
      BY Zenon, <1>3 DEF Resting, Leader
    <3> QED
      BY Zenon, <1>1, <1>3 DEF Resting
  <2>2. NoIOPS'
    <3> SUFFICES ASSUME NEW d \in Callers, work'[d].pc \in Early PROVE work'[d].IOPS = 0
      BY Zenon DEF NoIOPS
    <3>1. CASE d = c
      <4>1. work[c].pc \in Early /\ work'[c].IOPS = work[c].IOPS
        BY Zenon, <1>3, <3>1 DEF Moves
      <4> QED
        BY Zenon, <1>1, <3>1, <4>1 DEF NoIOPS
    <3>2. CASE d # c
      BY Zenon, <1>1, <1>3, <3>2 DEF NoIOPS
    <3> QED
      BY Zenon, <3>1, <3>2
  <2>3. Touches'
    <3> SUFFICES ASSUME NEW d \in executing, d.result = "none", work'[Leader(d)].touched
                 PROVE  AsksTags(d.input) \/ work'[Leader(d)].pc \in Late
      BY Zenon, <1>3 DEF Touches, Leader
    <3>1. CASE d = e
      <4>1. work[c].touched \/ AsksTags(e.input) \/ work'[c].pc \in Late
        BY Zenon, <1>3, <3>1 DEF Moves
      <4>2. work[c].touched => AsksTags(e.input) \/ work[c].pc \in Late
        BY Zenon, <1>1 DEF Touches
      <4>3. work[c].pc \in Late => work'[c].pc \in Late
        BY Zenon, <1>3 DEF Moves
      <4> QED
        BY Zenon, <3>1, <4>1, <4>2, <4>3
    <3>2. CASE d # e
      <4>1. work'[Leader(d)] = work[Leader(d)]
        BY Zenon, <1>2, <1>3, <3>2
      <4> QED
        BY Zenon, <1>1, <4>1 DEF Touches
    <3> QED
      BY Zenon, <3>1, <3>2
  <2> QED
    BY Zenon, <1>3, <2>1, <2>2, <2>3
<1>4. ASSUME NEW r \in Returned, Returns(e, r)
      PROVE  Shape' /\ Resting' /\ NoIOPS' /\ Touches'
  <2>1. Shape' /\ work'[c] = Idle /\ \A d \in Callers \ {c} : work'[d] = work[d]
    BY Zenon, <1>1, <1>4, IdleSet DEF Returns
  <2>2. PICK n : n = [e EXCEPT !.result = r]
    BY Zenon
  <2>3. executing' = (executing \ {e}) \cup {n}
    BY Zenon, <1>4, <2>2 DEF Returns, Finish
  <2>4. n.result # "none"
    BY <1>1, <1>4, <2>2 DEF IInv, TypeOK, Execution, Returned
  <2>5. Idle.IOPS = 0
    BY DEF Idle
  <2>6. Resting'
    <3> SUFFICES ASSUME NEW d \in Callers
                 PROVE  work'[d] = Idle \/ \E x \in executing' : x.result = "none" /\ Leader(x) = d
      BY Zenon DEF Resting, Leader
    <3>1. CASE d = c
      BY Zenon, <2>1, <3>1
    <3>2. CASE d # c
      <4>1. work'[d] = work[d]
        BY Zenon, <2>1, <3>2
      <4>2. work[d] = Idle \/ \E x \in executing : x # e /\ x.result = "none" /\ Leader(x) = d
        BY Zenon, <1>1, <3>2 DEF Resting
      <4> QED
        BY Zenon, <2>3, <4>1, <4>2
    <3> QED
      BY Zenon, <3>1, <3>2
  <2>7. NoIOPS'
    <3> SUFFICES ASSUME NEW d \in Callers, work'[d].pc \in Early PROVE work'[d].IOPS = 0
      BY Zenon DEF NoIOPS
    <3>1. CASE d = c
      BY Zenon, <2>1, <2>5, <3>1
    <3>2. CASE d # c
      BY Zenon, <1>1, <2>1, <3>2 DEF NoIOPS
    <3> QED
      BY Zenon, <3>1, <3>2
  <2>8. Touches'
    <3> SUFFICES ASSUME NEW d \in executing', d.result = "none", work'[Leader(d)].touched
                 PROVE  AsksTags(d.input) \/ work'[Leader(d)].pc \in Late
      BY Zenon DEF Touches, Leader
    <3>1. d \in executing \ {e}
      BY Zenon, <2>3, <2>4
    <3>2. work'[Leader(d)] = work[Leader(d)]
      BY Zenon, <1>2, <2>1, <3>1
    <3> QED
      BY Zenon, <1>1, <3>1, <3>2 DEF Touches
  <2> QED
    BY Zenon, <2>1, <2>6, <2>7, <2>8
<1> QED
  BY Zenon, <1>3, <1>4 DEF Goes

\* A volume is set to one that has a size.
LEMMA SizeSet ==
    ASSUME SizesThere, NEW k \in Keys, NEW v, v.size \in Nat, NEW m, m.target.size \in Nat,
           mod' = [mod EXCEPT ![k] = m], volume' = [volume EXCEPT ![k] = v] \/ UNCHANGED volume
    PROVE  SizesThere'
  BY DEF SizesThere

\* Volumes keep a size.
LEMMA SizesStep ==
    ASSUME ModifyInv, [ModifyNext]_allVars
    PROVE  SizesThere'
<1>1. IInv /\ SizesThere
  BY Zenon DEF ModifyInv
<1>2. ASSUME UNCHANGED <<volume, mod>> PROVE SizesThere'
  BY Zenon, <1>1, <1>2 DEF SizesThere
<1>3. ASSUME NEW k \in Keys, Progress(k) PROVE SizesThere'
  <2>1. PICK next : /\ mod' = [mod EXCEPT ![k].state = next]
                    /\ volume' = [volume EXCEPT ![k] = mod[k].target] \/ UNCHANGED volume
    BY Zenon, <1>3 DEF Progress
  <2>2. PICK v : v = mod[k].target
    BY Zenon
  <2>3. PICK m : m = [mod[k] EXCEPT !.state = next]
    BY Zenon
  <2>4. v.size \in Nat
    BY Zenon, <1>1, <2>2 DEF SizesThere
  <2>5. mod' = [mod EXCEPT ![k] = m]
    BY Zenon, <2>1, <2>3
  <2>6. m.target = mod[k].target
    BY <2>3 DEF SizesThere
  <2>7. m.target.size \in Nat
    BY Zenon, <1>1, <2>6 DEF SizesThere
  <2>8. volume' = [volume EXCEPT ![k] = v] \/ UNCHANGED volume
    BY Zenon, <2>1, <2>2
  <2> QED
    BY Zenon, <1>1, <2>4, <2>5, <2>7, <2>8, SizeSet
<1>4. ASSUME NEW e \in executing, Modify(e) PROVE SizesThere'
  <2>1. e.key \in Keys /\ e.input \in Request
    BY Zenon, <1>1 DEF IInv, TypeOK, Execution
  <2>2. CASE UNCHANGED <<volume, mod>>
    BY Zenon, <1>2, <2>2
  <2>3. PICK v : v = Target(volume[e.key], e.input, work[Leader(e)].IOPS)
    BY Zenon
  <2>4. v.size \in Nat
    BY <1>1, <2>1, <2>3 DEF Target, SizesThere, Request
  <2>5. ASSUME NEW state, mod' = [mod EXCEPT ![e.key] = [state |-> state, target |-> v]],
               volume' = [volume EXCEPT ![e.key] = v] \/ UNCHANGED volume
        PROVE  SizesThere'
    <3>1. PICK m : m = [state |-> state, target |-> v]
      BY Zenon
    <3>2. m.target.size \in Nat
      BY <2>4, <3>1
    <3> QED
      BY Zenon, <1>1, <2>1, <2>4, <2>5, <3>1, <3>2, SizeSet
  <2> QED
    BY Zenon, <1>4, <2>2, <2>3, <2>5 DEF Modify
<1>5. ASSUME NEW e \in executing, ExecuteModifyVolumeRequest(e), ~Modify(e)
      PROVE  UNCHANGED <<volume, mod>>
  BY Zenon, <1>5 DEF ExecuteModifyVolumeRequest, DeleteTags, CreateTags, NoDisk, GetVolume, Validate,
     ValidateState, Poll, CheckDesiredState, ec2Vars
<1> QED
  BY Zenon, <1>2, <1>3, <1>4, <1>5 DEF ModifyNext, allVars

\* The inductive invariant of ModifySpec.
LEMMA ModifyStep == ModifyInv /\ [ModifyNext]_allVars => ModifyInv'
<1> SUFFICES ASSUME ModifyInv, [ModifyNext]_allVars PROVE ModifyInv'
  OBVIOUS
<1>1. IInv'
  BY Zenon, ModifyImplements, NextIInv DEF ModifyInv
<1>2. SizesThere'
  BY Zenon, SizesStep
<1>3. ASSUME \/ \E c \in Callers, k \in Keys, i \in Inputs : Coalesce(c, k, i)
             \/ Thread
             \/ Tick
             \/ \E e \in executing : Send(e),
             UNCHANGED <<volume, tags, mod, work>>
      PROVE  Shape' /\ Resting' /\ NoIOPS' /\ Touches'
  BY Zenon, <1>3, CoalescerSteps, WorkStays
<1>4. ASSUME NEW e \in executing, ExecuteModifyVolumeRequest(e)
      PROVE  Shape' /\ Resting' /\ NoIOPS' /\ Touches'
  BY Zenon, <1>4, ExecutionMoves, ExecutionGoes, WorkGoes
<1>5. ASSUME UNCHANGED <<work, executing>> PROVE Shape' /\ Resting' /\ NoIOPS' /\ Touches'
  BY Zenon, <1>5, WorkStays
<1>6. ASSUME NEW k \in Keys, Progress(k) PROVE UNCHANGED <<work, executing>>
  BY Zenon, <1>6 DEF Progress
<1>7. ASSUME UNCHANGED allVars PROVE UNCHANGED <<work, executing>>
  BY Zenon, <1>7 DEF allVars
<1>8. Shape' /\ Resting' /\ NoIOPS' /\ Touches'
  BY Zenon, <1>3, <1>4, <1>5, <1>6, <1>7 DEF ModifyNext
<1> QED
  BY Zenon, <1>1, <1>2, <1>8 DEF ModifyInv

\* At the start nothing is executed and no volume was modified.
LEMMA ModifyStart == ModifyInit => ModifyInv
<1> SUFFICES ASSUME ModifyInit PROVE ModifyInv
  OBVIOUS
<1>1. IInv
  BY Zenon, InitIInv DEF ModifyInit
<1>2. Shape /\ Resting /\ NoIOPS
  BY DEF ModifyInit, Shape, Resting, NoIOPS, Idle, WorkFields
<1>3. SizesThere
  BY DEF ModifyInit, SizesThere
<1>4. Touches
  BY Zenon DEF ModifyInit, Init, Touches
<1> QED
  BY Zenon, <1>1, <1>2, <1>3, <1>4 DEF ModifyInv

\* A result appears in a step only as the execution it is the result of returns it, and is then
\* justified: no other execution, no send and no timer makes it.
LEMMA AnswerJustified ==
    ASSUME ModifyInv, [ModifyNext]_allVars, NEW e \in executing, NEW r, r # "none", Answered(e, r)
    PROVE  Justified(e, r)
<1>1. PICK n : n = [e EXCEPT !.result = r]
  BY Zenon
<1>2. /\ e.result = "none" /\ n \in executing' /\ n.result = r
      /\ n.resultChannels = e.resultChannels
  BY <1>1 DEF Answered, ModifyInv, IInv, TypeOK, Execution
<1>3. n \notin executing
  BY Zenon, <1>2, OneResult DEF ModifyInv
<1>4. ~UNCHANGED executing
  BY Zenon, <1>2, <1>3
<1>5. ASSUME NEW k \in Keys, TimerFires(k) PROVE FALSE
  BY <1>2, <1>3, <1>5 DEF TimerFires
<1>6. ASSUME NEW d \in executing, Send(d) PROVE FALSE
  <2>1. d.result # "none" /\ d # e
    BY Zenon, <1>2, <1>6 DEF Send
  <2>2. d.resultChannels \in Seq(Callers) /\ d.resultChannels # <<>>
    BY Zenon DEF ModifyInv, IInv, TypeOK, Execution
  <2>3. PICK m : m = [d EXCEPT !.resultChannels = Tail(d.resultChannels)]
    BY Zenon
  <2>4. m.resultChannels = Tail(d.resultChannels)
    BY <2>3 DEF ModifyInv, IInv, TypeOK, Execution
  <2>5. executing' \subseteq (executing \ {d}) \cup {m}
    BY <1>6, <2>3 DEF Send
  <2>6. n = m
    BY Zenon, <1>2, <1>3, <2>5
  <2>7. e.resultChannels = Tail(d.resultChannels) /\ e.resultChannels # <<>>
    BY Zenon, <1>2, <2>4, <2>6 DEF ModifyInv, IInv, TypeOK, Execution
  <2>8. Waits(d, Leader(e)) /\ Waits(e, Leader(e))
    <3>1. e.resultChannels \in Seq(Callers)
      BY Zenon DEF ModifyInv, IInv, TypeOK, Execution
    <3>2. 1 \in DOMAIN e.resultChannels /\ e.resultChannels[1] = Leader(e)
      BY <2>7, <3>1 DEF Leader
    <3>3. 2 \in DOMAIN d.resultChannels /\ d.resultChannels[2] = e.resultChannels[1]
      BY <2>2, <2>7
    <3> QED
      BY Zenon, <3>2, <3>3 DEF Waits
  <2>9. Leader(e) \in Callers
    BY Zenon, Leads DEF ModifyInv
  <2> QED
    BY Zenon, <2>1, <2>8, <2>9 DEF ModifyInv, IInv, ChannelsInOnePlace
<1>7. ASSUME NEW d \in executing, ExecuteModifyVolumeRequest(d) PROVE Justified(e, r)
  <2>1. PICK q \in Returned : Justified(d, q) /\ Returns(d, q)
    BY Zenon, <1>4, <1>7, ExecutionGoes DEF Goes
  <2>2. PICK m : m = [d EXCEPT !.result = q]
    BY Zenon
  <2>3. m.result = q /\ m.resultChannels = d.resultChannels
    BY <2>2 DEF ModifyInv, IInv, TypeOK, Execution
  <2>4. executing' = (executing \ {d}) \cup {m}
    BY Zenon, <2>1, <2>2 DEF Returns, Finish
  <2>5. n = m
    BY Zenon, <1>2, <1>3, <2>4
  <2>6. d = e /\ q = r
    BY Zenon, <1>2, <2>3, <2>5, OneResult DEF ModifyInv
  <2> QED
    BY Zenon, <2>1, <2>6
<1>8. ASSUME (\E k \in Keys : Progress(k)) \/ UNCHANGED allVars PROVE FALSE
  BY Zenon, <1>4, <1>8 DEF Progress, allVars
<1>9. ASSUME Tick \/ \E c \in Callers : \/ Receive(c) \/ Reject(c)
                                       \/ \E k \in Keys, i \in Inputs : Coalesce(c, k, i)
      PROVE  FALSE
  BY Zenon, <1>4, <1>9 DEF Tick, Receive, Reject, Coalesce
<1> QED
  BY Zenon, <1>5, <1>6, <1>7, <1>8, <1>9 DEF ModifyNext, Thread

\* The invariant behind the answers: local variables are those of an execution that has not
\* returned, options.IOPS is unset until the volume is described, and before the ModifyVolume call
\* an execution has changed nothing but tags.
THEOREM ModifyInvariant == ModifySpec => []ModifyInv
  BY ModifyStart, ModifyStep, PTL DEF ModifySpec

\* executeModifyVolumeRequest answers InvalidArgument, which the resizer takes for infeasible, only
\* if it has changed neither the tags nor the volume.
THEOREM InfeasibleUntouched == ModifySpec => InfeasibleMeansUntouched
<1>1. ASSUME ModifyInv, [ModifyNext]_allVars, NEW e \in executing, Answered(e, "InvalidArgument")
      PROVE  ~work[Leader(e)].touched
  <2>1. Justified(e, "InvalidArgument")
    BY Zenon, <1>1, AnswerJustified
  <2>2. ~AsksTags(e.input) /\ work[Leader(e)].pc \notin Late
    BY Zenon, <2>1 DEF Justified
  <2> QED
    BY Zenon, <1>1, <2>2 DEF ModifyInv, Touches, Answered
<1>2. ModifyInv /\ [ModifyNext]_allVars =>
      [\A e \in executing : Answered(e, "InvalidArgument") => ~work[Leader(e)].touched]_allVars
  BY Zenon, <1>1
<1> QED
  BY <1>2, ModifyInvariant, PTL DEF ModifySpec, InfeasibleMeansUntouched

-----------------------------------------------------------------------------
(* Executions that do not overlap *)

\* No other execution runs, for whatever volume.
Alone(e) == \A d \in executing : d.result = "none" => d = e

\* Two executions that run at once have met.
Meeting ==
    \A d, e \in executing : d.result = "none" /\ e.result = "none" /\ d # e => Leader(e) \in met

\* Where an execution that has met no other compares the volume, EC2 is done with it.
Settled ==
    \A e \in executing : At(e, "check") /\ Leader(e) \notin met => mod[e.key].state # "modifying"

\* A batch with one volume returns the state of that volume's modification.
LEMMA PollsOwn ==
    ASSUME NEW e \in executing, Alone(e), At(e, "wait"),
           NEW s \in GetLatestVolumeModification(e.key, TRUE)
    PROVE  s = mod[e.key].state
<1> DEFINE k == e.key
           waiting == {d.key : d \in {d \in executing : At(d, "wait")}}
<1>1. waiting \subseteq {k}
  BY Zenon DEF Alone, At
<1>2. PICK ks \in SUBSET waiting : k \in ks /\ s = DescribeVolumesModifications(ks)[k]
  BY Zenon DEF GetLatestVolumeModification, BatchDescribeVolumesModifications
<1>3. ks = {k}
  BY Zenon, <1>1, <1>2
<1>4. s = IF \E j \in {k} : mod[j].state = "none" THEN "none" ELSE mod[k].state
  BY Zenon, <1>2, <1>3 DEF DescribeVolumesModifications
<1> QED
  BY Zenon, <1>4

\* An execution goes on to the comparison only after EC2 is done.
LEMMA ChecksSettled ==
    ASSUME ModifyInv, NEW e \in executing, Alone(e), ExecuteModifyVolumeRequest(e), UNCHANGED executing,
           work'[Leader(e)].pc = "check"
    PROVE  mod'[e.key].state # "modifying"
<1> DEFINE c == Leader(e)
<1>1. Shape /\ c \in Callers /\ e.key \in Keys /\ DOMAIN mod = Keys
  BY Zenon, Leads DEF ModifyInv, SizesThere, IInv, TypeOK, Execution
<1>2. ASSUME NEW r, Returns(e, r) PROVE FALSE
  <2>1. work'[c] = Idle
    BY Zenon, <1>1, <1>2, IdleSet DEF Returns
  <2> QED
    BY <2>1 DEF Idle
<1>3. ASSUME NEW p, p # "check", work' = [work EXCEPT ![c].pc = p, ![c].touched = TRUE] PROVE FALSE
  BY Zenon, <1>1, <1>3, TouchedSet
<1>4. ASSUME NEW x, NEW i, work' = [work EXCEPT ![c].pc = "validate", ![c].seen = x, ![c].IOPS = i]
      PROVE  FALSE
  <2>1. work'[c].pc = "validate"
    BY Zenon, <1>1, <1>4, SeenSet
  <2> QED
    BY <2>1
<1>5. ASSUME NEW p, p # "check", NEW i, work' = [work EXCEPT ![c].pc = p, ![c].IOPS = i] PROVE FALSE
  BY Zenon, <1>1, <1>5, IOPSSet
<1>6. ASSUME NEW p, p # "check", Goto(e, p) PROVE FALSE
  BY Zenon, <1>1, <1>6, PcSet DEF Goto
<1>7. CASE DeleteTags(e) \/ CreateTags(e) \/ NoDisk(e) \/ GetVolume(e) \/ CheckDesiredState(e)
  <2>1. "deleted" # "check" /\ "added" # "check"
    OBVIOUS
  <2>2. CASE DeleteTags(e) \/ CreateTags(e)
    BY Zenon, <1>2, <1>3, <2>1, <2>2 DEF DeleteTags, CreateTags
  <2>3. CASE NoDisk(e) \/ CheckDesiredState(e)
    BY Zenon, <1>2, <2>3 DEF NoDisk, CheckDesiredState
  <2>4. CASE GetVolume(e)
    <3>1. \/ \E r : Returns(e, r)
          \/ \E x, i : work' = [work EXCEPT ![c].pc = "validate", ![c].seen = x, ![c].IOPS = i]
      BY Zenon, <2>4 DEF GetVolume
    <3> QED
      BY Zenon, <1>2, <1>4, <3>1
  <2> QED
    BY Zenon, <1>7, <2>2, <2>3, <2>4
<1>8. CASE Validate(e) \/ ValidateState(e)
  <2>1. "wait" # "check" /\ "state" # "check" /\ "modify" # "check"
    OBVIOUS
  <2>2. \A i : AfterValidate(e, i) # "check"
    BY Zenon, <2>1 DEF AfterValidate
  <2>3. CASE ValidateState(e)
    BY Zenon, <1>2, <1>6, <2>1, <2>3 DEF ValidateState
  <2>4. CASE Validate(e)
    <3> DEFINE iops == IopsForModify(e.input, work[c].seen)
    <3> HIDE DEF iops
    <3>1. \/ Returns(e, "Internal") \/ Returns(e, Invalid(e.input)) \/ Goto(e, "wait")
          \/ work' = [work EXCEPT ![c].pc = AfterValidate(e, iops), ![c].IOPS = iops]
      BY Zenon, <2>4 DEF Validate, iops
    <3> QED
      BY Zenon, <1>2, <1>5, <1>6, <2>1, <2>2, <3>1
  <2> QED
    BY Zenon, <1>8, <2>3, <2>4
<1>9. CASE Modify(e)
  <2> DEFINE target == Target(volume[e.key], e.input, work[c].IOPS)
  <2> HIDE DEF target
  <2>1. PICK state \in {"modifying", "completed"} :
            /\ mod' = [mod EXCEPT ![e.key] = [state |-> state, target |-> target]]
            /\ work' = [work EXCEPT ![c].pc = AfterModify(state), ![c].touched = TRUE]
    <3>1. \/ \E r : Returns(e, r)
          \/ \E state \in {"modifying", "completed"} :
               /\ mod' = [mod EXCEPT ![e.key] = [state |-> state, target |-> target]]
               /\ work' = [work EXCEPT ![c].pc = AfterModify(state), ![c].touched = TRUE]
      BY Zenon, <1>9 DEF Modify, target
    <3> QED
      BY Zenon, <1>2, <3>1
  <2>2. AfterModify(state) = "check"
    BY Zenon, <1>3, <2>1
  <2>3. state # "modifying"
    BY <2>2 DEF AfterModify
  <2>4. mod'[e.key].state = state
    BY <1>1, <2>1
  <2> QED
    BY Zenon, <2>3, <2>4
<1>10. CASE Poll(e)
  <2>1. PICK s \in GetLatestVolumeModification(e.key, TRUE) : s \in {"none", "optimizing", "completed"}
    BY Zenon, <1>2, <1>10 DEF Poll
  <2>2. s = mod[e.key].state /\ UNCHANGED mod
    BY Zenon, <1>10, PollsOwn DEF Poll, ec2Vars
  <2> QED
    BY <2>1, <2>2
<1> QED
  BY Zenon, <1>7, <1>8, <1>9, <1>10 DEF ExecuteModifyVolumeRequest

\* An execution that has met no other runs alone.
LEMMA UnmetAlone ==
    ASSUME Meeting, NEW e \in executing, e.result = "none", Leader(e) \notin met
    PROVE  Alone(e)
  BY Zenon DEF Meeting, Alone

\* The history records who meets, and forgets no one who runs.
LEMMA MeetStep ==
    ASSUME Meet
    PROVE  /\ Meeting'
           /\ \A e \in executing' : e.result = "none" /\ Leader(e) \notin met' => Leader(e) \notin met
<1>1. PICK U : U = Unfinished'
  BY Zenon
<1>2. \A e : e \in U <=> e \in executing' /\ e.result = "none"
  BY Zenon, <1>1 DEF Unfinished
<1>3. met' = {Leader(e) : e \in {e \in U : Leader(e) \in met \/ U # {e}}}
  BY Zenon, <1>1 DEF Meet
<1>4. ASSUME NEW d \in U, NEW e \in U, d # e PROVE Leader(e) \in met'
  BY Zenon, <1>3, <1>4
<1>5. ASSUME NEW e \in U, Leader(e) \in met PROVE Leader(e) \in met'
  BY Zenon, <1>3, <1>5
<1>6. Meeting'
  BY Zenon, <1>2, <1>4 DEF Meeting, Leader
<1> QED
  BY Zenon, <1>2, <1>5, <1>6

\* EC2 settles no volume back, and nobody else modifies one that is being compared by an
\* execution that has met no other.
LEMMA SettledStep == ModifyInv /\ Meeting /\ Settled /\ ModifyNext /\ Meet => Settled'
<1> SUFFICES ASSUME ModifyInv, Meeting, Settled, ModifyNext, Meet PROVE Settled'
  OBVIOUS
<1> SUFFICES ASSUME NEW e \in executing', e.result = "none", work'[Leader(e)].pc = "check",
                    Leader(e) \notin met'
             PROVE  mod'[e.key].state # "modifying"
  BY Zenon DEF Settled, At, Leader
<1>0. Leader(e) \notin met
  BY Zenon, MeetStep
<1>1. ASSUME e \in executing, UNCHANGED work PROVE mod[e.key].state # "modifying"
  BY Zenon, <1>0, <1>1 DEF Settled, At
<1>2. ASSUME \/ \E c \in Callers, k \in Keys, i \in Inputs : Coalesce(c, k, i)
             \/ Thread
             \/ Tick
             \/ \E d \in executing : Send(d),
             UNCHANGED <<volume, tags, mod, work>>
      PROVE  mod'[e.key].state # "modifying"
  <2>1. e \in executing \/ work[Leader(e)] = Idle
    BY Zenon, <1>2, CoalescerSteps
  <2>2. work[Leader(e)] # Idle
    BY <1>2 DEF Idle
  <2> QED
    BY Zenon, <1>1, <1>2, <2>1, <2>2
<1>3. ASSUME NEW d \in executing, ExecuteModifyVolumeRequest(d) PROVE mod'[e.key].state # "modifying"
  <2>1. d.result = "none"
    BY Zenon, <1>3, ExecutionMoves
  <2>2. ASSUME NEW r \in Returned, Returns(d, r) PROVE FALSE
    <3>1. PICK n : n = [d EXCEPT !.result = r]
      BY Zenon
    <3>2. n.result = r /\ r # "none"
      BY <2>2, <3>1 DEF ModifyInv, IInv, TypeOK, Execution, Returned
    <3>3. executing' = (executing \ {d}) \cup {n}
      BY Zenon, <2>2, <3>1 DEF Returns, Finish
    <3>4. e \in executing /\ e # d
      BY Zenon, <3>2, <3>3
    <3> QED
      BY Zenon, <1>0, <2>1, <3>4 DEF Meeting
  <2>3. UNCHANGED executing
    BY Zenon, <1>3, <2>2, ExecutionMoves
  <2>4. e \in executing /\ Alone(e)
    BY Zenon, <1>0, <2>3, UnmetAlone
  <2>5. e = d
    BY Zenon, <2>1, <2>4 DEF Alone
  <2> QED
    BY Zenon, <1>3, <2>3, <2>4, <2>5, ChecksSettled
<1>4. ASSUME NEW k \in Keys, Progress(k) PROVE mod'[e.key].state # "modifying"
  <2>1. e \in executing /\ UNCHANGED work
    BY Zenon, <1>4 DEF Progress
  <2>2. DOMAIN mod = Keys
    BY Zenon DEF ModifyInv, SizesThere
  <2>3. PICK next \in {"optimizing", "completed", "failed"} : mod' = [mod EXCEPT ![k].state = next]
    BY Zenon, <1>4 DEF Progress
  <2>4. CASE e.key = k
    <3>1. mod' = [mod EXCEPT ![k] = [mod[k] EXCEPT !.state = next]]
      BY Zenon, <2>3
    <3>2. mod'[k] = [mod[k] EXCEPT !.state = next]
      BY <2>2, <3>1
    <3>3. mod'[k].state \in {mod[k].state, next}
      BY <3>2
    <3> QED
      BY Zenon, <1>1, <2>1, <2>3, <2>4, <3>3
  <2>5. CASE e.key # k
    <3>1. mod'[e.key] = mod[e.key]
      <4>1. e.key \in Keys
        BY Zenon, <2>1 DEF ModifyInv, IInv, TypeOK, Execution
      <4> QED
        BY <2>2, <2>3, <2>5, <4>1
    <3> QED
      BY Zenon, <1>1, <2>1, <3>1
  <2> QED
    BY Zenon, <2>4, <2>5
<1> QED
  BY Zenon, <1>2, <1>3, <1>4 DEF ModifyNext

\* "Wait for any existing modifications to prevent race conditions where DescribeVolume(s) returns
\* the new state before the volume is actually finished modifying" holds of every execution that
\* never ran at the same time as another one: its success means that the volume has what was
\* asked for, however many callers coalesced in it, and whatever EC2 was still doing for executions
\* that had given up.  The comment is refuted only by executions that run at once.
THEOREM FinishedUnlessOverlapped == HistorySpec => FinishedUnlessMet
<1> DEFINE Inv == ModifyInv /\ Meeting /\ Settled
<1>1. ModifyInit => Meeting /\ Settled
  BY Zenon DEF ModifyInit, Init, Meeting, Settled
<1>2. ASSUME ModifyInv, Settled, [ModifyNext]_allVars, NEW e \in executing, Answered(e, "ok"),
             Leader(e) \notin met
      PROVE  HasAll(volume[e.key], e.input, work[Leader(e)].IOPS)
  <2>1. Justified(e, "ok")
    BY Zenon, <1>2, AnswerJustified
  <2>2. UnderWay(e) /\ (\/ work[Leader(e)].pc = "check"
                        \/ HasAll(volume[e.key], e.input, work[Leader(e)].IOPS))
    BY Zenon, <2>1 DEF Justified
  <2>3. work[Leader(e)].pc = "check" => mod[e.key].state # "modifying"
    BY Zenon, <1>2 DEF Settled, At, Answered
  <2> QED
    BY Zenon, <2>2, <2>3 DEF UnderWay
<1>3. ModifyInv /\ Settled /\ [ModifyNext]_allVars =>
      [\A e \in executing : Answered(e, "ok") /\ Leader(e) \notin met =>
          HasAll(volume[e.key], e.input, work[Leader(e)].IOPS)]_allVars
  BY Zenon, <1>2
<1>4. ASSUME Inv, [ModifyNext /\ Meet]_<<allVars, met>> PROVE Inv' /\ [ModifyNext]_allVars
  <2>1. CASE ModifyNext /\ Meet
    BY Zenon, <1>4, <2>1, ModifyStep, MeetStep, SettledStep
  <2>2. CASE UNCHANGED <<allVars, met>>
    <3>1. UNCHANGED <<executing, work, mod, met>>
      BY Zenon, <2>2 DEF allVars
    <3>2. Meeting' /\ Settled'
      BY Zenon, <1>4, <3>1 DEF Meeting, Settled, At, Leader
    <3> QED
      BY Zenon, <1>4, <2>2, <3>2, ModifyStep
  <2> QED
    BY Zenon, <1>4, <2>1, <2>2
<1> QED
  BY <1>1, <1>3, <1>4, ModifyStart, PTL DEF HistorySpec, HistoryInit, HistoryNext, FinishedUnlessMet

-----------------------------------------------------------------------------
(* What a merged request is made of *)

\* Every field of the input of p is what one of its callers has there.
FromCallers(calls, p) ==
    \A f \in Fields : \E j \in DOMAIN p.resultChannels :
        calls[p.resultChannels[j]].input[f] = p.input[f]

\* A request that waits or is carried out asks for nothing that nobody asked for; the
\* channels of an execution are those of all its callers until it has returned.
NothingInvented ==
    /\ \A k \in Keys : IsPending(k) => FromCallers(call, pendingInputs[k])
    /\ \A e \in executing : e.result = "none" => FromCallers(call, e)

\* The inputs stay.
LEMMA FromStable ==
    ASSUME NEW a, NEW b, NEW p, FromCallers(a, p),
           \A j \in DOMAIN p.resultChannels :
              b[p.resultChannels[j]].input = a[p.resultChannels[j]].input
    PROVE  FromCallers(b, p)
<1> SUFFICES ASSUME NEW f \in Fields
             PROVE  \E j \in DOMAIN p.resultChannels : b[p.resultChannels[j]].input[f] = p.input[f]
  BY Zenon DEF FromCallers
<1>1. PICK j \in DOMAIN p.resultChannels : a[p.resultChannels[j]].input[f] = p.input[f]
  BY Zenon DEF FromCallers
<1>2. b[p.resultChannels[j]].input = a[p.resultChannels[j]].input
  BY Zenon, <1>1
<1> QED
  BY Zenon, <1>1, <1>2

\* A caller that waits keeps its input, whatever happens.
LEMMA InputsStay ==
    ASSUME IInv, [Next]_vars
    PROVE  /\ \A d \in Callers : call[d].pc = "wait" => call'[d].input = call[d].input
           /\ \A k \in Keys : \A j \in DOMAIN pendingInputs[k].resultChannels :
                 call'[pendingInputs[k].resultChannels[j]].input
                    = call[pendingInputs[k].resultChannels[j]].input
           /\ \A e \in executing : \A j \in DOMAIN e.resultChannels :
                 call'[e.resultChannels[j]].input = call[e.resultChannels[j]].input
<1>0. call \in [Callers -> Call]
  BY Zenon DEF IInv, TypeOK
<1>1. ASSUME NEW d \in Callers, call[d].pc = "wait" PROVE call'[d].input = call[d].input
  <2>1. ASSUME NEW c \in Callers, NEW k \in Keys, NEW i \in Inputs, Coalesce(c, k, i)
        PROVE  call'[d] = call[d]
    BY Zenon, <1>0, <1>1, <2>1 DEF Coalesce
  <2>2. ASSUME NEW c \in Callers, Receive(c) \/ Reject(c) PROVE call'[d] = call[d]
    BY Zenon, <1>0, <1>1, <2>2 DEF Receive, Reject
  <2>3. ASSUME NEW e \in executing, Send(e) PROVE call'[d].input = call[d].input
    <3>1. PICK c : c = Head(e.resultChannels)
      BY Zenon
    <3>2. call' = [call EXCEPT ![c].pc = "idle", ![c].answer = e.result]
      BY Zenon, <2>3, <3>1 DEF Send
    <3>3. CASE c = d
      <4>1. call'[d] = [call[d] EXCEPT !.pc = "idle", !.answer = e.result]
        BY Zenon, <1>0, <3>2, <3>3
      <4>2. [call[d] EXCEPT !.pc = "idle", !.answer = e.result].input = call[d].input
        BY Zenon, <1>0 DEF Call
      <4> QED
        BY Zenon, <4>1, <4>2
    <3>4. CASE c # d
      BY Zenon, <1>0, <3>2, <3>4
    <3> QED
      BY Zenon, <3>3, <3>4
  <2>4. ASSUME UNCHANGED call PROVE call'[d] = call[d]
    BY Zenon, <2>4
  <2> QED
    BY Zenon, <2>1, <2>2, <2>3, <2>4 DEF Next, Thread, TimerFires, Tick, Execute, vars
<1>2. ASSUME NEW k \in Keys, NEW j \in DOMAIN pendingInputs[k].resultChannels
      PROVE  call'[pendingInputs[k].resultChannels[j]].input
                = call[pendingInputs[k].resultChannels[j]].input
  <2>1. pendingInputs[k].resultChannels[j] \in Callers
    BY Zenon, Channels DEF IInv
  <2>2. Waits(pendingInputs[k], pendingInputs[k].resultChannels[j])
    BY Zenon DEF Waits
  <2>3. call[pendingInputs[k].resultChannels[j]].pc = "wait"
    BY Zenon, <2>1, <2>2 DEF IInv, ChannelsInOnePlace
  <2> QED
    BY Zenon, <1>1, <2>1, <2>3
<1>3. ASSUME NEW e \in executing, NEW j \in DOMAIN e.resultChannels
      PROVE  call'[e.resultChannels[j]].input = call[e.resultChannels[j]].input
  <2>1. e.resultChannels[j] \in Callers
    BY Zenon, Channels DEF IInv
  <2>2. Waits(e, e.resultChannels[j])
    BY Zenon DEF Waits
  <2>3. call[e.resultChannels[j]].pc = "wait"
    BY Zenon, <2>1, <2>2 DEF IInv, ChannelsInOnePlace
  <2> QED
    BY Zenon, <1>1, <2>1, <2>3
<1> QED
  BY Zenon, <1>1, <1>2, <1>3

\* An input that is received is one more to take fields from.
LEMMA ReceiveFrom ==
    ASSUME IInv, NothingInvented, NEW c \in Callers, Receive(c)
    PROVE  FromCallers(call', Add(c, call[c].key))
<1> DEFINE k == call[c].key
           p == pendingInputs[k]
           q == Add(c, k)
<1>1. /\ k \in Keys /\ p.resultChannels \in Seq(Callers) /\ call \in [Callers -> Call]
      /\ call[c] \in Call
  BY Zenon DEF IInv, TypeOK, Call, Pending
<1>2. /\ q.resultChannels = Append(p.resultChannels, c)
      /\ q.input = IF IsPending(k) THEN Merged(call[c].input, p.input) ELSE call[c].input
  BY Zenon DEF Add
<1>3. call'[c].input = call[c].input
  BY Zenon, <1>1 DEF Receive, Call
<1>4. PICK s : s = p.resultChannels
  BY Zenon
<1>5. /\ \A j \in DOMAIN s : j \in DOMAIN Append(s, c) /\ Append(s, c)[j] = s[j]
      /\ \E j \in DOMAIN Append(s, c) : Append(s, c)[j] = c
  <2>1. s \in Seq(Callers)
    BY Zenon, <1>1, <1>4
  <2>2. /\ DOMAIN s = 1..Len(s) /\ Len(s) \in Nat /\ DOMAIN Append(s, c) = 1..(Len(s) + 1)
        /\ Append(s, c)[Len(s) + 1] = c /\ \A j \in 1..Len(s) : Append(s, c)[j] = s[j]
    BY <2>1
  <2>3. Len(s) + 1 \in 1..(Len(s) + 1) /\ \A j \in 1..Len(s) : j \in 1..(Len(s) + 1)
    BY <2>2
  <2> QED
    BY Zenon, <2>2, <2>3
<1>6. /\ \A j \in DOMAIN p.resultChannels :
            j \in DOMAIN q.resultChannels /\ q.resultChannels[j] = p.resultChannels[j]
      /\ \E j \in DOMAIN q.resultChannels : q.resultChannels[j] = c
  BY Zenon, <1>2, <1>4, <1>5
<1>7. \A j \in DOMAIN p.resultChannels : call'[p.resultChannels[j]].input = call[p.resultChannels[j]].input
  BY Zenon, <1>1, InputsStay DEF Next, Thread
<1>8. IsPending(k) => FromCallers(call', p)
  BY Zenon, <1>1, <1>7, FromStable DEF NothingInvented
<1> HIDE DEF q, p, k
<1>9. ASSUME NEW f \in Fields
      PROVE  \E j \in DOMAIN q.resultChannels : call'[q.resultChannels[j]].input[f] = q.input[f]
  <2>1. CASE q.input[f] = call[c].input[f]
    <3>1. PICK j \in DOMAIN q.resultChannels : q.resultChannels[j] = c
      BY Zenon, <1>6
    <3>2. call'[q.resultChannels[j]].input[f] = q.input[f]
      BY Zenon, <1>3, <2>1, <3>1
    <3> QED
      BY Zenon, <3>2
  <2>2. CASE IsPending(k) /\ q.input[f] = p.input[f]
    <3>1. PICK j \in DOMAIN p.resultChannels : call'[p.resultChannels[j]].input[f] = p.input[f]
      BY Zenon, <1>8, <2>2 DEF FromCallers
    <3>2. j \in DOMAIN q.resultChannels /\ call'[q.resultChannels[j]].input[f] = q.input[f]
      BY Zenon, <1>6, <2>2, <3>1
    <3> QED
      BY Zenon, <3>2
  <2>3. CASE ~IsPending(k)
    BY Zenon, <1>2, <2>1, <2>3
  <2>4. CASE IsPending(k)
    <3>1. q.input = Merged(call[c].input, p.input)
      BY Zenon, <1>2, <2>4
    <3>2. \/ Merged(call[c].input, p.input)[f] = call[c].input[f]
          \/ Merged(call[c].input, p.input)[f] = p.input[f]
      BY Zenon DEF Merged
    <3>3. q.input[f] = call[c].input[f] \/ q.input[f] = p.input[f]
      BY Zenon, <3>1, <3>2
    <3> QED
      BY Zenon, <2>1, <2>2, <2>4, <3>3
  <2> QED
    BY Zenon, <2>3, <2>4
<1> QED
  BY Zenon, <1>9 DEF FromCallers, q, k

\* Nothing is invented by any step.
LEMMA NextInvents == IInv /\ NothingInvented /\ [Next]_vars => NothingInvented'
<1> SUFFICES ASSUME IInv, NothingInvented, [Next]_vars PROVE NothingInvented'
  OBVIOUS
<1>1. \A k \in Keys : IsPending(k) => FromCallers(call', pendingInputs[k])
  BY Zenon, InputsStay, FromStable DEF NothingInvented
<1>2. \A e \in executing : e.result = "none" => FromCallers(call', e)
  BY Zenon, InputsStay, FromStable DEF NothingInvented
<1>3. pendingInputs \in [Keys -> Pending] /\ call \in [Callers -> Call] /\ executing \subseteq Execution
  BY Zenon DEF IInv, TypeOK
<1>4. CASE UNCHANGED <<pendingInputs, executing>>
  BY Zenon, <1>1, <1>2, <1>4 DEF NothingInvented, IsPending
<1>5. ASSUME NEW c \in Callers, Receive(c) PROVE NothingInvented'
  <2>1. PICK k \in Keys : k = call[c].key
    BY Zenon, <1>3 DEF Call
  <2>2. FromCallers(call', Add(c, k))
    BY Zenon, <1>5, <2>1, ReceiveFrom
  <2>3. pendingInputs' = [pendingInputs EXCEPT ![k] = Add(c, k)] /\ executing' = executing
    BY Zenon, <1>5, <2>1 DEF Receive
  <2>4. pendingInputs'[k] = Add(c, k) /\ \A l \in Keys : l # k => pendingInputs'[l] = pendingInputs[l]
    BY Zenon, <1>3, <2>3
  <2>5. \A l \in Keys : IsPending(l)' => FromCallers(call', pendingInputs'[l])
    BY Zenon, <1>1, <2>2, <2>4 DEF IsPending
  <2> QED
    BY Zenon, <1>2, <2>3, <2>5 DEF NothingInvented
<1>6. ASSUME NEW k \in Keys, TimerFires(k) PROVE NothingInvented'
  <2> DEFINE n == [key |-> k, input |-> pendingInputs[k].input,
                   resultChannels |-> pendingInputs[k].resultChannels, result |-> "none"]
  <2>1. executing' = executing \cup {n} /\ pendingInputs' = [pendingInputs EXCEPT ![k] = None]
    BY Zenon, <1>6 DEF TimerFires
  <2>2. IsPending(k)
    BY <1>6 DEF TimerFires, IInv, TimerWhilePending, Off
  <2>3. FromCallers(call', n)
    <3>1. FromCallers(call', pendingInputs[k])
      BY Zenon, <1>1, <2>2
    <3>2. n.input = pendingInputs[k].input /\ n.resultChannels = pendingInputs[k].resultChannels
      BY Zenon
    <3> HIDE DEF n
    <3> QED
      BY Zenon, <3>1, <3>2 DEF FromCallers
  <2>4. None.resultChannels = <<>>
    BY Zenon DEF None
  <2>5. \A l \in Keys : IsPending(l)' => l # k /\ pendingInputs'[l] = pendingInputs[l]
    BY Zenon, <1>3, <2>1, <2>4 DEF IsPending
  <2>6. \A l \in Keys : IsPending(l)' => FromCallers(call', pendingInputs'[l])
    BY Zenon, <1>1, <2>5 DEF IsPending
  <2> HIDE DEF n
  <2>7. \A e \in executing' : e.result = "none" => FromCallers(call', e)
    BY Zenon, <1>2, <2>1, <2>3
  <2> QED
    BY Zenon, <2>6, <2>7 DEF NothingInvented
<1>7. ASSUME NEW e \in executing, Execute(e) \/ Send(e) PROVE NothingInvented'
  <2>1. pendingInputs' = pendingInputs /\ e \in Execution
    BY Zenon, <1>3, <1>7 DEF Execute, Send
  <2>2. ASSUME NEW d \in executing', d \notin executing PROVE d.result # "none"
    <3>1. CASE Execute(e)
      <4>1. PICK r \in Answers \ {"none", "Different"} : d = [e EXCEPT !.result = r]
        BY Zenon, <2>2, <3>1 DEF Execute, Finish
      <4> QED
        BY Zenon, <2>1, <4>1 DEF Execution
    <3>2. CASE Send(e)
      <4>1. d = [e EXCEPT !.resultChannels = Tail(e.resultChannels)] /\ e.result # "none"
        BY Zenon, <2>2, <3>2 DEF Send
      <4> QED
        BY Zenon, <2>1, <4>1 DEF Execution
    <3> QED
      BY Zenon, <1>7, <3>1, <3>2
  <2> QED
    BY Zenon, <1>1, <1>2, <2>1, <2>2 DEF NothingInvented, IsPending
<1> QED
  BY Zenon, <1>4, <1>5, <1>6, <1>7 DEF Next, Thread, Coalesce, Reject, Tick, vars

\* The value of a merged field of p: the one its callers ask for, or none when none asks.
JoinOf(p) ==
    \A f \in MergedFields :
        LET asked == {j \in DOMAIN p.resultChannels : Asks(call[p.resultChannels[j]].input, f)}
        IN  \A v : p.input[f] = v <=>
                IF asked = {} THEN v = Nothing[f]
                ELSE \A j \in asked : call[p.resultChannels[j]].input[f] = v

\* The requests that wait and those that are carried out are the joins of their callers'.
MergeIsJoin ==
    /\ \A k \in Keys : IsPending(k) => JoinOf(pendingInputs[k])
    /\ \A e \in executing : e.result = "none" => JoinOf(e)

\* Who serves all its callers, and takes from them alone, is their join.
LEMMA ServesAndFrom ==
    ASSUME NEW p, NEW k, InputServes(call, p, k, MergedFields), FromCallers(call, p)
    PROVE  JoinOf(p)
<1> SUFFICES ASSUME NEW f \in MergedFields, NEW v
             PROVE  LET asked == {j \in DOMAIN p.resultChannels : Asks(call[p.resultChannels[j]].input, f)}
                    IN  p.input[f] = v <=>
                          IF asked = {} THEN v = Nothing[f]
                          ELSE \A j \in asked : call[p.resultChannels[j]].input[f] = v
  BY Zenon DEF JoinOf
<1> DEFINE asked == {j \in DOMAIN p.resultChannels : Asks(call[p.resultChannels[j]].input, f)}
<1>1. f \in Fields
  BY Zenon DEF MergedFields, Fields, Nothing
<1>2. \A j \in asked : call[p.resultChannels[j]].input[f] = p.input[f]
  BY Zenon DEF InputServes
<1>3. asked = {} => p.input[f] = Nothing[f]
  BY Zenon, <1>1 DEF FromCallers, Asks
<1> HIDE DEF asked
<1>4. CASE asked = {}
  BY Zenon, <1>3, <1>4 DEF asked
<1>5. CASE asked # {}
  <2>1. PICK j \in asked : call[p.resultChannels[j]].input[f] = p.input[f]
    BY Zenon, <1>2, <1>5
  <2>2. p.input[f] = v <=> \A i \in asked : call[p.resultChannels[i]].input[f] = v
    BY Zenon, <1>2, <2>1
  <2> QED
    BY Zenon, <1>5, <2>2 DEF asked
<1> QED
  BY Zenon, <1>4, <1>5

\* What mergeModifyVolumeRequest has made of the requests for a volume is their join, field
\* by field: the value every caller that asks for the field asks for, and none where none
\* asks. It depends on the callers alone and not on the order in which coalescerThread
\* received them, and nothing is asked of EC2 that no caller has asked for.
THEOREM MergeAlwaysJoin == Spec => [](NothingInvented /\ MergeIsJoin)
<1>1. Init => NothingInvented
  <2> SUFFICES ASSUME Init PROVE NothingInvented
    OBVIOUS
  <2>1. None.resultChannels = <<>>
    BY Zenon DEF None
  <2> QED
    BY Zenon, <2>1 DEF Init, NothingInvented, IsPending
<1>2. IInv /\ NothingInvented => NothingInvented /\ MergeIsJoin
  BY Zenon, ServesAndFrom DEF IInv, MergeServesCallers, NothingInvented, MergeIsJoin
<1> QED
  BY <1>1, <1>2, NextInvents, CoalescerInvariant, PTL DEF Spec
=============================================================================
