--------------------------- MODULE BatcherProofs ----------------------------
(***************************************************************************)
(* Proofs about Batcher, for any number of callers and tasks, any limit of *)
(* entries and any delay.  The three invariants depend on one another:     *)
(* that a timer runs exactly while tasks are pending makes every batch     *)
(* non-empty, and the bound of a batch makes the equality that fills it    *)
(* enough.  Then BatchedDescribe is shown to implement Batcher, and its    *)
(* results to be true.                                                     *)
(***************************************************************************)
EXTENDS BatchedDescribe, FiniteSetTheorems, TLAPS

\* The tasks that some caller waits for.
Wanted(tasks) == {t \in Tasks : tasks[t] # {}}

InPending(c) == \E t \in Tasks : c \in pending[t]

InRunning(c) == \E b \in running : InBatch(b, c)

\* pendingTasks is a finite map, and a batch that runs has someone to answer.
Finite ==
    /\ IsFiniteSet(Wanted(pending))
    /\ \A b \in running : IsFiniteSet(Wanted(b.tasks)) /\ b.tasks # NoTasks

Inv == TypeOK /\ ChannelsInOnePlace /\ TimerWhilePending /\ BatchesBounded /\ Finite

-----------------------------------------------------------------------------
(* Channels and sets of tasks *)

\* A sender that is not on the channel yet is appended to it.
LEMMA AppendFacts ==
    ASSUME NEW s \in Seq(Callers), NEW c \in Callers,
           \A i, j \in 1..Len(s) : i # j => s[i] # s[j],
           \A i \in 1..Len(s) : s[i] # c
    PROVE  /\ Append(s, c) \in Seq(Callers) /\ Len(Append(s, c)) = Len(s) + 1
           /\ \A i, j \in 1..Len(Append(s, c)) : i # j => Append(s, c)[i] # Append(s, c)[j]
           /\ \A d \in Callers : (\E i \in 1..Len(Append(s, c)) : Append(s, c)[i] = d)
                                    <=> (\E i \in 1..Len(s) : s[i] = d) \/ d = c
  OBVIOUS

\* The first sender is taken from the channel.
LEMMA TailFacts ==
    ASSUME NEW s \in Seq(Callers), s # <<>>,
           \A i, j \in 1..Len(s) : i # j => s[i] # s[j]
    PROVE  /\ Tail(s) \in Seq(Callers) /\ Len(Tail(s)) = Len(s) - 1 /\ Head(s) \in Callers
           /\ \A i, j \in 1..Len(Tail(s)) : i # j => Tail(s)[i] # Tail(s)[j]
           /\ \A d \in Callers : (\E i \in 1..Len(Tail(s)) : Tail(s)[i] = d)
                                    <=> (\E i \in 1..Len(s) : s[i] = d) /\ d # Head(s)
           /\ \E i \in 1..Len(s) : s[i] = Head(s)
<1>1. /\ Tail(s) \in Seq(Callers) /\ Len(s) \in Nat /\ Len(s) > 0 /\ Len(Tail(s)) = Len(s) - 1
      /\ Head(s) = s[1] /\ \A i \in 1..Len(Tail(s)) : Tail(s)[i] = s[i + 1]
  OBVIOUS
<1>2. Head(s) \in Callers /\ \E i \in 1..Len(s) : s[i] = Head(s)
  BY <1>1
<1>3. \A i, j \in 1..Len(Tail(s)) : i # j => Tail(s)[i] # Tail(s)[j]
  BY <1>1
<1>4. ASSUME NEW d \in Callers, NEW i \in 1..Len(Tail(s)), Tail(s)[i] = d
      PROVE  (\E k \in 1..Len(s) : s[k] = d) /\ d # Head(s)
  <2>1. i + 1 \in 1..Len(s) /\ s[i + 1] = d /\ i + 1 # 1 /\ 1 \in 1..Len(s)
    BY <1>1, <1>4
  <2> QED
    BY Zenon, <1>1, <2>1
<1>5. ASSUME NEW d \in Callers, NEW k \in 1..Len(s), s[k] = d, d # Head(s)
      PROVE  \E i \in 1..Len(Tail(s)) : Tail(s)[i] = d
  <2>1. k # 1
    BY Zenon, <1>1, <1>5
  <2>2. k - 1 \in 1..Len(Tail(s)) /\ Tail(s)[k - 1] = s[k]
    BY <1>1, <2>1
  <2> QED
    BY Zenon, <1>5, <2>2
<1> QED
  BY Zenon, <1>1, <1>2, <1>3, <1>4, <1>5

\* No caller waits for a task when there is none.
LEMMA WantedNone ==
    ASSUME NEW tasks \in [Tasks -> SUBSET Callers]
    PROVE  /\ tasks = NoTasks <=> Wanted(tasks) = {}
           /\ Distinct(tasks) = Cardinality(Wanted(tasks))
  BY Zenon DEF NoTasks, Wanted, Distinct

\* What one more task does to the number of tasks.
LEMMA WantedGrows ==
    ASSUME NEW tasks \in [Tasks -> SUBSET Callers], IsFiniteSet(Wanted(tasks)),
           NEW more \in [Tasks -> SUBSET Callers], NEW t \in Tasks,
           Wanted(more) = Wanted(tasks) \cup {t}
    PROVE  /\ IsFiniteSet(Wanted(more))
           /\ Distinct(tasks) \in Nat /\ Distinct(more) \in Nat
           /\ Distinct(more) <= Distinct(tasks) + 1
           /\ tasks = NoTasks => Distinct(more) = 1
<1>1. Cardinality(Wanted(tasks)) \in Nat
  BY FS_CardinalityType
<1>2. /\ IsFiniteSet(Wanted(tasks) \cup {t})
      /\ Cardinality(Wanted(tasks) \cup {t})
            = IF t \in Wanted(tasks) THEN Cardinality(Wanted(tasks)) ELSE Cardinality(Wanted(tasks)) + 1
  BY Zenon, FS_AddElement
<1>3. tasks = NoTasks => Cardinality(Wanted(tasks)) = 0 /\ t \notin Wanted(tasks)
  BY Zenon, WantedNone, FS_EmptySet
<1>4. Distinct(tasks) = Cardinality(Wanted(tasks)) /\ Distinct(more) = Cardinality(Wanted(more))
  BY Zenon, WantedNone
<1> QED
  BY <1>1, <1>2, <1>3, <1>4

\* A batch that has answered a caller wants no more tasks than before.
LEMMA WantedLess ==
    ASSUME NEW tasks \in [Tasks -> SUBSET Callers], IsFiniteSet(Wanted(tasks)), NEW c \in Callers
    PROVE  LET rest == [t \in Tasks |-> tasks[t] \ {c}]
           IN  /\ rest \in [Tasks -> SUBSET Callers]
               /\ IsFiniteSet(Wanted(rest))
               /\ Distinct(tasks) \in Nat /\ Distinct(rest) \in Nat
               /\ Distinct(rest) <= Distinct(tasks)
<1> DEFINE rest == [t \in Tasks |-> tasks[t] \ {c}]
<1>1. rest \in [Tasks -> SUBSET Callers] /\ Wanted(rest) \subseteq Wanted(tasks)
  BY DEF Wanted
<1> HIDE DEF rest
<1>2. IsFiniteSet(Wanted(rest)) /\ Cardinality(Wanted(rest)) <= Cardinality(Wanted(tasks))
  BY Zenon, <1>1, FS_Subset
<1>3. Cardinality(Wanted(rest)) \in Nat /\ Cardinality(Wanted(tasks)) \in Nat
  BY <1>2, FS_CardinalityType
<1>4. Distinct(tasks) = Cardinality(Wanted(tasks)) /\ Distinct(rest) = Cardinality(Wanted(rest))
  BY <1>1, WantedNone
<1> QED
  BY Zenon, <1>1, <1>2, <1>3, <1>4 DEF rest

-----------------------------------------------------------------------------
(* The steps *)

\* The counts the bounds compare are numbers.
LEMMA Counts ==
    ASSUME Inv
    PROVE  /\ maxEntries \in Nat /\ maxEntries > 0
           /\ Distinct(pending) \in Nat
           /\ \A b \in running : Distinct(b.tasks) \in Nat
<1>1. maxEntries \in Nat /\ maxEntries > 0
  BY EntryLimitsAssumption DEF Inv, TypeOK
<1>2. pending \in [Tasks -> SUBSET Callers] /\ IsFiniteSet(Wanted(pending))
  BY Zenon DEF Inv, TypeOK, Finite
<1>3. Distinct(pending) \in Nat
  BY Zenon, <1>2, WantedNone, FS_CardinalityType
<1>4. ASSUME NEW b \in running PROVE Distinct(b.tasks) \in Nat
  <2>1. b.tasks \in [Tasks -> SUBSET Callers] /\ IsFiniteSet(Wanted(b.tasks))
    BY Zenon DEF Inv, TypeOK, Finite, Batch
  <2> QED
    BY Zenon, <2>1, WantedNone, FS_CardinalityType
<1> QED
  BY Zenon, <1>1, <1>3, <1>4

\* Nothing is asked at first.
LEMMA InitInv == Init => Inv
<1> SUFFICES ASSUME Init PROVE Inv
  OBVIOUS
<1>1. NoTasks \in [Tasks -> SUBSET Callers] /\ Idle \in Call /\ Idle.pc = "idle"
  BY Zenon, SomeTask DEF NoTasks, Idle, Call
<1>2. TypeOK
  BY <1>1, EntryLimitsAssumption, MaxDelayAssumption DEF Init, TypeOK
<1>3. ChannelsInOnePlace
  <2>1. \A c \in Callers : call[c].pc # "wait" /\ ~InChan(c)
    BY <1>1 DEF Init, InChan
  <2> QED
    BY <2>1 DEF Init, ChannelsInOnePlace, NoTasks
<1>4. TimerWhilePending
  BY DEF Init, TimerWhilePending
<1>5. Wanted(NoTasks) = {} /\ Distinct(NoTasks) = 0
  BY Zenon, <1>1, WantedNone, FS_EmptySet
<1>6. BatchesBounded /\ Finite
  BY <1>5, FS_EmptySet, EntryLimitsAssumption DEF Init, BatchesBounded, Finite
<1> QED
  BY Zenon, <1>2, <1>3, <1>4, <1>6 DEF Inv

\* A caller that is not waiting has its channel nowhere.
LEMMA NowhereElse ==
    ASSUME Inv, NEW c \in Callers, call[c].pc # "wait"
    PROVE  ~InChan(c) /\ (\A t \in Tasks : c \notin pending[t])
              /\ \A b \in running, t \in Tasks : c \notin b.tasks[t]
  BY DEF Inv, ChannelsInOnePlace, InBatch

\* What only the callers and the channel can disturb.
LEMMA BatchesKept ==
    ASSUME Inv, UNCHANGED <<maxEntries, pending, timer, running>>
    PROVE  TimerWhilePending' /\ BatchesBounded' /\ Finite'
<1>1. Distinct(pending)' = Distinct(pending) /\ Wanted(pending)' = Wanted(pending)
  BY Zenon DEF Distinct, Wanted
<1> QED
  BY Zenon, <1>1 DEF Inv, TimerWhilePending, BatchesBounded, Finite, Distinct, Wanted, NoTasks

\* A caller makes its channel.
LEMMA AskStep ==
    ASSUME Inv, NEW c \in Callers, NEW t \in Tasks, Ask(c, t), UNCHANGED maxEntries
    PROVE  Inv'
<1>1. /\ call' = [call EXCEPT ![c] = [pc |-> "add", task |-> t]] /\ call[c].pc = "idle"
      /\ UNCHANGED <<maxEntries, taskChan, pending, timer, waited, running>>
  BY DEF Ask
<1>2. call' \in [Callers -> Call] /\ TypeOK'
  BY <1>1 DEF Inv, TypeOK, Call
<1>3. ~InChan(c) /\ (\A u \in Tasks : c \notin pending[u])
         /\ \A b \in running, u \in Tasks : c \notin b.tasks[u]
  BY <1>1, NowhereElse
<1>4. call'[c].pc # "wait" /\ \A d \in Callers \ {c} : call'[d] = call[d]
  BY <1>1, <1>2 DEF Inv, TypeOK
<1>5. \A d : InChan(d)' <=> InChan(d)
  BY <1>1 DEF InChan
<1>6. ChannelsInOnePlace'
  BY <1>1, <1>3, <1>4, <1>5 DEF Inv, ChannelsInOnePlace, InBatch
<1> QED
  BY Zenon, <1>1, <1>2, <1>6, BatchesKept DEF Inv

\* A task goes into the channel of the batcher.
LEMMA AddTaskStep ==
    ASSUME Inv, NEW c \in Callers, AddTask(c), UNCHANGED maxEntries
    PROVE  Inv'
<1>1. /\ call' = [call EXCEPT ![c].pc = "wait"] /\ call[c].pc = "add"
      /\ taskChan' = Append(taskChan, c) /\ Len(taskChan) < maxEntries
      /\ UNCHANGED <<maxEntries, pending, timer, waited, running>>
  BY DEF AddTask
<1>2. ~InChan(c) /\ (\A u \in Tasks : c \notin pending[u])
         /\ \A b \in running, u \in Tasks : c \notin b.tasks[u]
  BY Zenon, <1>1, NowhereElse
<1>3. /\ taskChan' \in Seq(Callers) /\ Len(taskChan') = Len(taskChan) + 1
      /\ \A i, j \in 1..Len(taskChan') : i # j => taskChan'[i] # taskChan'[j]
      /\ \A d \in Callers : InChan(d)' <=> InChan(d) \/ d = c
  <2>1. taskChan \in Seq(Callers) /\ (\A i \in 1..Len(taskChan) : taskChan[i] # c)
           /\ \A i, j \in 1..Len(taskChan) : i # j => taskChan[i] # taskChan[j]
    BY <1>2 DEF Inv, TypeOK, ChannelsInOnePlace, InChan
  <2> QED
    BY <1>1, <2>1, AppendFacts DEF InChan
<1>4. /\ call' \in [Callers -> Call] /\ call'[c].pc = "wait" /\ call'[c].task = call[c].task
      /\ \A d \in Callers \ {c} : call'[d] = call[d]
  BY <1>1 DEF Inv, TypeOK, Call
<1>5. TypeOK'
  <2>1. Len(taskChan) \in Nat /\ maxEntries \in Nat
    BY Counts DEF Inv, TypeOK
  <2> QED
    BY <1>1, <1>3, <1>4, <2>1 DEF Inv, TypeOK
<1>6. ChannelsInOnePlace'
  <2>1. \A d \in Callers : call'[d].task = call[d].task
    BY Zenon, <1>4
  <2>2. \A d \in Callers : call'[d].pc = "wait" <=>
           InChan(d)' \/ (\E t \in Tasks : d \in pending[t]) \/ (\E b \in running : InBatch(b, d))
    BY <1>3, <1>4 DEF Inv, ChannelsInOnePlace
  <2>3. \A d \in Callers, t \in Tasks : d \in pending[t] => t = call[d].task /\ ~InChan(d)'
    BY <1>2, <1>3 DEF Inv, ChannelsInOnePlace
  <2>4. \A b \in running, d \in Callers, t \in Tasks : d \in b.tasks[t] =>
          /\ t = call[d].task
          /\ ~InChan(d)' /\ d \notin pending[t]
          /\ \A a \in running : a # b => ~InBatch(a, d)
    BY <1>2, <1>3 DEF Inv, ChannelsInOnePlace
  <2> QED
    BY <1>1, <1>3, <2>1, <2>2, <2>3, <2>4 DEF ChannelsInOnePlace
<1> QED
  BY <1>1, <1>5, <1>6, BatchesKept DEF Inv

\* exec moves tasks that someone waits for from pendingTasks into a batch of their own.
LEMMA ExecStep ==
    ASSUME Inv, NEW tasks \in [Tasks -> SUBSET Callers], Exec(tasks),
           UNCHANGED <<maxEntries, call>>, tasks # NoTasks,
           IsFiniteSet(Wanted(tasks)), Distinct(tasks) <= maxEntries,
           taskChan' \in Seq(Callers), Len(taskChan') <= maxEntries,
           \A i, j \in 1..Len(taskChan') : i # j => taskChan'[i] # taskChan'[j],
           NEW left \in SUBSET Callers,
           \A c \in Callers : (\E i \in 1..Len(taskChan') : taskChan'[i] = c) <=> c \in left,
           \A c \in Callers, t \in Tasks : c \in tasks[t] =>
              /\ t = call[c].task /\ c \notin left
              /\ \A b \in running : ~InBatch(b, c),
           \A c \in left : InChan(c),
           \A c \in Callers : InChan(c) \/ InPending(c) <=> c \in left \/ \E t \in Tasks : c \in tasks[t]
    PROVE  Inv'
<1> DEFINE new == [tasks |-> tasks, out |-> Unknown]
<1>1. /\ timer' = Off /\ waited' = 0 /\ pending' = NoTasks /\ running' = running \cup {new}
      /\ UNCHANGED <<maxEntries, call>>
  BY Zenon DEF Exec
<1>2. new \in Batch /\ new.tasks = tasks /\ NoTasks \in [Tasks -> SUBSET Callers]
  BY Zenon DEF Batch, Unknown, NoTasks
<1> HIDE DEF new
<1>3. TypeOK'
  BY <1>1, <1>2 DEF Inv, TypeOK
<1>4. \A c \in Callers, t \in Tasks : c \notin pending'[t]
  BY Zenon, <1>1 DEF NoTasks
<1>5. \A c \in Callers : InBatch(new, c) <=> \E t \in Tasks : c \in tasks[t]
  BY Zenon, <1>2 DEF InBatch
<1>6. ChannelsInOnePlace'
  <2>1. ASSUME NEW c \in Callers
        PROVE  call'[c].pc = "wait" <=> c \in left \/ \E b \in running' : InBatch(b, c)
    <3>1. call[c].pc = "wait" <=> InChan(c) \/ InPending(c) \/ \E b \in running : InBatch(b, c)
      BY Zenon DEF Inv, ChannelsInOnePlace, InPending
    <3> QED
      BY <1>1, <1>5, <3>1
  <2>2. ASSUME NEW b \in running', NEW c \in Callers, NEW t \in Tasks, c \in b.tasks[t]
        PROVE  /\ t = call'[c].task /\ c \notin left
               /\ \A a \in running' : a # b => ~InBatch(a, c)
    <3>1. CASE b = new
      <4>1. c \in tasks[t]
        BY Zenon, <1>2, <2>2, <3>1
      <4> QED
        BY <1>1, <3>1, <4>1
    <3>2. CASE b \in running
      <4>1. InBatch(b, c) /\ ~InBatch(new, c)
        BY <1>5, <2>2, <3>2 DEF InBatch
      <4> QED
        BY Zenon, <1>1, <2>2, <3>2, <4>1 DEF Inv, ChannelsInOnePlace
    <3> QED
      BY Zenon, <1>1, <3>1, <3>2
  <2> QED
    <3>1. (\A c \in Callers : call[c].pc = "wait"
              <=> InChan(c) \/ (\E t \in Tasks : c \in pending[t]) \/ (\E b \in running : InBatch(b, c)))'
      BY Zenon, <1>4, <2>1 DEF InChan, InBatch
    <3>2. (\A c \in Callers, t \in Tasks : c \in pending[t] => t = call[c].task /\ ~InChan(c))'
      BY Zenon, <1>4
    <3>3. (\A b \in running, c \in Callers, t \in Tasks : c \in b.tasks[t] =>
              /\ t = call[c].task
              /\ ~InChan(c) /\ c \notin pending[t]
              /\ \A a \in running : a # b => ~InBatch(a, c))'
      BY <1>4, <2>2 DEF InChan, InBatch
    <3> QED
      BY Zenon, <3>1, <3>2, <3>3 DEF ChannelsInOnePlace
<1>7. TimerWhilePending'
  BY Zenon, <1>1 DEF TimerWhilePending, NoTasks
<1>8. Wanted(NoTasks) = {} /\ Distinct(NoTasks) = 0
  BY Zenon, <1>2, WantedNone, FS_EmptySet
<1>9. BatchesBounded' /\ Finite'
  <2>1. Wanted(pending)' = {} /\ Distinct(pending)' = 0
    BY Zenon, <1>1, <1>8 DEF Wanted, Distinct, NoTasks
  <2>2. BatchesBounded'
    <3>1. \A b \in running' : Distinct(b.tasks) <= maxEntries
      BY Zenon, <1>1, <1>2 DEF Inv, BatchesBounded
    <3> QED
      <4>1. (Distinct(pending) < maxEntries)'
        BY Zenon, <1>1, <2>1, Counts
      <4>2. (\A b \in running : Distinct(b.tasks) <= maxEntries)'
        BY ZenonT(60), <1>1, <3>1 DEF Distinct
      <4> QED
        BY Zenon, <4>1, <4>2 DEF BatchesBounded
  <2>3. Finite'
    <3>1. \A b \in running' : IsFiniteSet(Wanted(b.tasks)) /\ b.tasks # NoTasks
      BY Zenon, <1>1, <1>2 DEF Inv, Finite
    <3>2. (\A b \in running : IsFiniteSet(Wanted(b.tasks)) /\ b.tasks # NoTasks)'
      BY Zenon, <3>1 DEF Wanted, NoTasks
    <3>3. IsFiniteSet(Wanted(pending))'
      BY Zenon, <2>1, FS_EmptySet
    <3> QED
      BY Zenon, <3>2, <3>3 DEF Finite
  <2> QED
    BY Zenon, <2>2, <2>3
<1> QED
  BY Zenon, <1>3, <1>6, <1>7, <1>9 DEF Inv

\* taskManager takes a task: it waits with the others, or the batch is full.
LEMMA ReceiveStep ==
    ASSUME Inv, Receive, UNCHANGED maxEntries
    PROVE  Inv'
<1> DEFINE h == Head(taskChan)
           tasks == Received(h)
<1>1. taskChan # <<>> /\ taskChan' = Tail(taskChan) /\ UNCHANGED <<maxEntries, call>>
  BY Zenon DEF Receive
<1>2. /\ taskChan' \in Seq(Callers) /\ Len(taskChan') = Len(taskChan) - 1 /\ h \in Callers
      /\ \A i, j \in 1..Len(taskChan') : i # j => taskChan'[i] # taskChan'[j]
      /\ \A d \in Callers : InChan(d)' <=> InChan(d) /\ d # h
      /\ InChan(h)
  <2>1. taskChan \in Seq(Callers) /\ \A i, j \in 1..Len(taskChan) : i # j => taskChan[i] # taskChan[j]
    BY Zenon DEF Inv, TypeOK, ChannelsInOnePlace
  <2> QED
    BY ZenonT(60), <1>1, <2>1, TailFacts DEF InChan
<1>3. Len(taskChan') <= maxEntries
  <2>1. Len(taskChan) \in Nat /\ maxEntries \in Nat /\ Len(taskChan) <= maxEntries
    BY Counts DEF Inv, TypeOK
  <2> QED
    BY <1>2, <2>1
<1>4. call[h].task \in Tasks /\ pending \in [Tasks -> SUBSET Callers] /\ IsFiniteSet(Wanted(pending))
  BY Zenon, <1>2 DEF Inv, TypeOK, Call, Finite
<1>5. /\ tasks \in [Tasks -> SUBSET Callers] /\ tasks # NoTasks /\ IsFiniteSet(Wanted(tasks))
      /\ Distinct(tasks) \in Nat /\ Distinct(tasks) <= Distinct(pending) + 1
      /\ pending = NoTasks => Distinct(tasks) = 1
  <2>1. tasks = [pending EXCEPT ![call[h].task] = @ \cup {h}]
    BY Zenon DEF Received
  <2> HIDE DEF tasks, h
  <2>2. /\ tasks \in [Tasks -> SUBSET Callers] /\ tasks[call[h].task] # {}
        /\ \A u \in Tasks \ {call[h].task} : tasks[u] = pending[u]
    BY Zenon, <1>2, <1>4, <2>1
  <2>3. tasks # NoTasks /\ Wanted(tasks) = Wanted(pending) \cup {call[h].task}
    BY Zenon, <1>4, <2>2 DEF NoTasks, Wanted
  <2> QED
    BY Zenon, <1>4, <2>2, <2>3, WantedGrows
<1>6. \A c \in Callers, t \in Tasks : c \in tasks[t] <=> c \in pending[t] \/ (c = h /\ t = call[h].task)
  BY Zenon, <1>4 DEF Received
<1>7. Distinct(tasks) <= maxEntries /\ (~Full(tasks) => Distinct(tasks) < maxEntries)
  BY <1>5, Counts DEF Inv, BatchesBounded, Full
<1> HIDE DEF h, tasks
<1>8. \A c \in Callers, t \in Tasks : c \in tasks[t] =>
         t = call[c].task /\ ~InChan(c)' /\ \A b \in running : ~InBatch(b, c)
  BY <1>2, <1>6 DEF Inv, ChannelsInOnePlace, InBatch
<1>9. \A c \in Callers : InChan(c) \/ InPending(c) <=> InChan(c)' \/ \E t \in Tasks : c \in tasks[t]
  BY <1>2, <1>4, <1>6 DEF InPending
<1>10. CASE Full(tasks)
  <2>1. Exec(tasks)
    BY Zenon, <1>10 DEF Receive, tasks, h
  <2> DEFINE left == {c \in Callers : InChan(c) /\ c # h}
  <2>2. /\ left \in SUBSET Callers /\ \A c \in left : InChan(c)
        /\ \A c \in Callers : (\E i \in 1..Len(taskChan') : taskChan'[i] = c) <=> c \in left
    BY Zenon, <1>2 DEF InChan
  <2>3. \A c \in Callers, t \in Tasks : c \in tasks[t] =>
           t = call[c].task /\ c \notin left /\ \A b \in running : ~InBatch(b, c)
    BY Zenon, <1>2, <1>8
  <2>4. \A c \in Callers : InChan(c) \/ InPending(c) <=> c \in left \/ \E t \in Tasks : c \in tasks[t]
    BY Zenon, <1>2, <1>9
  <2> HIDE DEF left
  <2> QED
    BY Zenon, <1>1, <1>2, <1>3, <1>5, <1>7, <2>1, <2>2, <2>3, <2>4, ExecStep
<1>11. CASE ~Full(tasks)
  <2>1. pending' = tasks /\ timer' = StartTimer(tasks) /\ UNCHANGED <<waited, running>>
    BY <1>11 DEF Receive, tasks, h
  <2>2. timer' \in 0..MaxDelay
    <3>1. CASE Distinct(tasks) = 1
      BY <2>1, <3>1, MaxDelayAssumption DEF StartTimer
    <3>2. CASE Distinct(tasks) # 1
      BY Zenon, <1>5, <2>1, <3>2 DEF StartTimer, Inv, TimerWhilePending, TypeOK
    <3> QED
      BY Zenon, <3>1, <3>2
  <2>3. TypeOK'
    BY Zenon, <1>1, <1>2, <1>3, <1>5, <2>1, <2>2 DEF Inv, TypeOK
  <2>4. ChannelsInOnePlace'
    BY <1>1, <1>2, <1>6, <1>8, <1>9, <2>1 DEF Inv, ChannelsInOnePlace, InBatch, InPending
  <2>5. TimerWhilePending'
    BY <1>5, <2>1, <2>2, MaxDelayAssumption DEF TimerWhilePending, NoTasks, Off
  <2>6. BatchesBounded'
    BY Zenon, <1>1, <1>7, <1>11, <2>1 DEF Inv, BatchesBounded, Distinct
  <2>7. Finite'
    BY Zenon, <1>5, <2>1 DEF Inv, Finite, Wanted, NoTasks
  <2> QED
    BY Zenon, <2>3, <2>4, <2>5, <2>6, <2>7 DEF Inv
<1> QED
  BY Zenon, <1>10, <1>11

\* The delay is over, and what is pending is executed.
LEMMA TimerFiresStep ==
    ASSUME Inv, TimerFires, UNCHANGED maxEntries
    PROVE  Inv'
<1>1. timer = 0 /\ Exec(pending) /\ UNCHANGED <<maxEntries, call, taskChan>>
  BY DEF TimerFires
<1>2. pending # NoTasks /\ IsFiniteSet(Wanted(pending)) /\ pending \in [Tasks -> SUBSET Callers]
  BY <1>1 DEF Inv, TimerWhilePending, Off, Finite, TypeOK
<1>3. Distinct(pending) <= maxEntries
  BY Counts DEF Inv, BatchesBounded
<1> DEFINE left == {c \in Callers : InChan(c)}
<1>4. /\ left \in SUBSET Callers /\ \A c \in left : InChan(c)
      /\ \A c \in Callers : (\E i \in 1..Len(taskChan') : taskChan'[i] = c) <=> c \in left
  BY Zenon, <1>1 DEF InChan
<1>5. \A c \in Callers, t \in Tasks : c \in pending[t] =>
         t = call[c].task /\ c \notin left /\ \A b \in running : ~InBatch(b, c)
  BY DEF Inv, ChannelsInOnePlace, InBatch
<1>6. /\ taskChan' \in Seq(Callers) /\ Len(taskChan') <= maxEntries
      /\ \A i, j \in 1..Len(taskChan') : i # j => taskChan'[i] # taskChan'[j]
  BY <1>1 DEF Inv, TypeOK, ChannelsInOnePlace
<1>7. \A c \in Callers : InChan(c) \/ InPending(c) <=> c \in left \/ \E t \in Tasks : c \in pending[t]
  BY Zenon DEF InPending
<1> HIDE DEF left
<1> QED
  BY Zenon, <1>1, <1>2, <1>3, <1>4, <1>5, <1>6, <1>7, ExecStep

\* Time passes while a batch is pending.
LEMMA TickStep ==
    ASSUME Inv, Tick, UNCHANGED maxEntries
    PROVE  Inv'
<1>1. /\ timer > 0 /\ timer' = timer - 1 /\ waited' = waited + 1
      /\ UNCHANGED <<maxEntries, call, taskChan, pending, running>>
  BY Zenon DEF Tick
<1>2. timer \in 0..MaxDelay /\ timer # Off /\ timer' \in 0..MaxDelay /\ timer' # Off
  BY <1>1, MaxDelayAssumption DEF Inv, TypeOK, Off
<1>3. TypeOK' /\ TimerWhilePending'
  BY <1>1, <1>2 DEF Inv, TypeOK, TimerWhilePending, NoTasks
<1>4. ChannelsInOnePlace'
  BY <1>1 DEF Inv, ChannelsInOnePlace, InChan, InBatch
<1>5. BatchesBounded' /\ Finite'
  BY Zenon, <1>1 DEF Inv, BatchesBounded, Finite, Distinct, Wanted, NoTasks
<1> QED
  BY Zenon, <1>3, <1>4, <1>5 DEF Inv

\* A batch gets its results.
LEMMA ExecFuncStep ==
    ASSUME Inv, NEW b \in running, ExecFunc(b), UNCHANGED maxEntries
    PROVE  Inv'
<1>1. PICK out \in Outcomes(b.tasks) : running' = (running \ {b}) \cup {[b EXCEPT !.out = out]}
  BY Zenon DEF ExecFunc
<1>2. UNCHANGED <<maxEntries, call, taskChan, pending, timer, waited>>
  BY Zenon DEF ExecFunc
<1> DEFINE d == [b EXCEPT !.out = out]
<1>3. d \in Batch /\ d.tasks = b.tasks /\ running' = (running \ {b}) \cup {d}
  BY Zenon, <1>1 DEF Inv, TypeOK, Batch, Outcomes
<1> HIDE DEF d
<1>4. TypeOK' /\ TimerWhilePending'
  BY Zenon, <1>2, <1>3 DEF Inv, TypeOK, TimerWhilePending, NoTasks
<1>5. ASSUME NEW c \in Callers
      PROVE  (\E a \in running' : InBatch(a, c)) <=> (\E a \in running : InBatch(a, c))
  BY Zenon, <1>3 DEF InBatch
<1>6. ASSUME NEW a \in running', NEW c \in Callers, NEW t \in Tasks, c \in a.tasks[t]
      PROVE  /\ t = call[c].task /\ ~InChan(c) /\ c \notin pending[t]
             /\ \A e \in running' : e # a => ~InBatch(e, c)
  <2>1. CASE a = d
    <3>1. c \in b.tasks[t]
      BY Zenon, <1>3, <1>6, <2>1
    <3> QED
      BY <1>3, <2>1, <3>1 DEF Inv, ChannelsInOnePlace
  <2>2. CASE a \in running /\ a # b
    <3>1. ~InBatch(b, c)
      BY Zenon, <1>6, <2>2 DEF Inv, ChannelsInOnePlace
    <3> QED
      BY <1>3, <1>6, <2>2, <3>1 DEF Inv, ChannelsInOnePlace, InBatch
  <2> QED
    BY Zenon, <1>3, <2>1, <2>2
<1>7. ChannelsInOnePlace'
  <2>1. \A c \in Callers : call[c].pc = "wait"
           <=> InChan(c) \/ (\E t \in Tasks : c \in pending[t]) \/ (\E a \in running' : InBatch(a, c))
    BY Zenon, <1>5 DEF Inv, ChannelsInOnePlace
  <2>2. /\ \A i, j \in 1..Len(taskChan) : i # j => taskChan[i] # taskChan[j]
        /\ \A c \in Callers, t \in Tasks : c \in pending[t] => t = call[c].task /\ ~InChan(c)
    BY Zenon DEF Inv, ChannelsInOnePlace
  <2> QED
    BY <1>2, <1>6, <2>1, <2>2 DEF ChannelsInOnePlace, InChan, InBatch
<1>8. BatchesBounded' /\ Finite'
  BY ZenonT(60), <1>2, <1>3 DEF Inv, BatchesBounded, Finite, Distinct, Wanted, NoTasks
<1> QED
  BY Zenon, <1>4, <1>7, <1>8 DEF Inv

\* A caller gets its result.
LEMMA SendStep ==
    ASSUME Inv, NEW b \in running, NEW c \in Callers, Send(b, c), UNCHANGED maxEntries
    PROVE  Inv'
<1> DEFINE rest == [t \in Tasks |-> b.tasks[t] \ {c}]
           d == [b EXCEPT !.tasks = rest]
<1>1. /\ c \in b.tasks[call[c].task] /\ call' = [call EXCEPT ![c] = Idle]
      /\ running' = (running \ {b}) \cup Sent(b, c)
      /\ UNCHANGED <<maxEntries, taskChan, pending, timer, waited>>
  BY DEF Send
<1>2. b \in Batch /\ b.tasks \in [Tasks -> SUBSET Callers] /\ call[c].task \in Tasks
  BY Zenon DEF Inv, TypeOK, Batch, Call
<1>3. /\ rest \in [Tasks -> SUBSET Callers] /\ d \in Batch /\ d.tasks = rest
      /\ Sent(b, c) = IF rest = NoTasks THEN {} ELSE {d}
  BY Zenon, <1>2 DEF Batch, Sent
<1>4. \A t \in Tasks : rest[t] = b.tasks[t] \ {c}
  OBVIOUS
<1>5. /\ IsFiniteSet(Wanted(rest)) /\ Distinct(rest) <= maxEntries
  <2>1. IsFiniteSet(Wanted(b.tasks)) /\ Distinct(b.tasks) <= maxEntries
    BY Zenon DEF Inv, Finite, BatchesBounded
  <2>2. IsFiniteSet(Wanted(rest)) /\ Distinct(rest) \in Nat /\ Distinct(rest) <= Distinct(b.tasks)
    BY Zenon, <1>2, <2>1, WantedLess
  <2> QED
    BY <2>1, <2>2, Counts
<1> HIDE DEF d, rest
<1>6. /\ Idle \in Call /\ Idle.pc # "wait" /\ call' \in [Callers -> Call] /\ call'[c].pc # "wait"
      /\ \A e \in Callers \ {c} : call'[e] = call[e]
  BY Zenon, <1>1, SomeTask DEF Idle, Call, Inv, TypeOK
<1>7. TypeOK' /\ TimerWhilePending'
  BY <1>1, <1>3, <1>6 DEF Inv, TypeOK, TimerWhilePending, NoTasks
<1>8. /\ ~InChan(c) /\ (\A t \in Tasks : c \notin pending[t])
      /\ \A a \in running : a # b => ~InBatch(a, c)
  BY Zenon, <1>1, <1>2 DEF Inv, ChannelsInOnePlace
<1>9. ASSUME NEW e \in Callers
      PROVE  (\E a \in running' : InBatch(a, e)) <=> e # c /\ \E a \in running : InBatch(a, e)
  <2>1. InBatch(d, e) <=> e # c /\ InBatch(b, e)
    BY <1>3, <1>4 DEF InBatch
  <2>2. rest = NoTasks => ~InBatch(d, e)
    BY Zenon, <1>3 DEF InBatch, NoTasks
  <2> QED
    BY Zenon, <1>1, <1>3, <1>8, <2>1, <2>2
<1>10. ASSUME NEW a \in running', NEW e \in Callers, NEW t \in Tasks, e \in a.tasks[t]
       PROVE  /\ e # c /\ t = call[e].task /\ ~InChan(e) /\ e \notin pending[t]
              /\ \A f \in running' : f # a => ~InBatch(f, e)
  <2>1. CASE a = d
    <3>1. e \in b.tasks[t] /\ e # c
      BY Zenon, <1>3, <1>4, <1>10, <2>1
    <3> QED
      <4>1. b \in running /\ \A f \in running' : f # a => f \in running /\ f # b
        BY Zenon, <1>1, <1>3, <2>1
      <4>2. /\ t = call[e].task /\ ~InChan(e) /\ e \notin pending[t]
            /\ \A f \in running : f # b => ~InBatch(f, e)
        BY <3>1, <4>1 DEF Inv, ChannelsInOnePlace
      <4> QED
        BY Zenon, <3>1, <4>1, <4>2
  <2>2. CASE a \in running /\ a # b
    <3>1. ~InBatch(b, e) /\ InBatch(a, e)
      BY Zenon, <1>10, <2>2 DEF Inv, ChannelsInOnePlace, InBatch
    <3>2. ~InBatch(d, e)
      BY Zenon, <1>3, <1>4, <3>1 DEF InBatch
    <3>3. e # c
      BY Zenon, <1>8, <2>2, <3>1
    <3> QED
      BY <1>1, <1>3, <1>10, <2>2, <3>2, <3>3 DEF Inv, ChannelsInOnePlace
  <2> QED
    BY Zenon, <1>1, <1>3, <2>1, <2>2
<1>11. ChannelsInOnePlace'
  <2>1. \A e \in Callers : call'[e].pc = "wait"
           <=> InChan(e) \/ (\E t \in Tasks : e \in pending[t]) \/ (\E a \in running' : InBatch(a, e))
    BY <1>6, <1>8, <1>9 DEF Inv, ChannelsInOnePlace
  <2>2. /\ \A i, j \in 1..Len(taskChan) : i # j => taskChan[i] # taskChan[j]
        /\ \A e \in Callers, t \in Tasks : e \in pending[t] => t = call'[e].task /\ ~InChan(e)
    BY <1>6, <1>8 DEF Inv, ChannelsInOnePlace
  <2>3. \A a \in running', e \in Callers, t \in Tasks : e \in a.tasks[t] =>
           /\ t = call'[e].task /\ ~InChan(e) /\ e \notin pending[t]
           /\ \A f \in running' : f # a => ~InBatch(f, e)
    BY <1>6, <1>10
  <2> QED
    BY <1>1, <2>1, <2>2, <2>3 DEF ChannelsInOnePlace, InChan, InBatch
<1>12. \A a \in running' : /\ Distinct(a.tasks) <= maxEntries
                           /\ IsFiniteSet(Wanted(a.tasks)) /\ a.tasks # NoTasks
  BY Zenon, <1>1, <1>3, <1>5 DEF Inv, BatchesBounded, Finite
<1>13. BatchesBounded' /\ Finite'
  BY ZenonT(60), <1>1, <1>12 DEF Inv, BatchesBounded, Finite, Distinct, Wanted, NoTasks
<1> QED
  BY Zenon, <1>7, <1>11, <1>13 DEF Inv

-----------------------------------------------------------------------------
(* The results *)

\* Every step keeps the invariant.
LEMMA NextInv == Inv /\ [Next]_vars => Inv'
<1> SUFFICES ASSUME Inv, [Next]_vars PROVE Inv'
  OBVIOUS
<1>1. ASSUME NEW c \in Callers, NEW t \in Tasks, Ask(c, t), UNCHANGED maxEntries PROVE Inv'
  BY Zenon, <1>1, AskStep
<1>2. ASSUME NEW c \in Callers, AddTask(c), UNCHANGED maxEntries PROVE Inv'
  BY <1>2, AddTaskStep
<1>3. CASE Manage /\ UNCHANGED maxEntries
  BY Zenon, <1>3, ReceiveStep, TimerFiresStep DEF Manage
<1>4. CASE Tick /\ UNCHANGED maxEntries
  BY Zenon, <1>4, TickStep
<1>5. ASSUME NEW b \in running, ExecFunc(b), UNCHANGED maxEntries PROVE Inv'
  BY Zenon, <1>5, ExecFuncStep
<1>6. ASSUME NEW b \in running, NEW c \in Callers, Send(b, c), UNCHANGED maxEntries PROVE Inv'
  BY Zenon, <1>6, SendStep
<1>7. CASE UNCHANGED vars
  <2>1. ChannelsInOnePlace'
    BY <1>7 DEF vars, Inv, ChannelsInOnePlace, InChan, InBatch
  <2>2. TypeOK'
    BY Zenon, <1>7 DEF vars, Inv, TypeOK
  <2> QED
    BY Zenon, <1>7, <2>1, <2>2, BatchesKept DEF vars, Inv
<1> QED
  BY <1>1, <1>2, <1>3, <1>4, <1>5, <1>6, <1>7 DEF Next

\* The strengthened invariant holds in every reachable state of the batcher.
THEOREM BatcherInvariant == Spec => []Inv
  BY InitInv, NextInv, PTL DEF Spec

\* All variables of the batcher stay in their types.
THEOREM BatcherTypes == Spec => []TypeOK
<1>1. Inv => TypeOK
  BY Zenon DEF Inv
<1> QED
  BY <1>1, BatcherInvariant, PTL

\* No result is lost or sent twice, whatever the number of callers that ask for the same
\* task, and whether a batch is executed for its size or for its age.
THEOREM ResultsNeitherLostNorTwice == Spec => []ChannelsInOnePlace
<1>1. Inv => ChannelsInOnePlace
  BY Zenon DEF Inv
<1> QED
  BY <1>1, BatcherInvariant, PTL

\* The timer of taskManager runs exactly while pendingTasks has a task.
THEOREM TimerRunsWhilePending == Spec => []TimerWhilePending
<1>1. Inv => TimerWhilePending
  BY Zenon DEF Inv
<1> QED
  BY <1>1, BatcherInvariant, PTL

\* Comparing the number of pending tasks with maxEntries for equality is enough: no batch
\* ever exceeds the limit.
THEOREM NeverOverLimit == Spec => []BatchesBounded
<1>1. Inv => BatchesBounded
  BY Zenon DEF Inv
<1> QED
  BY <1>1, BatcherInvariant, PTL

-----------------------------------------------------------------------------
(* The batched Describe calls implement the batcher *)

Retry == [tasks : [Tasks -> SUBSET Callers], left : SUBSET Tasks, found : SUBSET Tasks]

BatchOf(r) == [tasks |-> r.tasks, out |-> Unknown]

\* A batch that asks for its bad IDs one by one is a batch that runs and has no results yet;
\* it does so once.
Retrying ==
    /\ retries \subseteq Retry
    /\ \A r \in retries :
          /\ BatchOf(r) \in running
          /\ \A t \in r.left \cup r.found : r.tasks[t] # {}
          /\ \A s \in retries : s.tasks = r.tasks => s = r

\* What has been seen of the ID of a caller includes what is.
Watched == \A c \in Callers : call[c].pc # "idle" /\ call[c].task \in exists => "there" \in was[c]

\* Whoever waits for an ID that was found could have found it themselves.
FoundBy(tasks, t) == \A c \in tasks[t] : "there" \in was[c]

Truthful ==
    /\ \A b \in running, t \in Tasks : b.out[t] = "value" => FoundBy(b.tasks, t)
    /\ \A r \in retries : \A t \in r.found : FoundBy(r.tasks, t)

\* The history of the callers.
Histories == [Callers -> SUBSET {"there", "gone"}]

DescribeInv == Inv /\ Retrying /\ was \in Histories /\ Watched /\ Truthful

\* Only a caller that waits is in a batch, with the task it waits for.
LEMMA InBatchWaits ==
    ASSUME Inv, NEW b \in running, NEW t \in Tasks, NEW c \in b.tasks[t]
    PROVE  c \in Callers /\ call[c].pc = "wait" /\ call[c].task = t
<1>1. b.tasks \in [Tasks -> SUBSET Callers]
  BY Zenon DEF Inv, TypeOK, Batch
<1>2. c \in Callers
  BY Zenon, <1>1
<1> QED
  BY Zenon, <1>2 DEF Inv, ChannelsInOnePlace, InBatch

\* Answers are an outcome the batcher knows, when only IDs of the batch are found.
LEMMA AnswersOutcome ==
    ASSUME NEW b, NEW found \in SUBSET Tasks, \A t \in found : b.tasks[t] # {}
    PROVE  Answers(b, found) \in Outcomes(b.tasks)
  BY DEF Answers, Outcomes, Results

\* So is an error for all.
LEMMA ErrorOutcome ==
    ASSUME NEW b
    PROVE  [t \in Tasks |-> "error"] \in Outcomes(b.tasks)
  BY DEF Outcomes, Results

\* A batch that returns an outcome is one whose execFunc does.
LEMMA ReturnExecutes ==
    ASSUME NEW b \in running, b.out = Unknown, NEW out \in Outcomes(b.tasks), Return(b, out),
           UNCHANGED <<maxEntries, call, taskChan, pending, timer, waited>>
    PROVE  Next
<1>1. ExecFunc(b)
  BY Zenon DEF ExecFunc, Return
<1> QED
  BY Zenon, <1>1 DEF Next

\* A batch is its tasks and its outcome.
LEMMA BatchIs ==
    ASSUME NEW b \in Batch, b.out = Unknown
    PROVE  [tasks |-> b.tasks, out |-> Unknown] = b
  BY DEF Batch

\* The call for the good IDs.
LEMMA DescribeIdsExecutes ==
    ASSUME Inv, NEW b \in running, DescribeIds(b)
    PROVE  Next \/ UNCHANGED vars
<1>1. b.out = Unknown
  BY Zenon DEF DescribeIds, DescribeGood, DescribeMissing, DescribeFails, Describing
<1>2. UNCHANGED <<maxEntries, call, taskChan, pending, timer, waited>>
  BY Zenon DEF DescribeIds, DescribeGood, DescribeMissing, DescribeFails
<1>3. CASE DescribeGood(b)
  <2>1. GoodIds(b) \in SUBSET Tasks /\ \A t \in GoodIds(b) : b.tasks[t] # {}
    BY Zenon DEF GoodIds, InputOf
  <2>2. CASE UNCHANGED running
    BY Zenon, <1>2, <2>2 DEF vars
  <2>3. CASE Return(b, Answers(b, GoodIds(b)))
    BY Zenon, <1>1, <1>2, <2>1, <2>3, AnswersOutcome, ReturnExecutes
  <2> QED
    BY Zenon, <1>3, <2>2, <2>3 DEF DescribeGood
<1>4. CASE DescribeMissing(b) \/ DescribeFails(b)
  <2>1. Return(b, [t \in Tasks |-> "error"])
    BY Zenon, <1>4 DEF DescribeMissing, DescribeFails
  <2> QED
    BY Zenon, <1>1, <1>2, <2>1, ErrorOutcome, ReturnExecutes
<1> QED
  BY Zenon, <1>3, <1>4 DEF DescribeIds

\* The calls for the others.
LEMMA DescribeBadExecutes ==
    ASSUME Inv, Retrying, NEW r \in retries, NEW t \in Tasks, DescribeBad(r, t)
    PROVE  Next \/ UNCHANGED vars
<1> DEFINE b == BatchOf(r)
<1>1. b \in running /\ b.out = Unknown /\ b.tasks = r.tasks
  BY DEF Retrying, BatchOf
<1>2. UNCHANGED <<maxEntries, call, taskChan, pending, timer, waited>>
  BY Zenon DEF DescribeBad
<1>3. PICK found : /\ found = r.found \/ found = r.found \cup {t}
                   /\ UNCHANGED running \/ Return(b, Answers(b, found))
  BY Zenon DEF DescribeBad, BatchOf
<1>4. found \in SUBSET Tasks /\ \A u \in found : b.tasks[u] # {}
  <2>1. r.found \subseteq Tasks /\ t \in r.left
    BY Zenon DEF Retrying, Retry, DescribeBad
  <2>2. \A u \in r.left \cup r.found : b.tasks[u] # {}
    BY Zenon, <1>1 DEF Retrying
  <2> QED
    BY Zenon, <1>3, <2>1, <2>2
<1>5. CASE UNCHANGED running
  BY Zenon, <1>2, <1>5 DEF vars
<1>6. CASE Return(b, Answers(b, found))
  <2> HIDE DEF b
  <2> QED
    BY Zenon, <1>1, <1>2, <1>4, <1>6, AnswersOutcome, ReturnExecutes
<1> QED
  BY Zenon, <1>3, <1>5, <1>6

\* Every step of the batched Describe calls is one of the batcher, or changes nothing of it.
LEMMA DescribeImplements ==
    ASSUME Inv, Retrying, [DescribeNext]_allVars
    PROVE  [Next]_vars
<1>1. ASSUME NEW c \in Callers, NEW t \in Tasks, Ask(c, t), UNCHANGED maxEntries PROVE Next
  BY Zenon, <1>1 DEF Next
<1>2. ASSUME (\E c \in Callers : AddTask(c)) \/ Manage \/ Tick, UNCHANGED maxEntries PROVE Next
  BY Zenon, <1>2 DEF Next
<1>3. ASSUME NEW c \in Callers, Answer(c) PROVE Next
  BY Zenon, <1>3 DEF Next, Answer
<1>4. ASSUME Describe PROVE Next \/ UNCHANGED vars
  BY Zenon, <1>4, DescribeIdsExecutes, DescribeBadExecutes DEF Describe
<1>5. ASSUME NEW t \in Tasks, Change(t) \/ Expire(t) PROVE UNCHANGED vars
  BY Zenon, <1>5 DEF Change, Expire, vars
<1>6. ASSUME UNCHANGED allVars PROVE UNCHANGED vars
  BY Zenon, <1>6 DEF allVars, vars
<1> QED
  BY Zenon, <1>1, <1>2, <1>3, <1>4, <1>5, <1>6 DEF DescribeNext, describeVars

-----------------------------------------------------------------------------
(* Results are true *)

\* The calls one by one go on while their batch waits for them.
LEMMA RetryingStays ==
    ASSUME Retrying, UNCHANGED retries, \A b \in running : b.out = Unknown => b \in running'
    PROVE  Retrying'
<1>1. ASSUME NEW r \in retries PROVE BatchOf(r) \in running'
  <2>1. BatchOf(r).out = Unknown
    BY DEF BatchOf
  <2> QED
    BY Zenon, <2>1 DEF Retrying
<1>2. \A r \in retries : BatchOf(r)' = BatchOf(r)
  BY Zenon DEF BatchOf, Unknown
<1> QED
  BY Zenon, <1>1, <1>2 DEF Retrying, BatchOf, Unknown

\* What was found stays so for those who wait, as long as results are passed on.
LEMMA TruthfulStays ==
    ASSUME Truthful, Retrying', Inv', UNCHANGED retries,
           \A c \in Callers : call'[c].pc = "wait" /\ "there" \in was[c] => "there" \in was'[c],
           \A d \in running', t \in Tasks : d.out[t] = "value" =>
               \E b \in running : b.out[t] = "value" /\ d.tasks[t] \subseteq b.tasks[t]
    PROVE  Truthful'
<1>1. ASSUME NEW b \in running', NEW t \in Tasks, NEW c \in b.tasks[t]
      PROVE  c \in Callers /\ call'[c].pc = "wait"
  <2>1. b.tasks \in [Tasks -> SUBSET Callers]
    BY Zenon DEF Inv, TypeOK, Batch
  <2>2. c \in Callers
    BY Zenon, <2>1
  <2> QED
    BY Zenon, <2>2 DEF Inv, ChannelsInOnePlace, InBatch
<1>2. ASSUME NEW d \in running', NEW t \in Tasks, d.out[t] = "value", NEW c \in d.tasks[t]
      PROVE  "there" \in was'[c]
  <2>1. "there" \in was[c]
    BY Zenon, <1>2 DEF Truthful, FoundBy
  <2> QED
    BY Zenon, <1>1, <2>1
<1>3. ASSUME NEW r \in retries, NEW t \in r.found, NEW c \in r.tasks[t]
      PROVE  "there" \in was'[c]
  <2>1. "there" \in was[c]
    BY Zenon DEF Truthful, FoundBy
  <2>2. BatchOf(r) \in running' /\ BatchOf(r).tasks = r.tasks /\ t \in Tasks
    BY DEF Retrying, BatchOf, Retry, Unknown
  <2>3. c \in BatchOf(r).tasks[t]
    BY <2>2
  <2>4. c \in Callers /\ call'[c].pc = "wait"
    BY Zenon, <1>1, <2>2, <2>3
  <2> QED
    BY Zenon, <2>1, <2>4
<1> QED
  BY Zenon, <1>2, <1>3 DEF Truthful, FoundBy

\* An ID that is there now is found for all who wait for it.
LEMMA FoundHere ==
    ASSUME Inv, Watched, NEW b \in running, NEW t \in Tasks, t \in exists
    PROVE  FoundBy(b.tasks, t)
<1> SUFFICES ASSUME NEW c \in b.tasks[t] PROVE "there" \in was[c]
  BY Zenon DEF FoundBy
<1>1. c \in Callers /\ call[c].pc = "wait" /\ call[c].task = t
  BY Zenon, InBatchWaits
<1> QED
  BY <1>1 DEF Watched

\* A batch that returns leaves the other batches their calls.
LEMMA ReturnKeeps ==
    ASSUME Retrying, Truthful, running \subseteq Batch, NEW b \in running, NEW out, Return(b, out),
           UNCHANGED was, retries' \subseteq retries, \A r \in retries' : r.tasks # b.tasks,
           \A t \in Tasks : out[t] = "value" => FoundBy(b.tasks, t)
    PROVE  Retrying' /\ Truthful'
<1> DEFINE d == [b EXCEPT !.out = out]
<1>1. d.tasks = b.tasks /\ d.out = out /\ running' = (running \ {b}) \cup {d}
  BY DEF Batch, Return
<1> HIDE DEF d
<1>2. ASSUME NEW r \in retries' PROVE r \in retries /\ BatchOf(r) \in running'
  <2>1. BatchOf(r).tasks = r.tasks
    BY DEF BatchOf
  <2> QED
    BY Zenon, <1>1, <2>1 DEF Retrying
<1>3. Retrying'
  BY Zenon, <1>2 DEF Retrying, BatchOf, Unknown
<1>4. \A e \in running', t \in Tasks : e.out[t] = "value" => FoundBy(e.tasks, t)
  BY Zenon, <1>1 DEF Truthful
<1>5. Truthful'
  BY Zenon, <1>2, <1>4 DEF Truthful, FoundBy
<1> QED
  BY Zenon, <1>3, <1>5

\* A batch starts its calls one by one, or has made one of them.
LEMMA RetryJoins ==
    ASSUME Retrying, Truthful, UNCHANGED <<running, was>>, NEW r \in Retry, BatchOf(r) \in running,
           \A t \in r.left \cup r.found : r.tasks[t] # {}, \A t \in r.found : FoundBy(r.tasks, t),
           NEW S \in SUBSET retries, \A s \in S : s.tasks # r.tasks, retries' = S \cup {r}
    PROVE  Retrying' /\ Truthful'
<1>1. \A s \in S : s \in retries
  BY Zenon
<1>2. retries' \subseteq Retry
  BY Zenon, <1>1 DEF Retrying
<1>3. ASSUME NEW s \in retries'
      PROVE  /\ BatchOf(s) \in running /\ \A t \in s.left \cup s.found : s.tasks[t] # {}
             /\ \A u \in retries' : u.tasks = s.tasks => u = s
  BY Zenon, <1>1 DEF Retrying
<1>4. Retrying'
  BY Zenon, <1>2, <1>3 DEF Retrying, BatchOf, Unknown
<1>5. Truthful'
  BY Zenon, <1>1 DEF Truthful, FoundBy
<1> QED
  BY Zenon, <1>4, <1>5

\* The call for the good IDs.
LEMMA DescribeIdsKeeps ==
    ASSUME DescribeInv, NEW b \in running, DescribeIds(b)
    PROVE  Retrying' /\ Truthful'
<1>1. /\ Inv /\ Retrying /\ Truthful /\ Watched /\ running \subseteq Batch /\ UNCHANGED was
      /\ Describing(b)
  BY Zenon DEF DescribeInv, Inv, TypeOK, DescribeIds, DescribeGood, DescribeMissing, DescribeFails
<1>2. b.out = Unknown /\ \A r \in retries : r.tasks # b.tasks
  BY Zenon, <1>1 DEF Describing
<1>3. CASE DescribeGood(b)
  <2> DEFINE good == GoodIds(b)
             left == InputOf(b) \ good
             r == [tasks |-> b.tasks, left |-> left, found |-> good]
  <2>1. good \subseteq Tasks /\ left \subseteq Tasks /\ \A t \in left \cup good : b.tasks[t] # {}
    BY Zenon DEF GoodIds, InputOf
  <2>2. \A t \in good : FoundBy(b.tasks, t)
    BY Zenon, <1>1, <1>3, <2>1, FoundHere DEF DescribeGood
  <2>3. CASE Return(b, Answers(b, good)) /\ UNCHANGED retries
    <3>1. \A t \in Tasks : Answers(b, good)[t] = "value" => t \in good
      BY DEF Answers
    <3> HIDE DEF good
    <3> QED
      BY Zenon, <1>1, <1>2, <2>2, <2>3, <3>1, ReturnKeeps
  <2>4. CASE retries' = retries \cup {r} /\ UNCHANGED running
    <3>1. r.tasks = b.tasks /\ r.left = left /\ r.found = good
      OBVIOUS
    <3>2. b \in Batch /\ b.tasks \in [Tasks -> SUBSET Callers]
      BY Zenon, <1>1 DEF Batch
    <3>3. r \in Retry
      BY <2>1, <3>2 DEF Retry
    <3>4. BatchOf(r) = b
      BY Zenon, <1>2, <3>1, <3>2, BatchIs DEF BatchOf
    <3>5. /\ \A t \in r.left \cup r.found : r.tasks[t] # {} /\ retries \in SUBSET retries
          /\ \A t \in r.found : FoundBy(r.tasks, t)
      BY Zenon, <2>1, <2>2, <3>1
    <3>6. \A s \in retries : s.tasks # r.tasks
      BY Zenon, <1>2, <3>1
    <3>7. BatchOf(r) \in running
      BY Zenon, <3>4
    <3> HIDE DEF r, left, good
    <3> QED
      BY Zenon, <1>1, <2>4, <3>3, <3>5, <3>6, <3>7, RetryJoins
  <2> QED
    BY Zenon, <1>3, <2>3, <2>4 DEF DescribeGood
<1>4. CASE DescribeMissing(b) \/ DescribeFails(b)
  <2> DEFINE out == [t \in Tasks |-> "error"]
  <2>1. Return(b, out) /\ UNCHANGED retries
    BY Zenon, <1>4 DEF DescribeMissing, DescribeFails
  <2>2. \A t \in Tasks : out[t] # "value"
    OBVIOUS
  <2> HIDE DEF out
  <2> QED
    BY Zenon, <1>1, <1>2, <2>1, <2>2, ReturnKeeps
<1> QED
  BY Zenon, <1>3, <1>4 DEF DescribeIds

\* The call for one bad ID.
LEMMA DescribeBadKeeps ==
    ASSUME DescribeInv, NEW r \in retries, NEW t \in Tasks, DescribeBad(r, t)
    PROVE  Retrying' /\ Truthful'
<1> DEFINE b == BatchOf(r)
           left == r.left \ {t}
<1>1. Inv /\ Retrying /\ Truthful /\ Watched /\ running \subseteq Batch /\ UNCHANGED was /\ t \in r.left
  BY Zenon DEF DescribeInv, Inv, TypeOK, DescribeBad
<1>2. /\ r \in Retry /\ b \in running /\ \A s \in retries \ {r} : s.tasks # r.tasks
      /\ \A u \in r.left \cup r.found : r.tasks[u] # {}
  BY Zenon, <1>1 DEF Retrying
<1>3. b.tasks = r.tasks /\ b.out = Unknown
  BY DEF BatchOf
<1>4. PICK found : /\ found = r.found \/ (found = r.found \cup {t} /\ t \in exists)
                   /\ \/ retries' = retries \ {r} /\ Return(b, Answers(b, found))
                      \/ /\ retries' = (retries \ {r}) \cup {[r EXCEPT !.left = left, !.found = found]}
                         /\ UNCHANGED running
  <2>1. PICK here \in {TRUE, FALSE} :
             /\ here => t \in exists
             /\ LET found == IF here THEN r.found \cup {t} ELSE r.found
                IN  IF left = {}
                    THEN /\ retries' = retries \ {r}
                         /\ Return(b, Answers(b, found))
                    ELSE /\ retries' = (retries \ {r})
                                          \cup {[r EXCEPT !.left = left, !.found = found]}
                         /\ UNCHANGED running
    BY Zenon DEF DescribeBad, BatchOf
  <2> HIDE DEF b, left
  <2> QED
    BY Zenon, <2>1
<1>5. found \subseteq Tasks /\ left \subseteq Tasks /\ \A u \in left \cup found : r.tasks[u] # {}
  <2>1. r.found \subseteq Tasks /\ r.left \subseteq Tasks
    BY Zenon, <1>2 DEF Retry
  <2> QED
    BY Zenon, <1>1, <1>2, <1>4, <2>1
<1>6. \A u \in found : FoundBy(r.tasks, u)
  <2>1. ASSUME t \in exists PROVE FoundBy(b.tasks, t)
    BY Zenon, <1>1, <1>2, <2>1, FoundHere
  <2>2. ASSUME t \in exists PROVE FoundBy(r.tasks, t)
    BY Zenon, <1>3, <2>1, <2>2
  <2> QED
    BY Zenon, <1>1, <1>4, <2>2 DEF Truthful
<1>7. CASE retries' = retries \ {r} /\ Return(b, Answers(b, found))
  <2>1. \A u \in Tasks : Answers(b, found)[u] = "value" => u \in found
    BY DEF Answers
  <2>2. \A u \in Tasks : Answers(b, found)[u] = "value" => FoundBy(b.tasks, u)
    BY Zenon, <1>3, <1>6, <2>1
  <2>3. retries' \subseteq retries /\ \A s \in retries' : s.tasks # b.tasks
    BY Zenon, <1>2, <1>3, <1>7
  <2> HIDE DEF b
  <2> QED
    BY Zenon, <1>1, <1>2, <1>7, <2>2, <2>3, ReturnKeeps
<1>8. CASE /\ retries' = (retries \ {r}) \cup {[r EXCEPT !.left = left, !.found = found]}
           /\ UNCHANGED running
  <2> DEFINE q == [r EXCEPT !.left = left, !.found = found]
  <2>1. q \in Retry /\ q.tasks = r.tasks /\ q.left = left /\ q.found = found
    BY <1>2, <1>5 DEF Retry
  <2>2. BatchOf(q) \in running
    BY Zenon, <1>2, <2>1 DEF BatchOf
  <2>3. /\ \A u \in q.left \cup q.found : q.tasks[u] # {}
        /\ \A u \in q.found : FoundBy(q.tasks, u)
    BY Zenon, <1>5, <1>6, <2>1
  <2>4. retries \ {r} \in SUBSET retries /\ \A s \in retries \ {r} : s.tasks # q.tasks
    BY Zenon, <1>2, <2>1
  <2>5. retries' = (retries \ {r}) \cup {q}
    BY Zenon, <1>8
  <2> HIDE DEF q
  <2> QED
    BY Zenon, <1>1, <1>8, <2>1, <2>2, <2>3, <2>4, <2>5, RetryJoins
<1> QED
  BY Zenon, <1>4, <1>7, <1>8

\* Batches that have no results yet stay when one that has them sends one.
LEMMA SendKeeps ==
    ASSUME Inv, NEW b \in running, NEW c \in Callers, Send(b, c)
    PROVE  /\ \A a \in running : a.out = Unknown => a \in running'
           /\ \A d \in running', t \in Tasks : d.out[t] = "value" =>
                  \E a \in running : a.out[t] = "value" /\ d.tasks[t] \subseteq a.tasks[t]
<1> DEFINE rest == [t \in Tasks |-> b.tasks[t] \ {c}]
           d == [b EXCEPT !.tasks = rest]
<1>1. b.out # Unknown /\ running' = (running \ {b}) \cup Sent(b, c)
  BY Zenon DEF Send
<1>2. b \in Batch
  BY Zenon DEF Inv, TypeOK
<1>3. d.out = b.out /\ \A t \in Tasks : d.tasks[t] \subseteq b.tasks[t]
  BY <1>2 DEF Batch
<1>4. Sent(b, c) \subseteq {d}
  BY Zenon DEF Sent
<1> HIDE DEF d
<1> QED
  BY Zenon, <1>1, <1>3, <1>4

\* taskManager only adds batches without results.
LEMMA ManageKeeps ==
    ASSUME (\E c \in Callers : AddTask(c)) \/ Manage \/ Tick
    PROVE  /\ \A a \in running : a \in running'
           /\ \A d \in running', t \in Tasks : d.out[t] = "value" => d \in running
<1>1. UNCHANGED running \/ \E tasks : running' = running \cup {[tasks |-> tasks, out |-> Unknown]}
  BY Zenon DEF AddTask, Manage, Receive, TimerFires, Tick, Exec
<1>2. \A tasks : \A t \in Tasks : [tasks |-> tasks, out |-> Unknown].out[t] # "value"
  BY DEF Unknown
<1> QED
  BY Zenon, <1>1, <1>2

\* A caller that asks has seen its ID as it is.
LEMMA AskWatches ==
    ASSUME DescribeInv, NEW c \in Callers, NEW t \in Tasks, Ask(c, t),
           was' = [was EXCEPT ![c] = State(exists, t)], UNCHANGED exists
    PROVE  /\ was' \in Histories /\ Watched'
           /\ \A e \in Callers : call'[e].pc = "wait" => was'[e] = was[e]
<1>1. State(exists, t) \subseteq {"there", "gone"} /\ (t \in exists => "there" \in State(exists, t))
  BY DEF State
<1>2. /\ call'[c] = [pc |-> "add", task |-> t] /\ was'[c] = State(exists, t)
      /\ \A e \in Callers \ {c} : call'[e] = call[e] /\ was'[e] = was[e]
  BY DEF DescribeInv, Histories, Inv, TypeOK, Ask
<1>3. was' \in Histories
  BY <1>1 DEF DescribeInv, Histories
<1>4. call'[c].task = t /\ call'[c].pc # "wait"
  BY <1>2
<1>5. Watched'
  BY Zenon, <1>1, <1>2, <1>4 DEF DescribeInv, Watched
<1> QED
  BY Zenon, <1>2, <1>3, <1>4, <1>5

\* A caller that has its result forgets.
LEMMA AnswerWatches ==
    ASSUME DescribeInv, NEW b \in running, NEW c \in Callers, Send(b, c),
           was' = [was EXCEPT ![c] = {}], UNCHANGED exists
    PROVE  /\ was' \in Histories /\ Watched'
           /\ \A e \in Callers : call'[e].pc = "wait" => was'[e] = was[e]
<1>1. /\ call'[c].pc = "idle" /\ \A e \in Callers \ {c} : call'[e] = call[e] /\ was'[e] = was[e]
  BY DEF DescribeInv, Histories, Inv, TypeOK, Send, Idle
<1>2. was' \in Histories
  BY DEF DescribeInv, Histories
<1>3. call'[c].pc # "wait"
  BY <1>1
<1>4. Watched'
  BY Zenon, <1>1 DEF DescribeInv, Watched
<1> QED
  BY Zenon, <1>1, <1>2, <1>3, <1>4

\* A resource that comes is seen by those who wait for it, and what was seen is not forgotten.
LEMMA ChangeWatches ==
    ASSUME DescribeInv, NEW t \in Tasks, Change(t)
    PROVE  /\ was' \in Histories /\ Watched'
           /\ \A c \in Callers : "there" \in was[c] => "there" \in was'[c]
<1>1. /\ UNCHANGED call /\ was \in Histories /\ Watched
      /\ \A u \in exists' : u = t \/ u \in exists
  BY Zenon DEF Change, DescribeInv, Histories
<1>2. State(exists', t) \subseteq {"there", "gone"} /\ (t \in exists' => "there" \in State(exists', t))
  BY DEF State
<1>3. \A c \in Callers : was'[c] = IF call[c].pc # "idle" /\ call[c].task = t
                                   THEN was[c] \cup State(exists', t) ELSE was[c]
  BY DEF Change
<1>4. was' \in Histories
  <2>1. \A c \in Callers : was'[c] \subseteq {"there", "gone"}
    BY <1>1, <1>2, <1>3 DEF Histories
  <2>2. was' = [c \in Callers |-> was'[c]]
    BY DEF Change
  <2> QED
    BY <2>1, <2>2 DEF Histories
<1>5. \A c \in Callers : "there" \in was[c] => "there" \in was'[c]
  BY Zenon, <1>3
<1>6. Watched'
  <2> SUFFICES ASSUME NEW c \in Callers, call[c].pc # "idle", call[c].task \in exists'
               PROVE  "there" \in was'[c]
    BY Zenon, <1>1 DEF Watched
  <2>1. CASE call[c].task = t
    BY Zenon, <1>2, <1>3, <2>1
  <2>2. CASE call[c].task # t
    BY Zenon, <1>1, <1>5, <2>2 DEF Watched
  <2> QED
    BY Zenon, <2>1, <2>2
<1> QED
  BY Zenon, <1>4, <1>5, <1>6

\* What is needed of a step that leaves the calls one by one alone.
LEMMA StepKeeps ==
    ASSUME DescribeInv, Inv', was' \in Histories, Watched', UNCHANGED retries,
           \A a \in running : a.out = Unknown => a \in running',
           \A c \in Callers : call'[c].pc = "wait" /\ "there" \in was[c] => "there" \in was'[c],
           \A d \in running', t \in Tasks : d.out[t] = "value" =>
               \E b \in running : b.out[t] = "value" /\ d.tasks[t] \subseteq b.tasks[t]
    PROVE  DescribeInv'
<1>1. Retrying'
  BY Zenon, RetryingStays DEF DescribeInv
<1>2. Truthful'
  BY Zenon, <1>1, TruthfulStays DEF DescribeInv
<1> QED
  BY Zenon, <1>1, <1>2 DEF DescribeInv, Histories

\* Every step keeps the invariant.
LEMMA DescribeStep == DescribeInv /\ [DescribeNext]_allVars => DescribeInv'
<1> SUFFICES ASSUME DescribeInv, [DescribeNext]_allVars PROVE DescribeInv'
  OBVIOUS
<1>1. Inv'
  BY Zenon, DescribeImplements, NextInv DEF DescribeInv
<1>2. was \in Histories /\ Watched
  BY Zenon DEF DescribeInv, Histories
<1>3. ASSUME NEW c \in Callers, NEW t \in Tasks, Ask(c, t),
             was' = [was EXCEPT ![c] = State(exists, t)], UNCHANGED <<maxEntries, exists, bad, retries>>
      PROVE  DescribeInv'
  <2>1. UNCHANGED running
    BY Zenon, <1>3 DEF Ask
  <2> QED
    BY Zenon, <1>1, <1>3, <2>1, AskWatches, StepKeeps
<1>4. ASSUME (\E c \in Callers : AddTask(c)) \/ Manage \/ Tick, UNCHANGED describeVars
      PROVE  DescribeInv'
  <2>1. UNCHANGED <<was, exists, retries>>
    BY Zenon, <1>4 DEF describeVars
  <2>2. \A c \in Callers : call'[c].pc # "idle" => call[c].pc # "idle" /\ call'[c].task = call[c].task
    <3>1. CASE UNCHANGED call
      BY Zenon, <3>1
    <3>2. ASSUME NEW c \in Callers, AddTask(c)
          PROVE  \A e \in Callers : call'[e].pc # "idle" => call[e].pc # "idle" /\ call'[e].task = call[e].task
      BY <3>2 DEF AddTask, DescribeInv, Inv, TypeOK, Call
    <3> QED
      BY Zenon, <1>4, <3>1, <3>2 DEF Manage, Receive, TimerFires, Tick
  <2>3. Watched'
    BY Zenon, <1>2, <2>1, <2>2 DEF Watched
  <2> QED
    BY Zenon, <1>1, <1>2, <1>4, <2>1, <2>3, ManageKeeps, StepKeeps
<1>5. ASSUME NEW c \in Callers, Answer(c) PROVE DescribeInv'
  <2>1. PICK b \in running : Send(b, c)
    BY Zenon, <1>5 DEF Answer
  <2>2. was' = [was EXCEPT ![c] = {}] /\ UNCHANGED <<exists, retries>> /\ Inv
    BY Zenon, <1>5 DEF Answer, DescribeInv
  <2> QED
    BY Zenon, <1>1, <2>1, <2>2, AnswerWatches, SendKeeps, StepKeeps
<1>6. ASSUME Describe PROVE DescribeInv'
  <2>1. UNCHANGED <<call, exists, was>>
    BY Zenon, <1>6 DEF Describe, DescribeIds, DescribeGood, DescribeMissing, DescribeFails, DescribeBad
  <2>2. Watched' /\ was' \in Histories
    BY Zenon, <1>2, <2>1 DEF Watched
  <2>3. Retrying' /\ Truthful'
    BY Zenon, <1>6, DescribeIdsKeeps, DescribeBadKeeps DEF Describe
  <2> QED
    BY Zenon, <1>1, <2>2, <2>3 DEF DescribeInv, Histories
<1>7. ASSUME NEW t \in Tasks, Change(t) PROVE DescribeInv'
  <2>1. UNCHANGED <<running, retries>>
    BY Zenon, <1>7 DEF Change
  <2> QED
    BY Zenon, <1>1, <1>7, <2>1, ChangeWatches, StepKeeps
<1>8. ASSUME UNCHANGED <<call, running, exists, retries, was>> PROVE DescribeInv'
  <2>1. Watched'
    BY Zenon, <1>2, <1>8 DEF Watched
  <2> QED
    BY Zenon, <1>1, <1>2, <1>8, <2>1, StepKeeps
<1>9. ASSUME (\E t \in Tasks : Expire(t)) \/ UNCHANGED allVars PROVE DescribeInv'
  BY Zenon, <1>8, <1>9 DEF Expire, allVars
<1> QED
  BY Zenon, <1>3, <1>4, <1>5, <1>6, <1>7, <1>9 DEF DescribeNext

\* The invariant is inductive.
THEOREM DescribeInvariant == DescribeSpec => []DescribeInv
<1>1. DescribeInit => DescribeInv
  <2> SUFFICES ASSUME DescribeInit PROVE DescribeInv
    OBVIOUS
  <2>1. Inv
    BY Zenon, InitInv DEF DescribeInit
  <2>2. was \in Histories /\ Watched
    BY DEF DescribeInit, Init, Idle, Watched, Histories
  <2>3. Retrying /\ Truthful
    BY Zenon DEF DescribeInit, Init, Retrying, Truthful
  <2> QED
    BY Zenon, <2>1, <2>2, <2>3 DEF DescribeInv, Histories
<1> QED
  BY <1>1, DescribeStep, PTL DEF DescribeSpec

\* execBatchDescribeVolumes and its siblings are an execFunc as the batcher expects it: with the
\* cache of missing IDs, the calls one by one, and IDs that come and go in between, a batch returns
\* once, with an error for all or with results for some of its own IDs.  So all that is proved of
\* the batcher holds of them.
THEOREM DescribeImplementsBatcher == DescribeSpec => ImplementsBatcher
<1>1. DescribeInit => Init
  BY Zenon DEF DescribeInit
<1>2. DescribeInv /\ [DescribeNext]_allVars => [Next]_vars
  BY Zenon, DescribeImplements DEF DescribeInv
<1> QED
  BY <1>1, <1>2, DescribeInvariant, PTL DEF DescribeSpec, ImplementsBatcher, Spec

\* Whoever is given a resource is given one that existed after they had asked, though the result
\* may come from a call that was made for others, or from one for a bad ID.
THEOREM FoundAlwaysTrue == DescribeSpec => FoundIsTrue
<1>1. ASSUME DescribeInv, [DescribeNext]_allVars
      PROVE  [\A c \in Callers : Told(c, "value") => "there" \in was[c]]_allVars
  <2> SUFFICES ASSUME NEW c \in Callers, Told(c, "value") PROVE "there" \in was[c]
    BY Zenon
  <2>1. call[c].task \in Tasks
    BY <1>1 DEF DescribeInv, Inv, TypeOK, Call
  <2> QED
    BY Zenon, <1>1, <2>1 DEF Told, DescribeInv, Truthful, FoundBy
<1> QED
  BY <1>1, DescribeInvariant, PTL DEF DescribeSpec, FoundIsTrue
=============================================================================
