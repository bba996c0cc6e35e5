--------------------------- MODULE PipelineProofs ---------------------------
(***************************************************************************)
(* Proofs about RingBuffer and AnalysisPipeline for any capacity, any      *)
(* finite sets of handlers and workers and any number of tasks: the        *)
(* counters cover every loss, the ring and the channel are lossy queues,   *)
(* and with the pool on the buffer's other side no task is duplicated or   *)
(* vanishes between them.                                                  *)
(***************************************************************************)
EXTENDS AnalysisPipeline, FiniteSetTheorems, SequenceTheorems, TLAPS

\* The buffer

(* The circular successor stays in the ring and moves by one before the    *)
(* wrap.  (ring_buffer.go:51,55)                                           *)
LEMMA SuccInSlots ==
    ASSUME NEW i \in Slots
    PROVE  /\ Succ(i) \in Slots
           /\ i + 1 < Capacity => Succ(i) = i + 1
           /\ i + 1 = Capacity => Succ(i) = 0
  BY CapacityAssumption DEF Slots, Succ

LEMMA BufferTypeInit == BufferInit => BufferTypeOK
  BY CapacityAssumption, MaxTasksAssumption
  DEF BufferInit, BufferTypeOK, Slots, Tasks, NoTask, InHand

(* Every step of Write and of a receive keeps the types: indices stay in   *)
(* the ring, what is in hand or queued is a task. (ring_buffer.go:47-69)   *)
LEMMA BufferTypeStep == BufferTypeOK /\ [BufferNext]_bufferVars => BufferTypeOK'
<1> SUFFICES ASSUME BufferTypeOK, [BufferNext]_bufferVars PROVE BufferTypeOK'
  OBVIOUS
<1> USE DEF BufferTypeOK, InHand, Tasks, NoTask
<1>1. ASSUME NEW w \in Writers, Stamp(w) PROVE BufferTypeOK'
  BY <1>1, MaxTasksAssumption DEF Stamp, ringVars, history
<1>2. ASSUME NEW w \in Writers, Store(w) PROVE BufferTypeOK'
  <2>1. Succ(tail) \in Slots /\ Succ(head) \in Slots
    BY SuccInSlots
  <2>2. task[w] \in Tasks
    BY <1>2 DEF Store
  <2>3. buf' \in [Slots -> Tasks \union {NoTask}]
    BY <1>2, <2>2 DEF Store
  <2>4. /\ head' \in Slots /\ tail' \in Slots /\ full' \in BOOLEAN
        /\ dropped' \in Nat /\ stored' \in Nat
    BY <1>2, <2>1 DEF Store, Evict
  <2>5. /\ pc' \in [Writers -> {"idle", "store", "tally", "send"}]
        /\ \A v \in Writers : InHand(v)' => task'[v] \in Tasks
    BY <1>2 DEF Store
  <2> QED
    BY <1>2, <2>3, <2>4, <2>5 DEF Store
<1>3. ASSUME NEW w \in Writers, Tally(w) PROVE BufferTypeOK'
  BY <1>3 DEF Tally, ringVars, history
<1>4. ASSUME NEW w \in Writers, Send(w) PROVE BufferTypeOK'
  <2>1. task[w] \in Tasks
    BY <1>4 DEF Send
  <2>2. /\ writeCh' \in Seq(Tasks) /\ sent' \in Nat
        /\ lost' \in SUBSET Tasks
    <3>1. CASE HasRoom
      <4>1. /\ writeCh' = Append(writeCh, task[w])
            /\ sent' = sent + 1 /\ lost' = lost
        BY <1>4, <3>1 DEF Send
      <4>2. Append(writeCh, task[w]) \in Seq(Tasks)
        BY <2>1
      <4> QED
        BY <4>1, <4>2
    <3>2. CASE ~HasRoom
      BY <1>4, <2>1, <3>2 DEF Send
    <3> QED
      BY <3>1, <3>2
  <2>3. /\ pc' \in [Writers -> {"idle", "store", "tally", "send"}]
        /\ task' \in [Writers -> Tasks \union {NoTask}]
        /\ \A v \in Writers : InHand(v)' => task'[v] \in Tasks
    BY <1>4 DEF Send
  <2> QED
    BY <1>4, <2>2, <2>3 DEF Send, ringVars
<1>5. ASSUME Receive PROVE BufferTypeOK'
  BY <1>5 DEF Receive, ringVars, history
<1>6. ASSUME UNCHANGED bufferVars PROVE BufferTypeOK'
  BY <1>6 DEF bufferVars, ringVars, history
<1> QED
  BY <1>1, <1>2, <1>3, <1>4, <1>5, <1>6 DEF BufferNext, Write

(* The ring is type-correct: indices never leave it, tasks in hand are     *)
(* tasks.  (ring_buffer.go:23-66)                                          *)
THEOREM TypeCorrect == BufferSpec => []BufferTypeOK
  BY BufferTypeInit, BufferTypeStep, PTL DEF BufferSpec

-----------------------------------------------------------------------------

(* Finite cardinalities, for every reachable state.                        *)
LEMMA FiniteCounts ==
    ASSUME BufferTypeOK
    PROVE  /\ IsFiniteSet(lost) /\ Cardinality(lost) \in Nat
           /\ IsFiniteSet(Unsent) /\ Cardinality(Unsent) \in Nat
<1>1. IsFiniteSet(Tasks)
  BY FS_Interval, MaxTasksAssumption DEF Tasks
<1>2. IsFiniteSet(lost)
  BY <1>1, FS_Subset DEF BufferTypeOK
<1>3. IsFiniteSet(Unsent)
  BY WritersAssumption, FS_Subset DEF Unsent
<1> QED
  BY <1>2, <1>3, FS_CardinalityType

(* The counting argument is inductive.  (ring_buffer.go:47-66)             *)
LEMMA CountingStep ==
    ASSUME BufferTypeOK, CountingInv, [BufferNext]_bufferVars
    PROVE  CountingInv'
<1> USE CapacityAssumption
<1> USE DEF BufferTypeOK
<1>0. /\ IsFiniteSet(lost) /\ Cardinality(lost) \in Nat
      /\ IsFiniteSet(Unsent) /\ Cardinality(Unsent) \in Nat
  BY FiniteCounts
<1>1. ASSUME NEW w \in Writers, Stamp(w) PROVE CountingInv'
  <2>1. Unsent' = Unsent
    BY <1>1 DEF Stamp, Unsent
  <2> QED
    BY <1>1, <2>1
    DEF Stamp, ringVars, history, CountingInv, RingFills, StoresCoverOutcomes,
        LossAfterFill, QueuedWasSent
<1>2. ASSUME NEW w \in Writers, Store(w) PROVE CountingInv'
  <2>1. /\ Unsent' = Unsent \union {w} /\ w \notin Unsent
    BY <1>2 DEF Store, Unsent
  <2>2. Cardinality(Unsent') = Cardinality(Unsent) + 1
    BY <2>1, <1>0, FS_AddElement
  <2>3. StoresCoverOutcomes'
    <3>1. stored' = stored + 1 /\ sent' = sent /\ lost' = lost
      BY <1>2 DEF Store
    <3> QED
      BY <3>1, <2>2, <1>0 DEF StoresCoverOutcomes, CountingInv
  <2>4. RingFills'
    <3>1. CASE full
      <4>1. /\ head' = Succ(head) /\ tail' = Succ(tail) /\ full'
            /\ dropped' = dropped + 1 /\ stored' = stored + 1
        BY <1>2, <3>1 DEF Store, Evict
      <4>2. head = tail /\ stored >= Capacity /\ dropped = stored - Capacity
        BY <3>1 DEF CountingInv, RingFills
      <4>3. /\ head' = tail' /\ stored' >= Capacity
            /\ dropped' = stored' - Capacity
        BY <4>1, <4>2
      <4> QED
        BY <4>1, <4>3 DEF RingFills
    <3>2. CASE ~full
      <4>1. /\ tail' = Succ(tail) /\ head' = 0 /\ stored' = stored + 1
            /\ dropped' = 0 /\ tail = stored /\ full' = (tail' = head')
        BY <1>2, <3>2 DEF Store, Evict, CountingInv, RingFills
      <4>2. CASE tail + 1 < Capacity
        <5>1. tail' = stored' /\ tail' # head'
          BY <4>1, <4>2, SuccInSlots
        <5> QED
          BY <4>1, <5>1 DEF RingFills
      <4>3. CASE tail + 1 = Capacity
        <5>1. tail' = head' /\ stored' = Capacity /\ full'
          BY <4>1, <4>3, SuccInSlots
        <5>2. stored' >= Capacity /\ dropped' = stored' - Capacity
          BY <4>1, <5>1
        <5> QED
          BY <5>1, <5>2 DEF RingFills
      <4> QED
        BY <4>2, <4>3 DEF Slots
    <3> QED
      BY <3>1, <3>2
  <2> QED
    BY <1>2, <2>3, <2>4 DEF Store, CountingInv, LossAfterFill, QueuedWasSent
<1>3. ASSUME NEW w \in Writers, Tally(w) PROVE CountingInv'
  <2>1. Unsent' = Unsent
    BY <1>3 DEF Tally, Unsent
  <2> QED
    BY <1>3, <2>1
    DEF Tally, ringVars, history, CountingInv, RingFills, StoresCoverOutcomes,
        LossAfterFill, QueuedWasSent
<1>4. ASSUME NEW w \in Writers, Send(w) PROVE CountingInv'
  <2>1. Unsent' = Unsent \ {w} /\ w \in Unsent
    BY <1>4 DEF Send, Unsent
  <2>2. Cardinality(Unsent') = Cardinality(Unsent) - 1
    BY <2>1, <1>0, FS_RemoveElement
  <2>3. RingFills'
    BY <1>4 DEF Send, ringVars, CountingInv, RingFills
  <2>4. CASE HasRoom
    <3>1. /\ writeCh' = Append(writeCh, task[w])
          /\ sent' = sent + 1 /\ lost' = lost /\ stored' = stored
      BY <1>4, <2>4 DEF Send
    <3>2. Len(writeCh') = Len(writeCh) + 1
      <4>1. task[w] \in Tasks
        BY <1>4 DEF Send, InHand
      <4> QED
        BY <3>1, <4>1
    <3>3. StoresCoverOutcomes' /\ LossAfterFill' /\ QueuedWasSent'
      BY <3>1, <3>2, <2>2, <1>0
      DEF CountingInv, StoresCoverOutcomes, LossAfterFill, QueuedWasSent
    <3> QED
      BY <3>3, <2>3 DEF CountingInv
  <2>5. CASE ~HasRoom
    <3>1. /\ writeCh' = writeCh /\ sent' = sent /\ stored' = stored
          /\ lost' = lost \union {task[w]}
      BY <1>4, <2>5 DEF Send
    <3>2. Cardinality(lost') <= Cardinality(lost) + 1
      <4>1. CASE task[w] \in lost
        <5>1. lost' = lost
          BY <3>1, <4>1
        <5> QED
          BY <5>1, <1>0
      <4>2. CASE task[w] \notin lost
        <5>1. Cardinality(lost \union {task[w]}) = Cardinality(lost) + 1
          BY <4>2, <1>0, FS_AddElement
        <5> QED
          BY <3>1, <5>1, <1>0
      <4> QED
        BY <4>1, <4>2
    <3>3. Cardinality(lost') \in Nat
      BY <3>1, <1>0, FS_AddElement, FS_CardinalityType
    <3>4. StoresCoverOutcomes'
      BY <3>1, <3>2, <3>3, <2>2, <1>0 DEF CountingInv, StoresCoverOutcomes
    <3>5. LossAfterFill' /\ QueuedWasSent'
      <4>1. Len(writeCh) >= Capacity /\ Len(writeCh) \in Nat
        BY <2>5 DEF HasRoom
      <4> QED
        BY <4>1, <3>1 DEF CountingInv, LossAfterFill, QueuedWasSent
    <3> QED
      BY <2>3, <3>4, <3>5 DEF CountingInv
  <2> QED
    BY <2>4, <2>5
<1>5. ASSUME Receive PROVE CountingInv'
  <2>1. Unsent' = Unsent
    BY <1>5 DEF Receive, Unsent
  <2>2. Len(writeCh') = Len(writeCh) - 1
    BY <1>5 DEF Receive
  <2> QED
    BY <1>5, <2>1, <2>2
    DEF Receive, ringVars, history, CountingInv, RingFills,
        StoresCoverOutcomes, LossAfterFill, QueuedWasSent
<1>6. ASSUME UNCHANGED bufferVars PROVE CountingInv'
  <2>1. Unsent' = Unsent
    BY <1>6 DEF bufferVars, Unsent
  <2> QED
    BY <1>6, <2>1
    DEF bufferVars, ringVars, history, CountingInv, RingFills, StoresCoverOutcomes,
        LossAfterFill, QueuedWasSent
<1> QED
  BY <1>1, <1>2, <1>3, <1>4, <1>5, <1>6 DEF BufferNext, Write

LEMMA CountingInit == BufferInit => CountingInv
<1> SUFFICES ASSUME BufferInit PROVE CountingInv
  OBVIOUS
<1>1. Unsent = {} /\ lost = {}
  BY DEF BufferInit, Unsent
<1> QED
  BY <1>1, FS_EmptySet, CapacityAssumption
  DEF BufferInit, CountingInv, RingFills, StoresCoverOutcomes, LossAfterFill,
      QueuedWasSent

(* No task is lost without having been counted, for every capacity and     *)
(* every number of concurrent handlers.  (ring_buffer.go:49-65)            *)
THEOREM LossesCounted == BufferSpec => []LossesAreCounted
<1>1. BufferInit => CountingInv
  BY CountingInit
<1>2. BufferTypeOK /\ CountingInv /\ [BufferNext]_bufferVars => CountingInv'
  BY CountingStep
<1>3. BufferTypeOK /\ CountingInv => LossesAreCounted
  <2> SUFFICES ASSUME BufferTypeOK, CountingInv PROVE LossesAreCounted
    OBVIOUS
  <2>1. /\ Cardinality(lost) \in Nat /\ Cardinality(Unsent) \in Nat
    BY FiniteCounts
  <2>2. CASE lost = {}
    BY <2>2, FS_EmptySet DEF LossesAreCounted, BufferTypeOK
  <2>3. CASE lost # {}
    <3>1. sent >= Capacity /\ Cardinality(lost) # 0
      BY <2>3, FS_EmptySet, FiniteCounts DEF CountingInv, LossAfterFill
    <3>2. stored >= Capacity + Cardinality(lost) /\ Cardinality(lost) > 0
      BY <3>1, <2>1, CapacityAssumption
      DEF CountingInv, StoresCoverOutcomes, BufferTypeOK
    <3>3. full
      BY <3>2, <2>1, CapacityAssumption
      DEF CountingInv, RingFills, BufferTypeOK, Slots
    <3> QED
      BY <3>2, <3>3, <2>1, CapacityAssumption
      DEF CountingInv, RingFills, LossesAreCounted, BufferTypeOK
  <2> QED
    BY <2>2, <2>3
<1> QED
  BY <1>1, <1>2, <1>3, TypeCorrect, PTL DEF BufferSpec

-----------------------------------------------------------------------------
(* What the workers read, as a bounded queue.                              *)

(* A task in a handler's hands is in nobody else's and is not lost yet.    *)
OwnTasks ==
    /\ lost \subseteq 1 .. clock
    /\ \A w \in Writers : InHand(w) => task[w] \in 1 .. clock /\ task[w] \notin lost
    /\ \A v, w \in Writers : InHand(v) /\ InHand(w) /\ task[v] = task[w] => v = w

WithinCapacity == Len(writeCh) <= Capacity

LEMMA CapacityStep == BufferTypeOK /\ WithinCapacity /\ [BufferNext]_bufferVars => WithinCapacity'
<1> SUFFICES ASSUME BufferTypeOK, WithinCapacity, [BufferNext]_bufferVars PROVE WithinCapacity'
  OBVIOUS
<1> USE CapacityAssumption DEF WithinCapacity
<1>1. ASSUME NEW w \in Writers, Send(w) PROVE WithinCapacity'
  <2>1. task[w] \in Tasks
    BY <1>1 DEF Send, BufferTypeOK, InHand
  <2>2. Len(Append(writeCh, task[w])) = Len(writeCh) + 1
    BY <2>1 DEF BufferTypeOK
  <2> QED
    BY <1>1, <2>2 DEF Send, HasRoom, BufferTypeOK
<1>2. CASE Receive
  <2>1. Len(Tail(writeCh)) = Len(writeCh) - 1
    BY <1>2 DEF Receive, BufferTypeOK
  <2> QED
    BY <1>2, <2>1 DEF Receive, BufferTypeOK
<1>3. ASSUME NEW w \in Writers, Stamp(w) \/ Store(w) \/ Tally(w) PROVE WithinCapacity'
  BY <1>3 DEF Stamp, Store, Tally
<1>4. CASE UNCHANGED bufferVars
  BY <1>4 DEF bufferVars
<1> QED
  BY <1>1, <1>2, <1>3, <1>4 DEF BufferNext, Write

LEMMA OwnStep == BufferTypeOK /\ OwnTasks /\ [BufferNext]_bufferVars => OwnTasks'
<1> SUFFICES ASSUME BufferTypeOK, OwnTasks, [BufferNext]_bufferVars PROVE OwnTasks'
  OBVIOUS
<1> USE DEF OwnTasks, InHand
<1>1. ASSUME NEW w \in Writers, Stamp(w) PROVE OwnTasks'
  <2>1. clock \in Nat /\ clock' = clock + 1 /\ lost' = lost
    BY <1>1, MaxTasksAssumption DEF Stamp, history, BufferTypeOK
  <2>2. 1 .. clock \subseteq 1 .. clock' /\ clock' \in 1 .. clock' /\ clock' \notin 1 .. clock
    BY <2>1
  <2>3. task'[w] = clock' /\ \A v \in Writers \ {w} : task'[v] = task[v] /\ pc'[v] = pc[v]
    BY <1>1 DEF Stamp, BufferTypeOK
  <2> QED
    BY <2>1, <2>2, <2>3
<1>2. ASSUME NEW w \in Writers, Store(w) \/ Tally(w) PROVE OwnTasks'
  BY <1>2 DEF Store, Tally, history, BufferTypeOK
<1>3. ASSUME NEW w \in Writers, Send(w) PROVE OwnTasks'
  <2>1. pc'[w] = "idle" /\ \A v \in Writers \ {w} : task'[v] = task[v] /\ pc'[v] = pc[v]
    BY <1>3 DEF Send, BufferTypeOK
  <2>2. clock' = clock /\ lost' \subseteq lost \union {task[w]} /\ pc[w] # "idle"
    BY <1>3 DEF Send
  <2> QED
    BY <2>1, <2>2
<1>4. ASSUME Receive \/ UNCHANGED bufferVars PROVE OwnTasks'
  BY <1>4 DEF Receive, bufferVars, history
<1> QED
  BY <1>1, <1>2, <1>3, <1>4 DEF BufferNext, Write

(* The channel, with its losses counted, is a bounded queue that refuses   *)
(* the newest: no send duplicates, reorders or replaces a task, and each   *)
(* failed select loses another one. (ring_buffer.go:62-69)                 *)
THEOREM DeliveryCorrect == BufferSpec => DeliveryRefusesNewest
<1>1. BufferInit => OwnTasks /\ WithinCapacity /\ Delivery!Init
  BY FS_EmptySet, CapacityAssumption
  DEF BufferInit, OwnTasks, InHand, WithinCapacity, Delivery!Init
<1>2. BufferTypeOK /\ OwnTasks /\ WithinCapacity /\ [BufferNext]_bufferVars
        => [Delivery!Next]_<<writeCh, Cardinality(lost)>>
  <2> SUFFICES ASSUME BufferTypeOK, OwnTasks, WithinCapacity, [BufferNext]_bufferVars
               PROVE  [Delivery!Next]_<<writeCh, Cardinality(lost)>>
    OBVIOUS
  <2>1. ASSUME NEW w \in Writers, Send(w) PROVE Delivery!Next
    <3>1. task[w] \in Tasks /\ task[w] \notin lost
      BY <2>1 DEF Send, BufferTypeOK, OwnTasks, InHand
    <3>2. CASE HasRoom
      <4>1. Delivery!Put(task[w])
        BY <2>1, <3>2 DEF Send, HasRoom, Delivery!Put
      <4> QED
        BY <3>1, <4>1 DEF Delivery!Next
    <3>3. CASE ~HasRoom
      <4>1. lost' = lost \union {task[w]} /\ writeCh' = writeCh
        BY <2>1, <3>3 DEF Send
      <4>2. Cardinality(lost') = Cardinality(lost) + 1
        BY <3>1, <4>1, FiniteCounts, FS_AddElement
      <4>3. Len(writeCh) = Capacity
        BY <3>3, CapacityAssumption DEF HasRoom, WithinCapacity, BufferTypeOK
      <4>4. Delivery!Put(task[w])
        BY <4>1, <4>2, <4>3 DEF Delivery!Put
      <4> QED
        BY <3>1, <4>4 DEF Delivery!Next
    <3> QED
      BY <3>2, <3>3
  <2>2. CASE Receive
    <3>1. lost' = lost
      BY <2>2 DEF Receive, history
    <3> QED
      BY <2>2, <3>1 DEF Receive, Delivery!Next, Delivery!Take
  <2>3. ASSUME NEW w \in Writers, Stamp(w) \/ Store(w) \/ Tally(w)
        PROVE  UNCHANGED <<writeCh, lost>>
    BY <2>3 DEF Stamp, Store, Tally, history
  <2>4. UNCHANGED bufferVars => UNCHANGED <<writeCh, lost>>
    BY DEF bufferVars, history
  <2> QED
    BY <2>1, <2>2, <2>3, <2>4 DEF BufferNext, Write
<1> QED
  BY <1>1, <1>2, OwnStep, CapacityStep, TypeCorrect, PTL
  DEF BufferSpec, DeliveryRefusesNewest, Delivery!Spec

-----------------------------------------------------------------------------
(* What the ring holds, as a bounded queue.                                *)

(* An index that runs past the end of the ring wraps around once.          *)
(* (ring_buffer.go:51, 55)                                                 *)
LEMMA Mod ==
    \A x \in 0 .. (2 * Capacity - 1) :
        /\ x < Capacity => x % Capacity = x
        /\ x >= Capacity => x % Capacity = x - Capacity
  BY CapacityAssumption

(* Sequences given by their elements.                                      *)
LEMMA FunIsSeq ==
    ASSUME NEW S, NEW n \in Nat, NEW f \in [1 .. n -> S]
    PROVE  f \in Seq(S) /\ Len(f) = n
  OBVIOUS

LEMMA AppendIs ==
    ASSUME NEW S, NEW n \in Nat, NEW f \in [1 .. n -> S], NEW e \in S
    PROVE  Append(f, e) = [i \in 1 .. n + 1 |-> IF i <= n THEN f[i] ELSE e]
<1>1. f \in Seq(S) /\ Len(f) = n
  BY FunIsSeq
<1>2. /\ DOMAIN Append(f, e) = 1 .. n + 1 /\ Append(f, e) \in Seq(S)
      /\ \A i \in 1 .. n + 1 : Append(f, e)[i] = IF i <= n THEN f[i] ELSE e
  BY <1>1
<1> DEFINE g == [i \in 1 .. n + 1 |-> IF i <= n THEN f[i] ELSE e]
<1>3. g \in [1 .. n + 1 -> S]
  OBVIOUS
<1>4. g \in Seq(S) /\ Len(g) = n + 1
  BY <1>3, FunIsSeq
<1>5. Len(Append(f, e)) = n + 1 /\ \A i \in 1 .. n + 1 : Append(f, e)[i] = g[i]
  BY <1>1, <1>2
<1> HIDE DEF g
<1>6. Append(f, e) = g
  BY <1>2, <1>4, <1>5, SeqEqual
<1> QED
  BY <1>6 DEF g

LEMMA TailIs ==
    ASSUME NEW S, NEW n \in Nat \ {0}, NEW f \in [1 .. n -> S]
    PROVE  Tail(f) = [i \in 1 .. n - 1 |-> f[i + 1]] /\ f # << >>
<1>1. f \in Seq(S) /\ Len(f) = n
  BY FunIsSeq
<1>2. /\ DOMAIN Tail(f) = 1 .. n - 1 /\ Tail(f) \in Seq(S) /\ f # << >>
      /\ \A i \in 1 .. n - 1 : Tail(f)[i] = f[i + 1]
  BY <1>1
<1> DEFINE g == [i \in 1 .. n - 1 |-> f[i + 1]]
<1>3. g \in [1 .. n - 1 -> S] /\ n - 1 \in Nat
  OBVIOUS
<1>4. g \in Seq(S) /\ Len(g) = n - 1
  BY <1>3, FunIsSeq
<1>5. Len(Tail(f)) = n - 1 /\ \A i \in 1 .. n - 1 : Tail(f)[i] = g[i]
  BY <1>1, <1>2
<1> HIDE DEF g
<1>6. Tail(f) = g
  BY <1>2, <1>4, <1>5, SeqEqual
<1> QED
  BY <1>2, <1>6 DEF g

Cells == Tasks \union {NoTask}

(* What the ring holds, before it is full and after.                       *)
LEMMA ContentsShape ==
    ASSUME BufferTypeOK, RingFills
    PROVE  /\ Contents \in [1 .. RingLen -> Cells]
           /\ ~full => RingLen = tail /\ Contents = [i \in 1 .. tail |-> buf[i - 1]]
           /\ full => /\ RingLen = Capacity
                      /\ Contents = [i \in 1 .. Capacity |-> buf[(head + i - 1) % Capacity]]
<1> USE CapacityAssumption DEF BufferTypeOK, RingFills
<1>0. Slots = 0 .. Capacity - 1 /\ Capacity \in Nat /\ Capacity > 0
  BY DEF Slots
<1>1. CASE full
  <2>1. RingLen = Capacity
    BY <1>1 DEF RingLen
  <2>2. \A i \in 1 .. Capacity : head + i - 1 \in 0 .. (2 * Capacity - 1)
    BY <1>0
  <2>3. \A i \in 1 .. Capacity : (head + i - 1) % Capacity \in Slots
    BY <1>0, <2>2, Mod
  <2>4. Contents = [i \in 1 .. Capacity |-> buf[(head + i - 1) % Capacity]]
    BY <2>1 DEF Contents
  <2>5. \A i \in 1 .. Capacity : buf[(head + i - 1) % Capacity] \in Cells
    BY <2>3 DEF Cells
  <2> QED
    BY <1>1, <2>1, <2>4, <2>5
<1>2. CASE ~full
  <2>1. RingLen = tail /\ head = 0 /\ tail \in 0 .. Capacity - 1
    BY <1>0, <1>2 DEF RingLen
  <2>2. \A i \in 1 .. tail : (head + i - 1) % Capacity = i - 1 /\ i - 1 \in Slots
    <3> SUFFICES ASSUME NEW i \in 1 .. tail
                 PROVE  (head + i - 1) % Capacity = i - 1 /\ i - 1 \in Slots
      OBVIOUS
    <3>1. head + i - 1 = i - 1 /\ i - 1 \in 0 .. (2 * Capacity - 1) /\ i - 1 < Capacity
      BY <1>0, <2>1
    <3> QED
      BY <1>0, <2>1, <3>1, Mod
  <2>3. Contents = [i \in 1 .. tail |-> buf[i - 1]]
    BY <2>1, <2>2 DEF Contents
  <2>4. \A i \in 1 .. tail : buf[i - 1] \in Cells
    BY <2>2 DEF Cells
  <2> QED
    BY <1>2, <2>1, <2>3, <2>4
<1> QED
  BY <1>1, <1>2

(* A store is a Put: while there is room it appends, then it replaces the  *)
(* oldest. (ring_buffer.go:47-58)                                          *)
LEMMA StorePuts ==
    ASSUME BufferTypeOK, RingFills, BufferTypeOK', RingFills', NEW w \in Writers, Store(w)
    PROVE  Ring!Put(task[w])
<1>0. /\ Capacity \in Nat /\ Capacity > 0 /\ Slots = 0 .. Capacity - 1
      /\ head \in 0 .. Capacity - 1 /\ tail \in 0 .. Capacity - 1
      /\ buf \in [Slots -> Cells]
  BY CapacityAssumption DEF Slots, BufferTypeOK, Cells
<1>1. task[w] \in Cells /\ buf' = [buf EXCEPT ![tail] = task[w]]
      /\ tail' = Succ(tail) /\ full' = (full \/ tail' = head')
  BY DEF Store, Cells, BufferTypeOK
<1>4. /\ head + 1 < Capacity => Succ(head) = head + 1
      /\ head + 1 = Capacity => Succ(head) = 0
      /\ tail + 1 < Capacity => Succ(tail) = tail + 1
      /\ tail + 1 = Capacity => Succ(tail) = 0
  BY <1>0, SuccInSlots
<1>2. CASE ~full
  <2>1. head = 0 /\ dropped' = dropped /\ head' = 0 /\ tail \in 0 .. Capacity - 1
    BY <1>0, <1>2 DEF Store, Evict, RingFills
  <2>2. RingLen = tail /\ Contents = [i \in 1 .. tail |-> buf[i - 1]]
        /\ Contents \in [1 .. tail -> Cells]
    BY <1>2, ContentsShape
  <2>3. Len(Contents) = tail
    BY <2>1, <2>2, FunIsSeq
  <2>4. Append(Contents, task[w])
          = [i \in 1 .. tail + 1 |-> IF i <= tail THEN Contents[i] ELSE task[w]]
    BY <1>1, <2>1, <2>2, AppendIs
  <2>5. Contents' = [i \in 1 .. tail + 1 |-> buf'[i - 1]]
    <3>1. RingLen' = tail + 1
      <4>1. CASE tail + 1 < Capacity
        <5>1. tail' = tail + 1 /\ tail' # head' /\ tail' >= head'
          BY <1>0, <1>1, <1>4, <2>1, <4>1
        <5>2. ~full'
          BY <1>1, <1>2, <5>1
        <5> QED
          BY <2>1, <5>1, <5>2 DEF RingLen
      <4>2. CASE tail + 1 = Capacity
        <5>1. tail' = head'
          BY <1>1, <1>4, <2>1, <4>2
        <5>2. full'
          BY <1>1, <5>1
        <5> QED
          BY <4>2, <5>2 DEF RingLen
      <4> QED
        BY <1>0, <2>1, <4>1, <4>2
    <3>2. Contents' = [i \in 1 .. tail + 1 |-> buf'[(head' + i - 1) % Capacity]]
      BY <3>1 DEF Contents
    <3>3. \A i \in 1 .. tail + 1 : (head' + i - 1) % Capacity = i - 1
      <4> SUFFICES ASSUME NEW i \in 1 .. tail + 1 PROVE (head' + i - 1) % Capacity = i - 1
        OBVIOUS
      <4>1. head' + i - 1 = i - 1 /\ i - 1 \in 0 .. (2 * Capacity - 1) /\ i - 1 < Capacity
        BY <1>0, <2>1
      <4> QED
        BY <4>1, Mod
    <3> QED
      BY <3>2, <3>3
  <2>6. \A i \in 1 .. tail + 1 : buf'[i - 1] = IF i <= tail THEN Contents[i] ELSE task[w]
    BY <1>0, <1>1, <2>1, <2>2
  <2>7. Contents' = Append(Contents, task[w])
    BY <2>4, <2>5, <2>6
  <2>8. Len(Contents) < Capacity
    BY <1>0, <2>1, <2>3
  <2> QED
    BY <2>1, <2>7, <2>8 DEF Ring!Put
<1>3. CASE full
  <2>1. head = tail /\ head' = Succ(head) /\ dropped' = dropped + 1 /\ full'
    BY <1>1, <1>3 DEF Store, Evict, RingFills
  <2>2. Contents = [i \in 1 .. Capacity |-> buf[(head + i - 1) % Capacity]]
        /\ Contents \in [1 .. Capacity -> Cells]
    BY <1>3, ContentsShape
  <2>3. Len(Contents) = Capacity
    BY <1>0, <2>2, FunIsSeq
  <2> DEFINE rest == [i \in 1 .. Capacity - 1 |-> Contents[i + 1]]
  <2>4. Tail(Contents) = rest
    BY <1>0, <2>2, TailIs
  <2>5. rest \in [1 .. Capacity - 1 -> Cells] /\ Capacity - 1 \in Nat
    BY <1>0, <2>2
  <2> HIDE DEF rest
  <2>6. Append(rest, task[w])
          = [i \in 1 .. Capacity |-> IF i <= Capacity - 1 THEN rest[i] ELSE task[w]]
    <3>1. Append(rest, task[w]) = [i \in 1 .. (Capacity - 1) + 1 |->
                                     IF i <= Capacity - 1 THEN rest[i] ELSE task[w]]
      BY <1>1, <2>5, AppendIs
    <3>2. (Capacity - 1) + 1 = Capacity
      BY <1>0
    <3> QED
      BY <3>1, <3>2
  <2>7. Contents' = [i \in 1 .. Capacity |-> buf'[(head' + i - 1) % Capacity]]
    <3>1. RingLen' = Capacity
      BY <2>1 DEF RingLen
    <3> QED
      BY <3>1 DEF Contents
  <2>8. ASSUME NEW i \in 1 .. Capacity
        PROVE  buf'[(head' + i - 1) % Capacity]
                 = IF i <= Capacity - 1 THEN rest[i] ELSE task[w]
    <3>1. CASE i <= Capacity - 1
      <4>1. (head' + i - 1) % Capacity = (head + i) % Capacity
        <5>1. CASE head + 1 < Capacity
          BY <1>0, <2>1, <5>1, <1>4
        <5>2. CASE head + 1 = Capacity
          <6>1. head' + i - 1 = i - 1 /\ i - 1 \in 0 .. (2 * Capacity - 1) /\ i - 1 < Capacity
            BY <1>0, <2>1, <5>2, <1>4
          <6>2. head + i \in 0 .. (2 * Capacity - 1) /\ head + i >= Capacity
                /\ head + i - Capacity = i - 1
            BY <1>0, <5>2
          <6>3. (head' + i - 1) % Capacity = i - 1
            BY <6>1, Mod
          <6>4. (head + i) % Capacity = head + i - Capacity
            BY <1>0, <6>2, Mod
          <6> QED
            BY <6>2, <6>3, <6>4
        <5> QED
          BY <1>0, <5>1, <5>2
      <4>2. (head + i) % Capacity \in Slots /\ (head + i) % Capacity # tail
        <5>1. head + i \in 0 .. (2 * Capacity - 1)
          BY <1>0, <3>1
        <5>2. CASE head + i < Capacity
          BY <1>0, <2>1, <5>1, <5>2, Mod
        <5>3. CASE head + i >= Capacity
          BY <1>0, <2>1, <3>1, <5>1, <5>3, Mod
        <5> QED
          BY <1>0, <5>2, <5>3
      <4>3. rest[i] = buf[(head + i) % Capacity]
        <5>1. i \in 1 .. Capacity - 1 /\ i + 1 \in 1 .. Capacity /\ head + (i + 1) - 1 = head + i
          BY <1>0, <3>1
        <5>2. rest[i] = Contents[i + 1]
          BY <5>1 DEF rest
        <5>3. Contents[i + 1] = buf[(head + (i + 1) - 1) % Capacity]
          BY <2>2, <5>1
        <5> QED
          BY <5>1, <5>2, <5>3
      <4> QED
        BY <1>1, <3>1, <4>1, <4>2, <4>3
    <3>2. CASE i = Capacity
      <4>1. (head' + i - 1) % Capacity = tail
        <5>1. CASE head + 1 < Capacity
          <6>1. head' + i - 1 = head + Capacity
            BY <1>0, <2>1, <3>2, <5>1, <1>4
          <6> QED
            BY <1>0, <2>1, <6>1, Mod
        <5>2. CASE head + 1 = Capacity
          <6>1. head' + i - 1 = Capacity - 1 /\ tail = Capacity - 1
            BY <1>0, <2>1, <3>2, <5>2, <1>4
          <6> QED
            BY <1>0, <6>1, Mod
        <5> QED
          BY <1>0, <5>1, <5>2
      <4>2. buf'[tail] = task[w]
        BY <1>0, <1>1
      <4> QED
        BY <1>0, <3>2, <4>1, <4>2
    <3> QED
      BY <1>0, <3>1, <3>2
  <2>9. Contents' = Append(Tail(Contents), task[w])
    BY <2>4, <2>6, <2>7, <2>8
  <2> QED
    BY <2>1, <2>3, <2>9 DEF Ring!Put
<1> QED
  BY <1>2, <1>3

(* The ring keeps the newest Capacity tasks and counts each eviction: the  *)
(* index arithmetic and the full flag implement a queue that gives up its  *)
(* oldest task. (ring_buffer.go:47-58, 80-90)                              *)
THEOREM RingCorrect == BufferSpec => RingEvictsOldest
<1>1. BufferInit => CountingInv /\ Ring!Init
  <2> SUFFICES ASSUME BufferInit PROVE CountingInv /\ Ring!Init
    OBVIOUS
  <2>1. CountingInv
    BY CountingInit
  <2>2. Contents = << >>
    BY CapacityAssumption DEF BufferInit, Contents, RingLen
  <2> QED
    BY <2>1, <2>2 DEF BufferInit, Ring!Init
<1>2. BufferTypeOK /\ BufferTypeOK' /\ CountingInv /\ CountingInv' /\ [BufferNext]_bufferVars
        => [Ring!Next]_<<Contents, dropped>>
  <2> SUFFICES ASSUME BufferTypeOK, BufferTypeOK', CountingInv, CountingInv',
                      [BufferNext]_bufferVars
               PROVE  [Ring!Next]_<<Contents, dropped>>
    OBVIOUS
  <2>1. ASSUME NEW w \in Writers, Store(w) PROVE Ring!Next
    <3>1. task[w] \in Tasks
      BY <2>1 DEF Store, BufferTypeOK, InHand
    <3>2. Ring!Put(task[w])
      BY <2>1, StorePuts DEF CountingInv
    <3> QED
      BY <3>1, <3>2 DEF Ring!Next
  <2>2. CASE UNCHANGED ringVars
    BY <2>2 DEF ringVars, Contents, RingLen
  <2>3. ASSUME NEW w \in Writers, Stamp(w) \/ Tally(w) \/ Send(w) PROVE UNCHANGED ringVars
    BY <2>3 DEF Stamp, Tally, Send
  <2>4. Receive \/ UNCHANGED bufferVars => UNCHANGED ringVars
    BY DEF Receive, bufferVars
  <2> QED
    BY <2>1, <2>2, <2>3, <2>4 DEF BufferNext, Write
<1>3. BufferTypeOK /\ CountingInv /\ [BufferNext]_bufferVars => CountingInv'
  BY CountingStep
<1> QED
  BY <1>1, <1>2, <1>3, TypeCorrect, PTL DEF BufferSpec, RingEvictsOldest, Ring!Spec

-----------------------------------------------------------------------------
\* The pool behind it

(* Every step of the pipeline is a step of the buffer or none.             *)
LEMMA PipelineStep == [Next]_vars => [BufferNext]_bufferVars
  BY DEF Next, vars, Handle, Take, Finish, Exit, Cancel, StopReturns, BufferNext

LEMMA PipelineIsBuffer == Spec => BufferSpec
<1>1. Init => BufferInit
  BY DEF Init
<1> QED
  BY <1>1, PipelineStep, PTL DEF Spec, BufferSpec

(* With workers reading, the counters still cover every loss, the ring     *)
(* still evicts the oldest and the channel refuses the newest.             *)
(* (ring_buffer.go:47-69, worker_pool.go:58-80)                            *)
THEOREM PipelineLossesCounted == Spec => []LossesAreCounted
  BY PipelineIsBuffer, LossesCounted, PTL
THEOREM PipelineRing == Spec => RingEvictsOldest
  BY PipelineIsBuffer, RingCorrect, PTL
THEOREM PipelineDelivery == Spec => DeliveryRefusesNewest
  BY PipelineIsBuffer, DeliveryCorrect, PTL

-----------------------------------------------------------------------------

(* A worker that processes has a task. (worker_pool.go:67-73)              *)
Busy == \A g \in Workers : loop[g] = "process" => holds[g] \in Tasks
PoolInv == TypeOK /\ Busy

LEMMA PoolInit == Init => PoolInv
<1> SUFFICES ASSUME Init PROVE PoolInv
  OBVIOUS
<1>1. BufferTypeOK
  BY BufferTypeInit DEF Init
<1>2. /\ loop \in [Workers -> {"select", "process", "exited"}]
      /\ holds \in [Workers -> Tasks \union {NoTask}]
      /\ processed \in Nat /\ done \in SUBSET Tasks /\ Busy
  BY DEF Init, Busy
<1>3. cancelled \in BOOLEAN /\ stopped \in BOOLEAN
  BY DEF Init
<1> QED
  BY <1>1, <1>2, <1>3 DEF PoolInv, TypeOK

LEMMA PoolStep == PoolInv /\ [Next]_vars => PoolInv'
<1> SUFFICES ASSUME PoolInv, [Next]_vars PROVE PoolInv'
  OBVIOUS
<1>0. \A n \in Nat : n + 1 \in Nat
  OBVIOUS
<1>1. BufferTypeOK'
  BY PipelineStep, BufferTypeStep DEF PoolInv, TypeOK
<1> USE <1>1 DEF PoolInv, TypeOK, Busy
<1>2. CASE \E w \in Writers : Handle(w)
  BY <1>2 DEF Handle, poolVars
<1>3. ASSUME NEW g \in Workers, Take(g) PROVE PoolInv'
  <2>1. Head(writeCh) \in Tasks
    BY <1>3 DEF Take, Receive, BufferTypeOK
  <2> QED
    BY <1>3, <2>1 DEF Take
<1>4. ASSUME NEW g \in Workers, Finish(g) PROVE PoolInv'
  <2>1. holds[g] \in Tasks
    BY <1>4 DEF Finish
  <2> QED
    BY <1>0, <1>4, <2>1 DEF Finish
<1>5. ASSUME NEW g \in Workers, Exit(g) PROVE PoolInv'
  BY <1>5 DEF Exit
<1>6. CASE Cancel \/ StopReturns
  BY <1>6 DEF Cancel, StopReturns
<1>7. CASE UNCHANGED vars
  BY <1>7 DEF vars, poolVars
<1> QED
  BY <1>2, <1>3, <1>4, <1>5, <1>6, <1>7 DEF Next

(* The pool's state and the buffer's keep their types.                     *)
(* (worker_pool.go:30-85, ring_buffer.go:23-69)                            *)
THEOREM PoolCorrect == Spec => []TypeOK
<1>1. PoolInv => TypeOK
  BY DEF PoolInv
<1> QED
  BY <1>1, PoolInit, PoolStep, PTL DEF Spec

-----------------------------------------------------------------------------
(* Where a task is.                                                        *)

Hands(t) == {w \in Writers : InHand(w) /\ task[w] = t}
Workshop(t) == {g \in Workers : loop[g] = "process" /\ holds[g] = t}

Nowhere(t) == /\ Hands(t) = {} /\ QueuedAt(t) = {} /\ Workshop(t) = {}
              /\ t \notin done /\ t \notin lost
Handed(t) == /\ \E w \in Writers : Hands(t) = {w}
             /\ QueuedAt(t) = {} /\ Workshop(t) = {} /\ t \notin done /\ t \notin lost
Queued(t) == /\ Hands(t) = {} /\ \E i \in 1 .. Len(writeCh) : QueuedAt(t) = {i}
             /\ Workshop(t) = {} /\ t \notin done /\ t \notin lost
Worked(t) == /\ Hands(t) = {} /\ QueuedAt(t) = {}
             /\ \E g \in Workers : Workshop(t) = {g}
             /\ t \notin done /\ t \notin lost
Ended(t) == /\ Hands(t) = {} /\ QueuedAt(t) = {} /\ Workshop(t) = {}
            /\ t \in done /\ t \notin lost
Dropped(t) == /\ Hands(t) = {} /\ QueuedAt(t) = {} /\ Workshop(t) = {}
              /\ t \notin done /\ t \in lost

(* A task takes one of these ways through the pipeline, from its stamp on. *)
Somewhere(t) == Handed(t) \/ Queued(t) \/ Worked(t) \/ Ended(t) \/ Dropped(t)
PlaceInv == \A t \in Tasks : IF t <= clock THEN Somewhere(t) ELSE Nowhere(t)

(* What a send and a receive do to the places in the channel.              *)
LEMMA QueuedAtSend ==
    ASSUME BufferTypeOK, NEW w \in Writers, Send(w), HasRoom
    PROVE  /\ Len(writeCh') = Len(writeCh) + 1 /\ Len(writeCh) \in Nat
           /\ \A t : QueuedAt(t)' = IF t = task[w] THEN QueuedAt(t) \union {Len(writeCh) + 1}
                                    ELSE QueuedAt(t)
<1>1. task[w] \in Tasks /\ writeCh' = Append(writeCh, task[w]) /\ writeCh \in Seq(Tasks)
  BY DEF Send, BufferTypeOK, InHand
<1>2. /\ Len(writeCh') = Len(writeCh) + 1 /\ Len(writeCh) \in Nat
      /\ \A i \in 1 .. Len(writeCh) : writeCh'[i] = writeCh[i]
      /\ writeCh'[Len(writeCh) + 1] = task[w]
  BY <1>1
<1>3. 1 .. Len(writeCh) + 1 = 1 .. Len(writeCh) \union {Len(writeCh) + 1}
  BY <1>2
<1> QED
  BY <1>2, <1>3 DEF QueuedAt

LEMMA QueuedAtReceive ==
    ASSUME BufferTypeOK, Receive
    PROVE  \A t : /\ \A i \in QueuedAt(t)' : i + 1 \in QueuedAt(t)
                  /\ \A i \in QueuedAt(t) \ {1} : i - 1 \in QueuedAt(t)'
                  /\ QueuedAt(t) \subseteq Nat /\ QueuedAt(t)' \subseteq 1 .. Len(writeCh')
                  /\ (1 \in QueuedAt(t)) <=> (t = Head(writeCh))
<1>1. writeCh' = Tail(writeCh) /\ writeCh \in Seq(Tasks) /\ writeCh # << >>
  BY DEF Receive, BufferTypeOK
<1>2. /\ Len(writeCh) \in Nat /\ Len(writeCh) >= 1 /\ Len(writeCh') = Len(writeCh) - 1
      /\ \A i \in 1 .. Len(writeCh) - 1 : writeCh'[i] = writeCh[i + 1]
      /\ Head(writeCh) = writeCh[1]
  BY <1>1
<1>3. ASSUME NEW t, NEW i \in QueuedAt(t)' PROVE i + 1 \in QueuedAt(t)
  BY <1>2, <1>3 DEF QueuedAt
<1>4. ASSUME NEW t, NEW i \in QueuedAt(t) \ {1} PROVE i - 1 \in QueuedAt(t)'
  <2>1. i \in 1 .. Len(writeCh) /\ writeCh[i] = t
    BY <1>4 DEF QueuedAt
  <2>2. i - 1 \in 1 .. Len(writeCh) - 1 /\ (i - 1) + 1 = i
    BY <1>2, <1>4, <2>1
  <2> QED
    BY <1>2, <2>1, <2>2 DEF QueuedAt
<1>5. ASSUME NEW t
      PROVE  /\ QueuedAt(t) \subseteq Nat /\ QueuedAt(t)' \subseteq 1 .. Len(writeCh')
             /\ (1 \in QueuedAt(t)) <=> (t = Head(writeCh))
  BY <1>2 DEF QueuedAt
<1> QED
  BY <1>3, <1>4, <1>5

LEMMA PlaceStep == PoolInv /\ PlaceInv /\ [Next]_vars => PlaceInv'
<1> SUFFICES ASSUME PoolInv, PlaceInv, [Next]_vars, NEW t \in Tasks
             PROVE  IF t <= clock' THEN Somewhere(t)' ELSE Nowhere(t)'
  BY DEF PlaceInv
<1>0. /\ BufferTypeOK /\ t \in Nat /\ clock \in Nat
      /\ t <= clock => Somewhere(t)
      /\ ~(t <= clock) => Nowhere(t)
  BY MaxTasksAssumption DEF PoolInv, TypeOK, PlaceInv, BufferTypeOK, Tasks
<1> USE DEF Nowhere, Handed, Queued, Worked, Ended, Dropped, Somewhere
<1>1. CASE /\ UNCHANGED <<Hands(t), QueuedAt(t), Workshop(t), Len(writeCh)>>
           /\ UNCHANGED <<done, lost, clock>>
  BY <1>0, <1>1
<1>2. ASSUME NEW w \in Writers, Stamp(w), UNCHANGED poolVars
      PROVE  IF t <= clock' THEN Somewhere(t)' ELSE Nowhere(t)'
  <2>1. /\ UNCHANGED <<QueuedAt(t), Workshop(t), done, lost, Len(writeCh)>>
        /\ clock' = clock + 1
    BY <1>2 DEF Stamp, history, poolVars, QueuedAt, Workshop
  <2>2. Hands(t)' = IF t = clock + 1 THEN Hands(t) \union {w} ELSE Hands(t)
    BY <1>0, <1>2 DEF Stamp, Hands, InHand, BufferTypeOK
  <2>3. CASE t = clock + 1
    BY <1>0, <2>1, <2>2, <2>3
  <2>4. CASE t # clock + 1
    <3>1. (t <= clock) <=> (t <= clock')
      BY <1>0, <2>1, <2>4
    <3> QED
      BY <1>0, <2>1, <2>2, <2>4, <3>1
  <2> QED
    BY <2>3, <2>4
<1>3. ASSUME NEW w \in Writers, Store(w) \/ Tally(w), UNCHANGED poolVars
      PROVE  IF t <= clock' THEN Somewhere(t)' ELSE Nowhere(t)'
  <2>1. UNCHANGED <<QueuedAt(t), Workshop(t), done, lost, clock, Len(writeCh)>>
    BY <1>3 DEF Store, Tally, history, poolVars, QueuedAt, Workshop
  <2>2. Hands(t)' = Hands(t)
    BY <1>0, <1>3 DEF Store, Tally, Hands, InHand, BufferTypeOK
  <2> QED
    BY <1>1, <2>1, <2>2
<1>4. ASSUME NEW w \in Writers, Send(w), UNCHANGED poolVars
      PROVE  IF t <= clock' THEN Somewhere(t)' ELSE Nowhere(t)'
  <2>1. UNCHANGED <<Workshop(t), done, clock>>
    BY <1>4 DEF Send, poolVars, Workshop
  <2>2. Hands(t)' = Hands(t) \ {w}
    BY <1>0, <1>4 DEF Send, Hands, InHand, BufferTypeOK
  <2>3. (w \in Hands(t)) <=> (t = task[w])
    BY <1>4 DEF Send, Hands, InHand
  <2>4. CASE HasRoom
    <3>1. /\ Len(writeCh') = Len(writeCh) + 1 /\ Len(writeCh) \in Nat
          /\ QueuedAt(t)' = IF t = task[w] THEN QueuedAt(t) \union {Len(writeCh) + 1}
                            ELSE QueuedAt(t)
      BY <1>0, <1>4, <2>4, QueuedAtSend
    <3>2. lost' = lost
      BY <1>4, <2>4 DEF Send
    <3>3. Len(writeCh) + 1 \in 1 .. Len(writeCh') /\ 1 .. Len(writeCh) \subseteq 1 .. Len(writeCh')
      BY <3>1
    <3>4. CASE t = task[w]
      <4>1. t <= clock /\ Hands(t)' = {} /\ QueuedAt(t) = {} /\ Workshop(t) = {}
            /\ t \notin done /\ t \notin lost
        BY <1>0, <2>2, <2>3, <3>4
      <4>2. QueuedAt(t)' = {Len(writeCh) + 1}
        BY <3>1, <3>4, <4>1
      <4> QED
        BY <2>1, <3>2, <3>3, <4>1, <4>2
    <3>5. CASE t # task[w]
      <4>1. Hands(t)' = Hands(t) /\ QueuedAt(t)' = QueuedAt(t)
        BY <2>2, <2>3, <3>1, <3>5
      <4> QED
        BY <1>0, <2>1, <3>2, <3>3, <4>1
    <3> QED
      BY <3>4, <3>5
  <2>5. CASE ~HasRoom
    <3>1. writeCh' = writeCh /\ lost' = lost \union {task[w]}
      BY <1>4, <2>5 DEF Send
    <3>2. QueuedAt(t)' = QueuedAt(t)
      BY <3>1 DEF QueuedAt
    <3>3. CASE t = task[w]
      BY <1>0, <2>1, <2>2, <2>3, <3>1, <3>2, <3>3
    <3>4. CASE t # task[w]
      BY <1>0, <2>1, <2>2, <2>3, <3>1, <3>2, <3>4
    <3> QED
      BY <3>3, <3>4
  <2> QED
    BY <2>4, <2>5
<1>5. ASSUME NEW g \in Workers, Take(g)
      PROVE  IF t <= clock' THEN Somewhere(t)' ELSE Nowhere(t)'
  <2>1. Receive /\ UNCHANGED <<Hands(t), done, lost, clock>>
    BY <1>5 DEF Take, Receive, history, Hands, InHand
  <2>2. Workshop(t)' = IF t = Head(writeCh) THEN Workshop(t) \union {g} ELSE Workshop(t)
    BY <1>5 DEF Take, Workshop, PoolInv, TypeOK
  <2>3. /\ \A i \in QueuedAt(t)' : i + 1 \in QueuedAt(t)
        /\ \A i \in QueuedAt(t) \ {1} : i - 1 \in QueuedAt(t)'
        /\ QueuedAt(t) \subseteq Nat /\ QueuedAt(t)' \subseteq 1 .. Len(writeCh')
        /\ (1 \in QueuedAt(t)) <=> (t = Head(writeCh))
    BY <1>0, <2>1, QueuedAtReceive
  <2>4. CASE t = Head(writeCh)
    <3>1. t <= clock /\ Queued(t) /\ QueuedAt(t) = {1}
      BY <1>0, <2>3, <2>4
    <3>2. ASSUME NEW i \in QueuedAt(t)' PROVE FALSE
      <4>1. i + 1 = 1 /\ i \in 1 .. Len(writeCh')
        BY <2>3, <3>1
      <4> QED
        BY <4>1
    <3> QED
      BY <2>1, <2>2, <2>4, <3>1, <3>2
  <2>5. CASE t # Head(writeCh)
    <3>1. CASE QueuedAt(t) = {}
      <4>1. QueuedAt(t)' = {}
        BY <2>3, <3>1
      <4> QED
        BY <1>0, <2>1, <2>2, <2>5, <3>1, <4>1
    <3>2. CASE QueuedAt(t) # {}
      <4>1. t <= clock /\ Queued(t)
        BY <1>0, <3>2
      <4>2. PICK i \in 1 .. Len(writeCh) : QueuedAt(t) = {i}
        BY <4>1
      <4>3. i # 1 /\ i - 1 \in QueuedAt(t)' /\ i \in Nat
        BY <2>3, <2>5, <4>2
      <4>4. ASSUME NEW j \in QueuedAt(t)' PROVE j = i - 1
        <5>1. j + 1 = i /\ j \in 1 .. Len(writeCh')
          BY <2>3, <4>2
        <5> QED
          BY <4>3, <5>1
      <4>5. QueuedAt(t)' = {i - 1} /\ i - 1 \in 1 .. Len(writeCh')
        BY <2>3, <4>3, <4>4
      <4> QED
        BY <2>1, <2>2, <2>5, <4>1, <4>5
    <3> QED
      BY <3>1, <3>2
  <2> QED
    BY <2>4, <2>5
<1>6. ASSUME NEW g \in Workers, Finish(g)
      PROVE  IF t <= clock' THEN Somewhere(t)' ELSE Nowhere(t)'
  <2>1. /\ UNCHANGED <<Hands(t), QueuedAt(t), lost, clock, Len(writeCh)>>
        /\ done' = done \union {holds[g]}
    BY <1>6 DEF Finish, bufferVars, history, Hands, InHand, QueuedAt
  <2>2. Workshop(t)' = Workshop(t) \ {g}
    BY <1>6 DEF Finish, Workshop, PoolInv, TypeOK
  <2>3. (g \in Workshop(t)) <=> (t = holds[g])
    BY <1>6 DEF Finish, Workshop
  <2>4. CASE t = holds[g]
    BY <1>0, <2>1, <2>2, <2>3, <2>4
  <2>5. CASE t # holds[g]
    BY <1>0, <2>1, <2>2, <2>3, <2>5
  <2> QED
    BY <2>4, <2>5
<1>7. ASSUME NEW g \in Workers, Exit(g)
      PROVE  IF t <= clock' THEN Somewhere(t)' ELSE Nowhere(t)'
  <2>1. UNCHANGED <<Hands(t), QueuedAt(t), done, lost, clock, Len(writeCh)>>
    BY <1>7 DEF Exit, bufferVars, history, Hands, InHand, QueuedAt
  <2>2. Workshop(t)' = Workshop(t)
    BY <1>7 DEF Exit, Workshop, PoolInv, TypeOK
  <2> QED
    BY <1>1, <2>1, <2>2
<1>8. CASE Cancel \/ StopReturns \/ UNCHANGED vars
  <2>1. UNCHANGED <<Hands(t), QueuedAt(t), Workshop(t), done, lost, clock, Len(writeCh)>>
    BY <1>8 DEF Cancel, StopReturns, vars, poolVars, bufferVars, history, Hands, InHand,
        QueuedAt, Workshop
  <2> QED
    BY <1>1, <2>1
<1>9. CASE \E w \in Writers : Handle(w)
  BY <1>2, <1>3, <1>4, <1>9 DEF Handle, Write
<1> QED
  BY <1>5, <1>6, <1>7, <1>8, <1>9 DEF Next

(* From its stamp on a task is in exactly one place, whatever handlers,    *)
(* workers and a cancellation interleave: it is never duplicated and never *)
(* vanishes silently. (ring_buffer.go:47-69, worker_pool.go:58-80)         *)
THEOREM PlacesCorrect == Spec => []EachTaskInOnePlace
<1>1. Init => PlaceInv
  <2> SUFFICES ASSUME Init, NEW t \in Tasks PROVE ~(t <= clock) /\ Nowhere(t)
    BY DEF PlaceInv
  <2>1. t \in Nat /\ t > 0 /\ clock = 0
    BY MaxTasksAssumption DEF Init, BufferInit, Tasks
  <2>2. Hands(t) = {} /\ QueuedAt(t) = {} /\ Workshop(t) = {} /\ done = {} /\ lost = {}
    BY DEF Init, BufferInit, Hands, InHand, QueuedAt, Workshop
  <2> QED
    BY <2>1, <2>2 DEF Nowhere
<1>2. PoolInv /\ PlaceInv => EachTaskInOnePlace
  <2> SUFFICES ASSUME PoolInv, PlaceInv, NEW t \in 1 .. clock
               PROVE  Cardinality(CarriedBy(t)) + Cardinality(QueuedAt(t))
                        + (IF t \in done THEN 1 ELSE 0) + (IF t \in lost THEN 1 ELSE 0) = 1
    BY DEF EachTaskInOnePlace
  <2>1. Somewhere(t)
    BY MaxTasksAssumption DEF PoolInv, TypeOK, BufferTypeOK, PlaceInv, Tasks
  <2>2. CarriedBy(t) = Hands(t) \union Workshop(t)
    BY DEF CarriedBy, Hands, Workshop
  <2>3. Cardinality({}) = 0 /\ \A x : Cardinality({x}) = 1
    BY FS_EmptySet, FS_Singleton
  <2>4. CASE Handed(t) \/ Worked(t)
    <3>1. /\ \E x : CarriedBy(t) = {x}
          /\ QueuedAt(t) = {} /\ t \notin done /\ t \notin lost
      BY <2>2, <2>4 DEF Handed, Worked
    <3>2. Cardinality(CarriedBy(t)) = 1 /\ Cardinality(QueuedAt(t)) = 0
      BY <2>3, <3>1
    <3> QED
      BY <3>1, <3>2
  <2>5. CASE Queued(t)
    <3>1. CarriedBy(t) = {} /\ t \notin done /\ t \notin lost
      BY <2>2, <2>5 DEF Queued
    <3>2. Cardinality(CarriedBy(t)) = 0 /\ Cardinality(QueuedAt(t)) = 1
      BY <2>3, <2>5, <3>1 DEF Queued
    <3> QED
      BY <3>1, <3>2
  <2>6. CASE Ended(t) \/ Dropped(t)
    <3>1. Cardinality(CarriedBy(t)) = 0 /\ Cardinality(QueuedAt(t)) = 0
      BY <2>2, <2>3, <2>6 DEF Ended, Dropped
    <3> QED
      BY <2>6, <3>1 DEF Ended, Dropped
  <2> QED
    BY <2>1, <2>4, <2>5, <2>6 DEF Somewhere
<1> QED
  BY <1>1, <1>2, PoolInit, PoolStep, PlaceStep, PTL DEF Spec
=============================================================================
