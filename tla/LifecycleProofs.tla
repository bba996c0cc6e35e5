-------------------------- MODULE LifecycleProofs --------------------------
(***************************************************************************)
(* Proofs about ProxyLifecycle for any names, signal types, batch sizes,   *)
(* queue sizes, workers, tasks and lives of the process, with a disk that  *)
(* may fail and crashes at any moment.                                     *)
(***************************************************************************)
EXTENDS ProxyLifecycle, FiniteSetTheorems, SequenceTheorems, TLAPS

-----------------------------------------------------------------------------
(* Sequences as sets.                                                      *)

(* Appending adds one element. (pebble.go:119, 127)                        *)
LEMMA SetOfAppend ==
    ASSUME NEW S, NEW s \in Seq(S), NEW e \in S
    PROVE  /\ Append(s, e) \in Seq(S) /\ Len(Append(s, e)) = Len(s) + 1
           /\ ToSet(Append(s, e)) = ToSet(s) \union {e}
<1>1. /\ Append(s, e) \in Seq(S) /\ Len(Append(s, e)) = Len(s) + 1
      /\ DOMAIN Append(s, e) = 1..(Len(s) + 1) /\ DOMAIN s = 1..Len(s) /\ Len(s) \in Nat
      /\ \A i \in 1..Len(s) : Append(s, e)[i] = s[i]
      /\ Append(s, e)[Len(s) + 1] = e
  OBVIOUS
<1>2. 1..(Len(s) + 1) = 1..Len(s) \union {Len(s) + 1}
  BY <1>1
<1> QED
  BY <1>1, <1>2 DEF ToSet

(* A sequence is its head and its tail. (pebble.go:117-128)                *)
LEMMA SetOfTail ==
    ASSUME NEW S, NEW s \in Seq(S), s # << >>
    PROVE  /\ Tail(s) \in Seq(S) /\ Len(Tail(s)) = Len(s) - 1 /\ Head(s) \in S
           /\ ToSet(s) = ToSet(Tail(s)) \union {Head(s)}
<1>1. /\ Tail(s) \in Seq(S) /\ Len(Tail(s)) = Len(s) - 1 /\ Head(s) \in S
      /\ Len(s) \in Nat /\ Len(s) >= 1 /\ DOMAIN s = 1..Len(s)
      /\ DOMAIN Tail(s) = 1..(Len(s) - 1)
      /\ \A i \in 1..(Len(s) - 1) : Tail(s)[i] = s[i + 1]
      /\ Head(s) = s[1]
  OBVIOUS
<1>2. ASSUME NEW x \in ToSet(s) PROVE x \in ToSet(Tail(s)) \union {Head(s)}
  <2>1. PICK i \in 1..Len(s) : x = s[i]
    BY <1>1 DEF ToSet
  <2>2. CASE i = 1
    BY <2>1, <2>2, <1>1
  <2>3. CASE i # 1
    <3>1. i - 1 \in 1..(Len(s) - 1) /\ (i - 1) + 1 = i
      BY <2>1, <2>3, <1>1
    <3>2. Tail(s)[i - 1] = x
      BY <3>1, <2>1, <1>1
    <3> QED
      BY <3>1, <3>2, <1>1 DEF ToSet
  <2> QED
    BY <2>2, <2>3
<1>3. ASSUME NEW x \in ToSet(Tail(s)) \union {Head(s)} PROVE x \in ToSet(s)
  <2>1. CASE x = Head(s)
    BY <2>1, <1>1 DEF ToSet
  <2>2. CASE x \in ToSet(Tail(s))
    <3>1. PICK i \in 1..(Len(s) - 1) : x = Tail(s)[i]
      BY <2>2, <1>1 DEF ToSet
    <3>2. i + 1 \in 1..Len(s) /\ s[i + 1] = x
      BY <3>1, <1>1
    <3> QED
      BY <3>2, <1>1 DEF ToSet
  <2> QED
    BY <1>3, <2>1, <2>2
<1> QED
  BY <1>1, <1>2, <1>3

LEMMA SetOfEmpty == ToSet(<< >>) = {}
  BY DEF ToSet
LEMMA EmptyOf == \A S : << >> \in Seq(S) /\ Len(<< >>) = 0
  OBVIOUS
LEMMA SetOfSeq ==
    ASSUME NEW S, NEW s \in Seq(S)
    PROVE  ToSet(s) \subseteq S
  BY DEF ToSet

-----------------------------------------------------------------------------
(* What a step of the process does to the persister.                       *)

StoreUntouched ==
    \/ LoadOne \/ StartReceiver \/ StartApi
    \/ \E key \in Keys : Accept(key)
    \/ \E g \in Workers : Take(g) \/ Process(g) \/ Exit(g)
    \/ Purge \/ SweeperExits
    \/ ApiStopped \/ WorkersStopped \/ HttpStopped \/ CallsEnd \/ GrpcStopped \/ List
    \/ UNCHANGED vars

LEMMA StoreUnchanged == StoreUntouched => UNCHANGED storeVars
  BY DEF StoreUntouched, LoadOne, StartReceiver, StartApi, Accept, Take, Process, Exit,
      Purge, SweeperExits, ApiStopped, WorkersStopped, HttpStopped, CallsEnd, GrpcStopped,
      List, vars

StoreTouched ==
    \/ Boot \/ StartFails \/ Forget \/ DrainLoop \/ Signal
    \/ EnqueueOne \/ CancelStore \/ StoreStopped \/ Leave \/ Crash

LEMMA StepCases == [Next]_vars => StoreUntouched \/ StoreTouched
  BY DEF Next, Shutdown, StoreUntouched, StoreTouched

-----------------------------------------------------------------------------
(* Types.                                                                  *)

LEMMA StoreTypeInit == StoreInit => StoreTypeOK
<1> SUFFICES ASSUME StoreInit PROVE StoreTypeOK
  OBVIOUS
<1>1. /\ << >> \in Seq(Keys) /\ << >> \in Seq(Names)
      /\ Len(<< >>) <= BatchSize /\ Len(<< >>) <= 2 * BatchSize
  BY BatchSizeAssumption, EmptyOf
<1> QED
  BY <1>1 DEF StoreInit, StoreTypeOK

LEMMA NamesOfKeys ==
    ASSUME NEW keys \in SUBSET Keys
    PROVE  NamesOf(keys) \subseteq Names
  BY DEF NamesOf, KeyName, Keys

(* A write, a deletion: the database keeps its type. (pebble.go:141-203)   *)
LEMMA CommitType ==
    ASSUME StoreTypeOK
    PROVE  /\ \A keys \in Seq(Keys) :
                WriteBatch(keys) => db' \in SUBSET Keys /\ lost' \subseteq Names
           /\ \A names \in Seq(Names) :
                ProcessDeletes(names) => db' \in SUBSET Keys /\ lost' \subseteq Names
<1>1. ASSUME NEW keys \in Seq(Keys), WriteBatch(keys)
      PROVE db' \in SUBSET Keys /\ lost' \subseteq Names
  <2>1. ToSet(keys) \subseteq Keys /\ NamesOf(ToSet(keys)) \subseteq Names
    BY SetOfSeq, NamesOfKeys
  <2> QED
    BY <1>1, <2>1 DEF WriteBatch, StoreTypeOK
<1>2. ASSUME NEW names \in Seq(Names), ProcessDeletes(names)
      PROVE db' \in SUBSET Keys /\ lost' \subseteq Names
  BY <1>2, SetOfSeq DEF ProcessDeletes, StoreTypeOK
<1> QED
  BY <1>1, <1>2

(* drainLoop keeps its queues and batches within their bounds.             *)
(* (pebble.go:105-139)                                                     *)
LEMMA DrainType == StoreTypeOK /\ Drain => StoreTypeOK'
<1> SUFFICES ASSUME StoreTypeOK, Drain PROVE StoreTypeOK'
  OBVIOUS
<1> USE DEF StoreTypeOK
<1>0. BatchSize \in Nat /\ BatchSize > 0
  BY BatchSizeAssumption
<1>1. CASE TakeEntry
  <2>1. /\ Tail(batchCh) \in Seq(Keys) /\ Len(Tail(batchCh)) <= 2 * BatchSize
        /\ Head(batchCh) \in Keys
    BY <1>0, <1>1, SetOfTail DEF TakeEntry
  <2>2. /\ Append(batch, Head(batchCh)) \in Seq(Keys)
        /\ Len(Append(batch, Head(batchCh))) \in Nat
    BY <2>1, SetOfAppend
  <2>3. CASE Len(Append(batch, Head(batchCh))) >= BatchSize
    <3>1. WriteBatch(Append(batch, Head(batchCh))) /\ batch' = << >>
      BY <1>1, <2>3 DEF TakeEntry
    <3>2. db' \in SUBSET Keys /\ lost' \subseteq Names
      BY <2>2, <3>1, CommitType
    <3> QED
      BY <1>0, <1>1, <2>1, <3>1, <3>2, EmptyOf DEF TakeEntry
  <2>4. CASE ~(Len(Append(batch, Head(batchCh))) >= BatchSize)
    <3>1. batch' = Append(batch, Head(batchCh)) /\ db' = db /\ lost' = lost
      BY <1>1, <2>4 DEF TakeEntry, disk
    <3>2. batch' \in Seq(Keys) /\ Len(batch') <= BatchSize
      BY <1>0, <2>2, <2>4, <3>1
    <3> QED
      BY <1>1, <2>1, <3>1, <3>2 DEF TakeEntry
  <2> QED
    BY <2>3, <2>4
<1>2. CASE TakeDelete
  <2>1. /\ Tail(deleteCh) \in Seq(Names) /\ Len(Tail(deleteCh)) <= BatchSize
        /\ Head(deleteCh) \in Names
    BY <1>0, <1>2, SetOfTail DEF TakeDelete
  <2>2. /\ Append(deletes, Head(deleteCh)) \in Seq(Names)
        /\ Len(Append(deletes, Head(deleteCh))) \in Nat
    BY <2>1, SetOfAppend
  <2>3. CASE Len(Append(deletes, Head(deleteCh))) >= BatchSize
    <3>1. ProcessDeletes(Append(deletes, Head(deleteCh))) /\ deletes' = << >>
      BY <1>2, <2>3 DEF TakeDelete
    <3>2. db' \in SUBSET Keys /\ lost' \subseteq Names
      BY <2>2, <3>1, CommitType
    <3> QED
      BY <1>0, <1>2, <2>1, <3>1, <3>2, EmptyOf DEF TakeDelete
  <2>4. CASE ~(Len(Append(deletes, Head(deleteCh))) >= BatchSize)
    <3>1. deletes' = Append(deletes, Head(deleteCh)) /\ db' = db /\ lost' = lost
      BY <1>2, <2>4 DEF TakeDelete, disk
    <3>2. deletes' \in Seq(Names) /\ Len(deletes') <= BatchSize
      BY <1>0, <2>2, <2>4, <3>1
    <3> QED
      BY <1>2, <2>1, <3>1, <3>2 DEF TakeDelete
  <2> QED
    BY <2>3, <2>4
<1>3. CASE TickWrite
  BY <1>0, <1>3, CommitType, EmptyOf DEF TickWrite, queues
<1>4. CASE TickDelete
  BY <1>0, <1>4, CommitType, EmptyOf DEF TickDelete, queues
<1>5. CASE LastWrite
  BY <1>5, CommitType DEF LastWrite, queues, gathered
<1>6. CASE LastDelete
  BY <1>6, CommitType DEF LastDelete, queues, gathered
<1> QED
  BY <1>1, <1>2, <1>3, <1>4, <1>5, <1>6 DEF Drain

(* Callers, launch, cancellation, close and the end of the process.        *)
LEMMA CallerType ==
    ASSUME StoreTypeOK
    PROVE  /\ \A key \in Keys : Enqueue(key) => StoreTypeOK'
           /\ \A name \in Names : DeleteByName(name) => StoreTypeOK'
           /\ Launch /\ (\E read \in SUBSET db : LoadAll(read)) => StoreTypeOK'
           /\ Kill => StoreTypeOK'
           /\ Cancel \/ Close => StoreTypeOK'
<1> USE DEF StoreTypeOK
<1>0. /\ BatchSize \in Nat /\ << >> \in Seq(Keys) /\ << >> \in Seq(Names)
      /\ Len(<< >>) <= BatchSize /\ Len(<< >>) <= 2 * BatchSize
  BY BatchSizeAssumption, EmptyOf
<1>1. ASSUME NEW key \in Keys, Enqueue(key) PROVE StoreTypeOK'
  <2>1. Append(batchCh, key) \in Seq(Keys) /\ Len(Append(batchCh, key)) = Len(batchCh) + 1
    BY SetOfAppend
  <2>2. batchCh' \in Seq(Keys) /\ Len(batchCh') <= 2 * BatchSize
    BY <1>0, <1>1, <2>1 DEF Enqueue, EntryRoom
  <2> QED
    BY <1>1, <2>2 DEF Enqueue, disk, gathered
<1>2. ASSUME NEW name \in Names, DeleteByName(name) PROVE StoreTypeOK'
  <2>1. Append(deleteCh, name) \in Seq(Names) /\ Len(Append(deleteCh, name)) = Len(deleteCh) + 1
    BY SetOfAppend
  <2>2. deleteCh' \in Seq(Names) /\ Len(deleteCh') <= BatchSize
    BY <1>0, <1>2, <2>1 DEF DeleteByName, DeleteRoom
  <2> QED
    BY <1>2, <2>2 DEF DeleteByName, disk, gathered
<1>3. ASSUME Kill PROVE StoreTypeOK'
  BY <1>0, <1>3 DEF Kill
<1>5. ASSUME Launch, NEW read \in SUBSET db, LoadAll(read) PROVE StoreTypeOK'
  <2>1. db' \in SUBSET Keys /\ lost' \subseteq Names
    BY <1>5, NamesOfKeys DEF LoadAll
  <2> QED
    BY <1>0, <1>5, <2>1 DEF Launch
<1>4. ASSUME Cancel \/ Close PROVE StoreTypeOK'
  BY <1>4 DEF Cancel, Close, storeVars, disk, queues, gathered
<1> QED
  BY <1>1, <1>2, <1>3, <1>4, <1>5

(* An upsert keeps the dictionary's type. (main.go:154-158, worker_pool.go:90)*)
LEMMA UpsertType ==
    ASSUME MemoryTypeOK, NEW key \in Keys
    PROVE  DOMAIN Upserted(key) \subseteq Names /\ Upserted(key) \in [DOMAIN Upserted(key) -> Signals]
<1>1. key[1] \in Signals /\ key[2] \in Names
  BY DEF Keys
<1> QED
  BY <1>1 DEF Upserted, MemoryTypeOK, Known

LEMMA FreshType == FreshMemory /\ toLoad' \subseteq Keys => MemoryTypeOK'
<1> SUFFICES ASSUME FreshMemory, toLoad' \subseteq Keys PROVE MemoryTypeOK'
  OBVIOUS
<1>1. queue' \in Seq(Keys) /\ Len(queue') <= QueueSize
  BY EmptyOf, QueueSizeAssumption DEF FreshMemory
<1>2. worker' \in [Workers -> {Idle, Exited} \union Keys]
  BY DEF FreshMemory
<1>3. DOMAIN dict' = {} /\ dict' \in [DOMAIN dict' -> Signals]
  BY DEF FreshMemory, Empty
<1> QED
  BY <1>1, <1>2, <1>3 DEF FreshMemory, MemoryTypeOK, Known

(* Queue, workers, dictionary and what is under way keep their types.      *)
LEMMA MemoryType == StoreTypeOK /\ MemoryTypeOK /\ [Next]_vars => MemoryTypeOK'
<1> SUFFICES ASSUME StoreTypeOK, MemoryTypeOK, [Next]_vars PROVE MemoryTypeOK'
  OBVIOUS
<1>1. CASE Boot
  BY <1>1, FreshType DEF Boot, Fresh, StoreTypeOK
<1>2. CASE Leave \/ Crash
  BY <1>2, FreshType DEF Leave, Crash, Gone, Fresh
<1>3. CASE LoadOne
  <2>1. PICK key \in toLoad : toLoad' = toLoad \ {key} /\ dict' = Upserted(key)
    BY <1>3 DEF LoadOne
  <2>2. key \in Keys
    BY <2>1 DEF MemoryTypeOK
  <2>3. Known' \subseteq Names /\ dict' \in [Known' -> Signals]
    BY <2>1, <2>2, UpsertType DEF Known
  <2> QED
    BY <1>3, <2>1, <2>3 DEF LoadOne, MemoryTypeOK
<1>5. ASSUME NEW key \in Keys, Accept(key) PROVE MemoryTypeOK'
  <2>1. Append(queue, key) \in Seq(Keys) /\ Len(Append(queue, key)) = Len(queue) + 1
    BY SetOfAppend DEF MemoryTypeOK
  <2>2. queue' \in Seq(Keys) /\ Len(queue') <= QueueSize
    BY <1>5, <2>1, QueueSizeAssumption DEF Accept, MemoryTypeOK
  <2> QED
    BY <1>5, <2>2 DEF Accept, MemoryTypeOK, Known
<1>6. ASSUME NEW g \in Workers, Take(g) PROVE MemoryTypeOK'
  <2>1. /\ Tail(queue) \in Seq(Keys) /\ Len(Tail(queue)) = Len(queue) - 1
        /\ Head(queue) \in Keys
    BY <1>6, SetOfTail DEF Take, MemoryTypeOK
  <2>2. queue' \in Seq(Keys) /\ Len(queue') <= QueueSize
    BY <1>6, <2>1, QueueSizeAssumption DEF Take, MemoryTypeOK
  <2>3. worker' \in [Workers -> {Idle, Exited} \union Keys]
    BY <1>6, <2>1 DEF Take, MemoryTypeOK
  <2> QED
    BY <1>6, <2>2, <2>3 DEF Take, MemoryTypeOK, Known
<1>7. ASSUME NEW g \in Workers, Process(g) PROVE MemoryTypeOK'
  <2>1. worker[g] \in Keys
    BY <1>7 DEF Process, Keys
  <2>2. Known' \subseteq Names /\ dict' \in [Known' -> Signals]
    BY <1>7, <2>1, UpsertType DEF Known, Process
  <2>3. worker' \in [Workers -> {Idle, Exited} \union Keys]
    BY <1>7 DEF Process, MemoryTypeOK
  <2> QED
    BY <1>7, <2>2, <2>3 DEF Process, MemoryTypeOK
<1>8. ASSUME NEW g \in Workers, Exit(g) PROVE MemoryTypeOK'
  <2>1. worker' \in [Workers -> {Idle, Exited} \union Keys]
    BY <1>8 DEF Exit, MemoryTypeOK
  <2> QED
    BY <1>8, <2>1 DEF Exit, MemoryTypeOK, Known
<1>9. CASE Purge
  <2>1. PICK gone \in SUBSET Known : /\ dict' = [n \in Known \ gone |-> dict[n]]
                                    /\ toForget' = gone
    BY <1>9 DEF Purge
  <2>2. Known' \subseteq Names /\ dict' \in [Known' -> Signals] /\ toForget' \subseteq Names
    BY <2>1 DEF Known, MemoryTypeOK
  <2> QED
    BY <1>9, <2>2 DEF Purge, MemoryTypeOK
<1>10. CASE Forget \/ EnqueueOne
  BY <1>10 DEF Forget, EnqueueOne, MemoryTypeOK, Known
<1>11. CASE List
  <2>1. toEnqueue' \subseteq Keys
    BY <1>11 DEF List, MemoryTypeOK, Keys
  <2> QED
    BY <1>11, <2>1 DEF List, MemoryTypeOK, Known
<1>12. CASE UNCHANGED memory
  BY <1>12 DEF memory, MemoryTypeOK, Known
<1>13. CASE \/ StartReceiver \/ StartApi \/ SweeperExits \/ ApiStopped \/ WorkersStopped
            \/ HttpStopped \/ CallsEnd \/ GrpcStopped
  BY <1>12, <1>13 DEF StartReceiver, StartApi, SweeperExits, ApiStopped, WorkersStopped,
      HttpStopped, CallsEnd, GrpcStopped
<1>14. CASE StartFails \/ DrainLoop \/ Signal \/ CancelStore \/ StoreStopped
  BY <1>12, <1>14 DEF StartFails, DrainLoop, Signal, CancelStore, StoreStopped
<1>15. CASE UNCHANGED vars
  BY <1>12, <1>15 DEF vars
<1>16. CASE StoreUntouched
  <2>1. CASE \E key \in Keys : Accept(key)
    BY <2>1, <1>5
  <2>2. CASE \E g \in Workers : Take(g) \/ Process(g) \/ Exit(g)
    <3>1. PICK g \in Workers : Take(g) \/ Process(g) \/ Exit(g)
      BY <2>2
    <3> QED
      BY <3>1, <1>6, <1>7, <1>8
  <2> QED
    BY <1>3, <1>9, <1>11, <1>13, <1>15, <1>16, <2>1, <2>2 DEF StoreUntouched
<1>17. CASE StoreTouched
  BY <1>1, <1>2, <1>10, <1>14, <1>17 DEF StoreTouched
<1> QED
  BY <1>16, <1>17, StepCases

(* The persister's state keeps its type.                                   *)
LEMMA StoreType == StoreTypeOK /\ MemoryTypeOK /\ [Next]_vars => StoreTypeOK'
<1> SUFFICES ASSUME StoreTypeOK, MemoryTypeOK, [Next]_vars PROVE StoreTypeOK'
  OBVIOUS
<1>1. CASE StoreUntouched
  BY <1>1, StoreUnchanged DEF storeVars, disk, queues, gathered, StoreTypeOK
<1>2. CASE Boot
  BY <1>2, CallerType DEF Boot
<1>4. CASE StartFails \/ Signal \/ CancelStore
  BY <1>4, CallerType DEF StartFails, Signal, CancelStore
<1>5. CASE Forget
  BY <1>5, CallerType DEF Forget, MemoryTypeOK
<1>6. CASE EnqueueOne
  BY <1>6, CallerType DEF EnqueueOne, MemoryTypeOK
<1>7. CASE StoreStopped
  BY <1>7, CallerType DEF StoreStopped
<1>8. CASE Leave \/ Crash
  BY <1>8, CallerType DEF Leave, Crash, Gone
<1>9. CASE DrainLoop
  BY <1>9, DrainType DEF DrainLoop
<1> QED
  BY StepCases, <1>1, <1>2, <1>4, <1>5, <1>6, <1>7, <1>8, <1>9 DEF StoreTouched

(* So do main, the goroutines' flags and the health table.                 *)
LEMMA ServiceType == ServiceTypeOK /\ [Next]_vars => ServiceTypeOK'
<1> SUFFICES ASSUME ServiceTypeOK, [Next]_vars PROVE ServiceTypeOK'
  OBVIOUS
<1> USE DEF ServiceTypeOK
<1>1. CASE Boot
  BY <1>1 DEF Boot, Fresh, Registered
<1>2. CASE StartReceiver
  BY <1>2 DEF StartReceiver
<1>3. CASE StartApi
  BY <1>3 DEF StartApi, Update, receiver
<1>4. CASE StartFails \/ Signal
  BY <1>4 DEF StartFails, Signal, served, receiver
<1>5. CASE ApiStopped \/ WorkersStopped
  BY <1>5 DEF ApiStopped, WorkersStopped, Update, goroutines, served, receiver
<1>6. CASE HttpStopped
  BY <1>6 DEF HttpStopped, Update
<1>13. CASE CallsEnd \/ GrpcStopped
  BY <1>13 DEF CallsEnd, GrpcStopped, goroutines, served, receiver
<1>7. CASE List \/ EnqueueOne \/ CancelStore \/ StoreStopped
  BY <1>7 DEF List, EnqueueOne, CancelStore, StoreStopped, goroutines, served, receiver
<1>8. CASE Leave \/ Crash
  BY <1>8 DEF Leave, Crash, Gone, Fresh, Registered
<1>9. CASE LoadOne \/ \E key \in Keys : Accept(key)
  BY <1>9 DEF LoadOne, Accept, goroutines, served, receiver
<1>10. CASE \E g \in Workers : Take(g) \/ Process(g) \/ Exit(g)
  BY <1>10 DEF Take, Process, Exit, goroutines, served, receiver
<1>11. CASE Purge \/ Forget \/ SweeperExits \/ DrainLoop
  BY <1>11 DEF Purge, Forget, SweeperExits, DrainLoop, goroutines, served, receiver
<1>12. CASE UNCHANGED vars
  BY <1>12 DEF vars, goroutines, served, receiver
<1> QED
  BY <1>1, <1>2, <1>3, <1>4, <1>5, <1>6, <1>7, <1>8, <1>9, <1>10, <1>11, <1>12, <1>13
  DEF Next, Shutdown

HistoryTypeOK ==
    /\ tasks \in Nat /\ boots \in Nat /\ budget \in Budgets
    /\ signalled \in BOOLEAN /\ forgotten \subseteq Names /\ skipped \subseteq Names
    /\ refused \subseteq Names /\ dropped \subseteq Names

(* And the history.                                                        *)
LEMMA HistoryType == MemoryTypeOK /\ HistoryTypeOK /\ [Next]_vars => HistoryTypeOK'
<1> SUFFICES ASSUME MemoryTypeOK, HistoryTypeOK, [Next]_vars PROVE HistoryTypeOK'
  OBVIOUS
<1> USE DEF HistoryTypeOK
<1>0. \A n \in Nat : n + 1 \in Nat
  OBVIOUS
<1>1. CASE Boot
  BY <1>0, <1>1 DEF Boot, Fresh
<1>2. CASE Leave \/ Crash
  BY <1>2 DEF Leave, Crash, Gone, Fresh, process
<1>3. CASE \E key \in Keys : Accept(key)
  BY <1>0, <1>3 DEF Accept, history, process
<1>4. CASE Purge
  BY <1>4 DEF Purge, MemoryTypeOK, process
<1>5. CASE Forget
  BY <1>5 DEF Forget, MemoryTypeOK, process
<1>6. CASE Signal
  BY <1>6 DEF Signal, process
<1>7. CASE StartReceiver \/ StartApi \/ StartFails
  BY <1>7 DEF StartReceiver, StartApi, StartFails, history, process
<1>12. CASE LoadOne
  BY <1>12 DEF LoadOne, MemoryTypeOK, Keys, KeyName, process
<1>8. ASSUME NEW g \in Workers, Take(g) \/ Process(g) \/ Exit(g) PROVE HistoryTypeOK'
  BY <1>8 DEF Take, Process, Exit, history, process
<1>13. CASE EnqueueOne
  BY <1>13 DEF EnqueueOne, MemoryTypeOK, Keys, KeyName, process
<1>9. CASE SweeperExits \/ DrainLoop \/ ApiStopped \/ WorkersStopped
  BY <1>9 DEF SweeperExits, DrainLoop, ApiStopped, WorkersStopped, history, process
<1>14. CASE HttpStopped \/ CallsEnd \/ GrpcStopped
  BY <1>14 DEF HttpStopped, CallsEnd, GrpcStopped, history, process
<1>11. CASE List \/ CancelStore \/ StoreStopped
  BY <1>11 DEF List, CancelStore, StoreStopped, history, process
<1>10. CASE UNCHANGED vars
  BY <1>10 DEF vars, history, process
<1> QED
  BY <1>1, <1>2, <1>3, <1>4, <1>5, <1>6, <1>7, <1>8, <1>9, <1>10, <1>11, <1>12, <1>13, <1>14
  DEF Next, Shutdown

(* The types hold over boots, failures, shutdowns and crashes; in          *)
(* particular no channel ever holds more than its capacity.                *)
(* (pebble.go:66-67, buffer.go:34-47, main.go:139-267)                     *)
THEOREM TypeCorrect == Spec => []TypeOK
<1>1. Init => TypeOK
  <2> SUFFICES ASSUME Init PROVE TypeOK
    OBVIOUS
  <2>1. StoreTypeOK
    BY StoreTypeInit DEF Init
  <2>2. /\ << >> \in Seq(Keys) /\ Len(<< >>) <= QueueSize
        /\ DOMAIN Empty = {} /\ Empty \in [DOMAIN Empty -> Signals]
    BY EmptyOf, QueueSizeAssumption DEF Empty
  <2>3. MemoryTypeOK
    BY <2>2 DEF Init, MemoryTypeOK, Known
  <2>4. ServiceTypeOK
    BY DEF Init, ServiceTypeOK, Registered
  <2> QED
    BY <2>1, <2>3, <2>4 DEF Init, TypeOK
<1>2. TypeOK /\ [Next]_vars => TypeOK'
  BY StoreType, MemoryType, ServiceType, HistoryType DEF TypeOK, HistoryTypeOK
<1> QED
  BY <1>1, <1>2, PTL DEF Spec

-----------------------------------------------------------------------------
(* What leaves the database.                                               *)

(* What drainLoop is to delete, it was given; what it deletes, likewise.   *)
Pending == ToSet(deleteCh) \union ToSet(deletes)

LEMMA DeletesGone ==
    ASSUME NEW names, ProcessDeletes(names)
    PROVE  /\ DbNames \ DbNames' \subseteq ToSet(names)
           /\ ToSet(names) \subseteq lost' \/ DbNames' = DbNames \ ToSet(names)
           /\ lost \subseteq lost'
  BY DEF ProcessDeletes, Doomed, DbNames, NamesOf, KeyName

LEMMA WritesAdd ==
    ASSUME NEW keys, WriteBatch(keys)
    PROVE  /\ DbNames \subseteq DbNames' /\ lost \subseteq lost'
           /\ NamesOf(ToSet(keys)) \subseteq DbNames' \union lost'
  BY DEF WriteBatch, DbNames, NamesOf, KeyName

LEMMA DrainForgets ==
    ASSUME StoreTypeOK, Drain
    PROVE  Pending' \subseteq Pending /\ DbNames \ DbNames' \subseteq Pending
<1> USE DEF Pending
<1>1. CASE TakeEntry
  <2>1. UNCHANGED <<deleteCh, deletes>>
    BY <1>1 DEF TakeEntry
  <2>2. DbNames \subseteq DbNames'
    BY <1>1, WritesAdd DEF TakeEntry, disk, DbNames
  <2> QED
    BY <2>1, <2>2
<1>2. CASE TakeDelete
  <2>1. deleteCh' = Tail(deleteCh) /\ ToSet(deleteCh) = ToSet(Tail(deleteCh)) \union {Head(deleteCh)}
        /\ Head(deleteCh) \in Names
    BY <1>2, SetOfTail DEF TakeDelete, StoreTypeOK
  <2>2. ToSet(Append(deletes, Head(deleteCh))) = ToSet(deletes) \union {Head(deleteCh)}
    BY <2>1, SetOfAppend DEF StoreTypeOK
  <2>3. CASE ProcessDeletes(Append(deletes, Head(deleteCh))) /\ deletes' = << >>
    BY <2>1, <2>2, <2>3, DeletesGone, SetOfEmpty
  <2>4. CASE deletes' = Append(deletes, Head(deleteCh)) /\ UNCHANGED disk
    BY <2>1, <2>2, <2>4 DEF disk, DbNames
  <2> QED
    BY <1>2, <2>3, <2>4 DEF TakeDelete
<1>3. CASE TickWrite \/ LastWrite
  <2>1. UNCHANGED <<deleteCh, deletes>>
    BY <1>3 DEF TickWrite, LastWrite, queues, gathered
  <2>2. DbNames \subseteq DbNames'
    BY <1>3, WritesAdd DEF TickWrite, LastWrite
  <2> QED
    BY <2>1, <2>2
<1>4. CASE TickDelete \/ LastDelete
  <2>1. deleteCh' = deleteCh /\ ProcessDeletes(deletes) /\ (deletes' = << >> \/ deletes' = deletes)
    BY <1>4 DEF TickDelete, LastDelete, queues, gathered
  <2> QED
    BY <2>1, DeletesGone, SetOfEmpty
<1> QED
  BY <1>1, <1>2, <1>3, <1>4 DEF Drain

(* Whatever is on its way to a deletion was purged by this process.        *)
OnlyForgotten == toForget \union Pending \subseteq forgotten

LEMMA ForgottenStep == TypeOK /\ OnlyForgotten /\ [Next]_vars => OnlyForgotten'
<1> SUFFICES ASSUME TypeOK, OnlyForgotten, [Next]_vars PROVE OnlyForgotten'
  OBVIOUS
<1> USE DEF OnlyForgotten
<1>1. CASE Boot
  BY <1>1, SetOfEmpty DEF Boot, Launch, Fresh, FreshMemory, Pending
<1>2. CASE Leave \/ Crash
  BY <1>2, SetOfEmpty DEF Leave, Crash, Gone, Kill, Fresh, FreshMemory, Pending
<1>3. CASE Purge
  <2>1. Pending' = Pending
    BY <1>3 DEF Purge, storeVars, queues, gathered, Pending
  <2> QED
    BY <1>3, <2>1 DEF Purge
<1>4. CASE Forget
  <2>1. PICK n \in toForget : DeleteByName(n) /\ toForget' = toForget \ {n}
    BY <1>4 DEF Forget
  <2>2. ToSet(Append(deleteCh, n)) = ToSet(deleteCh) \union {n}
    BY <2>1, SetOfAppend DEF TypeOK, StoreTypeOK, MemoryTypeOK
  <2>3. Pending' \subseteq Pending \union {n}
    BY <2>1, <2>2 DEF DeleteByName, gathered, Pending
  <2> QED
    BY <1>4, <2>1, <2>3 DEF Forget
<1>5. CASE DrainLoop
  BY <1>5, DrainForgets DEF DrainLoop, TypeOK, memory, history
<1>6. CASE /\ UNCHANGED <<deleteCh, deletes, toForget>>
           /\ forgotten' = forgotten
  BY <1>6 DEF Pending
<1>7. CASE LoadOne \/ StartReceiver \/ StartApi \/ StartFails
  BY <1>6, <1>7 DEF LoadOne, StartReceiver, StartApi, StartFails, Cancel,
      storeVars, queues, gathered, memory, history
<1>8. CASE \E key \in Keys : Accept(key)
  BY <1>6, <1>8 DEF Accept, storeVars, queues, gathered, memory, history
<1>9. CASE \E g \in Workers : Take(g) \/ Process(g) \/ Exit(g)
  BY <1>6, <1>9 DEF Take, Process, Exit, storeVars, queues, gathered, memory, history
<1>10. CASE SweeperExits \/ Signal \/ ApiStopped \/ WorkersStopped
  BY <1>6, <1>10 DEF SweeperExits, Signal, Cancel, ApiStopped, WorkersStopped,
      storeVars, queues, gathered, memory, history
<1>11. CASE HttpStopped \/ CallsEnd \/ GrpcStopped \/ List
  BY <1>6, <1>11 DEF HttpStopped, CallsEnd, GrpcStopped, List, storeVars, queues, gathered,
      memory, history
<1>13. CASE EnqueueOne \/ CancelStore \/ StoreStopped
  BY <1>6, <1>13 DEF EnqueueOne, Enqueue, CancelStore, Cancel, StoreStopped, Close,
      storeVars, queues, gathered, memory, history
<1>12. CASE UNCHANGED vars
  BY <1>6, <1>12 DEF vars, storeVars, queues, gathered, memory, history
<1> QED
  BY <1>1, <1>2, <1>3, <1>4, <1>5, <1>7, <1>8, <1>9, <1>10, <1>11, <1>12, <1>13
  DEF Next, Shutdown

(* Only drainLoop takes anything out of the database.                      *)
LEMMA OnlyDrainDeletes == [Next]_vars => DrainLoop \/ db' = db
<1>1. StoreUntouched => db' = db
  BY StoreUnchanged DEF storeVars, disk
<1>2. Boot \/ StartFails \/ Signal \/ CancelStore \/ StoreStopped => db' = db
  BY DEF Boot, LoadAll, StartFails, Signal, CancelStore, Cancel, StoreStopped, Close,
      storeVars, disk
<1>3. Forget \/ EnqueueOne \/ Leave \/ Crash => db' = db
  BY DEF Forget, DeleteByName, EnqueueOne, Enqueue, Leave, Crash, Gone, Kill, disk
<1> QED
  BY StepCases, <1>1, <1>2, <1>3 DEF StoreTouched

(* A stored name leaves the database only if this process purged it, with  *)
(* crashes, restarts, failed commits and a shutdown at any moment.         *)
(* (pebble.go:122-136, 141-168, main.go:246-251)                           *)
THEOREM ForgetCorrect == Spec => OnlyForgottenLeave
<1>1. Init => OnlyForgotten
  BY SetOfEmpty DEF Init, StoreInit, OnlyForgotten, Pending
<1>2. TypeOK /\ OnlyForgotten /\ [Next]_vars
        => [\A n \in DbNames \ DbNames' : n \in forgotten]_vars
  <2> SUFFICES ASSUME TypeOK, OnlyForgotten, [Next]_vars
               PROVE  \A n \in DbNames \ DbNames' : n \in forgotten
    OBVIOUS
  <2>1. CASE DrainLoop
    BY <2>1, DrainForgets DEF DrainLoop, TypeOK, OnlyForgotten
  <2>2. CASE db' = db
    BY <2>2 DEF DbNames
  <2> QED
    BY <2>1, <2>2, OnlyDrainDeletes
<1> QED
  BY <1>1, <1>2, TypeCorrect, ForgottenStep, PTL DEF Spec, OnlyForgottenLeave

-----------------------------------------------------------------------------
(* What a process leaves behind when it ends.                              *)

AfterWorkers == {"stopReceiver", "stopGrpc", "list", "enqueue", "closeStore", "stopped"}
Handing == main \in {"enqueue", "closeStore", "stopped"}

(* Once the workers are gone nothing enters the dictionary; the entries are*)
(* enqueued before the persister is stopped, and drainLoop is gone before  *)
(* it is closed.                                                           *)
StoppingInv ==
    /\ main \in AfterWorkers => \A g \in Workers : worker[g] = Exited
    /\ main \in {"closeStore", "stopped"} => toEnqueue = {}
    /\ main = "stopped" => loop = "exited"

LEMMA StoppingStep == StoppingInv /\ [Next]_vars => StoppingInv'
<1> SUFFICES ASSUME StoppingInv, [Next]_vars PROVE StoppingInv'
  OBVIOUS
<1> USE DEF StoppingInv, AfterWorkers
<1>1. CASE UNCHANGED <<main, worker, toEnqueue, loop>>
  BY <1>1
<1>2. CASE Boot \/ Leave \/ Crash
  BY <1>2 DEF Boot, Leave, Crash, Gone
<1>3. CASE LoadOne \/ Purge \/ Forget \/ SweeperExits
  BY <1>1, <1>3 DEF LoadOne, Purge, Forget, DeleteByName, SweeperExits, memory, storeVars
<1>4. CASE StartReceiver \/ StartApi \/ StartFails \/ Signal
  BY <1>4 DEF StartReceiver, StartApi, StartFails, Signal
<1>5. CASE \E key \in Keys : Accept(key)
  BY <1>1, <1>5 DEF Accept, storeVars
<1>6. ASSUME NEW g \in Workers, Take(g) \/ Process(g) \/ Exit(g) PROVE StoppingInv'
  <2>1. UNCHANGED <<main, toEnqueue, loop>>
    BY <1>6 DEF Take, Process, Exit, storeVars
  <2>2. worker[g] # Exited
    BY <1>6 DEF Take, Process, Exit, Idle, Exited
  <2> QED
    BY <2>1, <2>2
<1>7. CASE DrainLoop
  BY <1>7 DEF DrainLoop, Drain, Up, memory, TakeEntry, TakeDelete, TickWrite, TickDelete,
      LastWrite, LastDelete
<1>8. CASE ApiStopped \/ WorkersStopped \/ HttpStopped \/ CallsEnd \/ GrpcStopped
  BY <1>8 DEF ApiStopped, WorkersStopped, HttpStopped, CallsEnd, GrpcStopped, memory
<1>9. CASE List \/ EnqueueOne
  BY <1>9 DEF List, EnqueueOne
<1>10. CASE CancelStore \/ StoreStopped
  BY <1>10 DEF CancelStore, StoreStopped, Close, storeVars, memory
<1>11. CASE UNCHANGED vars
  BY <1>1, <1>11 DEF vars, storeVars, memory
<1> QED
  BY <1>2, <1>3, <1>4, <1>5, <1>6, <1>7, <1>8, <1>9, <1>10, <1>11 DEF Next, Shutdown

(* What drainLoop has gathered and will write.                             *)
Writing == IF loop \in {"select", "tickDeletes"} THEN NamesOf(ToSet(batch)) ELSE {}
Handed == NamesOf(toEnqueue) \union dropped \union NamesOf(ToSet(batchCh)) \union Writing
HandedInv == Handing => Known \subseteq DbNames \union forgotten \union lost \union Handed

LEMMA NamesOfUnion == \A a, b : NamesOf(a \union b) = NamesOf(a) \union NamesOf(b)
  BY DEF NamesOf

(* drainLoop loses no entry on the way from its channel to the database.   *)
LEMMA DrainWrites ==
    ASSUME StoreTypeOK, Drain
    PROVE  /\ lost \subseteq lost'
           /\ NamesOf(ToSet(batchCh)) \union Writing
                \subseteq NamesOf(ToSet(batchCh')) \union Writing' \union DbNames' \union lost'
<1> USE DEF Writing
<1>1. CASE TakeEntry
  <2>1. /\ batchCh' = Tail(batchCh) /\ Head(batchCh) \in Keys
        /\ ToSet(batchCh) = ToSet(Tail(batchCh)) \union {Head(batchCh)}
    BY <1>1, SetOfTail DEF TakeEntry, StoreTypeOK
  <2>2. ToSet(Append(batch, Head(batchCh))) = ToSet(batch) \union {Head(batchCh)}
    BY <2>1, SetOfAppend DEF StoreTypeOK
  <2>3. /\ NamesOf(ToSet(batchCh)) = NamesOf(ToSet(batchCh')) \union NamesOf({Head(batchCh)})
        /\ NamesOf(ToSet(Append(batch, Head(batchCh))))
             = NamesOf(ToSet(batch)) \union NamesOf({Head(batchCh)})
    BY <2>1, <2>2, NamesOfUnion
  <2>4. loop = "select" /\ loop' = "select"
    BY <1>1 DEF TakeEntry
  <2>5. CASE WriteBatch(Append(batch, Head(batchCh)))
    BY <2>3, <2>4, <2>5, WritesAdd
  <2>6. CASE batch' = Append(batch, Head(batchCh)) /\ UNCHANGED disk
    BY <2>3, <2>4, <2>6 DEF disk
  <2> QED
    BY <1>1, <2>5, <2>6 DEF TakeEntry
<1>2. CASE TakeDelete
  <2>1. UNCHANGED <<batchCh, batch, loop>>
    BY <1>2 DEF TakeDelete
  <2>2. lost \subseteq lost'
    BY <1>2, DeletesGone DEF TakeDelete, disk
  <2> QED
    BY <2>1, <2>2
<1>3. CASE TickWrite \/ LastWrite
  <2>1. batchCh' = batchCh /\ WriteBatch(batch)
    BY <1>3 DEF TickWrite, LastWrite, queues
  <2> QED
    BY <2>1, WritesAdd
<1>4. CASE TickDelete \/ LastDelete
  <2>1. /\ batchCh' = batchCh /\ batch' = batch
        /\ loop \in {"tickDeletes", "lastDeletes"}
        /\ loop = "tickDeletes" => loop' = "select"
    BY <1>4 DEF TickDelete, LastDelete, queues, gathered
  <2>2. lost \subseteq lost'
    BY <1>4, DeletesGone DEF TickDelete, LastDelete
  <2> QED
    BY <2>1, <2>2
<1> QED
  BY <1>1, <1>2, <1>3, <1>4 DEF Drain

LEMMA HandedStep ==
    TypeOK /\ OnlyForgotten /\ StoppingInv /\ HandedInv /\ [Next]_vars => HandedInv'
<1> SUFFICES ASSUME TypeOK, OnlyForgotten, StoppingInv, HandedInv, [Next]_vars, Handing'
             PROVE  Known' \subseteq DbNames' \union forgotten' \union lost' \union Handed'
  BY DEF HandedInv
<1> USE DEF HandedInv
<1>1. CASE /\ UNCHANGED <<db, lost, batchCh, batch, loop, toEnqueue, dropped>>
           /\ Handing /\ Known' \subseteq Known /\ forgotten \subseteq forgotten'
  BY <1>1 DEF DbNames, Handed, Writing
<1>2. CASE Boot \/ LoadOne \/ StartReceiver \/ StartApi \/ StartFails \/ Signal
  BY <1>2 DEF Boot, LoadOne, StartReceiver, StartApi, StartFails, Signal, Handing
<1>3. CASE Leave \/ Crash
  BY <1>3 DEF Leave, Crash, Gone, Handing
<1>4. CASE \E key \in Keys : Accept(key)
  BY <1>1, <1>4 DEF Accept, storeVars, disk, queues, gathered, history, Handing, Known
<1>5. ASSUME NEW g \in Workers, Take(g) \/ Process(g) \/ Exit(g)
      PROVE  Known' \subseteq DbNames' \union forgotten' \union lost' \union Handed'
  <2>1. main' = main
    BY <1>5 DEF Take, Process, Exit
  <2>2. worker[g] = Exited
    BY <2>1 DEF StoppingInv, AfterWorkers, Handing
  <2> QED
    BY <1>5, <2>2 DEF Take, Process, Exit, Idle, Exited
<1>6. CASE Purge
  <2>1. PICK gone \in SUBSET Known : /\ dict' = [n \in Known \ gone |-> dict[n]]
                                    /\ forgotten' = forgotten \union gone
    BY <1>6 DEF Purge
  <2> QED
    BY <1>1, <1>6, <2>1 DEF Purge, storeVars, disk, queues, gathered, Handing, Known
<1>7. CASE Forget
  BY <1>1, <1>7 DEF Forget, DeleteByName, disk, gathered, Handing, Known
<1>8. CASE SweeperExits
  BY <1>1, <1>8 DEF SweeperExits, storeVars, disk, queues, gathered, memory, history,
      Handing, Known
<1>9. CASE DrainLoop
  <2>1. Drain /\ Handing /\ UNCHANGED <<Known, toEnqueue, dropped, forgotten>>
    BY <1>9 DEF DrainLoop, memory, history, Known, Handing
  <2>2. DbNames \subseteq DbNames' \union forgotten
    BY <2>1, DrainForgets DEF TypeOK, OnlyForgotten
  <2> QED
    <3> DEFINE Chan == NamesOf(ToSet(batchCh))
               Chan1 == NamesOf(ToSet(batchCh'))
    <3>1. /\ lost \subseteq lost'
          /\ Chan \union Writing \subseteq Chan1 \union Writing' \union DbNames' \union lost'
      BY <2>1, DrainWrites DEF TypeOK
    <3>2. /\ Handed = NamesOf(toEnqueue) \union dropped \union Chan \union Writing
          /\ Handed' = NamesOf(toEnqueue) \union dropped \union Chan1 \union Writing'
      BY <2>1 DEF Handed
    <3> HIDE DEF Chan, Chan1
    <3>3. Known \subseteq DbNames \union forgotten \union lost \union Handed
      BY <2>1
    <3>4. Handed \subseteq Handed' \union DbNames' \union lost'
      BY <3>1, <3>2
    <3> QED
      BY <2>1, <2>2, <3>1, <3>3, <3>4
<1>10. CASE ApiStopped \/ WorkersStopped \/ HttpStopped \/ CallsEnd \/ GrpcStopped
  BY <1>10 DEF ApiStopped, WorkersStopped, HttpStopped, CallsEnd, GrpcStopped, Handing
<1>11. CASE List
  <2>1. toEnqueue' = {<<dict[n], n>> : n \in Known} /\ Known' = Known
    BY <1>11 DEF List, Known
  <2>2. ASSUME NEW n \in Known PROVE n \in NamesOf(toEnqueue')
    <3>1. <<dict[n], n>> \in toEnqueue' /\ KeyName(<<dict[n], n>>) = n
      BY <2>1 DEF KeyName
    <3> QED
      BY <3>1 DEF NamesOf
  <2> QED
    BY <2>1, <2>2 DEF Handed
<1>12. CASE EnqueueOne
  <2>1. PICK key \in toEnqueue :
           /\ Enqueue(key) /\ toEnqueue' = toEnqueue \ {key}
           /\ dropped' = IF EntryRoom THEN dropped ELSE dropped \union {KeyName(key)}
    BY <1>12 DEF EnqueueOne
  <2>2. toEnqueue = toEnqueue' \union {key} /\ key \in Keys
    BY <2>1 DEF TypeOK, MemoryTypeOK
  <2>3. NamesOf(toEnqueue) = NamesOf(toEnqueue') \union {KeyName(key)}
    BY <2>2, NamesOfUnion DEF NamesOf
  <2>4. CASE EntryRoom
    <3>1. ToSet(batchCh') = ToSet(batchCh) \union {key}
      BY <2>1, <2>2, <2>4, SetOfAppend DEF Enqueue, TypeOK, StoreTypeOK
    <3>2. NamesOf(ToSet(batchCh')) = NamesOf(ToSet(batchCh)) \union {KeyName(key)}
      BY <3>1, NamesOfUnion DEF NamesOf
    <3> QED
      BY <1>12, <2>1, <2>3, <2>4, <3>2
      DEF EnqueueOne, Enqueue, disk, gathered, Known, DbNames, Handing, Handed, Writing
  <2>5. CASE ~EntryRoom
    BY <1>12, <2>1, <2>3, <2>5
    DEF EnqueueOne, Enqueue, disk, gathered, Known, DbNames, Handing, Handed, Writing
  <2> QED
    BY <2>4, <2>5
<1>13. CASE CancelStore \/ StoreStopped
  BY <1>1, <1>13 DEF CancelStore, Cancel, StoreStopped, Close, storeVars, disk, queues,
      gathered, memory, history, Handing, Known
<1>14. CASE UNCHANGED vars
  BY <1>1, <1>14 DEF vars, storeVars, disk, queues, gathered, memory, history, Handing, Known
<1> QED
  BY <1>2, <1>3, <1>4, <1>5, <1>6, <1>7, <1>8, <1>9, <1>10, <1>11, <1>12, <1>13, <1>14
  DEF Next, Shutdown

(* Every name in the dictionary of a process that ends is stored, or its   *)
(* entry was turned away by a full channel, left in it, not written because*)
(* the disk failed, or deleted again after an earlier purge.               *)
(* (pebble.go:53-69, 105-139, 191-193, main.go:171-181, 265-267)           *)
THEOREM UnsavedCorrect == Spec => []UnsavedIsExplained
<1>1. Init => OnlyForgotten /\ StoppingInv /\ HandedInv
  BY SetOfEmpty DEF Init, StoreInit, OnlyForgotten, Pending, StoppingInv, AfterWorkers,
      HandedInv, Handing
<1>2. TypeOK /\ OnlyForgotten /\ StoppingInv /\ HandedInv /\ [Next]_vars
        => OnlyForgotten' /\ StoppingInv' /\ HandedInv'
  BY ForgottenStep, StoppingStep, HandedStep
<1>3. StoppingInv /\ HandedInv => UnsavedIsExplained
  <2> SUFFICES ASSUME StoppingInv, HandedInv, main = "stopped"
               PROVE  Known \ DbNames \subseteq dropped \union NamesOf(ToSet(batchCh))
                                                  \union lost \union forgotten
    BY DEF UnsavedIsExplained
  <2>1. NamesOf(toEnqueue) = {} /\ Writing = {}
    BY DEF StoppingInv, NamesOf, Writing
  <2> QED
    BY <2>1 DEF HandedInv, Handing, Handed
<1> QED
  BY <1>1, <1>2, <1>3, TypeCorrect, PTL DEF Spec

-----------------------------------------------------------------------------
(* What a ready answer means.                                              *)

Before == main \in {"load", "startApi", "serve", "stopApi"}

(* While the API answers both receivers take requests, the load is over and*)
(* nothing is being written.                                               *)
ServingInv ==
    /\ main \in {"startApi", "serve"} => accepting /\ grpc = "on"
    /\ answering => main \in {"serve", "stopApi"} /\ accepting /\ grpc = "on"
    /\ main \in {"startApi", "serve", "stopApi"} => toLoad = {}
    /\ Before => batchCh = << >> /\ batch = << >>

LEMMA ServingStep == ServingInv /\ [Next]_vars => ServingInv'
<1> SUFFICES ASSUME ServingInv, [Next]_vars PROVE ServingInv'
  OBVIOUS
<1> USE DEF ServingInv, Before
<1>1. CASE Boot
  BY <1>1 DEF Boot, Fresh, Launch
<1>2. CASE Leave \/ Crash
  BY <1>2 DEF Leave, Crash, Gone, Fresh, Kill
<1>3. CASE LoadOne
  BY <1>3 DEF LoadOne, goroutines, served, receiver, storeVars, queues, gathered
<1>4. CASE StartReceiver \/ StartApi
  BY <1>4 DEF StartReceiver, StartApi, receiver, memory, storeVars, queues, gathered
<1>5. CASE StartFails
  BY <1>5 DEF StartFails, Cancel, memory, served, queues, gathered
<1>6. CASE Signal
  BY <1>6 DEF Signal, Cancel, memory, served, receiver, queues, gathered
<1>7. CASE ApiStopped
  BY <1>7 DEF ApiStopped
<1>8. CASE WorkersStopped \/ HttpStopped \/ CallsEnd \/ GrpcStopped
  BY <1>8 DEF WorkersStopped, HttpStopped, CallsEnd, GrpcStopped, goroutines, served
<1>9. CASE List \/ EnqueueOne \/ CancelStore \/ StoreStopped
  BY <1>9 DEF List, EnqueueOne, CancelStore, StoreStopped, goroutines, served
<1>10. CASE DrainLoop
  <2>1. Drain /\ UNCHANGED <<main, accepting, grpc, answering, toLoad>>
    BY <1>10 DEF DrainLoop, goroutines, served, receiver, memory
  <2>2. CASE Before
    <3>1. batchCh = << >> /\ batch = << >>
      BY <2>2
    <3>2. UNCHANGED <<batchCh, batch>>
      BY <2>1, <3>1 DEF Drain, TakeEntry, TakeDelete, TickWrite, TickDelete, LastWrite,
          LastDelete, queues, gathered
    <3> QED
      BY <2>1, <3>2
  <2>3. CASE ~Before
    BY <2>1, <2>3
  <2> QED
    BY <2>2, <2>3
<1>11. CASE UNCHANGED <<main, accepting, grpc, answering, toLoad, batchCh, batch>>
  BY <1>11
<1>12. CASE Purge \/ Forget \/ SweeperExits
  BY <1>11, <1>12 DEF Purge, Forget, DeleteByName, SweeperExits, goroutines, served,
      receiver, memory, storeVars, queues, gathered
<1>13. CASE \E key \in Keys : Accept(key)
  BY <1>11, <1>13 DEF Accept, goroutines, served, receiver, storeVars, queues, gathered
<1>14. CASE \E g \in Workers : Take(g) \/ Process(g) \/ Exit(g)
  BY <1>11, <1>14 DEF Take, Process, Exit, goroutines, served, receiver, storeVars, queues,
      gathered
<1>15. CASE UNCHANGED vars
  BY <1>11, <1>15 DEF vars, goroutines, served, receiver, memory, storeVars, queues, gathered
<1> QED
  BY <1>1, <1>2, <1>3, <1>4, <1>5, <1>6, <1>7, <1>8, <1>9, <1>10, <1>12, <1>13, <1>14, <1>15
  DEF Next, Shutdown

(* An upsert keeps every name and may add its own. (dictionary.go:60-111)  *)
LEMMA UpsertKeeps ==
    ASSUME NEW key
    PROVE  Known \subseteq DOMAIN Upserted(key)
  BY DEF Upserted, Known

(* Stored names still to be loaded.                                        *)
Loading == NamesOf(toLoad)

(* What drainLoop has gathered and will delete.                            *)
Due == IF loop = "exited" THEN {} ELSE ToSet(deletes)
Leaving == toForget \union ToSet(deleteCh) \union Due

LoadedInv ==
    Before => DbNames \ Known
                \subseteq Loading \union refused \union lost \union Leaving \union skipped

(* With nothing to write, drainLoop only takes out of the database, and    *)
(* what it was to delete is out of it, or it still has it, or it failed.   *)
LEMMA DrainBalances ==
    ASSUME StoreTypeOK, Drain, batchCh = << >>, batch = << >>, toForget' = toForget
    PROVE  /\ DbNames' \subseteq DbNames /\ lost \subseteq lost'
           /\ Leaving \intersect DbNames' \subseteq Leaving' \union lost'
<1> USE DEF Leaving, Due
<1>1. CASE TakeEntry
  BY <1>1 DEF TakeEntry
<1>2. CASE TakeDelete
  <2>1. /\ deleteCh' = Tail(deleteCh) /\ Head(deleteCh) \in Names
        /\ ToSet(deleteCh) = ToSet(Tail(deleteCh)) \union {Head(deleteCh)}
    BY <1>2, SetOfTail DEF TakeDelete, StoreTypeOK
  <2>2. ToSet(Append(deletes, Head(deleteCh))) = ToSet(deletes) \union {Head(deleteCh)}
    BY <2>1, SetOfAppend DEF StoreTypeOK
  <2>3. UNCHANGED loop /\ loop = "select"
    BY <1>2 DEF TakeDelete
  <2>4. CASE ProcessDeletes(Append(deletes, Head(deleteCh)))
    <3>1. DbNames' \subseteq DbNames
      BY <2>4 DEF ProcessDeletes, DbNames, NamesOf
    <3> QED
      BY <2>1, <2>2, <2>4, <3>1, DeletesGone
  <2>5. CASE deletes' = Append(deletes, Head(deleteCh)) /\ UNCHANGED disk
    BY <2>1, <2>2, <2>3, <2>5 DEF disk, DbNames
  <2> QED
    BY <1>2, <2>4, <2>5 DEF TakeDelete
<1>3. CASE TickWrite \/ LastWrite
  <2>1. /\ UNCHANGED <<deleteCh, deletes>> /\ WriteBatch(<< >>)
        /\ loop = "select" /\ loop' # "exited"
    BY <1>3 DEF TickWrite, LastWrite, queues, gathered
  <2>2. db' = db /\ lost' = lost
    BY <2>1, SetOfEmpty DEF WriteBatch, NamesOf
  <2> QED
    BY <2>1, <2>2 DEF DbNames
<1>4. CASE TickDelete \/ LastDelete
  <2>1. deleteCh' = deleteCh /\ ProcessDeletes(deletes)
    BY <1>4 DEF TickDelete, LastDelete, queues
  <2>2. DbNames' \subseteq DbNames
    BY <2>1 DEF ProcessDeletes, DbNames, NamesOf
  <2> QED
    BY <2>1, <2>2, DeletesGone
<1> QED
  BY <1>1, <1>2, <1>3, <1>4 DEF Drain

LEMMA LoadedStep ==
    TypeOK /\ ServingInv /\ LoadedInv /\ [Next]_vars => LoadedInv'
<1> DEFINE Excused == Loading \union refused \union lost \union Leaving \union skipped
<1> SUFFICES ASSUME TypeOK, ServingInv, LoadedInv, [Next]_vars, Before'
             PROVE  DbNames' \ Known' \subseteq Excused'
  BY DEF LoadedInv
<1> USE DEF LoadedInv
<1>0. StoreTypeOK /\ MemoryTypeOK
  BY DEF TypeOK
<1>1. CASE Boot
  <2>1. PICK read \in SUBSET db : lost' = NamesOf(db \ read) /\ db' = db /\ toLoad' = read
    BY <1>1 DEF Boot, LoadAll
  <2> QED
    BY <2>1 DEF DbNames, Loading, NamesOf
<1>2. CASE LoadOne
  <2>1. PICK key \in toLoad : /\ toLoad' = toLoad \ {key} /\ dict' = Upserted(key)
                             /\ refused' = refused \union ({KeyName(key)} \ DOMAIN dict')
    BY <1>2 DEF LoadOne
  <2>2. Known \subseteq Known'
    BY <2>1, UpsertKeeps DEF Known
  <2>3. Loading \subseteq Loading' \union {KeyName(key)}
    BY <2>1 DEF Loading, NamesOf
  <2>4. UNCHANGED <<DbNames, Leaving, skipped, lost>> /\ Before
    BY <1>2 DEF LoadOne, storeVars, disk, queues, gathered, DbNames, Leaving, Due, Before
  <2> QED
    BY <2>1, <2>2, <2>3, <2>4 DEF Known
<1>3. CASE /\ UNCHANGED <<db, lost, deleteCh, deletes, loop, toForget, toLoad, skipped>>
           /\ Before /\ Known \subseteq Known' /\ refused \subseteq refused' \union Known'
  BY <1>3 DEF DbNames, Loading, Leaving, Due
<1>4. CASE StartReceiver \/ StartApi
  BY <1>3, <1>4 DEF StartReceiver, StartApi, storeVars, disk, queues, gathered, memory,
      history, Before, Known
<1>5. CASE StartFails \/ Signal
  BY <1>3, <1>5 DEF StartFails, Signal, Cancel, disk, queues, gathered, memory, history,
      Before, Known
<1>6. CASE \E key \in Keys : Accept(key)
  BY <1>3, <1>6 DEF Accept, storeVars, disk, queues, gathered, history, Before, Known
<1>7. ASSUME NEW g \in Workers, Take(g) \/ Process(g) \/ Exit(g)
      PROVE  DbNames' \ Known' \subseteq Excused'
  <2>1. CASE Take(g) \/ Exit(g)
    BY <1>3, <2>1 DEF Take, Exit, storeVars, disk, queues, gathered, history, Before, Known
  <2>2. CASE Process(g)
    <3>1. Known \subseteq Known' /\ refused' = refused \ Known'
      BY <2>2, UpsertKeeps DEF Process, Known
    <3> QED
      BY <1>3, <2>2, <3>1 DEF Process, storeVars, disk, queues, gathered, Before
  <2> QED
    BY <1>7, <2>1, <2>2
<1>8. CASE Purge
  <2>1. PICK gone \in SUBSET Known : /\ dict' = [n \in Known \ gone |-> dict[n]]
                                    /\ toForget' = gone
    BY <1>8 DEF Purge
  <2>2. Known' = Known \ gone /\ toForget = {} /\ Leaving' = gone \union Leaving
    BY <1>8, <2>1 DEF Purge, Known, Leaving, Due, storeVars, queues, gathered
  <2>3. UNCHANGED <<DbNames, Loading, skipped, lost, refused>> /\ Before
    BY <1>8 DEF Purge, storeVars, disk, DbNames, Loading, Before
  <2> QED
    BY <2>2, <2>3
<1>9. CASE Forget
  <2>1. PICK n \in toForget : /\ DeleteByName(n) /\ toForget' = toForget \ {n}
                             /\ skipped' = IF DeleteRoom THEN skipped ELSE skipped \union {n}
    BY <1>9 DEF Forget
  <2>2. ToSet(Append(deleteCh, n)) = ToSet(deleteCh) \union {n}
    BY <1>0, <2>1, SetOfAppend DEF StoreTypeOK, MemoryTypeOK
  <2>3. Leaving \union skipped \subseteq Leaving' \union skipped'
    <3>1. Due' = Due
      BY <2>1 DEF DeleteByName, gathered, Due
    <3>2. CASE DeleteRoom
      BY <2>1, <2>2, <3>1, <3>2 DEF DeleteByName, Leaving
    <3>3. CASE ~DeleteRoom
      BY <2>1, <3>1, <3>3 DEF DeleteByName, Leaving
    <3> QED
      BY <3>2, <3>3
  <2>4. UNCHANGED <<DbNames, Known, Loading, lost, refused>> /\ Before
    BY <1>9, <2>1 DEF Forget, DeleteByName, disk, DbNames, Known, Loading, Before
  <2> QED
    BY <2>3, <2>4
<1>10. CASE DrainLoop
  <2>1. Drain /\ Before /\ UNCHANGED <<Known, Loading, toForget, skipped, refused>>
    BY <1>10 DEF DrainLoop, memory, history, Known, Loading, Before
  <2>2. batchCh = << >> /\ batch = << >>
    BY <2>1 DEF ServingInv
  <2>3. /\ DbNames' \subseteq DbNames /\ lost \subseteq lost'
        /\ Leaving \intersect DbNames' \subseteq Leaving' \union lost'
    BY <1>0, <2>1, <2>2, DrainBalances
  <2> QED
    BY <2>1, <2>3
<1>11. CASE SweeperExits
  BY <1>3, <1>11 DEF SweeperExits, storeVars, disk, queues, gathered, memory, history,
      Before, Known
<1>12. CASE ApiStopped \/ WorkersStopped \/ HttpStopped \/ CallsEnd \/ GrpcStopped
  BY <1>12 DEF ApiStopped, WorkersStopped, HttpStopped, CallsEnd, GrpcStopped, Before
<1>13. CASE List \/ EnqueueOne \/ CancelStore \/ StoreStopped
  BY <1>13 DEF List, EnqueueOne, CancelStore, StoreStopped, Before
<1>14. CASE Leave \/ Crash
  BY <1>14 DEF Leave, Crash, Gone, Before
<1>15. CASE UNCHANGED vars
  BY <1>3, <1>15 DEF vars, storeVars, disk, queues, gathered, memory, history, Before, Known
<1> QED
  BY <1>1, <1>2, <1>4, <1>5, <1>6, <1>7, <1>8, <1>9, <1>10, <1>11, <1>12, <1>13, <1>14,
     <1>15
  DEF Next, Shutdown

(* A process that answers "ready" has both receivers taking requests and   *)
(* holds every stored name but those its budget turned away, those the disk*)
(* failed on and those it purged, which are on their way out, lost to a    *)
(* full channel or left to the next start by a shutdown. (main.go:151-161, *)
(* 187-231, 338-341, pebble.go:72-78, 90-97, 112-115, health.md:34)        *)
THEOREM ReadyCorrect == Spec => []ReadyIsTrue
<1>1. Init => ServingInv /\ LoadedInv
  BY DEF Init, StoreInit, ServingInv, LoadedInv, Before
<1>2. TypeOK /\ ServingInv /\ LoadedInv /\ [Next]_vars => ServingInv' /\ LoadedInv'
  BY ServingStep, LoadedStep
<1>3. ServingInv /\ LoadedInv => ReadyIsTrue
  <2> SUFFICES ASSUME ServingInv, LoadedInv, answering
               PROVE  accepting /\ grpc = "on" /\ Loaded
    BY DEF ReadyIsTrue
  <2>1. Before /\ toLoad = {} /\ accepting /\ grpc = "on"
    BY DEF ServingInv, Before
  <2>2. Loading = {}
    BY <2>1 DEF Loading, NamesOf
  <2>3. Leaving \subseteq InTransit \union Stranded
    BY DEF Leaving, Due, InTransit, Stranded
  <2> QED
    BY <2>1, <2>2, <2>3 DEF LoadedInv, Loaded
<1> QED
  BY <1>1, <1>2, <1>3, TypeCorrect, PTL DEF Spec
=============================================================================
