----------------------------- MODULE RingBuffer -----------------------------
(***************************************************************************)
(* internal/analysis/ring_buffer.go: the hand-over between the forwarding  *)
(* path (receiver handlers, here Writers) and the analysis workers.        *)
(*                                                                         *)
(* Write keeps two stores: a ring, written under the mutex, and a Go       *)
(* channel of the same capacity, written after the mutex is released with  *)
(* a select that gives up when the channel is full.  Only the channel is   *)
(* ever read.  A Write is therefore three steps (Store, Tally, Send), and  *)
(* a handler stamps the task with time.Now() before them (Stamp): tasks    *)
(* are numbered by that timestamp, so m < n says "m is older than n".      *)
(***************************************************************************)
EXTENDS Naturals, Sequences, FiniteSets

CONSTANTS
    Capacity,   \* --ring-buffer-size, the size of the ring and of the channel
    Writers,    \* the receiver handlers that may be running
    MaxTasks    \* bound of the model: tasks stamped in a behaviour

ASSUME CapacityAssumption == Capacity \in Nat \ {0}
ASSUME WritersAssumption == IsFiniteSet(Writers)
ASSUME MaxTasksAssumption == MaxTasks \in Nat

NoTask == 0
Tasks == 1 .. MaxTasks

VARIABLES
    buf,        \* the ring's slots
    head, tail, \* its indices
    full,       \* its flag
    count,      \* Count(): writes past the mutex
    dropped,    \* Dropped(): what the drop metric is computed from
    writeCh,    \* the channel, oldest first
    pc,         \* where each writer is in enqueueAnalysis and Write
    task,       \* the task it carries
    clock,      \* the last timestamp given out
    stored,     \* history: stores into the ring
    sent,       \* history: sends into the channel
    lost        \* history: tasks the select gave up on

ringVars == <<buf, head, tail, full, dropped>>
history == <<stored, sent, lost>>
bufferVars == <<ringVars, count, writeCh, pc, task, clock, history>>

Slots == 0 .. Capacity - 1
Succ(i) == (i + 1) % Capacity

BufferInit ==
    /\ buf = [s \in Slots |-> NoTask]
    /\ head = 0 /\ tail = 0 /\ full = FALSE
    /\ count = 0 /\ dropped = 0
    /\ writeCh = << >>
    /\ pc = [w \in Writers |-> "idle"]
    /\ task = [w \in Writers |-> NoTask]
    /\ clock = 0
    /\ stored = 0 /\ sent = 0 /\ lost = {}

-----------------------------------------------------------------------------

(* enqueueAnalysis builds the task with time.Now() and calls Write.        *)
Stamp(w) ==
    /\ pc[w] = "idle"
    /\ clock < MaxTasks
    /\ clock' = clock + 1
    /\ task' = [task EXCEPT ![w] = clock + 1]
    /\ pc' = [pc EXCEPT ![w] = "store"]
    /\ UNCHANGED <<ringVars, count, writeCh, history>>

(* Lines 49-52: a full ring counts its oldest task as dropped and skips it.*)
Evict_InPlace == (IF full THEN dropped' = dropped + 1 ELSE UNCHANGED dropped) /\ UNCHANGED head
Evict ==
    IF full
    THEN dropped' = dropped + 1 /\ head' = Succ(head)
    ELSE UNCHANGED <<dropped, head>>

(* The part of Write under the mutex.  full is set and never cleared.      *)
Store(w) ==
    /\ pc[w] = "store"
    /\ Evict
    /\ buf' = [buf EXCEPT ![tail] = task[w]]
    /\ tail' = Succ(tail)
    /\ full' = (full \/ tail' = head')
    /\ stored' = stored + 1
    /\ pc' = [pc EXCEPT ![w] = "tally"]
    /\ UNCHANGED <<count, writeCh, task, clock, sent, lost>>

(* rb.count.Add(1), after the mutex is released.                           *)
Tally(w) ==
    /\ pc[w] = "tally"
    /\ count' = count + 1
    /\ pc' = [pc EXCEPT ![w] = "send"]
    /\ UNCHANGED <<ringVars, writeCh, task, clock, history>>

(* The channel's buffer, made with the ring's capacity.                    *)
HasRoom_Short == Len(writeCh) < Capacity - 1
HasRoom_Long == Len(writeCh) <= Capacity
HasRoom == Len(writeCh) < Capacity

(* The select of Write: the task joins the channel, or nobody ever sees it.*)
Send(w) ==
    /\ pc[w] = "send"
    /\ IF HasRoom
       THEN /\ writeCh' = Append(writeCh, task[w])
            /\ sent' = sent + 1
            /\ UNCHANGED lost
       ELSE /\ lost' = lost \union {task[w]}
            /\ UNCHANGED <<writeCh, sent>>
    /\ pc' = [pc EXCEPT ![w] = "idle"]
    /\ task' = [task EXCEPT ![w] = NoTask]
    /\ UNCHANGED <<ringVars, count, clock, stored>>

(* A receive from Channel(); WorkerPool says by whom and when.             *)
Receive ==
    /\ writeCh # << >>
    /\ writeCh' = Tail(writeCh)
    /\ UNCHANGED <<ringVars, count, pc, task, clock, history>>

Write(w) == Stamp(w) \/ Store(w) \/ Tally(w) \/ Send(w)

BufferNext == (\E w \in Writers : Write(w)) \/ Receive

BufferSpec == BufferInit /\ [][BufferNext]_bufferVars

-----------------------------------------------------------------------------

(* Len(): what the metrics publish as ring buffer size and pipeline lag.   *)
RingLen ==
    IF full THEN Capacity
    ELSE IF tail >= head THEN tail - head
    ELSE Capacity - head + tail

(* The tasks between head and tail, oldest first.                          *)
Contents == [i \in 1 .. RingLen |-> buf[(head + i - 1) % Capacity]]

(* The ring promises to evict the oldest, the channel to refuse the newest.*)
Ring == INSTANCE LossyQueue WITH
    Items <- Tasks, Limit <- Capacity, Evicts <- TRUE,
    queue <- Contents, discarded <- dropped
Delivery == INSTANCE LossyQueue WITH
    Items <- Tasks, Limit <- Capacity, Evicts <- FALSE,
    queue <- writeCh, discarded <- Cardinality(lost)

-----------------------------------------------------------------------------

InHand(w) == pc[w] # "idle"
Unsent == {w \in Writers : pc[w] \in {"tally", "send"}}

BufferTypeOK ==
    /\ buf \in [Slots -> Tasks \union {NoTask}]
    /\ head \in Slots /\ tail \in Slots /\ full \in BOOLEAN
    /\ count \in Nat /\ dropped \in Nat
    /\ writeCh \in Seq(Tasks)
    /\ pc \in [Writers -> {"idle", "store", "tally", "send"}]
    /\ task \in [Writers -> Tasks \union {NoTask}]
    /\ \A w \in Writers : InHand(w) => task[w] \in Tasks
    /\ clock \in 0 .. MaxTasks
    /\ stored \in Nat /\ sent \in Nat /\ lost \in SUBSET Tasks

(* Every task the workers will never see has been counted by then: the     *)
(* number of failed selects never exceeds Dropped(), although the counter  *)
(* is bumped for another store (the ring), in another step, under a lock   *)
(* the select does not hold.  (ring_buffer.go:49-52 against 62-65)         *)
LossesAreCounted == Cardinality(lost) <= dropped

(* The inductive form of LossesAreCounted.  The ring fills once and then   *)
(* evicts with every store; a select can only fail after Capacity sends;   *)
(* and each store is followed by one send, one loss or neither yet.        *)
RingFills ==
    IF full
    THEN head = tail /\ stored >= Capacity /\ dropped = stored - Capacity
    ELSE head = 0 /\ tail = stored /\ dropped = 0
StoresCoverOutcomes ==
    stored >= sent + Cardinality(lost) + Cardinality(Unsent)
LossAfterFill == lost # {} => sent >= Capacity
QueuedWasSent == Len(writeCh) <= sent
CountingInv == RingFills /\ StoresCoverOutcomes /\ LossAfterFill /\ QueuedWasSent

(* The ring half of Write is a bounded queue that evicts its oldest task   *)
(* and counts the evictions, as components.md promises; the index          *)
(* arithmetic and the full flag implement it.  (ring_buffer.go:47-58,80-90)*)
RingEvictsOldest == Ring!Spec

(* What the workers receive is a FIFO bounded queue that loses a task only *)
(* when it is full, and then the newest.  (ring_buffer.go:62-69)           *)
DeliveryRefusesNewest == Delivery!Spec
=============================================================================
