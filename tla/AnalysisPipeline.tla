-------------------------- MODULE AnalysisPipeline --------------------------
(***************************************************************************)
(* internal/analysis/worker_pool.go over ring_buffer.go: request handlers  *)
(* write tasks, a fixed pool of goroutines takes them from the channel,    *)
(* and a cancelled context makes every goroutine leave its loop.           *)
(*                                                                         *)
(* What a worker does to the dictionary with a task is Dictionary's        *)
(* subject; here a task is one unit of work that ends, whether extraction  *)
(* succeeded or not (work() adds to processed in both cases).              *)
(***************************************************************************)
EXTENDS RingBuffer

CONSTANT Workers    \* the goroutines Start launches; the config allows none

ASSUME WorkersAssumption == IsFiniteSet(Workers)

VARIABLES
    cancelled,  \* ctx.Done() is closed
    loop,       \* where each goroutine is in work()
    holds,      \* the task it is processing
    processed,  \* Processed()
    stopped,    \* Stop() has returned
    done        \* history: the tasks whose processing ended

poolVars == <<cancelled, loop, holds, processed, stopped, done>>
vars == <<bufferVars, poolVars>>

Init ==
    /\ BufferInit
    /\ cancelled = FALSE
    /\ loop = [g \in Workers |-> "select"]
    /\ holds = [g \in Workers |-> NoTask]
    /\ processed = 0
    /\ stopped = FALSE
    /\ done = {}

-----------------------------------------------------------------------------

(* Handlers keep writing whatever the pool does: nothing tells them.       *)
Handle(w) == Write(w) /\ UNCHANGED poolVars

Take_Peek(g) ==
    /\ loop[g] = "select" /\ writeCh # << >>
    /\ holds' = [holds EXCEPT ![g] = Head(writeCh)]
    /\ loop' = [loop EXCEPT ![g] = "process"]
    /\ UNCHANGED <<bufferVars, cancelled, processed, stopped, done>>

(* The tasks case of the select.  It may be picked after a cancellation:   *)
(* when both cases are ready Go chooses either.                            *)
Take(g) ==
    /\ loop[g] = "select"
    /\ Receive
    /\ holds' = [holds EXCEPT ![g] = Head(writeCh)]
    /\ loop' = [loop EXCEPT ![g] = "process"]
    /\ UNCHANGED <<cancelled, processed, stopped, done>>

(* processTask returns and processed.Add(1).                               *)
Finish(g) ==
    /\ loop[g] = "process"
    /\ processed' = processed + 1
    /\ done' = done \union {holds[g]}
    /\ holds' = [holds EXCEPT ![g] = NoTask]
    /\ loop' = [loop EXCEPT ![g] = "select"]
    /\ UNCHANGED <<bufferVars, cancelled, stopped>>

Exit_WhenIdle(g) ==
    /\ loop[g] = "select" /\ (cancelled \/ writeCh = << >>)
    /\ loop' = [loop EXCEPT ![g] = "exited"]
    /\ UNCHANGED <<bufferVars, cancelled, holds, processed, stopped, done>>
Exit_Never(g) == loop[g] = "select" /\ FALSE /\ UNCHANGED vars

(* The ctx.Done() case, and wg.Done().                                     *)
Exit(g) ==
    /\ loop[g] = "select"
    /\ cancelled
    /\ loop' = [loop EXCEPT ![g] = "exited"]
    /\ UNCHANGED <<bufferVars, cancelled, holds, processed, stopped, done>>

(* Stop's wp.cancel(), or the cancellation of the context main passed in.  *)
Cancel ==
    /\ ~cancelled
    /\ cancelled' = TRUE
    /\ UNCHANGED <<bufferVars, loop, holds, processed, stopped, done>>

(* wg.Wait() lets Stop return.                                             *)
StopReturns ==
    /\ cancelled
    /\ ~stopped
    /\ \A g \in Workers : loop[g] = "exited"
    /\ stopped' = TRUE
    /\ UNCHANGED <<bufferVars, cancelled, loop, holds, processed, done>>

Next ==
    \/ \E w \in Writers : Handle(w)
    \/ \E g \in Workers : Take(g) \/ Finish(g) \/ Exit(g)
    \/ Cancel
    \/ StopReturns

(* A goroutine that can run is run (Finish: extraction is a finite loop).  *)
(* Go picks uniformly among the ready cases of a select, so a case that is *)
(* ready again and again is picked in the end: Take and Exit are strongly  *)
(* fair.  Nothing obliges a client to write or main to cancel.             *)
Fairness ==
    /\ \A w \in Writers :
        WF_vars(Handle(w) /\ InHand(w))
    /\ \A g \in Workers :
        WF_vars(Finish(g)) /\ SF_vars(Take(g)) /\ SF_vars(Exit(g))
    /\ WF_vars(StopReturns)

Spec == Init /\ [][Next]_vars /\ Fairness

-----------------------------------------------------------------------------

TypeOK ==
    /\ BufferTypeOK
    /\ cancelled \in BOOLEAN /\ stopped \in BOOLEAN
    /\ loop \in [Workers -> {"select", "process", "exited"}]
    /\ holds \in [Workers -> Tasks \union {NoTask}]
    /\ processed \in Nat
    /\ done \in SUBSET Tasks

CarriedBy(t) ==
    {w \in Writers : InHand(w) /\ task[w] = t}
        \union {g \in Workers : loop[g] = "process" /\ holds[g] = t}
QueuedAt(t) == {i \in 1 .. Len(writeCh) : writeCh[i] = t}

(* A task is never duplicated and never vanishes silently: from its stamp  *)
(* on it is in exactly one place -- a handler's hands, one slot of the     *)
(* channel, one worker, the finished work or the losses -- whatever        *)
(* handlers, workers and a cancellation interleave.                        *)
(* (ring_buffer.go:62-65, worker_pool.go:61-75)                            *)
EachTaskInOnePlace ==
    \A t \in 1 .. clock :
        Cardinality(CarriedBy(t)) + Cardinality(QueuedAt(t))
            + (IF t \in done THEN 1 ELSE 0) + (IF t \in lost THEN 1 ELSE 0) = 1

(* A task that got into the channel is analysed, unless the pool is told   *)
(* to stop first.  (worker_pool.go:61-75)                                  *)
SentIsProcessed ==
    \A t \in 1 .. MaxTasks : (QueuedAt(t) # {}) ~> (t \in done \/ cancelled)

(* A cancelled pool stops although handlers may keep the channel full and  *)
(* the select may prefer tasks.  (worker_pool.go:64-66, 50-55)             *)
CancelledStops == cancelled ~> stopped
=============================================================================
