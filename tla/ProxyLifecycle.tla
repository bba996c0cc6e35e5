--------------------------- MODULE ProxyLifecycle ---------------------------
(***************************************************************************)
(* cmd/semconv-proxy/main.go, internal/lifecycle and internal/health: one  *)
(* process from boot to shutdown or crash and back, over a Persister, and  *)
(* what it answers to a readiness probe meanwhile.                         *)
(*                                                                         *)
(* run() starts drainLoop, loads the dictionary, starts the workers and    *)
(* then the components; on a signal it first cancels the context all of    *)
(* them share and then stops the components in reverse order, the last one *)
(* handing the dictionary to the persister.  The dictionary is reduced to  *)
(* the names it holds and the signal type each was first seen with (its    *)
(* storage key); the ring buffer to its channel.  Dictionary and           *)
(* AnalysisPipeline model what is abstracted here.                         *)
(***************************************************************************)
EXTENDS Persister

CONSTANTS
    Workers,
    QueueSize,  \* --ring-buffer-size
    Budgets,    \* what --global-budget may be, from process to process
    MaxTasks,   \* bound of the model: tasks accepted
    MaxBoots    \* bound of the model: processes started

ASSUME QueueSizeAssumption == QueueSize \in Nat \ {0}

VARIABLES
    main,       \* where run() is
    ctxDone,    \* main's context is cancelled
    accepting,  \* the receiver has handlers
    grpc,       \* its gRPC server: off, on, or held by a call while it stops
    answering,  \* the API listens (and its field ready is set)
    health,     \* the aggregator: component -> status
    sweeping,   \* the sweeper goroutine is there
    queue,      \* the channel of the ring buffer
    worker,     \* per worker: idle, exited, or the key it is to upsert
    dict,       \* name -> first signal type
    toLoad,     \* what LoadAll returned and is not upserted yet
    toEnqueue,  \* what List returned and is not enqueued yet
    toForget,   \* what PurgeExpired returned and is not passed on yet
    tasks,      \* bound
    boots, budget,  \* processes so far, and the budget of the present one
    signalled,  \* history: this process was asked to stop while serving
    forgotten,  \* history: names purged by this process
    skipped,    \* history: deletions a full channel turned away
    refused,    \* history: stored names the budget turned away at the start
    dropped     \* history: entries a full channel turned away

memory == <<queue, worker, dict, toLoad, toEnqueue, toForget>>
history == <<signalled, forgotten, skipped, refused, dropped>>
served == <<answering, health>>
receiver == <<accepting, grpc>>
process == <<boots, budget>>
goroutines == <<ctxDone, receiver, sweeping, served>>
vars == <<storeVars, main, goroutines, memory, tasks, process, history>>

Known == DOMAIN dict
Idle == << >>
Exited == <<"exited">>
Empty == [n \in {} |-> 0]

Components == {"dictionary", "receiver", "api", "storage"}
Registered == [c \in Components |-> "unknown"]
Update(c, status) == health' = [health EXCEPT ![c] = status]
IsReady == \A c \in Components : health[c] \notin {"unknown", "failed"}

(* What a process starts from and leaves behind.                           *)
FreshMemory ==
    /\ queue' = << >> /\ dict' = Empty
    /\ worker' = [g \in Workers |-> Idle]
    /\ toEnqueue' = {} /\ toForget' = {}
Fresh ==
    /\ FreshMemory
    /\ ctxDone' = FALSE /\ sweeping' = FALSE
    /\ accepting' = FALSE /\ grpc' = "off"
    /\ answering' = FALSE /\ health' = Registered
    /\ signalled' = FALSE
    /\ forgotten' = {} /\ skipped' = {} /\ refused' = {} /\ dropped' = {}

Init ==
    /\ StoreInit
    /\ main = "down" /\ ctxDone = FALSE /\ sweeping = FALSE
    /\ accepting = FALSE /\ grpc = "off"
    /\ answering = FALSE /\ health = Registered
    /\ queue = << >> /\ dict = Empty
    /\ worker = [g \in Workers |-> Idle]
    /\ toLoad = {} /\ toEnqueue = {} /\ toForget = {}
    /\ tasks = 0 /\ boots = 0 /\ budget \in Budgets
    /\ signalled = FALSE /\ forgotten = {} /\ skipped = {} /\ refused = {} /\ dropped = {}

(* Dictionary.Upsert, seen from outside: a new name meets the budget.      *)
Upserted(key) ==
    LET n == key[2] IN
    IF n \in Known \/ Cardinality(Known) >= budget THEN dict
    ELSE [m \in Known \union {n} |-> IF m = n THEN key[1] ELSE dict[m]]

-----------------------------------------------------------------------------
(* Boot: lines 139-231 of main.go.                                         *)

Boot ==
    /\ main = "down" /\ boots < MaxBoots
    /\ main' = "load"
    /\ Launch
    /\ \E read \in SUBSET db : LoadAll(read) /\ toLoad' = read
    /\ Fresh
    /\ boots' = boots + 1 /\ budget' \in Budgets
    /\ UNCHANGED tasks

(* One turn of the loop at line 155; Pebble's iterator is in key order.    *)
LoadOne ==
    /\ main = "load"
    /\ \E key \in toLoad :
        /\ \A other \in toLoad : key[1] <= other[1]
        /\ toLoad' = toLoad \ {key}
        /\ dict' = Upserted(key)
        /\ refused' = refused \union ({KeyName(key)} \ DOMAIN dict')
    /\ UNCHANGED <<storeVars, main, goroutines, queue, worker, toEnqueue, toForget,
                   tasks, process, signalled, forgotten, skipped, dropped>>

(* Lines 160-161 and the first start functions.                            *)
StartReceiver ==
    /\ main = "load" /\ toLoad = {}
    /\ main' = "startApi" /\ accepting' = TRUE /\ grpc' = "on"
    /\ health' = [c \in Components |-> IF c = "api" THEN "unknown" ELSE "ok"]
    /\ UNCHANGED <<storeVars, ctxDone, sweeping, answering, memory, tasks, process, history>>

StartApi ==
    /\ main = "startApi"
    /\ main' = "serve" /\ sweeping' = TRUE
    /\ answering' = TRUE /\ Update("api", "ok")
    /\ UNCHANGED <<storeVars, ctxDone, receiver, memory, tasks, process, history>>

(* Lines 226-231: cancel() and StopAll, which stops everything.  The HTTP  *)
(* half of the receiver may be serving when the gRPC port is taken.        *)
StartFails ==
    /\ \/ /\ main = "load" /\ toLoad = {}
          /\ accepting' \in BOOLEAN
       \/ /\ main = "startApi"
          /\ UNCHANGED accepting
    /\ main' = "stopApi"
    /\ ctxDone' = TRUE
    /\ Cancel
    /\ UNCHANGED <<grpc, sweeping, served, memory, tasks, process, history>>

-----------------------------------------------------------------------------
(* The receiver, the workers and the sweeper.                              *)

(* A handler passes its request on, even after the workers are gone.       *)
Accept(key) ==
    /\ accepting \/ grpc = "held"
    /\ tasks < MaxTasks
    /\ tasks' = tasks + 1
    /\ queue' = IF Len(queue) < QueueSize THEN Append(queue, key) ELSE queue
    /\ UNCHANGED <<storeVars, main, goroutines, worker, dict, toLoad,
                   toEnqueue, toForget, process, history>>

Up == main \notin {"down", "stopped"}

(* The workers run from line 166 on, before the components start.          *)
WorkersRun == Up /\ ~(main = "load" /\ toLoad # {})

Take(g) ==
    /\ WorkersRun /\ worker[g] = Idle /\ queue # << >>
    /\ queue' = Tail(queue)
    /\ worker' = [worker EXCEPT ![g] = Head(queue)]
    /\ UNCHANGED <<storeVars, main, goroutines, dict, toLoad, toEnqueue,
                   toForget, tasks, process, history>>

Process(g) ==
    /\ Up /\ worker[g] \in Signals \X Names
    /\ dict' = Upserted(worker[g])
    /\ worker' = [worker EXCEPT ![g] = Idle]
    /\ refused' = refused \ DOMAIN dict'
    /\ UNCHANGED <<storeVars, main, goroutines, queue, toLoad, toEnqueue, toForget,
                   tasks, process, signalled, forgotten, skipped, dropped>>

Exit(g) ==
    /\ WorkersRun /\ worker[g] = Idle /\ ctxDone
    /\ worker' = [worker EXCEPT ![g] = Exited]
    /\ UNCHANGED <<storeVars, main, goroutines, queue, dict, toLoad,
                   toEnqueue, toForget, tasks, process, history>>

(* A sweep purges some names; a cancellation does not interrupt it, and    *)
(* nothing waits for the sweeper.                                          *)
Purge ==
    /\ Up /\ sweeping
    /\ toForget = {}
    /\ \E gone \in SUBSET Known :
        /\ gone # {}
        /\ dict' = [n \in Known \ gone |-> dict[n]]
        /\ toForget' = gone
        /\ forgotten' = forgotten \union gone
    /\ UNCHANGED <<storeVars, main, goroutines, queue, worker, toLoad,
                   toEnqueue, tasks, process, signalled, skipped, refused, dropped>>

Forget ==
    /\ Up
    /\ \E n \in toForget :
        /\ DeleteByName(n)
        /\ toForget' = toForget \ {n}
        /\ skipped' = IF DeleteRoom THEN skipped ELSE skipped \union {n}
    /\ UNCHANGED <<main, goroutines, queue, worker, dict, toLoad, toEnqueue,
                   tasks, process, signalled, forgotten, refused, dropped>>

SweeperExits ==
    /\ Up /\ sweeping /\ ctxDone /\ toForget = {}
    /\ sweeping' = FALSE
    /\ UNCHANGED <<storeVars, main, ctxDone, receiver, served, memory, tasks, process, history>>

DrainLoop ==
    /\ Up
    /\ Drain
    /\ UNCHANGED <<main, goroutines, memory, tasks, process, history>>

-----------------------------------------------------------------------------
(* Shutdown: cancel() and StopAll, lines 265-267, components 3, 2, 1, 0.   *)

(* SIGINT or SIGTERM.                                                      *)
Signal ==
    /\ main = "serve"
    /\ main' = "stopApi"
    /\ ctxDone' = TRUE
    /\ Cancel
    /\ signalled' = TRUE
    /\ UNCHANGED <<receiver, sweeping, served, memory, tasks, process, forgotten, skipped,
                   refused, dropped>>

(* A degraded component counts as ready.                                   *)
ApiStopped_HealthOnly ==
    /\ main = "stopApi"
    /\ main' = "stopWorkers"
    /\ Update("api", "degraded") /\ UNCHANGED answering
    /\ UNCHANGED <<storeVars, ctxDone, receiver, sweeping, memory, tasks, process, history>>
ApiStopped ==
    /\ main = "stopApi"
    /\ main' = "stopWorkers"
    /\ Update("api", "degraded") /\ answering' = FALSE
    /\ UNCHANGED <<storeVars, ctxDone, receiver, sweeping, memory, tasks, process, history>>

WorkersStopped ==
    /\ main = "stopWorkers"
    /\ \A g \in Workers : worker[g] = Exited
    /\ main' = "stopReceiver"
    /\ UNCHANGED <<storeVars, goroutines, memory, tasks, process, history>>

(* Shutdown of the HTTP server gives its handlers five seconds: some may be*)
(* left that still pass their requests on.  The gRPC server takes calls    *)
(* until GracefulStop, which then waits for those under way.               *)
HttpStopped ==
    /\ main = "stopReceiver"
    /\ main' = "stopGrpc" /\ accepting' \in BOOLEAN
    /\ grpc' \in IF grpc = "on" THEN {"off", "held"} ELSE {"off"}
    /\ Update("receiver", "degraded")
    /\ UNCHANGED <<storeVars, ctxDone, sweeping, answering, memory, tasks, process, history>>

(* The last call ends: when, is up to its client and the backend.          *)
CallsEnd ==
    /\ main = "stopGrpc" /\ grpc = "held"
    /\ grpc' = "off"
    /\ UNCHANGED <<storeVars, main, ctxDone, accepting, sweeping, served, memory, tasks,
                   process, history>>

(* GracefulStop has no limit and does not know of StopAll's context.       *)
GrpcStopped ==
    /\ main = "stopGrpc" /\ grpc = "off"
    /\ main' = "list"
    /\ UNCHANGED <<storeVars, goroutines, memory, tasks, process, history>>

List ==
    /\ main = "list"
    /\ toEnqueue' = {<<dict[n], n>> : n \in Known}
    /\ main' = "enqueue"
    /\ UNCHANGED <<storeVars, goroutines, queue, worker, dict, toLoad,
                   toForget, tasks, process, history>>

EnqueueOne ==
    /\ main = "enqueue"
    /\ \E key \in toEnqueue :
        /\ Enqueue(key)
        /\ toEnqueue' = toEnqueue \ {key}
        /\ dropped' = IF EntryRoom THEN dropped ELSE dropped \union {KeyName(key)}
    /\ UNCHANGED <<main, goroutines, queue, worker, dict, toLoad, toForget,
                   tasks, process, signalled, forgotten, skipped, refused>>

CancelStore ==
    /\ main = "enqueue" /\ toEnqueue = {}
    /\ main' = "closeStore"
    /\ Cancel
    /\ UNCHANGED <<goroutines, memory, tasks, process, history>>

StoreStopped ==
    /\ main = "closeStore"
    /\ Close
    /\ main' = "stopped"
    /\ UNCHANGED <<goroutines, memory, tasks, process, history>>

Gone ==
    /\ Kill
    /\ Fresh
    /\ toLoad' = {} /\ main' = "down"
    /\ UNCHANGED <<tasks, process>>

(* run() returns.                                                          *)
Leave == main = "stopped" /\ Gone

(* The process is killed at any moment.                                    *)
Crash == Up /\ Gone

Shutdown ==
    \/ ApiStopped \/ WorkersStopped \/ HttpStopped \/ GrpcStopped
    \/ List \/ EnqueueOne \/ CancelStore \/ StoreStopped

Next ==
    \/ Boot \/ LoadOne \/ StartReceiver \/ StartApi \/ StartFails
    \/ \E key \in Keys : Accept(key)
    \/ CallsEnd
    \/ \E g \in Workers : Take(g) \/ Process(g) \/ Exit(g)
    \/ Purge \/ Forget \/ SweeperExits \/ DrainLoop
    \/ Signal \/ Shutdown \/ Leave \/ Crash

(* A started shutdown goes on, workers and the sweeper that can run do, and*)
(* drainLoop keeps turning.  Its ticker is always due again, so its other  *)
(* cases need the fairness of Go's select, which picks a case that is      *)
(* ready again and again in the end.  Nothing makes a gRPC call end.       *)
Fairness ==
    /\ WF_vars(Shutdown) /\ WF_vars(Forget) /\ WF_vars(DrainLoop)
    /\ SF_vars(DrainLoop /\ LastWrite) /\ SF_vars(DrainLoop /\ TakeDelete)
    /\ \A g \in Workers : WF_vars(Process(g) \/ Take(g) \/ Exit(g))

Spec == Init /\ [][Next]_vars
FairSpec == Spec /\ Fairness

-----------------------------------------------------------------------------

MemoryTypeOK ==
    /\ queue \in Seq(Keys) /\ Len(queue) <= QueueSize
    /\ worker \in [Workers -> {Idle, Exited} \union Keys]
    /\ Known \subseteq Names /\ dict \in [Known -> Signals]
    /\ toLoad \subseteq Keys /\ toEnqueue \subseteq Keys /\ toForget \subseteq Names
ServiceTypeOK ==
    /\ main \in {"down", "load", "startApi", "serve", "stopApi", "stopWorkers",
                 "stopReceiver", "stopGrpc", "list", "enqueue", "closeStore", "stopped"}
    /\ ctxDone \in BOOLEAN /\ accepting \in BOOLEAN /\ sweeping \in BOOLEAN
    /\ grpc \in {"off", "on", "held"}
    /\ answering \in BOOLEAN
    /\ health \in [Components -> {"unknown", "ok", "degraded", "failed"}]
TypeOK ==
    /\ StoreTypeOK /\ MemoryTypeOK /\ ServiceTypeOK
    /\ tasks \in Nat /\ boots \in Nat /\ budget \in Budgets
    /\ signalled \in BOOLEAN /\ forgotten \subseteq Names /\ skipped \subseteq Names
    /\ refused \subseteq Names /\ dropped \subseteq Names

(* Whenever and however the process was told to stop, and whatever its     *)
(* goroutines did meanwhile, a name its dictionary holds is in the database*)
(* when it ends, or one of four things happened to it: its entry found the *)
(* channel full, or is still in it because drainLoop had gone; its commit  *)
(* failed; or it had been purged before and the deletion came after the    *)
(* write.  (pebble.go:53-62, 64-69, 112-115, 191-193, main.go:171-181)     *)
UnsavedIsExplained ==
    main = "stopped" =>
        Known \ DbNames
            \subseteq dropped \union NamesOf(ToSet(batchCh)) \union lost \union forgotten

(* A name leaves the database only if this process purged it -- over       *)
(* crashes, restarts and shutdowns at any moment. (pebble.go:141-168)      *)
OnlyForgottenLeave ==
    [][\A n \in DbNames \ DbNames' : n \in forgotten]_vars

(* Purged names that drainLoop will still take out of the database.  Once  *)
(* its context is cancelled it may leave without another look at its queue,*)
(* so it is sure of what it has gathered only.                             *)
InTransit ==
    IF ~cancelled THEN toForget \union ToSet(deleteCh) \union ToSet(deletes)
    ELSE IF loop = "exited" THEN {}
    ELSE ToSet(deletes)

(* Those that may therefore come back at the next start.                   *)
Stranded == IF cancelled THEN toForget \union ToSet(deleteCh) ELSE {}

(* A probe that is answered "ready" finds both receivers taking requests   *)
(* and the dictionary loaded, while starting, serving and stopping.  A name*)
(* that is stored and not in the dictionary was turned away by the budget, *)
(* or could not be read, written or deleted, or was purged -- and then it  *)
(* is on its way out, or the full channel lost its deletion, or the        *)
(* shutdown has begun and may leave it to the next start.  (health.md:34,  *)
(* main.go:151-161, 187-231, 338-341, handlers.go:180, pebble.go:72-78,    *)
(* 90-97, 112-115)                                                         *)
Loaded ==
    DbNames \ Known
        \subseteq refused \union lost \union InTransit \union skipped \union Stranded
ReadyIsTrue == answering /\ IsReady => accepting /\ grpc = "on" /\ Loaded

(* A purged name is gone from the database in the end, if the process goes *)
(* on serving and the name is not observed again. (pebble.go:122-136)      *)
PurgeReachesStore ==
    \A n \in Names :
        (main = "serve" /\ n \in forgotten /\ n \in DbNames \ Known)
            ~> (n \notin DbNames \/ n \in Known \/ n \in skipped \/ n \in lost
                \/ main # "serve")

(* A signal ends the process, whatever is queued -- unless a gRPC call     *)
(* never ends, on which GracefulStop waits without a limit.                *)
(* (main.go:265-267, coordinator.go:44-54, otlp.go:90-100)                 *)
SignalStops ==
    (main = "stopApi") ~> (main \in {"stopped", "down"} \/ [](grpc = "held"))

(* kubernetes.md:214: on shutdown the proxy "drains the ring buffer and    *)
(* persists the dictionary before terminating".                            *)
GracefulShutdown ==
    main = "stopped" /\ signalled => queue = << >> /\ Known \subseteq DbNames
=============================================================================
