------------------------------ MODULE Persister ------------------------------
(***************************************************************************)
(* internal/storage/pebble.go: the goroutine between the dictionary and    *)
(* the Pebble database.  Callers offer entries and deletions to two        *)
(* bounded channels without waiting; drainLoop gathers them into a batch   *)
(* and a list of names, and applies each when it is full or on a tick.     *)
(*                                                                         *)
(* An entry is known by its storage key, the pair of its first signal type *)
(* and its name: what is stored under the key (times, types) is abstracted.*)
(* A commit is atomic and durable (Pebble syncs by default); it may fail,  *)
(* which drainLoop logs and forgets, and an entry may be unreadable, which *)
(* LoadAll skips.                                                          *)
(***************************************************************************)
EXTENDS Naturals, Sequences, FiniteSets, SequencesExt

CONSTANTS
    Names,
    Signals,        \* numbers, in the order Pebble sorts them
    BatchSize,      \* --persist-batch-size
    DiskMayFail     \* whether a commit or a read may fail

Keys == Signals \X Names
KeyName(key) == key[2]

ASSUME SignalsAssumption == Signals \subseteq Nat
ASSUME BatchSizeAssumption == BatchSize \in Nat \ {0}
ASSUME DiskAssumption == DiskMayFail \in BOOLEAN

VARIABLES
    db,         \* the keys in Pebble
    batchCh, deleteCh,
    batch, deletes, \* what drainLoop has gathered
    loop,       \* where drainLoop is; "down" when the process is
    cancelled,  \* its context
    lost        \* history: names this process failed to read, write or delete

disk == <<db, lost>>
queues == <<batchCh, deleteCh>>
gathered == <<batch, deletes>>
storeVars == <<disk, queues, gathered, loop, cancelled>>

NamesOf(keys) == {KeyName(key) : key \in keys}
DbNames == NamesOf(db)

(* Earlier processes, with budgets of their own, left any keys.            *)
StoreInit ==
    /\ db \in SUBSET Keys /\ lost = {}
    /\ batchCh = << >> /\ deleteCh = << >>
    /\ batch = << >> /\ deletes = << >>
    /\ loop = "down" /\ cancelled = FALSE

(* NewPersister and Start: the database is what the last process left.     *)
Launch ==
    /\ batchCh' = << >> /\ deleteCh' = << >>
    /\ batch' = << >> /\ deletes' = << >>
    /\ loop' = "select" /\ cancelled' = FALSE

(* LoadAll returns what it could read: it skips an entry that is unreadable*)
(* or does not unmarshal, and ends early when the iterator fails.          *)
LoadAll(read) ==
    /\ read \subseteq db
    /\ DiskMayFail \/ read = db
    /\ lost' = NamesOf(db \ read)
    /\ UNCHANGED db

-----------------------------------------------------------------------------
(* Callers.  A full channel loses the entry or the deletion.               *)

EntryRoom == Len(batchCh) < 2 * BatchSize
Enqueue(key) ==
    /\ batchCh' = IF EntryRoom THEN Append(batchCh, key) ELSE batchCh
    /\ UNCHANGED <<disk, deleteCh, gathered, loop, cancelled>>

DeleteRoom == Len(deleteCh) < BatchSize
DeleteByName(name) ==
    /\ deleteCh' = IF DeleteRoom THEN Append(deleteCh, name) ELSE deleteCh
    /\ UNCHANGED <<disk, batchCh, gathered, loop, cancelled>>

(* Stop: cancel, and when drainLoop is gone flush and close the database.  *)
Cancel_Lost == UNCHANGED storeVars
Cancel ==
    /\ cancelled' = TRUE
    /\ UNCHANGED <<disk, queues, gathered, loop>>

Close_NoWait == UNCHANGED storeVars
Close ==
    /\ loop = "exited"
    /\ UNCHANGED storeVars

-----------------------------------------------------------------------------
(* drainLoop.                                                              *)

WriteBatch(keys) ==
    \/ db' = db \union ToSet(keys) /\ UNCHANGED lost
    \/ DiskMayFail /\ lost' = lost \union NamesOf(ToSet(keys)) /\ UNCHANGED db

(* Every key of a doomed name goes, whatever its signal type.              *)
Doomed_BySignal(names) ==
    {key \in db : \E k \in db : KeyName(k) \in ToSet(names) /\ key[1] = k[1]}
Doomed(names) == {key \in db : KeyName(key) \in ToSet(names)}
ProcessDeletes(names) ==
    \/ db' = db \ Doomed(names) /\ UNCHANGED lost
    \/ DiskMayFail /\ lost' = lost \union ToSet(names) /\ UNCHANGED db

TakeEntry ==
    /\ loop = "select" /\ batchCh # << >>
    /\ batchCh' = Tail(batchCh)
    /\ LET taken == Append(batch, Head(batchCh))
       IN  IF Len(taken) >= BatchSize
           THEN WriteBatch(taken) /\ batch' = << >>
           ELSE batch' = taken /\ UNCHANGED disk
    /\ UNCHANGED <<deleteCh, deletes, loop, cancelled>>

TakeDelete ==
    /\ loop = "select" /\ deleteCh # << >>
    /\ deleteCh' = Tail(deleteCh)
    /\ LET taken == Append(deletes, Head(deleteCh))
       IN  IF Len(taken) >= BatchSize
           THEN ProcessDeletes(taken) /\ deletes' = << >>
           ELSE deletes' = taken /\ UNCHANGED disk
    /\ UNCHANGED <<batchCh, batch, loop, cancelled>>

(* The ticker: the batch first, then the deletions, in two commits.        *)
TickWrite ==
    /\ loop = "select"
    /\ WriteBatch(batch)
    /\ batch' = << >>
    /\ loop' = "tickDeletes"
    /\ UNCHANGED <<queues, deletes, cancelled>>

TickDelete_Keep ==
    /\ loop = "tickDeletes"
    /\ loop' = "select"
    /\ UNCHANGED <<disk, queues, gathered, cancelled>>
TickDelete ==
    /\ loop = "tickDeletes"
    /\ ProcessDeletes(deletes)
    /\ deletes' = << >>
    /\ loop' = "select"
    /\ UNCHANGED <<queues, batch, cancelled>>

(* ctx.Done(): what was gathered is applied, what is queued is not looked  *)
(* at.                                                                     *)
LastWrite ==
    /\ loop = "select" /\ cancelled
    /\ WriteBatch(batch)
    /\ loop' = "lastDeletes"
    /\ UNCHANGED <<queues, gathered, cancelled>>

LastDelete ==
    /\ loop = "lastDeletes"
    /\ ProcessDeletes(deletes)
    /\ loop' = "exited"
    /\ UNCHANGED <<queues, gathered, cancelled>>

Drain ==
    \/ TakeEntry \/ TakeDelete
    \/ TickWrite \/ TickDelete
    \/ LastWrite \/ LastDelete

(* The process is killed: only the database remains.                       *)
Kill ==
    /\ batchCh' = << >> /\ deleteCh' = << >>
    /\ batch' = << >> /\ deletes' = << >>
    /\ loop' = "down" /\ cancelled' = FALSE /\ lost' = {}
    /\ UNCHANGED db

StoreTypeOK ==
    /\ db \in SUBSET Keys
    /\ batchCh \in Seq(Keys) /\ Len(batchCh) <= 2 * BatchSize
    /\ deleteCh \in Seq(Names) /\ Len(deleteCh) <= BatchSize
    /\ batch \in Seq(Keys) /\ Len(batch) <= BatchSize
    /\ deletes \in Seq(Names) /\ Len(deletes) <= BatchSize
    /\ loop \in {"down", "select", "tickDeletes", "lastDeletes", "exited"}
    /\ cancelled \in BOOLEAN /\ lost \subseteq Names
=============================================================================
