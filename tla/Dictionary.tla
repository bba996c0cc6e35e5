----------------------------- MODULE Dictionary -----------------------------
(***************************************************************************)
(* internal/dictionary: the sharded map of attributes, as the start of     *)
(* cmd/semconv-proxy/main.go fills it from the database and the analysis   *)
(* workers (Upsert) and the TTL sweeper (MarkStale, PurgeExpired) then     *)
(* change it together.                                                     *)
(*                                                                         *)
(* No lock spans an operation.  Upsert looks the name up under the shard's *)
(* read lock, compares the shared counter with the budget under no lock,   *)
(* stores under the write lock and adds to the counter afterwards; a sweep *)
(* locks one shard after the other.  Each of these is a step.              *)
(***************************************************************************)
EXTENDS Integers, FiniteSets, Sequences

CONSTANTS
    Names, Types, Signals,  \* what the extractor finds
    ShardCount, ShardOf,    \* --shard-count and the hash of a name
    Budget,                 \* --global-budget
    StaleTTL, PurgeTTL,     \* --ttl-stale, --ttl-purge
    Workers,                \* goroutines of the worker pool
    Stores,     \* what LoadAll may find: sequences of names with their entries
    Start,      \* the clock when the process starts
    Delay,      \* assumption: the age of a task's stamp when its work is done
    MaxTime,    \* bound of the model: the clock
    MaxUpserts  \* bound of the model: calls of Upsert

Shards == 0 .. ShardCount - 1

ASSUME FiniteAssumption == IsFiniteSet(Names) /\ IsFiniteSet(Workers)
ASSUME NonEmptyAssumption == Names # {} /\ Types # {}
ASSUME ShardAssumption == ShardCount \in Nat \ {0} /\ ShardOf \in [Names -> Shards]
ASSUME BudgetAssumption == Budget \in Nat \ {0}
ASSUME TimeAssumption ==
    /\ StaleTTL \in Nat /\ PurgeTTL \in Nat /\ Delay \in Nat
    /\ MaxTime \in Nat /\ Start \in 0 .. MaxTime
ASSUME UpsertsAssumption == MaxUpserts \in Nat

VARIABLES
    now,        \* the wall clock
    toLoad,     \* what the start has still to upsert of what LoadAll returned
    entries,    \* the union of the shards' maps: name -> entry
    totalCount, \* the counter behind Count()
    pc,         \* where each worker is in Upsert
    arg,        \* the entry it upserts
    exists,     \* what its lookup said
    change,     \* what its store said
    sweep,      \* where the sweeper is
    shard,      \* the shard it locks next
    sweepTime,  \* the tick it works for
    purged,     \* the names PurgeExpired has collected
    added, changed, removed,    \* the metrics counters
    begun,      \* history: Upserts begun
    uncounted,  \* history: stores of a new name that skip totalCount.Add
    newest,     \* history: the newest stamp stored per name, -1 for none
    restored,   \* history: names the start put into the dictionary
    asStored    \* history: names whose entry is as the database had it

workerVars == <<pc, arg, exists, change>>
sweepVars == <<sweep, shard, sweepTime, purged>>
metricVars == <<added, changed, removed>>
loadVars == <<toLoad, restored>>
history == <<begun, uncounted, newest, asStored>>
vars == <<now, entries, totalCount, workerVars, sweepVars, metricVars, loadVars,
          history>>

Times == 0 .. MaxTime
Statuses == {"active", "stale"}
Entry == [type: Types, signals: SUBSET Signals, first: Times, last: Times,
          status: Statuses]

StoredEntry == [name: Names, entry: Entry]

(* An earlier process stored them, so they were last seen before this one. *)
ASSUME StoresAssumption ==
    /\ Stores \subseteq Seq(StoredEntry)
    /\ \A db \in Stores : \A i \in DOMAIN db : db[i].entry.last <= Start

Known == DOMAIN entries

Busy(w) == pc[w] # "idle"

(* ToDictionaryEntries: one signal, both times from the task's stamp.      *)
Found(type, signal, stamp) ==
    [type |-> type, signals |-> {signal}, first |-> stamp, last |-> stamp,
     status |-> "active"]

NoArg == [name |-> CHOOSE n \in Names : TRUE, entry |-> CHOOSE e \in Entry : TRUE]

Init ==
    /\ now = Start
    /\ toLoad \in Stores /\ restored = 0 /\ asStored = {}
    /\ entries = [n \in {} |-> NoArg.entry]
    /\ totalCount = 0
    /\ pc = [w \in Workers |-> "idle"]
    /\ arg = [w \in Workers |-> NoArg]
    /\ exists = [w \in Workers |-> FALSE]
    /\ change = [w \in Workers |-> "none"]
    /\ sweep = "idle" /\ shard = 0 /\ sweepTime = 0 /\ purged = {}
    /\ added = 0 /\ changed = 0 /\ removed = 0
    /\ begun = 0 /\ uncounted = 0
    /\ newest = [n \in Names |-> -1]

-----------------------------------------------------------------------------
(* shard.upsert: an entry that is there keeps the rest of its fields.      *)
Merged_KeepLast(old, new) ==
    [old EXCEPT !.signals = @ \union new.signals, !.type = new.type, !.status = "active"]
Merged_KeepStatus(old, new) ==
    [old EXCEPT !.last = new.last, !.signals = @ \union new.signals, !.type = new.type]
Merged(old, new) ==
    [old EXCEPT !.last = new.last,
                !.signals = @ \union new.signals,
                !.type = IF new.type # "" THEN new.type ELSE @,
                !.status = "active"]

(* The maps of the shards once new is stored under n.                      *)
Upserted(n, new) ==
    [m \in Known \union {n} |->
       IF m # n THEN entries[m]
       ELSE IF n \in Known THEN Merged(entries[n], new)
       ELSE new]

(* Line 61: an unknown name meets the budget.                              *)
OverBudget_Later == totalCount > Budget
OverBudget == totalCount >= Budget

-----------------------------------------------------------------------------
(* run() upserts what LoadAll returned, in the order of the keys, before   *)
(* it starts workers and sweeper.  Nobody else runs, so Upsert is a step.  *)
(* No added metric is counted, and what Upsert returns is not looked at.   *)
(* A name stored under two keys ends with the time of the later key, which *)
(* may be the older one: the history starts from there.                    *)

LoadNew ==
    /\ toLoad # <<>>
    /\ LET stored == Head(toLoad)
       IN  /\ stored.name \notin Known /\ ~OverBudget
           /\ entries' = Upserted(stored.name, stored.entry)
           /\ newest' = [newest EXCEPT ![stored.name] = stored.entry.last]
           /\ asStored' = asStored \union {stored.name}
    /\ totalCount' = totalCount + 1
    /\ restored' = restored + 1
    /\ toLoad' = Tail(toLoad)
    /\ UNCHANGED <<now, workerVars, sweepVars, metricVars, begun, uncounted>>

LoadAgain ==
    /\ toLoad # <<>>
    /\ LET stored == Head(toLoad)
       IN  /\ stored.name \in Known
           /\ entries' = Upserted(stored.name, stored.entry)
           /\ newest' = [newest EXCEPT ![stored.name] = stored.entry.last]
           /\ asStored' = asStored \ {stored.name}
    /\ toLoad' = Tail(toLoad)
    /\ UNCHANGED <<now, totalCount, workerVars, sweepVars, metricVars, restored,
                   begun, uncounted>>

LoadRefused ==
    /\ toLoad # <<>>
    /\ Head(toLoad).name \notin Known /\ OverBudget
    /\ toLoad' = Tail(toLoad)
    /\ UNCHANGED <<now, entries, totalCount, workerVars, sweepVars, metricVars,
                   restored, history>>

Load == LoadNew \/ LoadAgain \/ LoadRefused

-----------------------------------------------------------------------------
(* Upsert, called by processTask for each attribute of a task.             *)

(* s.get(entry.Name) under the shard's read lock.                          *)
Lookup(w) ==
    /\ pc[w] = "idle" /\ toLoad = <<>>
    /\ begun < MaxUpserts
    /\ begun' = begun + 1
    /\ \E n \in Names, type \in Types, signal \in Signals, stamp \in Times :
        /\ Start <= stamp /\ stamp <= now /\ now - stamp <= Delay
        /\ arg' = [arg EXCEPT ![w] =
                     [name |-> n, entry |-> Found(type, signal, stamp)]]
        /\ exists' = [exists EXCEPT ![w] = n \in Known]
        /\ pc' = [pc EXCEPT ![w] = IF n \in Known THEN "merge" ELSE "admit"]
    /\ UNCHANGED <<now, entries, totalCount, change, sweepVars, metricVars, loadVars,
                   uncounted, newest, asStored>>

(* Upsert returns; the worker's locals are gone.                           *)
Return(w) ==
    /\ pc' = [pc EXCEPT ![w] = "idle"]
    /\ arg' = [arg EXCEPT ![w] = NoArg]
    /\ exists' = [exists EXCEPT ![w] = FALSE]
    /\ change' = [change EXCEPT ![w] = "none"]

Refuse(w) ==
    /\ pc[w] = "admit" /\ OverBudget
    /\ Return(w)
    /\ UNCHANGED <<now, entries, totalCount, sweepVars, metricVars, loadVars, history>>

Admit(w) ==
    /\ pc[w] = "admit" /\ ~OverBudget
    /\ pc' = [pc EXCEPT ![w] = "merge"]
    /\ UNCHANGED <<now, entries, totalCount, arg, exists, change, sweepVars,
                   metricVars, loadVars, history>>

(* Line 66: ChangeAdded from the store, and a miss in the worker's lookup. *)
Counts_AnyMiss(w) == ~exists[w]
Counts(w) == arg[w].name \notin Known /\ ~exists[w]

(* shard.upsert under the write lock.                                      *)
Merge(w) ==
    /\ pc[w] = "merge"
    /\ LET n == arg[w].name
           new == arg[w].entry
       IN  /\ entries' = Upserted(n, new)
           /\ change' = [change EXCEPT ![w] =
                            IF n \notin Known THEN "added"
                            ELSE IF entries[n].type # new.type THEN "type"
                            ELSE "none"]
           /\ pc' = [pc EXCEPT ![w] =
                            IF Counts(w) THEN "tally" ELSE "report"]
           /\ uncounted' = IF n \notin Known /\ exists[w] THEN uncounted + 1
                           ELSE uncounted
           /\ newest' = [newest EXCEPT ![n] = IF new.last > @ THEN new.last ELSE @]
           /\ asStored' = asStored \ {n}
    /\ UNCHANGED <<now, totalCount, arg, exists, sweepVars, metricVars, loadVars, begun>>

(* Lines 66-68: totalCount.Add(1), only for a name its own lookup missed.  *)
Tally(w) ==
    /\ pc[w] = "tally"
    /\ totalCount' = totalCount + 1
    /\ pc' = [pc EXCEPT ![w] = "report"]
    /\ UNCHANGED <<now, entries, arg, exists, change, sweepVars, metricVars, loadVars,
                   history>>

(* The worker's switch on what Upsert returned.                            *)
Report(w) ==
    /\ pc[w] = "report"
    /\ added' = IF change[w] = "added" THEN added + 1 ELSE added
    /\ changed' = IF change[w] = "type" THEN changed + 1 ELSE changed
    /\ Return(w)
    /\ UNCHANGED <<now, entries, totalCount, sweepVars, removed, loadVars, history>>

-----------------------------------------------------------------------------
(* startTTLSweeper: a tick carries the time every shard is swept for.      *)

StartSweep ==
    /\ sweep = "idle" /\ toLoad = <<>>
    /\ sweep' = "mark"
    /\ sweepTime' = now
    /\ UNCHANGED <<now, entries, totalCount, workerVars, shard, purged, metricVars,
                   loadVars, history>>

(* shard moves on; after the last one the sweeper goes to its next phase.  *)
NextShard_First(phase) == UNCHANGED shard /\ sweep' = phase
NextShard(phase) ==
    IF shard = ShardCount - 1
    THEN shard' = 0 /\ sweep' = phase
    ELSE shard' = shard + 1 /\ UNCHANGED sweep

Idle_SinceFirst(n, ttl) == sweepTime - entries[n].first > ttl
Idle(n, ttl) == sweepTime - entries[n].last > ttl

MarkStale ==
    /\ sweep = "mark"
    /\ entries' = [n \in Known |->
                     IF ShardOf[n] = shard /\ Idle(n, StaleTTL)
                     THEN [entries[n] EXCEPT !.status = "stale"]
                     ELSE entries[n]]
    /\ NextShard("purge")
    /\ UNCHANGED <<now, totalCount, workerVars, sweepTime, purged, metricVars, loadVars,
                   history>>

PurgeExpired ==
    /\ sweep = "purge"
    /\ LET expired == {n \in Known : ShardOf[n] = shard /\ Idle(n, PurgeTTL)}
       IN  /\ entries' = [n \in Known \ expired |-> entries[n]]
           /\ totalCount' = totalCount - Cardinality(expired)
           /\ purged' = purged \union expired
    /\ NextShard("report")
    /\ UNCHANGED <<now, workerVars, sweepTime, metricVars, loadVars, history>>

(* The removed metric; the names then go to Persister.DeleteByName.        *)
EndSweep_KeepNames ==
    /\ sweep = "report"
    /\ removed' = removed + Cardinality(purged)
    /\ sweep' = "idle" /\ sweepTime' = 0
    /\ UNCHANGED <<now, entries, totalCount, workerVars, shard, purged, added, changed,
                   loadVars, history>>
EndSweep ==
    /\ sweep = "report"
    /\ removed' = removed + Cardinality(purged)
    /\ purged' = {}
    /\ sweep' = "idle" /\ sweepTime' = 0
    /\ UNCHANGED <<now, entries, totalCount, workerVars, shard, added, changed,
                   loadVars, history>>

-----------------------------------------------------------------------------

(* Time passes while work is in hand, but for Delay at most since a stamp. *)
Tick ==
    /\ now < MaxTime
    /\ \A w \in Workers : Busy(w) => now - arg[w].entry.last < Delay
    /\ now' = now + 1
    /\ UNCHANGED <<entries, totalCount, workerVars, sweepVars, metricVars, loadVars,
                   history>>

Upsert(w) == Lookup(w) \/ Refuse(w) \/ Admit(w) \/ Merge(w) \/ Tally(w) \/ Report(w)
Sweep == StartSweep \/ MarkStale \/ PurgeExpired \/ EndSweep

Next == Load \/ (\E w \in Workers : Upsert(w)) \/ Sweep \/ Tick

(* The start goes on, the ticker keeps firing, the sweeper goroutine and   *)
(* busy workers run, and the clock goes on.                                *)
Fairness ==
    /\ WF_vars(Load) /\ WF_vars(Sweep) /\ WF_vars(Tick)
    /\ \A w \in Workers : WF_vars(Busy(w) /\ Upsert(w))

Spec == Init /\ [][Next]_vars
FairSpec == Spec /\ Fairness

-----------------------------------------------------------------------------

Tallying == {w \in Workers : pc[w] = "tally"}
Storing == {w \in Workers : pc[w] = "merge" /\ ~exists[w]}
Unreported == {w \in Workers : pc[w] \in {"tally", "report"} /\ change[w] = "added"}

TypeOK ==
    /\ now \in Times
    /\ toLoad \in Seq(StoredEntry) /\ restored \in Nat /\ asStored \in SUBSET Names
    /\ Known \subseteq Names /\ entries \in [Known -> Entry]
    /\ totalCount \in Int
    /\ pc \in [Workers -> {"idle", "admit", "merge", "tally", "report"}]
    /\ arg \in [Workers -> [name: Names, entry: Entry]]
    /\ exists \in [Workers -> BOOLEAN]
    /\ change \in [Workers -> {"none", "added", "type"}]
    /\ sweep \in {"idle", "mark", "purge", "report"}
    /\ shard \in Shards /\ sweepTime \in Times /\ purged \in SUBSET Names
    /\ added \in Nat /\ changed \in Nat /\ removed \in Nat
    /\ begun \in Nat /\ uncounted \in Nat
    /\ newest \in [Names -> Times \union {-1}]

(* The hand-kept counter is off from the number of entries by exactly two  *)
(* things: additions not tallied yet, and names that a sweep removed       *)
(* between a worker's lookup and its store, which come back uncounted.     *)
(* (dictionary.go:60-68, 117-133)                                          *)
CountAccounting ==
    totalCount = Cardinality(Known) - Cardinality(Tallying) - uncounted

(* How many workers can pass the budget's check together with another.     *)
Others == IF Workers = {} THEN 0 ELSE Cardinality(Workers) - 1

(* The budget is checked before the store and outside its lock, so workers *)
(* that pass the check together overshoot it -- but by no more than one    *)
(* entry for each other worker, and for each uncounted return.             *)
(* (dictionary.go:61-65)                                                   *)
BudgetOvershoot ==
    Cardinality(Known) + Cardinality(Storing)
        <= Budget + Others + uncounted

(* The added and removed metrics, unlike the counter, miss no increment of *)
(* the workers and the sweeper, once it has landed.  They account for the  *)
(* entries only together with what the start restored, which is counted as *)
(* removed but never as added: after a restart removed may exceed added.   *)
(* (worker_pool.go:89-100, main.go:155-157, main.go:331-336)               *)
MetricsBalance ==
    added + Cardinality(Unreported) + restored - removed - Cardinality(purged)
        = Cardinality(Known)

(* Tasks finish out of order, so last_seen can step back behind the newest *)
(* observation since the start, by as much as a task may age in the        *)
(* pipeline and no more. (shard.go:38)                                     *)
LastSeenLag == \A n \in Known : entries[n].last >= newest[n] - Delay

(* Whatever the workers do between its steps, an entry shown as stale has  *)
(* been idle for longer than the stale TTL, or it is as an earlier process *)
(* stored it, which may have had a shorter TTL. (dictionary.go:107,        *)
(* shard.go:45)                                                            *)
StaleIsOld ==
    \A n \in Known :
        entries[n].status = "stale" =>
            \/ now - entries[n].last > StaleTTL
            \/ n \in asStored

(* A sweep only removes attributes nobody observed for the purge TTL, short*)
(* of the age of an out-of-order task; what was observed before the start  *)
(* counts with the time that loading left. (dictionary.go:123, shard.go:38)*)
PurgedWasIdle ==
    [][\A n \in Known \ Known' : now - newest[n] > PurgeTTL - Delay]_vars

(* An attribute idle for the purge TTL goes, or is observed again.         *)
(* (main.go:324-330)                                                       *)
IdleIsPurged ==
    \A n \in Names :
        (n \in Known /\ now - entries[n].last > PurgeTTL)
            ~> (n \notin Known \/ now - entries[n].last <= PurgeTTL)

=============================================================================
