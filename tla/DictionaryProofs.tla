-------------------------- MODULE DictionaryProofs --------------------------
(***************************************************************************)
(* Proofs about Dictionary, for every set of names, every number of        *)
(* workers and shards, every budget and all TTLs.                          *)
(***************************************************************************)
EXTENDS Dictionary, FiniteSetTheorems, SequenceTheorems, TLAPS

Idling == {"idle", "admit", "merge", "tally", "report"}
Arg == [name : Names, entry : Entry]

(* What a worker carries between two calls is some argument.               *)
LEMMA NoArgType == NoArg \in Arg
<1>1. (CHOOSE n \in Names : TRUE) \in Names
  BY NonEmptyAssumption
<1>2. \E e : e \in Entry
  <2>1. PICK t \in Types : TRUE
    BY NonEmptyAssumption
  <2>2. [type |-> t, signals |-> {}, first |-> 0, last |-> 0, status |-> "active"] \in Entry
    BY TimeAssumption DEF Entry, Times, Statuses
  <2> QED
    BY <2>2
<1>3. (CHOOSE e \in Entry : TRUE) \in Entry
  BY <1>2
<1> QED
  BY <1>1, <1>3 DEF NoArg, Arg

(* The three ways a shard changes an entry keep it an entry.               *)
LEMMA EntryTypes ==
    /\ \A type \in Types, signal \in Signals, stamp \in Times :
         Found(type, signal, stamp) \in Entry
    /\ \A old, new \in Entry : Merged(old, new) \in Entry
    /\ \A e \in Entry : [e EXCEPT !.status = "stale"] \in Entry
<1>1. \A type \in Types, signal \in Signals, stamp \in Times :
        Found(type, signal, stamp) \in Entry
  BY DEF Found, Entry, Statuses
<1>2. \A old, new \in Entry : Merged(old, new) \in Entry
  BY DEF Merged, Entry, Statuses
<1>3. \A e \in Entry : [e EXCEPT !.status = "stale"] \in Entry
  BY DEF Entry, Statuses
<1> QED
  BY <1>1, <1>2, <1>3

(* What is loaded next is one of the stored entries.                       *)
LEMMA NextToLoad ==
    ASSUME TypeOK, toLoad # <<>>
    PROVE  /\ Head(toLoad) \in StoredEntry /\ Tail(toLoad) \in Seq(StoredEntry)
           /\ Head(toLoad) = toLoad[1] /\ 1 \in DOMAIN toLoad
           /\ \A i \in DOMAIN Tail(toLoad) :
                i + 1 \in DOMAIN toLoad /\ Tail(toLoad)[i] = toLoad[i + 1]
<1>1. toLoad \in Seq(StoredEntry)
  BY DEF TypeOK
<1> HIDE DEF StoredEntry
<1>2. Head(toLoad) \in StoredEntry /\ Tail(toLoad) \in Seq(StoredEntry)
  BY <1>1, HeadTailProperties
<1>3. Len(toLoad) \in Nat \ {0} /\ DOMAIN toLoad = 1 .. Len(toLoad)
  BY <1>1, EmptySeq, LenProperties
<1>4. Len(Tail(toLoad)) = Len(toLoad) - 1 /\ DOMAIN Tail(toLoad) = 1 .. Len(Tail(toLoad))
  BY <1>1, <1>2, HeadTailProperties, LenProperties
<1>5. \A i \in 1 .. Len(toLoad) - 1 : Tail(toLoad)[i] = toLoad[i + 1]
  BY <1>1, HeadTailProperties
<1>6. Head(toLoad) = toLoad[1]
  BY <1>1, HeadTailProperties
<1> QED
  BY <1>2, <1>3, <1>4, <1>5, <1>6

(* Storing an entry under a name adds the name and changes no other.       *)
LEMMA UpsertedIs ==
    ASSUME TypeOK, NEW n \in Names, NEW new \in Entry
    PROVE  /\ DOMAIN Upserted(n, new) = Known \union {n}
           /\ Upserted(n, new) \in [Known \union {n} -> Entry]
           /\ \A m \in Known \ {n} : Upserted(n, new)[m] = entries[m]
           /\ Upserted(n, new)[n].last = new.last
           /\ n \in Known => Upserted(n, new)[n].status = "active"
           /\ n \notin Known => Upserted(n, new)[n] = new
<1>1. n \in Known => entries[n] \in Entry
  BY DEF TypeOK
<1>2. \A e \in Entry : Merged(e, new).last = new.last /\ Merged(e, new).status = "active"
  BY DEF Merged, Entry
<1>3. \A m \in Known : entries[m] \in Entry
  BY DEF TypeOK
<1>4. Upserted(n, new) \in [Known \union {n} -> Entry]
  BY <1>3, EntryTypes DEF Upserted
<1>5. /\ \A m \in Known \ {n} : Upserted(n, new)[m] = entries[m]
      /\ n \in Known => Upserted(n, new)[n] = Merged(entries[n], new)
      /\ n \notin Known => Upserted(n, new)[n] = new
      /\ DOMAIN Upserted(n, new) = Known \union {n}
  BY DEF Upserted
<1> QED
  BY <1>1, <1>2, <1>4, <1>5

(* The sweeper never leaves the shards.  (dictionary.go:104, 120)          *)
LEMMA NextShardType ==
    ASSUME NEW phase, shard \in Shards, NextShard(phase)
    PROVE  shard' \in Shards /\ sweep' \in {sweep, phase}
  BY ShardAssumption DEF NextShard, Shards

(* Every variable keeps its type.                                          *)
THEOREM TypeCorrect == Spec => []TypeOK
<1>1. Init => TypeOK
  <2>1. Init => toLoad \in Seq(StoredEntry)
    BY StoresAssumption DEF Init
  <2> QED
    BY <2>1, NoArgType, ShardAssumption, TimeAssumption
    DEF Init, TypeOK, Known, Times, Shards, Arg
<1>2. TypeOK /\ [Next]_vars => TypeOK'
  <2> SUFFICES ASSUME TypeOK, [Next]_vars PROVE TypeOK'
    OBVIOUS
  <2> USE DEF TypeOK
  <2>0. ASSUME Load PROVE TypeOK'
    <3>1. toLoad # <<>> /\ toLoad' = Tail(toLoad)
      BY <2>0 DEF Load, LoadNew, LoadAgain, LoadRefused
    <3>2. toLoad' \in Seq(StoredEntry) /\ Head(toLoad) \in StoredEntry
      BY <3>1, NextToLoad
    <3>3. Head(toLoad).name \in Names /\ Head(toLoad).entry \in Entry
      BY <3>2 DEF StoredEntry
    <3>4. Head(toLoad).entry.last \in Times
      BY <3>3 DEF Entry
    <3>5. LoadNew \/ LoadAgain
            => entries' = Upserted(Head(toLoad).name, Head(toLoad).entry)
      BY DEF LoadNew, LoadAgain
    <3>6. Known' \subseteq Names /\ entries' \in [Known' -> Entry]
      <4>1. CASE LoadRefused
        BY <4>1 DEF LoadRefused, Known
      <4>2. CASE LoadNew \/ LoadAgain
        <5> HIDE DEF TypeOK
        <5>1. TypeOK
          OBVIOUS
        <5>2. Known' = DOMAIN Upserted(Head(toLoad).name, Head(toLoad).entry)
          BY <3>5, <4>2 DEF Known
        <5>3. Known' = Known \union {Head(toLoad).name}
          BY <3>3, <5>1, <5>2, UpsertedIs
        <5>4. entries' \in [Known \union {Head(toLoad).name} -> Entry]
          BY <3>3, <3>5, <4>2, <5>1, UpsertedIs
        <5> QED
          BY <3>3, <5>3, <5>4 DEF TypeOK
      <4> QED
        BY <2>0, <4>1, <4>2 DEF Load
    <3>7. newest' \in [Names -> Times \union {-1}] /\ asStored' \in SUBSET Names
      BY <2>0, <3>3, <3>4 DEF Load, LoadNew, LoadAgain, LoadRefused, history
    <3>8. totalCount' \in Int /\ restored' \in Nat
      BY <2>0 DEF Load, LoadNew, LoadAgain, LoadRefused
    <3>9. /\ now' = now /\ begun' = begun /\ uncounted' = uncounted
          /\ UNCHANGED <<workerVars, sweepVars, metricVars>>
      BY <2>0 DEF Load, LoadNew, LoadAgain, LoadRefused, history
    <3> QED
      BY <3>2, <3>6, <3>7, <3>8, <3>9 DEF workerVars, sweepVars, metricVars
  <2>1. ASSUME NEW w \in Workers, Lookup(w) PROVE TypeOK'
    <3>1. /\ arg' \in [Workers -> Arg]
          /\ exists' \in [Workers -> BOOLEAN]
          /\ pc' \in [Workers -> Idling]
      BY <2>1, EntryTypes DEF Lookup, Arg, Idling
    <3> QED
      BY <2>1, <3>1 DEF Lookup, Arg, Idling, Known, sweepVars, metricVars, loadVars
  <2>2. ASSUME NEW w \in Workers, Return(w)
        PROVE  /\ pc' \in [Workers -> Idling] /\ arg' \in [Workers -> Arg]
               /\ exists' \in [Workers -> BOOLEAN]
               /\ change' \in [Workers -> {"none", "added", "type"}]
    BY <2>2, NoArgType DEF Return, Arg, Idling
  <2>3. ASSUME NEW w \in Workers, Refuse(w) PROVE TypeOK'
    BY <2>2, <2>3 DEF Refuse, Known, Arg, Idling, sweepVars, metricVars, loadVars, history
  <2>4. ASSUME NEW w \in Workers, Admit(w) PROVE TypeOK'
    BY <2>4 DEF Admit, Known, sweepVars, metricVars, loadVars, history
  <2>5. ASSUME NEW w \in Workers, Merge(w) PROVE TypeOK'
    <3>1. arg[w].name \in Names /\ arg[w].entry \in Entry
      BY DEF Arg
    <3>2. Known' = Known \union {arg[w].name} /\ entries' \in [Known' -> Entry]
      BY <2>5, <3>1, UpsertedIs DEF Merge, Known
    <3>3. /\ change' \in [Workers -> {"none", "added", "type"}]
          /\ pc' \in [Workers -> Idling]
      BY <2>5 DEF Merge, Idling
    <3>4. uncounted' \in Nat
      BY <2>5 DEF Merge
    <3>5. newest' \in [Names -> Times \union {-1}]
      <4>1. arg[w].entry.last \in Times
        BY <3>1 DEF Entry
      <4> QED
        BY <2>5, <4>1 DEF Merge
    <3> QED
      BY <2>5, <3>1, <3>2, <3>3, <3>4, <3>5
      DEF Merge, Idling, sweepVars, metricVars, loadVars
  <2>6. ASSUME NEW w \in Workers, Tally(w) PROVE TypeOK'
    BY <2>6 DEF Tally, Known, sweepVars, metricVars, loadVars, history
  <2>7. ASSUME NEW w \in Workers, Report(w) PROVE TypeOK'
    <3>1. added' \in Nat /\ changed' \in Nat
      BY <2>7 DEF Report
    <3> QED
      BY <2>2, <2>7, <3>1 DEF Report, Known, Arg, Idling, sweepVars, loadVars, history
  <2>8. ASSUME StartSweep PROVE TypeOK'
    BY <2>8 DEF StartSweep, Known, workerVars, metricVars, loadVars, history
  <2>9. ASSUME MarkStale PROVE TypeOK'
    <3>1. Known' = Known /\ entries' \in [Known' -> Entry]
      BY <2>9, EntryTypes DEF MarkStale, Known
    <3> QED
      BY <2>9, <3>1, NextShardType DEF MarkStale, workerVars, metricVars, loadVars, history
  <2>10. ASSUME PurgeExpired PROVE TypeOK'
    <3> DEFINE expired == {n \in Known : ShardOf[n] = shard /\ Idle(n, PurgeTTL)}
    <3>1. Known' = Known \ expired /\ entries' \in [Known' -> Entry]
      BY <2>10 DEF PurgeExpired, Known
    <3>2. IsFiniteSet(expired)
      BY FiniteAssumption, FS_Subset
    <3>3. Cardinality(expired) \in Nat
      BY <3>2, FS_CardinalityType
    <3>4. totalCount' \in Int /\ purged' \in SUBSET Names
      BY <2>10, <3>3 DEF PurgeExpired
    <3> HIDE DEF expired
    <3> QED
      BY <2>10, <3>1, <3>4, NextShardType
      DEF PurgeExpired, workerVars, metricVars, loadVars, history
  <2>11. ASSUME EndSweep PROVE TypeOK'
    <3>1. Cardinality(purged) \in Nat
      BY FiniteAssumption, FS_Subset, FS_CardinalityType
    <3>2. removed' \in Nat
      BY <2>11, <3>1 DEF EndSweep
    <3>3. sweepTime' \in Times
      BY <2>11, TimeAssumption DEF EndSweep, Times
    <3> QED
      BY <2>11, <3>2, <3>3 DEF EndSweep, Known, workerVars, loadVars, history
  <2>12. ASSUME Tick PROVE TypeOK'
    <3>1. now' \in Times
      BY <2>12, TimeAssumption DEF Tick, Times
    <3> QED
      BY <2>12, <3>1 DEF Tick, Known, workerVars, sweepVars, metricVars, loadVars, history
  <2>13. ASSUME UNCHANGED vars PROVE TypeOK'
    BY <2>13 DEF vars, Known, workerVars, sweepVars, metricVars, loadVars, history
  <2> QED
    BY <2>0, <2>1, <2>3, <2>4, <2>5, <2>6, <2>7, <2>8, <2>9, <2>10, <2>11, <2>12, <2>13
    DEF Next, Upsert, Sweep
<1> QED
  BY <1>1, <1>2, PTL DEF Spec

-----------------------------------------------------------------------------
\* Counting

LEMMA FiniteSets ==
    ASSUME TypeOK
    PROVE  /\ IsFiniteSet(Known) /\ Cardinality(Known) \in Nat
           /\ IsFiniteSet(purged) /\ Cardinality(purged) \in Nat
           /\ IsFiniteSet(Tallying) /\ Cardinality(Tallying) \in Nat
           /\ IsFiniteSet(Storing) /\ Cardinality(Storing) \in Nat
           /\ IsFiniteSet(Unreported) /\ Cardinality(Unreported) \in Nat
<1>1. IsFiniteSet(Known) /\ IsFiniteSet(purged)
  BY FiniteAssumption, FS_Subset DEF TypeOK
<1>2. IsFiniteSet(Tallying) /\ IsFiniteSet(Storing) /\ IsFiniteSet(Unreported)
  BY FiniteAssumption, FS_Subset DEF Tallying, Storing, Unreported
<1> QED
  BY <1>1, <1>2, FS_CardinalityType

(* A store adds the name it is for, and nothing else.                      *)
LEMMA MergeKnown ==
    ASSUME TypeOK, NEW w \in Workers, Merge(w)
    PROVE  Known' = Known \union {arg[w].name}
  BY DEF Merge, Known, Upserted

(* So does the start, which counts what it adds.                           *)
LEMMA LoadKnown ==
    ASSUME TypeOK, LoadNew
    PROVE  /\ Head(toLoad).name \in Names \ Known
           /\ Known' = Known \union {Head(toLoad).name}
           /\ totalCount' = totalCount + 1 /\ ~OverBudget
           /\ uncounted' = uncounted /\ restored' = restored + 1
           /\ UNCHANGED <<pc, exists, change, arg>>
<1>1. Head(toLoad).name \in Names
  BY NextToLoad DEF LoadNew, StoredEntry
<1>2. entries' = Upserted(Head(toLoad).name, Head(toLoad).entry)
  BY DEF LoadNew
<1>3. Known' = Known \union {Head(toLoad).name}
  BY <1>2 DEF Known, Upserted
<1> QED
  BY <1>1, <1>3 DEF LoadNew, workerVars

(* While it loads, no worker has anything in hand.  (main.go:151-163)      *)
LoadInv == toLoad # <<>> => \A w \in Workers : pc[w] = "idle"

LEMMA LoadingIsAlone == Spec => []LoadInv
<1>1. Init => LoadInv
  BY DEF Init, LoadInv
<1>2. TypeOK /\ LoadInv /\ [Next]_vars => LoadInv'
  <2> SUFFICES ASSUME TypeOK, LoadInv, [Next]_vars, toLoad' # <<>>
               PROVE  \A w \in Workers : pc'[w] = "idle"
    BY DEF LoadInv
  <2>1. CASE Load \/ Sweep \/ Tick \/ UNCHANGED vars
    <3>1. pc' = pc /\ (toLoad' = toLoad \/ toLoad # <<>>)
      BY <2>1 DEF Load, LoadNew, LoadAgain, LoadRefused, Sweep, StartSweep, MarkStale,
                  PurgeExpired, EndSweep, Tick, vars, workerVars, loadVars
    <3> QED
      BY <3>1 DEF LoadInv
  <2>2. ASSUME NEW w \in Workers, Upsert(w) PROVE FALSE
    <3>1. toLoad' = toLoad
      BY <2>2 DEF Upsert, Lookup, Refuse, Admit, Merge, Tally, Report, loadVars
    <3>2. pc[w] = "idle"
      BY <3>1 DEF LoadInv
    <3> QED
      BY <2>2, <3>1, <3>2 DEF Upsert, Lookup, Refuse, Admit, Merge, Tally, Report
  <2> QED
    BY <2>1, <2>2 DEF Next
<1> QED
  BY <1>1, <1>2, TypeCorrect, PTL DEF Spec

(* Purging a shard takes the expired names out of the map and, counted     *)
(* once each, out of the counter.  (dictionary.go:121-131)                 *)
LEMMA PurgeCounts ==
    ASSUME TypeOK, PurgeExpired
    PROVE  /\ Known' \subseteq Known
           /\ purged' = purged \union (Known \ Known')
           /\ totalCount' - totalCount = Cardinality(Known') - Cardinality(Known)
           /\ totalCount' <= totalCount
<1> DEFINE expired == {n \in Known : ShardOf[n] = shard /\ Idle(n, PurgeTTL)}
<1>1. Known' = Known \ expired /\ expired \subseteq Known
  BY DEF PurgeExpired, Known
<1>2. totalCount' = totalCount - Cardinality(expired) /\ purged' = purged \union expired
  BY DEF PurgeExpired
<1> HIDE DEF expired
<1>3. IsFiniteSet(expired) /\ Cardinality(expired) \in Nat
  BY <1>1, FiniteSets, FS_Subset, FS_CardinalityType
<1>4. Cardinality(Known \ expired) = Cardinality(Known) - Cardinality(Known \intersect expired)
  BY FiniteSets, FS_Difference
<1>5. Known \intersect expired = expired
  BY <1>1
<1>6. Known \ Known' = expired
  BY <1>1
<1>7. Known' \subseteq Known /\ purged' = purged \union (Known \ Known')
  BY <1>1, <1>2, <1>6
<1>8. Cardinality(Known') = Cardinality(Known) - Cardinality(expired)
  BY <1>1, <1>4, <1>5
<1>9. totalCount \in Int /\ Cardinality(Known) \in Nat
  BY FiniteSets DEF TypeOK
<1> QED
  BY <1>2, <1>3, <1>7, <1>8, <1>9

(* What each step does to the workers that are between store and counter,  *)
(* and to those that have passed the check and not stored.                 *)
LEMMA WorkerSets ==
    ASSUME TypeOK, [Next]_vars
    PROVE  \/ /\ Tallying' = Tallying /\ Storing' = Storing
              /\ Known' = Known /\ uncounted' = uncounted /\ totalCount' = totalCount
           \/ \E w \in Workers :
                /\ Admit(w) /\ ~OverBudget
                /\ Tallying' = Tallying
                /\ \/ Storing' = Storing
                   \/ w \notin Storing \union Tallying /\ Storing' = Storing \union {w}
                /\ Known' = Known /\ uncounted' = uncounted /\ totalCount' = totalCount
           \/ LoadNew /\ Tallying' = Tallying /\ Storing' = Storing
           \/ \E w \in Workers : Merge(w)
           \/ \E w \in Tallying :
                /\ Tallying' = Tallying \ {w} /\ Storing' = Storing
                /\ Known' = Known /\ uncounted' = uncounted
                /\ totalCount' = totalCount + 1
           \/ /\ PurgeExpired
              /\ Tallying' = Tallying /\ Storing' = Storing /\ uncounted' = uncounted
<1> USE DEF TypeOK, Tallying, Storing
<1>1. ASSUME NEW w \in Workers, Lookup(w)
      PROVE  Tallying' = Tallying /\ Storing' = Storing
  BY <1>1 DEF Lookup
<1>2. ASSUME NEW w \in Workers, Refuse(w) \/ Report(w)
      PROVE  Tallying' = Tallying /\ Storing' = Storing
  BY <1>2 DEF Refuse, Report, Return
<1>3. ASSUME NEW w \in Workers, Admit(w)
      PROVE  /\ Tallying' = Tallying /\ ~OverBudget
             /\ \/ Storing' = Storing
                \/ w \notin Storing \union Tallying /\ Storing' = Storing \union {w}
             /\ Known' = Known /\ uncounted' = uncounted /\ totalCount' = totalCount
  <2>1. CASE exists[w]
    BY <1>3, <2>1 DEF Admit, Known, history
  <2>2. CASE ~exists[w]
    BY <1>3, <2>2 DEF Admit, Known, history
  <2> QED
    BY <2>1, <2>2
<1>4. ASSUME NEW w \in Workers, Tally(w)
      PROVE  /\ w \in Tallying /\ Tallying' = Tallying \ {w} /\ Storing' = Storing
             /\ Known' = Known /\ uncounted' = uncounted
             /\ totalCount' = totalCount + 1
  BY <1>4 DEF Tally, Known, history
<1>5. ASSUME StartSweep \/ MarkStale \/ EndSweep \/ Tick \/ UNCHANGED vars
      PROVE  Tallying' = Tallying /\ Storing' = Storing
  BY <1>5 DEF StartSweep, MarkStale, EndSweep, Tick, vars, workerVars
<1>6. ASSUME PurgeExpired
      PROVE  Tallying' = Tallying /\ Storing' = Storing /\ uncounted' = uncounted
  BY <1>6 DEF PurgeExpired, workerVars, history
<1>7. ASSUME NEW w \in Workers, Lookup(w) \/ Refuse(w) \/ Report(w)
      PROVE  Known' = Known /\ uncounted' = uncounted /\ totalCount' = totalCount
  BY <1>7 DEF Lookup, Refuse, Report, Known, history
<1>8. ASSUME StartSweep \/ MarkStale \/ EndSweep \/ Tick \/ UNCHANGED vars
      PROVE  Known' = Known /\ uncounted' = uncounted /\ totalCount' = totalCount
  BY <1>8 DEF StartSweep, MarkStale, EndSweep, Tick, vars, Known, history
<1>9. ASSUME Load PROVE Tallying' = Tallying /\ Storing' = Storing
  BY <1>9 DEF Load, LoadNew, LoadAgain, LoadRefused, workerVars
<1>10. ASSUME LoadAgain \/ LoadRefused
       PROVE  Known' = Known /\ uncounted' = uncounted /\ totalCount' = totalCount
  BY <1>10 DEF LoadAgain, LoadRefused, Known, Upserted, history
<1> QED
  BY <1>1, <1>2, <1>3, <1>4, <1>5, <1>6, <1>7, <1>8, <1>9, <1>10
  DEF Next, Load, Upsert, Sweep

(* What a store does to them: it either brings back a name its worker's    *)
(* lookup had found, or adds one that is tallied later, or adds none.      *)
LEMMA MergeSets ==
    ASSUME TypeOK, NEW w \in Workers, Merge(w)
    PROVE  /\ totalCount' = totalCount
           /\ \/ /\ arg[w].name \in Known /\ Known' = Known /\ uncounted' = uncounted
                 /\ Tallying' = Tallying /\ Storing' = Storing \ {w}
              \/ /\ arg[w].name \notin Known /\ exists[w]
                 /\ uncounted' = uncounted + 1
                 /\ Tallying' = Tallying /\ Storing' = Storing
              \/ /\ arg[w].name \notin Known /\ uncounted' = uncounted
                 /\ w \notin Tallying /\ Tallying' = Tallying \union {w}
                 /\ w \in Storing /\ Storing' = Storing \ {w}
<1> USE DEF TypeOK, Tallying, Storing
<1>1. CASE arg[w].name \in Known
  <2>1. pc' = [pc EXCEPT ![w] = "report"] /\ uncounted' = uncounted
    BY <1>1 DEF Merge, Counts
  <2>2. Known' = Known
    BY <1>1, MergeKnown
  <2> QED
    BY <1>1, <2>1, <2>2 DEF Merge
<1>2. CASE arg[w].name \notin Known /\ exists[w]
  <2>1. pc' = [pc EXCEPT ![w] = "report"] /\ uncounted' = uncounted + 1
    BY <1>2 DEF Merge, Counts
  <2> QED
    BY <1>2, <2>1 DEF Merge
<1>3. CASE arg[w].name \notin Known /\ ~exists[w]
  <2>1. pc' = [pc EXCEPT ![w] = "tally"] /\ uncounted' = uncounted
    BY <1>3 DEF Merge, Counts
  <2> QED
    BY <1>3, <2>1 DEF Merge
<1> QED
  BY <1>1, <1>2, <1>3

(* The invariant about the hand-kept counter.  (dictionary.go:60-68)       *)
THEOREM CountCorrect == Spec => []CountAccounting
<1>1. Init => CountAccounting
  <2> SUFFICES ASSUME Init PROVE CountAccounting
    OBVIOUS
  <2>1. Known = {} /\ Tallying = {}
    BY DEF Init, Known, Tallying
  <2> QED
    BY <2>1, FS_EmptySet DEF Init, CountAccounting
<1>2. TypeOK /\ TypeOK' /\ CountAccounting /\ [Next]_vars => CountAccounting'
  <2> SUFFICES ASSUME TypeOK, TypeOK', CountAccounting, [Next]_vars
               PROVE  CountAccounting'
    OBVIOUS
  <2>0. /\ IsFiniteSet(Known) /\ Cardinality(Known) \in Nat
        /\ IsFiniteSet(Tallying) /\ Cardinality(Tallying) \in Nat
        /\ totalCount \in Int /\ uncounted \in Nat
    BY FiniteSets DEF TypeOK
  <2>1. ASSUME NEW w \in Workers, Merge(w) PROVE CountAccounting'
    <3>1. CASE arg[w].name \in Known
      BY <2>1, <3>1, MergeSets DEF CountAccounting
    <3>2. CASE arg[w].name \notin Known
      <4>1. Cardinality(Known') = Cardinality(Known) + 1
        BY <2>0, <2>1, <3>2, MergeKnown, FS_AddElement
      <4>2. CASE uncounted' = uncounted + 1 /\ Tallying' = Tallying
        BY <2>0, <2>1, <4>1, <4>2, MergeSets DEF CountAccounting
      <4>3. CASE uncounted' = uncounted /\ w \notin Tallying /\ Tallying' = Tallying \union {w}
        <5>1. Cardinality(Tallying') = Cardinality(Tallying) + 1
          BY <2>0, <4>3, FS_AddElement
        <5> QED
          BY <2>0, <2>1, <4>1, <4>3, <5>1, MergeSets DEF CountAccounting
      <4> QED
        BY <2>1, <3>2, <4>2, <4>3, MergeSets
    <3> QED
      BY <3>1, <3>2
  <2>2. ASSUME NEW w \in Tallying, Tallying' = Tallying \ {w}, Known' = Known,
               uncounted' = uncounted, totalCount' = totalCount + 1
        PROVE  CountAccounting'
    <3>1. Cardinality(Tallying') = Cardinality(Tallying) - 1
      BY <2>0, <2>2, FS_RemoveElement
    <3> QED
      BY <2>0, <2>2, <3>1 DEF CountAccounting
  <2>3. ASSUME PurgeExpired, Tallying' = Tallying, uncounted' = uncounted
        PROVE  CountAccounting'
    <3>1. totalCount' - totalCount = Cardinality(Known') - Cardinality(Known)
      BY <2>3, PurgeCounts
    <3>2. Cardinality(Known') \in Nat /\ totalCount' \in Int
      BY FiniteSets, FS_Subset, FS_CardinalityType, PurgeCounts, <2>3 DEF TypeOK
    <3> QED
      BY <2>0, <2>3, <3>1, <3>2 DEF CountAccounting
  <2>4. ASSUME Tallying' = Tallying, Known' = Known, uncounted' = uncounted,
               totalCount' = totalCount
        PROVE  CountAccounting'
    BY <2>4 DEF CountAccounting
  <2>5. ASSUME LoadNew, Tallying' = Tallying PROVE CountAccounting'
    <3>1. Cardinality(Known') = Cardinality(Known) + 1
      BY <2>0, <2>5, LoadKnown, FS_AddElement
    <3> QED
      BY <2>0, <2>5, <3>1, LoadKnown DEF CountAccounting
  <2> QED
    BY <2>1, <2>2, <2>3, <2>4, <2>5, WorkerSets
<1> QED
  BY <1>1, <1>2, TypeCorrect, PTL DEF Spec

-----------------------------------------------------------------------------
\* The budget

(* Why the overshoot is bounded: whoever passes the check sees a counter   *)
(* below the budget, and the only additions the counter does not show are  *)
(* those of workers that are past the check now.  (dictionary.go:61-68)    *)
LEMMA OthersType == Others \in Nat
<1>1. CASE Workers = {}
  BY <1>1 DEF Others
<1>2. CASE Workers # {}
  <2>1. Cardinality(Workers) \in Nat /\ Cardinality(Workers) # 0
    BY <1>2, FiniteAssumption, FS_CardinalityType, FS_EmptySet
  <2> QED
    BY <1>2, <2>1 DEF Others
<1> QED
  BY <1>1, <1>2

InFlight == Cardinality(Tallying) + Cardinality(Storing)
BudgetInv == totalCount + InFlight <= Budget + Others

(* However the workers interleave, entries exceed the budget by no more    *)
(* than one for each other worker and for each uncounted return.           *)
(* (dictionary.go:61-65)                                                   *)
THEOREM OvershootBounded == Spec => []BudgetOvershoot
<1>1. Init => BudgetInv
  <2> SUFFICES ASSUME Init PROVE BudgetInv
    OBVIOUS
  <2>1. Tallying = {} /\ Storing = {} /\ totalCount = 0
    BY DEF Init, Tallying, Storing
  <2> QED
    BY <2>1, OthersType, FS_EmptySet, BudgetAssumption DEF BudgetInv, InFlight
<1>2. TypeOK /\ TypeOK' /\ LoadInv /\ BudgetInv /\ [Next]_vars => BudgetInv'
  <2> SUFFICES ASSUME TypeOK, TypeOK', LoadInv, BudgetInv, [Next]_vars PROVE BudgetInv'
    OBVIOUS
  <2>0. /\ IsFiniteSet(Tallying) /\ Cardinality(Tallying) \in Nat
        /\ IsFiniteSet(Storing) /\ Cardinality(Storing) \in Nat
        /\ Others \in Nat
        /\ totalCount \in Int /\ Budget \in Nat
    BY FiniteSets, OthersType, BudgetAssumption DEF TypeOK
  <2>1. ASSUME NEW w \in Workers, ~OverBudget, Tallying' = Tallying,
               w \notin Storing \union Tallying, Storing' = Storing \union {w},
               totalCount' = totalCount
        PROVE  BudgetInv'
    <3>1. InFlight <= Others
      <4>1. Tallying \union {w} \subseteq Workers /\ Storing \subseteq Workers
        BY DEF Tallying, Storing
      <4>2. (Tallying \union {w}) \intersect Storing = {}
        BY <2>1 DEF Tallying, Storing
      <4>3. /\ IsFiniteSet(Tallying \union {w})
            /\ Cardinality(Tallying \union {w}) = Cardinality(Tallying) + 1
        BY <2>0, <2>1, FS_AddElement
      <4>4. Cardinality((Tallying \union {w}) \union Storing)
              = Cardinality(Tallying) + 1 + Cardinality(Storing)
        <5>1. Cardinality((Tallying \union {w}) \union Storing)
                = Cardinality(Tallying \union {w}) + Cardinality(Storing) - Cardinality({})
          BY <2>0, <4>2, <4>3, FS_Union
        <5> QED
          BY <2>0, <4>3, <5>1, FS_EmptySet
      <4>5. Cardinality((Tallying \union {w}) \union Storing) <= Cardinality(Workers)
        BY <4>1, FiniteAssumption, FS_Subset
      <4>6. Others = Cardinality(Workers) - 1 /\ Cardinality(Workers) \in Nat
        BY FiniteAssumption, FS_CardinalityType DEF Others
      <4> QED
        BY <2>0, <4>4, <4>5, <4>6 DEF InFlight
    <3>2. Cardinality(Storing') = Cardinality(Storing) + 1
      BY <2>0, <2>1, FS_AddElement
    <3>3. totalCount <= Budget - 1
      BY <2>0, <2>1 DEF OverBudget
    <3> QED
      BY <2>0, <2>1, <3>1, <3>2, <3>3 DEF BudgetInv, InFlight
  <2>2. ASSUME NEW w \in Workers, Merge(w) PROVE BudgetInv'
    <3>1. Cardinality(Storing \ {w}) \in Nat /\ Cardinality(Storing \ {w}) <= Cardinality(Storing)
      BY <2>0, FS_Subset, FS_CardinalityType
    <3>2. CASE Tallying' = Tallying /\ Storing' = Storing \ {w}
      BY <2>0, <2>2, <3>1, <3>2, MergeSets DEF BudgetInv, InFlight
    <3>3. CASE Tallying' = Tallying /\ Storing' = Storing
      BY <2>2, <3>3, MergeSets DEF BudgetInv, InFlight
    <3>4. CASE /\ w \notin Tallying /\ Tallying' = Tallying \union {w}
               /\ w \in Storing /\ Storing' = Storing \ {w}
      <4>1. Cardinality(Tallying') = Cardinality(Tallying) + 1
        BY <2>0, <3>4, FS_AddElement
      <4>2. Cardinality(Storing') = Cardinality(Storing) - 1
        BY <2>0, <3>4, FS_RemoveElement
      <4> QED
        BY <2>0, <2>2, <4>1, <4>2, MergeSets DEF BudgetInv, InFlight
    <3> QED
      BY <2>2, <3>2, <3>3, <3>4, MergeSets
  <2>3. ASSUME NEW w \in Tallying, Tallying' = Tallying \ {w}, Storing' = Storing,
               totalCount' = totalCount + 1
        PROVE  BudgetInv'
    <3>1. Cardinality(Tallying') = Cardinality(Tallying) - 1
      BY <2>0, <2>3, FS_RemoveElement
    <3> QED
      BY <2>0, <2>3, <3>1 DEF BudgetInv, InFlight
  <2>4. ASSUME PurgeExpired, Tallying' = Tallying, Storing' = Storing
        PROVE  BudgetInv'
    <3>1. totalCount' <= totalCount /\ totalCount' \in Int
      BY <2>4, PurgeCounts DEF TypeOK
    <3> QED
      BY <2>0, <2>4, <3>1 DEF BudgetInv, InFlight
  <2>5. ASSUME Tallying' = Tallying, Storing' = Storing, totalCount' = totalCount
        PROVE  BudgetInv'
    BY <2>5 DEF BudgetInv, InFlight
  <2>6. ASSUME LoadNew, Tallying' = Tallying, Storing' = Storing PROVE BudgetInv'
    <3>1. Tallying = {} /\ Storing = {}
      BY <2>6 DEF LoadNew, LoadInv, Tallying, Storing
    <3>3. totalCount' = totalCount + 1 /\ totalCount <= Budget - 1
      BY <2>0, <2>6, LoadKnown DEF OverBudget
    <3> QED
      BY <2>0, <2>6, <3>1, <3>3, FS_EmptySet DEF BudgetInv, InFlight
  <2> QED
    BY <2>1, <2>2, <2>3, <2>4, <2>5, <2>6, WorkerSets
<1>3. TypeOK /\ CountAccounting /\ BudgetInv => BudgetOvershoot
  <2> SUFFICES ASSUME TypeOK, CountAccounting, BudgetInv PROVE BudgetOvershoot
    OBVIOUS
  <2>1. /\ Cardinality(Tallying) \in Nat /\ Cardinality(Storing) \in Nat
        /\ Cardinality(Known) \in Nat /\ Others \in Nat
        /\ uncounted \in Nat /\ totalCount \in Int /\ Budget \in Nat
    BY FiniteSets, OthersType, BudgetAssumption DEF TypeOK
  <2> QED
    BY <2>1 DEF CountAccounting, BudgetInv, InFlight, BudgetOvershoot
<1> QED
  BY <1>1, <1>2, <1>3, TypeCorrect, LoadingIsAlone, CountCorrect, PTL DEF Spec

-----------------------------------------------------------------------------
\* Ages

(* Nothing is stamped later than now, and what a worker carries is no older*)
(* than a task may get.  (worker_pool.go, extractor.go)                    *)
TimeInv ==
    /\ sweepTime <= now
    /\ \A n \in Names : newest[n] <= now
    /\ \A i \in DOMAIN toLoad : toLoad[i].entry.last <= now
    /\ \A w \in Workers : Busy(w) =>
         /\ arg[w].entry.status = "active"
         /\ arg[w].entry.last <= now /\ now - arg[w].entry.last <= Delay
AgeInv == TimeInv /\ LastSeenLag /\ StaleIsOld

LEMMA IntegerTimes ==
    /\ Times \subseteq Nat /\ Delay \in Nat /\ StaleTTL \in Nat /\ PurgeTTL \in Nat
    /\ TypeOK => /\ now \in Nat /\ sweepTime \in Nat /\ \A n \in Names : newest[n] \in Int
                 /\ \A n \in Known : n \in Names /\ entries[n] \in Entry /\ entries[n].last \in Nat
                 /\ \A w \in Workers : /\ arg[w].name \in Names /\ arg[w].entry \in Entry
                                       /\ arg[w].entry.last \in Nat
  BY TimeAssumption DEF TypeOK, Times, Entry

(* Most steps touch no entry and none of the stamps.                       *)
LEMMA AgesKept ==
    ASSUME AgeInv, sweepTime' = sweepTime, now' = now, newest' = newest,
           entries' = entries, toLoad' = toLoad, asStored' = asStored,
           \A w \in Workers : \/ pc'[w] = "idle"
                              \/ Busy(w) /\ arg'[w] = arg[w]
    PROVE  AgeInv'
  BY DEF AgeInv, TimeInv, LastSeenLag, StaleIsOld, Busy, Known

LEMMA AgeStep == TypeOK /\ TypeOK' /\ AgeInv /\ [Next]_vars => AgeInv'
<1> SUFFICES ASSUME TypeOK, TypeOK', AgeInv, [Next]_vars PROVE AgeInv'
  OBVIOUS
<1>0. /\ Delay \in Nat /\ StaleTTL \in Nat /\ now \in Nat /\ sweepTime \in Nat
      /\ \A n \in Names : newest[n] \in Int
      /\ \A n \in Known : n \in Names /\ entries[n] \in Entry /\ entries[n].last \in Nat
      /\ \A w \in Workers : /\ arg[w].name \in Names /\ arg[w].entry \in Entry
                            /\ arg[w].entry.last \in Nat
  BY IntegerTimes
<1>10. ASSUME Load PROVE AgeInv'
  <2> DEFINE n == Head(toLoad).name
             new == Head(toLoad).entry
  <2>1. toLoad # <<>> /\ toLoad' = Tail(toLoad)
    BY <1>10 DEF Load, LoadNew, LoadAgain, LoadRefused
  <2>2. /\ n \in Names /\ new \in Entry /\ new.last <= now
        /\ \A i \in DOMAIN toLoad' : toLoad'[i].entry.last <= now
    BY <2>1, NextToLoad DEF AgeInv, TimeInv, StoredEntry
  <2>3. new.last \in Nat
    BY <2>2, IntegerTimes DEF Entry
  <2>4. now' = now /\ sweepTime' = sweepTime /\ pc' = pc /\ arg' = arg
    BY <1>10 DEF Load, LoadNew, LoadAgain, LoadRefused, workerVars, sweepVars
  <2>5. CASE LoadRefused
    <3>1. entries' = entries /\ newest' = newest /\ asStored' = asStored
      BY <2>5 DEF LoadRefused, history
    <3> QED
      BY <2>2, <2>4, <3>1 DEF AgeInv, TimeInv, LastSeenLag, StaleIsOld, Busy, Known
  <2>6. CASE LoadNew \/ LoadAgain
    <3>1. /\ entries' = Upserted(n, new)
          /\ newest' = [newest EXCEPT ![n] = new.last]
      BY <2>6 DEF LoadNew, LoadAgain
    <3>2. \/ n \in Known /\ asStored' = asStored \ {n}
          \/ n \notin Known /\ asStored' = asStored \union {n}
      BY <2>6 DEF LoadNew, LoadAgain
    <3> HIDE DEF n, new
    <3>3. /\ Known' = Known \union {n}
          /\ \A m \in Known \ {n} : entries'[m] = entries[m]
          /\ entries'[n].last = new.last
          /\ n \in Known => entries'[n].status = "active"
      BY <2>2, <3>1, UpsertedIs DEF Known
    <3>4. newest'[n] = new.last /\ \A m \in Names \ {n} : newest'[m] = newest[m]
      BY <2>2, <3>1 DEF TypeOK
    <3>5. TimeInv'
      BY <2>2, <2>4, <3>4 DEF AgeInv, TimeInv, Busy
    <3>6. LastSeenLag'
      BY <1>0, <2>2, <2>3, <3>3, <3>4 DEF AgeInv, LastSeenLag
    <3>7. StaleIsOld'
      BY <2>4, <3>2, <3>3 DEF AgeInv, StaleIsOld
    <3> QED
      BY <3>5, <3>6, <3>7 DEF AgeInv
  <2> QED
    BY <1>10, <2>5, <2>6 DEF Load
<1>1. ASSUME NEW w \in Workers, Lookup(w) PROVE AgeInv'
  <2>1. PICK n \in Names, type \in Types, signal \in Signals, stamp \in Times :
          /\ Start <= stamp /\ stamp <= now /\ now - stamp <= Delay
          /\ arg' = [arg EXCEPT ![w] =
                       [name |-> n, entry |-> Found(type, signal, stamp)]]
          /\ exists' = [exists EXCEPT ![w] = n \in Known]
          /\ pc' = [pc EXCEPT ![w] = IF n \in Known THEN "merge" ELSE "admit"]
    BY <1>1, Zenon DEF Lookup
  <2>2. /\ arg'[w].entry.status = "active" /\ arg'[w].entry.last = stamp
        /\ \A v \in Workers \ {w} : arg'[v] = arg[v] /\ pc'[v] = pc[v]
    BY <2>1 DEF TypeOK, Found
  <2>3. /\ now' = now /\ entries' = entries /\ newest' = newest /\ sweepTime' = sweepTime
        /\ toLoad' = toLoad /\ asStored' = asStored
    BY <1>1 DEF Lookup, sweepVars, loadVars
  <2>4. TimeInv'
    BY <2>1, <2>2, <2>3 DEF AgeInv, TimeInv, Busy
  <2> QED
    BY <2>3, <2>4 DEF AgeInv, LastSeenLag, StaleIsOld, Known
<1>2. ASSUME NEW w \in Workers, Refuse(w) \/ Report(w) PROVE AgeInv'
  <2>1. \A v \in Workers : pc'[v] = "idle" \/ (Busy(v) /\ arg'[v] = arg[v])
    <3>1. pc' = [pc EXCEPT ![w] = "idle"] /\ arg' = [arg EXCEPT ![w] = NoArg]
      BY <1>2 DEF Refuse, Report, Return
    <3>2. pc \in [Workers -> {"idle", "admit", "merge", "tally", "report"}]
          /\ arg \in [Workers -> [name : Names, entry : Entry]]
      BY DEF TypeOK
    <3>3. pc'[w] = "idle" /\ \A v \in Workers \ {w} : pc'[v] = pc[v] /\ arg'[v] = arg[v]
      BY <3>1, <3>2
    <3> QED
      BY <3>3 DEF Busy
  <2> QED
    BY <1>2, <2>1, AgesKept DEF Refuse, Report, sweepVars, loadVars, history
<1>3. ASSUME NEW w \in Workers, Admit(w) \/ Tally(w) PROVE AgeInv'
  <2>1. \A v \in Workers : pc'[v] = "idle" \/ (Busy(v) /\ arg'[v] = arg[v])
    BY <1>3 DEF Admit, Tally, TypeOK, Busy
  <2> QED
    BY <1>3, <2>1, AgesKept DEF Admit, Tally, sweepVars, loadVars, history
<1>4. ASSUME NEW w \in Workers, Merge(w) PROVE AgeInv'
  <2> DEFINE n == arg[w].name
             new == arg[w].entry
  <2>1. new.status = "active" /\ new.last <= now /\ now - new.last <= Delay
    BY <1>4 DEF Merge, AgeInv, TimeInv, Busy
  <2>2. /\ now' = now /\ sweepTime' = sweepTime /\ arg' = arg
        /\ toLoad' = toLoad /\ asStored' = asStored \ {n}
        /\ \A v \in Workers : pc'[v] = "idle" \/ Busy(v)
    BY <1>4 DEF Merge, sweepVars, loadVars, TypeOK, Busy
  <2>3. /\ newest'[n] = IF new.last > newest[n] THEN new.last ELSE newest[n]
        /\ \A m \in Names \ {n} : newest'[m] = newest[m]
    BY <1>0, <1>4 DEF Merge, TypeOK
  <2>4. TimeInv'
    BY <1>0, <2>1, <2>2, <2>3 DEF AgeInv, TimeInv, Busy
  <2>5. /\ Known' = Known \union {n}
        /\ \A m \in Known \ {n} : entries'[m] = entries[m]
        /\ entries'[n].last = new.last /\ entries'[n].status = "active"
    <3>1. entries' = Upserted(n, new)
      BY <1>4 DEF Merge
    <3> QED
      BY <1>0, <2>1, <3>1, UpsertedIs DEF Known
  <2> HIDE DEF n, new
  <2>6. new.last \in Nat /\ n \in Names
    BY <1>0 DEF new, n
  <2>7. LastSeenLag'
    <3> SUFFICES ASSUME NEW m \in Known' PROVE entries'[m].last >= newest'[m] - Delay
      BY <2>5 DEF LastSeenLag
    <3>1. CASE m = n
      <4>1. newest[n] <= now
        BY <2>6 DEF AgeInv, TimeInv
      <4> QED
        BY <1>0, <2>1, <2>3, <2>5, <2>6, <3>1, <4>1
    <3>2. CASE m # n
      BY <1>0, <2>3, <2>5, <3>2 DEF AgeInv, LastSeenLag
    <3> QED
      BY <3>1, <3>2
  <2>8. StaleIsOld'
    BY <2>2, <2>5 DEF AgeInv, StaleIsOld
  <2> QED
    BY <2>4, <2>7, <2>8 DEF AgeInv
<1>5. ASSUME StartSweep \/ EndSweep PROVE AgeInv'
  <2>1. /\ sweepTime' \in {now, 0} /\ now' = now /\ newest' = newest /\ entries' = entries
        /\ pc' = pc /\ arg' = arg /\ toLoad' = toLoad /\ asStored' = asStored
    BY <1>5 DEF StartSweep, EndSweep, workerVars, loadVars, history
  <2> QED
    BY <1>0, <2>1 DEF AgeInv, TimeInv, LastSeenLag, StaleIsOld, Busy, Known
<1>6. ASSUME MarkStale PROVE AgeInv'
  <2>1. /\ now' = now /\ newest' = newest /\ sweepTime' = sweepTime /\ pc' = pc /\ arg' = arg
        /\ toLoad' = toLoad /\ asStored' = asStored
    BY <1>6 DEF MarkStale, workerVars, loadVars, history
  <2>2. Known' = Known /\ \A n \in Known :
          /\ entries'[n].last = entries[n].last
          /\ \/ entries'[n].status = entries[n].status
             \/ Idle(n, StaleTTL)
    BY <1>0, <1>6 DEF MarkStale, Known, Entry
  <2>3. TimeInv' /\ LastSeenLag'
    BY <2>1, <2>2 DEF AgeInv, TimeInv, LastSeenLag, Busy
  <2>4. StaleIsOld'
    <3> SUFFICES ASSUME NEW n \in Known, entries'[n].status = "stale"
                 PROVE  now - entries[n].last > StaleTTL \/ n \in asStored
      BY <2>1, <2>2 DEF StaleIsOld
    <3>1. sweepTime <= now
      BY DEF AgeInv, TimeInv
    <3> QED
      BY <1>0, <2>2, <3>1 DEF AgeInv, StaleIsOld, Idle
  <2> QED
    BY <2>3, <2>4 DEF AgeInv
<1>7. ASSUME PurgeExpired PROVE AgeInv'
  <2>1. /\ now' = now /\ newest' = newest /\ sweepTime' = sweepTime /\ pc' = pc /\ arg' = arg
        /\ toLoad' = toLoad /\ asStored' = asStored
    BY <1>7 DEF PurgeExpired, workerVars, loadVars, history
  <2>2. Known' \subseteq Known /\ \A n \in Known' : entries'[n] = entries[n]
    BY <1>7 DEF PurgeExpired, Known
  <2> QED
    BY <2>1, <2>2 DEF AgeInv, TimeInv, LastSeenLag, StaleIsOld, Busy
<1>8. ASSUME Tick PROVE AgeInv'
  <2>1. /\ now' = now + 1 /\ newest' = newest /\ sweepTime' = sweepTime /\ pc' = pc
        /\ arg' = arg /\ entries' = entries /\ toLoad' = toLoad /\ asStored' = asStored
    BY <1>8 DEF Tick, workerVars, sweepVars, loadVars, history
  <2>2. \A w \in Workers : Busy(w) => now - arg[w].entry.last < Delay
    BY <1>8 DEF Tick
  <2>3. \A i \in DOMAIN toLoad : toLoad[i] \in StoredEntry /\ toLoad[i].entry.last \in Nat
    <3>1. \A i \in DOMAIN toLoad : toLoad[i] \in StoredEntry
      BY ElementOfSeq, LenProperties DEF TypeOK
    <3> QED
      BY <3>1, IntegerTimes DEF StoredEntry, Entry
  <2> QED
    BY <1>0, <2>1, <2>2, <2>3 DEF AgeInv, TimeInv, LastSeenLag, StaleIsOld, Busy, Known
<1>9. ASSUME UNCHANGED vars PROVE AgeInv'
  BY <1>9 DEF vars, workerVars, sweepVars, loadVars, history, AgeInv, TimeInv, LastSeenLag,
              StaleIsOld, Busy, Known
<1> QED
  BY <1>1, <1>2, <1>3, <1>4, <1>5, <1>6, <1>7, <1>8, <1>9, <1>10 DEF Next, Upsert, Sweep

LEMMA AgesCorrect == Spec => [](TypeOK /\ AgeInv)
<1>1. Init => AgeInv
  <2>1. Init => \A i \in DOMAIN toLoad : toLoad[i].entry.last <= now
    BY StoresAssumption DEF Init
  <2> QED
    BY <2>1, TimeAssumption DEF Init, AgeInv, TimeInv, LastSeenLag, StaleIsOld, Busy, Known
<1> QED
  BY <1>1, AgeStep, TypeCorrect, PTL DEF Spec

(* last_seen lags the newest observation by what a task may age at most.   *)
(* (shard.go:38)                                                           *)
THEOREM LagBounded == Spec => []LastSeenLag
<1>1. AgeInv => LastSeenLag
  BY DEF AgeInv
<1> QED
  BY <1>1, AgesCorrect, PTL

(* An entry shown as stale has been idle for longer than the stale TTL, or *)
(* is as it was stored, by a process that may have had a shorter one.      *)
(* (dictionary.go:107, shard.go:45)                                        *)
THEOREM StaleCorrect == Spec => []StaleIsOld
<1>1. AgeInv => StaleIsOld
  BY DEF AgeInv
<1> QED
  BY <1>1, AgesCorrect, PTL

(* Only an attribute nobody observed for the purge TTL, short of the age   *)
(* of an out-of-order task, is ever removed.  (dictionary.go:123)          *)
THEOREM PurgeCorrect == Spec => PurgedWasIdle
<1> DEFINE WasIdle == \A n \in Known \ Known' : now - newest[n] > PurgeTTL - Delay
<1>1. TypeOK /\ AgeInv /\ [Next]_vars => [WasIdle]_vars
  <2> SUFFICES ASSUME TypeOK, AgeInv, Next, NEW n \in Known, n \notin Known'
               PROVE  now - newest[n] > PurgeTTL - Delay
    OBVIOUS
  <2>1. PurgeExpired
    <3>1. Known' = Known \/ LoadNew \/ (\E w \in Workers : Merge(w)) \/ PurgeExpired
      BY WorkerSets
    <3> QED
      BY <3>1, MergeKnown, LoadKnown
  <2>2. Idle(n, PurgeTTL)
    BY <2>1 DEF PurgeExpired, Known
  <2>3. sweepTime <= now /\ entries[n].last >= newest[n] - Delay
    BY DEF AgeInv, TimeInv, LastSeenLag
  <2>4. /\ Delay \in Nat /\ PurgeTTL \in Nat /\ now \in Nat /\ sweepTime \in Nat
        /\ newest[n] \in Int /\ entries[n].last \in Nat
    BY IntegerTimes
  <2> QED
    BY <2>2, <2>3, <2>4 DEF Idle
<1> QED
  BY <1>1, AgesCorrect, PTL DEF Spec, PurgedWasIdle

-----------------------------------------------------------------------------
\* The metrics

(* A name a running sweep has collected is in a shard the sweep has passed,*)
(* so however often workers store it again, it is not collected twice.     *)
(* (dictionary.go:117-133)                                                 *)
SweptInv ==
    /\ sweep \in {"idle", "mark"} => purged = {}
    /\ sweep = "purge" => \A n \in purged : ShardOf[n] < shard
MetricsInv == SweptInv /\ MetricsBalance

LEMMA MetricsKept ==
    ASSUME MetricsInv, sweep' = sweep, shard' = shard, purged' = purged,
           added' = added, removed' = removed, restored' = restored, Known' = Known,
           Unreported' = Unreported
    PROVE  MetricsInv'
  BY DEF MetricsInv, SweptInv, MetricsBalance

LEMMA MetricsStep == TypeOK /\ TypeOK' /\ MetricsInv /\ [Next]_vars => MetricsInv'
<1> SUFFICES ASSUME TypeOK, TypeOK', MetricsInv, [Next]_vars PROVE MetricsInv'
  OBVIOUS
<1>0. /\ IsFiniteSet(Known) /\ Cardinality(Known) \in Nat
      /\ IsFiniteSet(purged) /\ Cardinality(purged) \in Nat
      /\ IsFiniteSet(Unreported) /\ Cardinality(Unreported) \in Nat
      /\ added \in Nat /\ removed \in Nat /\ restored \in Nat
      /\ shard \in Nat /\ \A n \in Names : ShardOf[n] \in Nat
  <2>1. Shards \subseteq Nat
    BY ShardAssumption DEF Shards
  <2>2. shard \in Nat /\ \A n \in Names : ShardOf[n] \in Nat
    BY <2>1, ShardAssumption DEF TypeOK
  <2>3. added \in Nat /\ removed \in Nat /\ restored \in Nat
    BY DEF TypeOK
  <2> QED
    BY FiniteSets, <2>2, <2>3
<1>10. ASSUME LoadNew PROVE MetricsInv'
  <2>1. /\ SweptInv' /\ added' = added /\ removed' = removed /\ purged' = purged
        /\ restored' = restored + 1
    BY <1>10 DEF LoadNew, MetricsInv, SweptInv, sweepVars, metricVars
  <2>2. Unreported' = Unreported
    BY <1>10, LoadKnown DEF Unreported
  <2>3. Cardinality(Known') = Cardinality(Known) + 1
    BY <1>0, <1>10, LoadKnown, FS_AddElement
  <2> QED
    BY <1>0, <2>1, <2>2, <2>3 DEF MetricsInv, MetricsBalance
<1>11. ASSUME LoadAgain \/ LoadRefused PROVE MetricsInv'
  <2>1. Unreported' = Unreported
    BY <1>11 DEF LoadAgain, LoadRefused, Unreported, workerVars
  <2>2. Known' = Known
    BY <1>11 DEF LoadAgain, LoadRefused, Known, Upserted
  <2> QED
    BY <1>11, <2>1, <2>2, MetricsKept DEF LoadAgain, LoadRefused, sweepVars, metricVars
<1>1. ASSUME NEW w \in Workers, Lookup(w) \/ Refuse(w) \/ Admit(w) PROVE MetricsInv'
  <2>1. Unreported' = Unreported
    BY <1>1 DEF Lookup, Refuse, Admit, Return, Unreported, TypeOK
  <2> QED
    BY <1>1, <2>1, MetricsKept
    DEF Lookup, Refuse, Admit, Known, sweepVars, metricVars, loadVars
<1>2. ASSUME NEW w \in Workers, Tally(w) PROVE MetricsInv'
  <2>1. Unreported' = Unreported
    BY <1>2 DEF Tally, Unreported, TypeOK
  <2> QED
    BY <1>2, <2>1, MetricsKept DEF Tally, Known, sweepVars, metricVars, loadVars
<1>3. ASSUME NEW w \in Workers, Merge(w) PROVE MetricsInv'
  <2>1. /\ SweptInv' /\ added' = added /\ removed' = removed /\ purged' = purged
        /\ restored' = restored
    BY <1>3 DEF Merge, MetricsInv, SweptInv, sweepVars, metricVars, loadVars
  <2>2. Known' = Known \union {arg[w].name}
    BY <1>3, MergeKnown
  <2>3. CASE arg[w].name \in Known
    <3>1. Unreported' = Unreported
      BY <1>3, <2>3 DEF Merge, Unreported, TypeOK
    <3> QED
      BY <2>1, <2>2, <2>3, <3>1 DEF MetricsInv, MetricsBalance
  <2>4. CASE arg[w].name \notin Known
    <3>1. w \notin Unreported /\ Unreported' = Unreported \union {w}
      BY <1>3, <2>4 DEF Merge, Unreported, TypeOK
    <3>2. Cardinality(Unreported') = Cardinality(Unreported) + 1
      BY <1>0, <3>1, FS_AddElement
    <3>3. Cardinality(Known') = Cardinality(Known) + 1
      BY <1>0, <2>2, <2>4, FS_AddElement
    <3> QED
      BY <1>0, <2>1, <3>2, <3>3 DEF MetricsInv, MetricsBalance
  <2> QED
    BY <2>3, <2>4
<1>4. ASSUME NEW w \in Workers, Report(w) PROVE MetricsInv'
  <2>1. /\ SweptInv' /\ removed' = removed /\ purged' = purged /\ Known' = Known
        /\ restored' = restored
    BY <1>4 DEF Report, MetricsInv, SweptInv, Known, sweepVars, loadVars
  <2>2. CASE change[w] = "added"
    <3>1. w \in Unreported /\ Unreported' = Unreported \ {w}
      BY <1>4, <2>2 DEF Report, Return, Unreported, TypeOK
    <3>2. Cardinality(Unreported') = Cardinality(Unreported) - 1
      BY <1>0, <3>1, FS_RemoveElement
    <3>3. added' = added + 1
      BY <1>4, <2>2 DEF Report
    <3> QED
      BY <1>0, <2>1, <3>2, <3>3 DEF MetricsInv, MetricsBalance
  <2>3. CASE change[w] # "added"
    <3>1. Unreported' = Unreported /\ added' = added
      BY <1>4, <2>3 DEF Report, Return, Unreported, TypeOK
    <3> QED
      BY <2>1, <3>1 DEF MetricsInv, MetricsBalance
  <2> QED
    BY <2>2, <2>3
<1>5. ASSUME StartSweep PROVE MetricsInv'
  <2>1. /\ purged' = purged /\ added' = added /\ removed' = removed /\ Known' = Known
        /\ Unreported' = Unreported /\ restored' = restored
    BY <1>5 DEF StartSweep, Known, Unreported, workerVars, metricVars, loadVars
  <2> QED
    BY <1>5, <2>1 DEF StartSweep, MetricsInv, SweptInv, MetricsBalance
<1>6. ASSUME MarkStale PROVE MetricsInv'
  <2>1. /\ purged' = purged /\ added' = added /\ removed' = removed
        /\ Unreported' = Unreported /\ restored' = restored
    BY <1>6 DEF MarkStale, Unreported, workerVars, metricVars, loadVars
  <2>2. Known' = Known
    BY <1>6 DEF MarkStale, Known
  <2>3. purged = {} /\ sweep' \in {"mark", "purge"}
    BY <1>6, NextShardType DEF MarkStale, MetricsInv, SweptInv, TypeOK
  <2> QED
    BY <2>1, <2>2, <2>3 DEF MetricsInv, SweptInv, MetricsBalance
<1>7. ASSUME PurgeExpired PROVE MetricsInv'
  <2> DEFINE expired == {n \in Known : ShardOf[n] = shard /\ Idle(n, PurgeTTL)}
  <2>1. Known' = Known \ expired /\ purged' = purged \union expired
    BY <1>7 DEF PurgeExpired, Known
  <2>2. /\ added' = added /\ removed' = removed /\ restored' = restored
        /\ Unreported' = Unreported
    BY <1>7 DEF PurgeExpired, Unreported, workerVars, metricVars, loadVars
  <2>3. \A n \in purged : n \in Names /\ ShardOf[n] < shard
    <3>1. sweep = "purge"
      BY <1>7 DEF PurgeExpired
    <3> QED
      BY <3>1 DEF MetricsInv, SweptInv, TypeOK
  <2>4. expired \subseteq Known /\ \A n \in expired : n \in Names /\ ShardOf[n] = shard
    BY DEF TypeOK
  <2>5. purged \intersect expired = {} /\ expired \subseteq Known
    <3> HIDE DEF expired
    <3> QED
      BY <1>0, <2>3, <2>4
  <2>6. \A n \in purged \union expired : n \in Names /\ ShardOf[n] <= shard
    <3> HIDE DEF expired
    <3> QED
      BY <1>0, <2>3, <2>4
  <2>7. SweptInv'
    <3>1. \/ sweep' = "report"
          \/ sweep' = sweep /\ shard' = shard + 1
      BY <1>7 DEF PurgeExpired, NextShard
    <3>2. sweep = "purge"
      BY <1>7 DEF PurgeExpired
    <3> HIDE DEF expired
    <3> QED
      BY <1>0, <2>1, <2>6, <3>1, <3>2 DEF SweptInv
  <2> HIDE DEF expired
  <2>8. IsFiniteSet(expired) /\ Cardinality(expired) \in Nat
    BY <1>0, <2>5, FS_Subset, FS_CardinalityType
  <2>9. Cardinality(Known') = Cardinality(Known) - Cardinality(expired)
    <3>1. Cardinality(Known \ expired)
            = Cardinality(Known) - Cardinality(Known \intersect expired)
      BY <1>0, FS_Difference
    <3> QED
      BY <2>1, <2>5, <3>1
  <2>10. Cardinality(purged') = Cardinality(purged) + Cardinality(expired)
    <3>1. Cardinality(purged \union expired)
            = Cardinality(purged) + Cardinality(expired) - Cardinality({})
      BY <1>0, <2>5, <2>8, FS_Union
    <3> QED
      BY <1>0, <2>1, <2>8, <3>1, FS_EmptySet
  <2>11. MetricsBalance'
    BY <1>0, <2>2, <2>8, <2>9, <2>10 DEF MetricsInv, MetricsBalance
  <2> QED
    BY <2>7, <2>11 DEF MetricsInv
<1>8. ASSUME EndSweep PROVE MetricsInv'
  <2>1. /\ removed' = removed + Cardinality(purged) /\ Cardinality(purged') = 0
        /\ added' = added /\ Known' = Known /\ Unreported' = Unreported
        /\ purged' = {} /\ sweep' = "idle" /\ restored' = restored
    BY <1>8, FS_EmptySet DEF EndSweep, Known, Unreported, workerVars, loadVars
  <2> QED
    BY <1>0, <2>1 DEF MetricsInv, SweptInv, MetricsBalance
<1>9. ASSUME Tick \/ UNCHANGED vars PROVE MetricsInv'
  <2>1. Unreported' = Unreported
    BY <1>9 DEF Tick, vars, Unreported, workerVars
  <2> QED
    BY <1>9, <2>1, MetricsKept DEF Tick, vars, Known, sweepVars, metricVars, loadVars
<1> QED
  BY <1>1, <1>2, <1>3, <1>4, <1>5, <1>6, <1>7, <1>8, <1>9, <1>10, <1>11
  DEF Next, Load, Upsert, Sweep

(* Whatever database the process starts from and whatever the workers and  *)
(* the sweeper do to one another, the added and removed metrics together   *)
(* with the names the start restored, which are not counted as added,      *)
(* account for every entry.                                                *)
(* (worker_pool.go:89-100, main.go:155-157, main.go:331-336)               *)
THEOREM MetricsCorrect == Spec => []MetricsBalance
<1>1. Init => MetricsInv
  <2> SUFFICES ASSUME Init PROVE MetricsInv
    OBVIOUS
  <2>1. Known = {} /\ Unreported = {} /\ purged = {}
    BY DEF Init, Known, Unreported
  <2> QED
    BY <2>1, FS_EmptySet DEF Init, MetricsInv, SweptInv, MetricsBalance
<1>2. MetricsInv => MetricsBalance
  BY DEF MetricsInv
<1> QED
  BY <1>1, <1>2, MetricsStep, TypeCorrect, PTL DEF Spec
=============================================================================
