------------------------- MODULE CardinalityTracker -------------------------
(***************************************************************************)
(* internal/cardinality: how many distinct values an attribute has had and *)
(* which are the most frequent.  Analysis workers call TrackValue, whose   *)
(* three critical steps are separate here: the atomic counter, the lookup  *)
(* under Tracker.mu, and the update under AttrTracker.mu.  A client of the *)
(* API calls TopValues, which takes no AttrTracker.mu: it reads the sketch *)
(* and ranges over the map of seen values while a worker writes them.      *)
(***************************************************************************)
EXTENDS Naturals, FiniteSets

CONSTANTS
    Attrs, Values,
    Workers,        \* the goroutines that call TrackValue
    GlobalBudget,   \* --global-budget
    PerAttrCap,     \* --per-attr-cap
    K,              \* how many values TopValues returns
    Depth, Width,   \* the size of the count-min sketch
    Hash,           \* its hash: a column for every row and value
    Registers,      \* the registers of the HyperLogLog
    Register,       \* the one a value sets
    MaxCalls        \* bound of the model: calls of TrackValue

Rows == 1 .. Depth
Columns == 0 .. Width - 1

ASSUME SizeAssumption ==
    /\ GlobalBudget \in Nat /\ PerAttrCap \in Nat /\ K \in Nat \ {0}
    /\ Depth \in Nat \ {0} /\ Width \in Nat \ {0} /\ MaxCalls \in Nat
ASSUME SetsAssumption == IsFiniteSet(Workers) /\ Attrs # {} /\ Values # {}
ASSUME HashAssumption ==
    /\ Hash \in [Rows -> [Values -> Columns]]
    /\ Register \in [Values -> Registers]

VARIABLES
    totalEntries,   \* the atomic counter
    known,          \* the keys of attrs
    pc, call, row,  \* each worker in TrackValue: its place, arguments, loop index
    table,          \* per attribute: the sketch
    seen,           \* per attribute: the values TopK remembers
    exact,          \* per attribute: its flag
    exactCount,     \* per attribute: the exact set
    reg,            \* per attribute: the registers that are not zero
    top,            \* the call of TopValues in progress
    fault,          \* the Go runtime found a map written while it is ranged over
    times           \* history: per attribute and value, the calls recorded

callVars == <<pc, call, row>>
attrVars == <<table, seen, exact, exactCount, reg, times>>
vars == <<totalEntries, known, callVars, attrVars, top, fault>>

Calls == Attrs \X Values
NoCall == CHOOSE c \in Calls : TRUE
NoTop == [at |-> "idle"]

Init ==
    /\ totalEntries = 0 /\ known = {}
    /\ pc = [w \in Workers |-> "idle"]
    /\ call = [w \in Workers |-> NoCall]
    /\ row = [w \in Workers |-> 1]
    /\ table = [a \in Attrs |-> [r \in Rows |-> [c \in Columns |-> 0]]]
    /\ seen = [a \in Attrs |-> {}]
    /\ exact = [a \in Attrs |-> TRUE]
    /\ exactCount = [a \in Attrs |-> {}]
    /\ reg = [a \in Attrs |-> {}]
    /\ times = [a \in Attrs |-> [v \in Values |-> 0]]
    /\ top = NoTop
    /\ fault = FALSE

-----------------------------------------------------------------------------
\* TrackValue

(* totalEntries.Add(1), before any lock is taken.                          *)
Enter(w, c) ==
    /\ ~fault
    /\ pc[w] = "idle"
    /\ totalEntries < MaxCalls
    /\ totalEntries' = totalEntries + 1
    /\ pc' = [pc EXCEPT ![w] = "counted"]
    /\ call' = [call EXCEPT ![w] = c]
    /\ UNCHANGED <<known, row, attrVars, top, fault>>

OverBudget_Later == totalEntries > GlobalBudget + 1
(* The counter is of calls, of all workers: values, not attributes.        *)
OverBudget == totalEntries > GlobalBudget

(* Under Tracker.mu: the attribute's tracker, a new one, or a return.      *)
Find(w) ==
    LET a == call[w][1] IN
    /\ ~fault
    /\ pc[w] = "counted"
    /\ IF a \notin known /\ OverBudget
       THEN /\ pc' = [pc EXCEPT ![w] = "idle"]
            /\ call' = [call EXCEPT ![w] = NoCall]
            /\ UNCHANGED known
       ELSE /\ pc' = [pc EXCEPT ![w] = "found"]
            /\ known' = known \union {a}
            /\ UNCHANGED call
    /\ UNCHANGED <<totalEntries, row, attrVars, top, fault>>

Locked(a) == \E w \in Workers : pc[w] = "adding" /\ call[w][1] = a

(* tracker.mu.Lock(); the tracker's own totalCount is read nowhere.        *)
Lock(w) ==
    /\ ~fault
    /\ pc[w] = "found"
    /\ ~Locked(call[w][1])
    /\ pc' = [pc EXCEPT ![w] = "adding"]
    /\ row' = [row EXCEPT ![w] = 1]
    /\ UNCHANGED <<totalEntries, known, call, attrVars, top, fault>>

RowsAdded_Early(w) == row[w] >= Depth
RowsAdded(w) == row[w] > Depth

(* One iteration of CountMinSketch.Add.                                    *)
AddRow(w) ==
    LET a == call[w][1]
        r == row[w]
        c == Hash[r][call[w][2]] IN
    /\ ~fault
    /\ pc[w] = "adding" /\ ~RowsAdded(w)
    /\ table' = [table EXCEPT ![a][r][c] = @ + 1]
    /\ row' = [row EXCEPT ![w] = r + 1]
    /\ UNCHANGED <<totalEntries, known, pc, call, seen, exact, exactCount, reg,
                   top, times, fault>>

OverCap_Early(S) == Cardinality(S) >= PerAttrCap
OverCap(S) == Cardinality(S) > PerAttrCap

(* The rest of the critical section: seen, then the exact set or the HLL,  *)
(* and the unlock.  The exact set is never added to the HLL.  A write of   *)
(* seen while TopValues ranges over it may be noticed by the runtime,      *)
(* which then ends the process.                                            *)
Record(w) ==
    LET a == call[w][1]
        v == call[w][2] IN
    /\ ~fault
    /\ pc[w] = "adding" /\ RowsAdded(w)
    /\ seen' = [seen EXCEPT ![a] = @ \union {v}]
    /\ IF exact[a]
       THEN /\ exactCount' = [exactCount EXCEPT ![a] = @ \union {v}]
            /\ exact' = [exact EXCEPT ![a] = ~OverCap(exactCount[a] \union {v})]
            /\ UNCHANGED reg
       ELSE /\ reg' = [reg EXCEPT ![a] = @ \union {Register[v]}]
            /\ UNCHANGED <<exact, exactCount>>
    /\ times' = [times EXCEPT ![a][v] = @ + 1]
    /\ pc' = [pc EXCEPT ![w] = "idle"]
    /\ call' = [call EXCEPT ![w] = NoCall]
    /\ IF top.at = "ranging" /\ top.attr = a
       THEN fault' \in BOOLEAN
       ELSE UNCHANGED fault
    /\ UNCHANGED <<totalEntries, known, row, table, top>>

(* Cardinality(a): of the exact set, or the HLL's estimate, which for few  *)
(* values among 2^14 registers is the number of registers set.             *)
Reported(a) ==
    IF a \notin known THEN 0
    ELSE Cardinality(IF exact[a] THEN exactCount[a] ELSE reg[a])

-----------------------------------------------------------------------------
\* TopValues

RowCounts(a, v) == {table[a][r][Hash[r][v]] : r \in Rows}
(* CountMinSketch.Count: the least of the rows.  They are read one by one  *)
(* without a lock; they only grow, so what such a read returns lies between*)
(* the counts at its first and its last step.                              *)
Estimate(a, v) ==
    CHOOSE n \in RowCounts(a, v) : \A m \in RowCounts(a, v) : n <= m

TopStart(a) ==
    /\ ~fault
    /\ top.at # "ranging"
    /\ a \in known
    /\ top' = [at |-> "ranging", attr |-> a, from |-> seen[a], left |-> seen[a],
               floor |-> times[a], heap |-> {}]
    /\ UNCHANGED <<totalEntries, known, callVars, attrVars, fault>>

Least(heap) == {x \in heap : \A y \in heap : x.n <= y.n}

Pushed_WhenRoom(heap, item) ==
    {IF Cardinality(heap) < K THEN heap \union {item} ELSE heap}
(* The heap after one value: a full one gives up one of its least counts   *)
(* for a greater count.                                                    *)
Pushed(heap, item) ==
    IF Cardinality(heap) < K
    THEN {heap \union {item}}
    ELSE IF \E x \in Least(heap) : x.n < item.n
         THEN {(heap \ {x}) \union {item} : x \in Least(heap)}
         ELSE {heap}

(* One iteration of Top's range over seen, in no particular order.         *)
TopVisit(v) ==
    /\ ~fault
    /\ top.at = "ranging" /\ v \in top.left
    /\ \E h \in Pushed(top.heap, [value |-> v, n |-> Estimate(top.attr, v)]) :
        top' = [top EXCEPT !.left = @ \ {v}, !.heap = h]
    /\ UNCHANGED <<totalEntries, known, callVars, attrVars, fault>>

(* Go leaves open whether a key added during the range is produced.        *)
TopLate(v) ==
    /\ ~fault
    /\ top.at = "ranging"
    /\ v \in seen[top.attr] \ top.from
    /\ top' = [top EXCEPT !.left = @ \union {v}, !.from = @ \union {v}]
    /\ UNCHANGED <<totalEntries, known, callVars, attrVars, fault>>

TopReturn ==
    /\ ~fault
    /\ top.at = "ranging" /\ top.left = {}
    /\ top' = [top EXCEPT !.at = "returned"]
    /\ UNCHANGED <<totalEntries, known, callVars, attrVars, fault>>

Next ==
    \/ \E w \in Workers :
        \/ \E c \in Calls : Enter(w, c)
        \/ Find(w) \/ Lock(w) \/ AddRow(w) \/ Record(w)
    \/ \E a \in Attrs : TopStart(a)
    \/ \E v \in Values : TopVisit(v) \/ TopLate(v)
    \/ TopReturn

Spec == Init /\ [][Next]_vars

-----------------------------------------------------------------------------

TopType ==
    [at : {"ranging", "returned"}, attr : Attrs, from : SUBSET Values,
     left : SUBSET Values, floor : [Values -> Nat],
     heap : SUBSET [value : Values, n : Nat]]

TypeOK ==
    /\ totalEntries \in Nat
    /\ known \in SUBSET Attrs
    /\ pc \in [Workers -> {"idle", "counted", "found", "adding"}]
    /\ call \in [Workers -> Calls]
    /\ row \in [Workers -> 1 .. Depth + 1]
    /\ table \in [Attrs -> [Rows -> [Columns -> Nat]]]
    /\ seen \in [Attrs -> SUBSET Values]
    /\ exact \in [Attrs -> BOOLEAN]
    /\ exactCount \in [Attrs -> SUBSET Values]
    /\ reg \in [Attrs -> SUBSET Registers]
    /\ times \in [Attrs -> [Values -> Nat]]
    /\ \/ top = NoTop
       \/ top \in TopType /\ Cardinality(top.heap) <= K
    /\ fault \in BOOLEAN

(* The workers that counted their call and have not looked up yet.         *)
Counted == {w \in Workers : pc[w] = "counted"}

(* Workers that bump the counter together and look up later still never    *)
(* track more attributes than the budget allows.                           *)
(* (tracker.go:38-54)                                                      *)
AttrsWithinBudget == Cardinality(known) <= GlobalBudget

(* No row of the sketch, read at any moment without the lock, is below the *)
(* number of recorded calls with that value, so neither is their minimum.  *)
(* (count_min_sketch.go:23-39, tracker.go:94)                              *)
SketchNeverUndercounts ==
    \A a \in Attrs, v \in Values :
        \A n \in RowCounts(a, v) : times[a][v] <= n

Distinct(a) == {v \in Values : times[a][v] > 0}

(* While an attribute has had no more distinct values than the cap, what   *)
(* Cardinality reports is their exact number, whichever workers recorded   *)
(* them in whatever order.  (tracker.go:62-66, 72-83)                      *)
ExactUpToCap ==
    \A a \in known :
        ~Locked(a) /\ Cardinality(Distinct(a)) <= PerAttrCap
            => Reported(a) = Cardinality(Distinct(a))

(* TopValues, though it races with the workers, leaves out no value that   *)
(* was recorded, before it started, more often than a value it returns is  *)
(* reported to be, and returns fewer than K values only if there were no   *)
(* more.  (topk.go:49-70)                                                  *)
TopIsTop ==
    top.at = "returned" =>
        LET returned == {x.value : x \in top.heap} IN
        \A v \in Values \ returned :
            top.floor[v] > 0 =>
                /\ Cardinality(top.heap) = K
                /\ \A x \in top.heap : top.floor[v] <= x.n

=============================================================================
