-------------------------- MODULE CardinalityProofs --------------------------
(***************************************************************************)
(* Proofs about CardinalityTracker, for every set of attributes, values    *)
(* and workers, every budget and cap, and a sketch of any size and hash.   *)
(***************************************************************************)
EXTENDS CardinalityTracker, FiniteSetTheorems, WellFoundedInduction, TLAPS

(* The types of what TrackValue works with.                                *)
TrackType ==
    /\ totalEntries \in Nat
    /\ known \in SUBSET Attrs /\ IsFiniteSet(known)
    /\ pc \in [Workers -> {"idle", "counted", "found", "adding"}]
    /\ call \in [Workers -> Calls]
    /\ row \in [Workers -> 1 .. Depth + 1]
    /\ table \in [Attrs -> [Rows -> [Columns -> Nat]]]
    /\ times \in [Attrs -> [Values -> Nat]]

LEMMA NoCallType == NoCall \in Calls
<1>1. \E c : c \in Calls
  <2>1. PICK a \in Attrs, v \in Values : TRUE
    BY SetsAssumption
  <2>2. <<a, v>> \in Calls
    BY DEF Calls
  <2> QED
    BY <2>2
<1> QED
  BY <1>1 DEF NoCall

LEMMA HashType == \A r \in Rows, v \in Values : Hash[r][v] \in Columns
  BY HashAssumption

(* What reads and rankings of TopValues leave alone.                       *)
LEMMA TopLeavesTracker ==
    ASSUME \/ \E a \in Attrs : TopStart(a)
           \/ \E v \in Values : TopVisit(v) \/ TopLate(v)
           \/ TopReturn
           \/ UNCHANGED vars
    PROVE  UNCHANGED <<totalEntries, known, pc, call, row, table, times>>
  BY DEF TopStart, TopVisit, TopLate, TopReturn, vars, callVars, attrVars

LEMMA TrackTypeStep == TrackType /\ [Next]_vars => TrackType'
<1> SUFFICES ASSUME TrackType, [Next]_vars PROVE TrackType'
  OBVIOUS
<1> USE DEF TrackType
<1>1. ASSUME NEW w \in Workers, NEW c \in Calls, Enter(w, c) PROVE TrackType'
  BY <1>1 DEF Enter, attrVars
<1>2. ASSUME NEW w \in Workers, Find(w) PROVE TrackType'
  <2>1. call[w][1] \in Attrs
    BY DEF Calls
  <2>2. known' \in SUBSET Attrs /\ IsFiniteSet(known')
    <3>1. CASE known' = known
      BY <3>1
    <3>2. CASE known' = known \union {call[w][1]}
      BY <2>1, <3>2, FS_AddElement
    <3> QED
      BY <1>2, <3>1, <3>2 DEF Find
  <2> QED
    BY <1>2, <2>2, NoCallType DEF Find, attrVars
<1>3. ASSUME NEW w \in Workers, Lock(w) PROVE TrackType'
  <2>1. 1 \in 1 .. Depth + 1
    BY SizeAssumption
  <2> QED
    BY <1>3, <2>1 DEF Lock, attrVars
<1>4. ASSUME NEW w \in Workers, AddRow(w) PROVE TrackType'
  <2>1. row[w] \in Rows /\ row[w] + 1 \in 1 .. Depth + 1
    BY <1>4, SizeAssumption DEF AddRow, RowsAdded, Rows
  <2>2. call[w][1] \in Attrs /\ call[w][2] \in Values
    BY DEF Calls
  <2>3. Hash[row[w]][call[w][2]] \in Columns
    BY <2>1, <2>2, HashType
  <2> QED
    BY <1>4, SMTT(30), <2>1, <2>2, <2>3 DEF AddRow
<1>5. ASSUME NEW w \in Workers, Record(w) PROVE TrackType'
  <2>1. call[w][1] \in Attrs /\ call[w][2] \in Values
    BY DEF Calls
  <2> QED
    BY <1>5, <2>1, NoCallType DEF Record
<1>6. ASSUME UNCHANGED <<totalEntries, known, pc, call, row, table, times>>
      PROVE  TrackType'
  BY <1>6
<1> QED
  BY <1>1, <1>2, <1>3, <1>4, <1>5, <1>6, TopLeavesTracker DEF Next

LEMMA TrackTypeCorrect == Spec => []TrackType
<1>1. Init => TrackType
  BY NoCallType, SizeAssumption, FS_EmptySet DEF Init, TrackType
<1> QED
  BY <1>1, TrackTypeStep, PTL DEF Spec

-----------------------------------------------------------------------------
\* The budget

(* Every attribute tracked, and every worker that has counted its call and *)
(* not looked up, is one call of the counter; so the last worker to admit a*)
(* new attribute still finds the counter within the budget.                *)
(* (tracker.go:39-48)                                                      *)
CountedInv ==
    /\ Cardinality(known) + Cardinality(Counted) <= totalEntries
    /\ AttrsWithinBudget

LEMMA CountedFinite ==
    IsFiniteSet(Counted) /\ Cardinality(Counted) \in Nat
<1>1. IsFiniteSet(Counted)
  BY SetsAssumption, FS_Subset DEF Counted
<1> QED
  BY <1>1, FS_CardinalityType

(* Racing workers never track more attributes than the budget allows.      *)
(* (tracker.go:38-54)                                                      *)
THEOREM BudgetCorrect == Spec => []AttrsWithinBudget
<1>1. Init => CountedInv
  <2> SUFFICES ASSUME Init PROVE CountedInv
    OBVIOUS
  <2>1. known = {} /\ Counted = {} /\ totalEntries = 0
    BY DEF Init, Counted
  <2> QED
    BY <2>1, FS_EmptySet, SizeAssumption DEF CountedInv, AttrsWithinBudget
<1>2. TrackType /\ CountedInv /\ [Next]_vars => CountedInv'
  <2> SUFFICES ASSUME TrackType, CountedInv, [Next]_vars PROVE CountedInv'
    OBVIOUS
  <2>0. /\ Cardinality(known) \in Nat /\ Cardinality(Counted) \in Nat
        /\ totalEntries \in Nat /\ GlobalBudget \in Nat
        /\ Cardinality(known) + Cardinality(Counted) <= totalEntries
        /\ Cardinality(known) <= GlobalBudget
    BY CountedFinite, FS_CardinalityType, SizeAssumption
    DEF TrackType, CountedInv, AttrsWithinBudget
  <2>1. ASSUME NEW w \in Workers, NEW c \in Calls, Enter(w, c) PROVE CountedInv'
    <3>1. w \notin Counted /\ Counted' = Counted \union {w}
      BY <2>1 DEF Enter, Counted, TrackType
    <3>2. Cardinality(Counted') = Cardinality(Counted) + 1
      BY <3>1, CountedFinite, FS_AddElement
    <3>3. totalEntries' = totalEntries + 1 /\ known' = known
      BY <2>1 DEF Enter
    <3> QED
      BY <2>0, <3>2, <3>3 DEF CountedInv, AttrsWithinBudget
  <2>2. ASSUME NEW w \in Workers, Find(w) PROVE CountedInv'
    <3>1. w \in Counted /\ Counted' = Counted \ {w}
      BY <2>2 DEF Find, Counted, TrackType
    <3>2. Cardinality(Counted') = Cardinality(Counted) - 1
      BY <3>1, CountedFinite, FS_RemoveElement
    <3>3. totalEntries' = totalEntries
      BY <2>2 DEF Find
    <3>4. CASE known' = known
      BY <2>0, <3>2, <3>3, <3>4 DEF CountedInv, AttrsWithinBudget
    <3>5. CASE known' # known
      <4>1. /\ call[w][1] \notin known /\ known' = known \union {call[w][1]}
            /\ totalEntries <= GlobalBudget
        BY <2>0, <2>2, <3>5 DEF Find, OverBudget
      <4>2. Cardinality(known') = Cardinality(known) + 1
        BY <4>1, FS_AddElement DEF TrackType
      <4>3. Cardinality(Counted) >= 1
        BY <2>0, <3>1, CountedFinite, FS_EmptySet
      <4> QED
        BY <2>0, <3>2, <3>3, <4>1, <4>2, <4>3 DEF CountedInv, AttrsWithinBudget
    <3> QED
      BY <3>4, <3>5
  <2>3. ASSUME NEW w \in Workers, Lock(w) \/ AddRow(w) \/ Record(w) PROVE CountedInv'
    <3>1. Counted' = Counted
      BY <2>3 DEF Lock, AddRow, Record, Counted, TrackType
    <3>2. totalEntries' = totalEntries /\ known' = known
      BY <2>3 DEF Lock, AddRow, Record
    <3> QED
      BY <3>1, <3>2 DEF CountedInv, AttrsWithinBudget
  <2>4. ASSUME UNCHANGED <<totalEntries, known, pc, call, row, table, times>>
        PROVE  CountedInv'
    BY <2>4 DEF CountedInv, AttrsWithinBudget, Counted
  <2> QED
    BY <2>1, <2>2, <2>3, <2>4, TopLeavesTracker DEF Next
<1>3. CountedInv => AttrsWithinBudget
  BY DEF CountedInv
<1> QED
  BY <1>1, <1>2, <1>3, TrackTypeCorrect, PTL DEF Spec

-----------------------------------------------------------------------------
\* The sketch

Adding(w) == pc[w] = "adding"

(* Two workers are never in the critical section of one attribute.         *)
MutexInv ==
    \A v, w \in Workers :
        Adding(v) /\ Adding(w) /\ call[v][1] = call[w][1] => v = w

(* Each row counts the recorded calls, and the call being added in the rows*)
(* its loop has passed.  (count_min_sketch.go:23-28)                       *)
RowInv ==
    /\ \A a \in Attrs, v \in Values, r \in Rows :
         times[a][v] <= table[a][r][Hash[r][v]]
    /\ \A w \in Workers : Adding(w) =>
         \A r \in Rows : r < row[w] =>
            times[call[w][1]][call[w][2]] + 1
                <= table[call[w][1]][r][Hash[r][call[w][2]]]

(* A counter of the sketch, whatever its row and column, never falls.      *)
LEMMA AddRowGrows ==
    ASSUME TrackType, NEW w \in Workers, AddRow(w)
    PROVE  /\ call[w][1] \in Attrs /\ call[w][2] \in Values /\ row[w] \in Rows
           /\ \A a \in Attrs, r \in Rows, c \in Columns :
                table'[a][r][c] =
                  IF a = call[w][1] /\ r = row[w] /\ c = Hash[r][call[w][2]]
                  THEN table[a][r][c] + 1 ELSE table[a][r][c]
<1>1. call[w][1] \in Attrs /\ call[w][2] \in Values
  BY DEF Calls, TrackType
<1>2. row[w] \in Rows
  BY SizeAssumption DEF AddRow, RowsAdded, Rows, TrackType
<1>3. table' = [table EXCEPT ![call[w][1]][row[w]][Hash[row[w]][call[w][2]]] = @ + 1]
  BY DEF AddRow
<1> QED
  BY SMTT(30), <1>1, <1>2, <1>3 DEF TrackType

LEMMA RowStep == TrackType /\ MutexInv /\ RowInv /\ [Next]_vars => MutexInv' /\ RowInv'
<1> SUFFICES ASSUME TrackType, MutexInv, RowInv, [Next]_vars
             PROVE  MutexInv' /\ RowInv'
  OBVIOUS
<1>0. \A a \in Attrs, v \in Values, r \in Rows :
        /\ times[a][v] \in Nat /\ Hash[r][v] \in Columns
        /\ table[a][r][Hash[r][v]] \in Nat
  BY HashType DEF TrackType
<1>1. ASSUME NEW w \in Workers, NEW c \in Calls, Enter(w, c) PROVE MutexInv' /\ RowInv'
  BY <1>1 DEF Enter, attrVars, MutexInv, RowInv, Adding, TrackType
<1>2. ASSUME NEW w \in Workers, Find(w) PROVE MutexInv' /\ RowInv'
  <2>1. /\ table' = table /\ times' = times /\ row' = row /\ ~Adding(w) /\ ~Adding(w)'
        /\ \A v \in Workers \ {w} : pc'[v] = pc[v] /\ call'[v] = call[v]
    BY <1>2 DEF Find, attrVars, Adding, TrackType
  <2> QED
    BY <2>1 DEF MutexInv, RowInv, Adding
<1>3. ASSUME NEW w \in Workers, Lock(w) PROVE MutexInv' /\ RowInv'
  <2>1. /\ table' = table /\ times' = times /\ call' = call /\ row'[w] = 1
        /\ \A v \in Workers \ {w} : pc'[v] = pc[v] /\ row'[v] = row[v]
        /\ \A v \in Workers : ~(Adding(v) /\ call[v][1] = call[w][1])
    BY <1>3 DEF Lock, Locked, attrVars, Adding, TrackType
  <2>2. \A r \in Rows : ~(r < 1)
    BY DEF Rows
  <2>3. MutexInv'
    BY <2>1 DEF MutexInv, Adding
  <2>4. RowInv'
    BY <2>1, <2>2 DEF RowInv, Adding
  <2> QED
    BY <2>3, <2>4
<1>4. ASSUME NEW w \in Workers, AddRow(w) PROVE MutexInv' /\ RowInv'
  <2>1. /\ times' = times /\ call' = call /\ pc' = pc
        /\ row'[w] = row[w] + 1 /\ \A v \in Workers \ {w} : row'[v] = row[v]
    BY <1>4 DEF AddRow, TrackType
  <2>2. \A a \in Attrs, v \in Values, r \in Rows :
          /\ table[a][r][Hash[r][v]] <= table'[a][r][Hash[r][v]]
          /\ a = call[w][1] /\ v = call[w][2] /\ r = row[w] =>
               table'[a][r][Hash[r][v]] = table[a][r][Hash[r][v]] + 1
          /\ table'[a][r][Hash[r][v]] \in Nat
    BY <1>0, <1>4, AddRowGrows
  <2>3. MutexInv'
    BY <2>1 DEF MutexInv, Adding
  <2>4. \A a \in Attrs, v \in Values, r \in Rows :
          times'[a][v] <= table'[a][r][Hash[r][v]]
    BY <1>0, <2>1, <2>2 DEF RowInv
  <2>5. ASSUME NEW v \in Workers, Adding(v)', NEW r \in Rows, r < row'[v]
        PROVE  times'[call'[v][1]][call'[v][2]] + 1
                 <= table'[call'[v][1]][r][Hash[r][call'[v][2]]]
    <3>1. call[v][1] \in Attrs /\ call[v][2] \in Values
      BY DEF TrackType, Calls
    <3>2. CASE r < row[v]
      <4>1. times[call[v][1]][call[v][2]] + 1
              <= table[call[v][1]][r][Hash[r][call[v][2]]]
        BY <2>1, <2>5, <3>2 DEF RowInv, Adding
      <4> QED
        BY SMTT(30), <1>0, <2>1, <2>2, <3>1, <4>1
    <3>3. CASE v = w /\ r = row[w]
      <4>1. times[call[w][1]][call[w][2]] <= table[call[w][1]][r][Hash[r][call[w][2]]]
        BY <3>1, <3>3 DEF RowInv
      <4>2. table'[call[w][1]][r][Hash[r][call[w][2]]]
              = table[call[w][1]][r][Hash[r][call[w][2]]] + 1
        BY <2>2, <3>1, <3>3
      <4>3. /\ times[call[w][1]][call[w][2]] \in Nat
            /\ table[call[w][1]][r][Hash[r][call[w][2]]] \in Nat
        BY <1>0, <3>1, <3>3
      <4>4. times[call[w][1]][call[w][2]] + 1
              <= table'[call[w][1]][r][Hash[r][call[w][2]]]
        BY SMTT(30), <4>1, <4>2, <4>3
      <4>5. times' = times /\ call' = call /\ v = w
        BY <2>1, <3>3
      <4> QED
        BY <4>4, <4>5
    <3> QED
      <4>1. row[w] \in Nat /\ r \in Nat
        BY DEF TrackType, Rows
      <4> QED
        BY <2>1, <2>5, <3>2, <3>3, <4>1
  <2> QED
    BY <2>3, <2>4, <2>5 DEF RowInv
<1>5. ASSUME NEW w \in Workers, Record(w) PROVE MutexInv' /\ RowInv'
  <2>1. /\ table' = table /\ row' = row /\ Adding(w) /\ ~Adding(w)' /\ row[w] > Depth
        /\ \A v \in Workers \ {w} : pc'[v] = pc[v] /\ call'[v] = call[v]
        /\ call[w][1] \in Attrs /\ call[w][2] \in Values
    BY <1>5 DEF Record, RowsAdded, Adding, TrackType, Calls
  <2>2. \A a \in Attrs, v \in Values :
          times'[a][v] = IF a = call[w][1] /\ v = call[w][2]
                         THEN times[a][v] + 1 ELSE times[a][v]
    <3>1. times' = [times EXCEPT ![call[w][1]][call[w][2]] = @ + 1]
      BY <1>5 DEF Record
    <3> QED
      BY <2>1, <3>1 DEF TrackType
  <2>3. MutexInv'
    BY <2>1 DEF MutexInv, Adding
  <2>4. ASSUME NEW a \in Attrs, NEW v \in Values, NEW r \in Rows
        PROVE  times'[a][v] <= table'[a][r][Hash[r][v]]
    <3>1. CASE a = call[w][1] /\ v = call[w][2]
      <4>1. r < row[w]
        BY <2>1, SizeAssumption DEF Rows, TrackType
      <4> QED
        BY <2>1, <2>2, <3>1, <4>1 DEF RowInv
    <3>2. CASE ~(a = call[w][1] /\ v = call[w][2])
      BY <2>1, <2>2, <3>2 DEF RowInv
    <3> QED
      BY <3>1, <3>2
  <2>5. ASSUME NEW v \in Workers, Adding(v)', NEW r \in Rows, r < row'[v]
        PROVE  times'[call'[v][1]][call'[v][2]] + 1
                 <= table'[call'[v][1]][r][Hash[r][call'[v][2]]]
    <3>1. v # w /\ Adding(v) /\ call'[v] = call[v]
      BY <2>1, <2>5 DEF Adding
    <3>2. call[v][1] # call[w][1]
      BY <2>1, <3>1 DEF MutexInv
    <3>3. call[v][1] \in Attrs /\ call[v][2] \in Values
      BY DEF TrackType, Calls
    <3>4. times'[call[v][1]][call[v][2]] = times[call[v][1]][call[v][2]]
      BY <2>2, <3>2, <3>3
    <3> QED
      BY <2>1, <2>5, <3>1, <3>4 DEF RowInv
  <2> QED
    BY <2>3, <2>4, <2>5 DEF RowInv
<1>6. ASSUME UNCHANGED <<totalEntries, known, pc, call, row, table, times>>
      PROVE  MutexInv' /\ RowInv'
  BY <1>6 DEF MutexInv, RowInv, Adding
<1> QED
  BY <1>1, <1>2, <1>3, <1>4, <1>5, <1>6, TopLeavesTracker DEF Next

LEMMA RowCorrect == Spec => []RowInv
<1>1. Init => MutexInv /\ RowInv
  <2> SUFFICES ASSUME Init PROVE MutexInv /\ RowInv
    OBVIOUS
  <2>1. MutexInv
    BY DEF Init, MutexInv, Adding
  <2>2. \A a \in Attrs, v \in Values, r \in Rows :
          times[a][v] = 0 /\ table[a][r][Hash[r][v]] = 0
    BY HashType DEF Init
  <2>3. RowInv
    BY <2>2 DEF Init, RowInv, Adding
  <2> QED
    BY <2>1, <2>3
<1> QED
  BY <1>1, RowStep, TrackTypeCorrect, PTL DEF Spec

(* Read at any moment and without the lock, no row of the sketch is below  *)
(* the recorded calls with a value.                                        *)
(* (count_min_sketch.go:23-39, tracker.go:94)                              *)
THEOREM SketchCorrect == Spec => []SketchNeverUndercounts
<1>1. RowInv => SketchNeverUndercounts
  BY DEF RowInv, SketchNeverUndercounts, RowCounts
<1> QED
  BY <1>1, RowCorrect, PTL

-----------------------------------------------------------------------------
\* The exact counts

(* What else TrackValue works with.                                        *)
MemoType ==
    /\ seen \in [Attrs -> SUBSET Values]
    /\ exact \in [Attrs -> BOOLEAN]
    /\ exactCount \in [Attrs -> SUBSET Values]
    /\ reg \in [Attrs -> SUBSET Registers]
    /\ fault \in BOOLEAN

memo == <<seen, exact, exactCount, reg, times>>

(* Only the end of the critical section touches it.                        *)
LEMMA MemoLeft ==
    ASSUME [Next]_vars, \A w \in Workers : ~Record(w)
    PROVE  UNCHANGED <<memo, fault>>
  BY DEF Next, Enter, Find, Lock, AddRow, TopStart, TopVisit, TopLate, TopReturn, vars,
         callVars, attrVars, memo

(* What the end of the critical section adds.                              *)
LEMMA RecordAdds ==
    ASSUME TrackType, MemoType, NEW w \in Workers, Record(w)
    PROVE  \E a \in Attrs, v \in Values :
        /\ a = call[w][1] /\ v = call[w][2]
        /\ seen' \in [Attrs -> SUBSET Values]
        /\ \A b \in Attrs : seen'[b] = IF b = a THEN seen[b] \union {v} ELSE seen[b]
        /\ times' \in [Attrs -> [Values -> Nat]]
        /\ \A b \in Attrs, u \in Values :
              times'[b][u] = IF b = a /\ u = v THEN times[b][u] + 1 ELSE times[b][u]
<1>1. call[w][1] \in Attrs /\ call[w][2] \in Values
  BY DEF TrackType, Calls
<1>2. /\ seen' = [seen EXCEPT ![call[w][1]] = @ \union {call[w][2]}]
      /\ times' = [times EXCEPT ![call[w][1]][call[w][2]] = @ + 1]
  BY DEF Record
<1>3. /\ seen' \in [Attrs -> SUBSET Values]
      /\ \A b \in Attrs : seen'[b] = IF b = call[w][1] THEN seen[b] \union {call[w][2]}
                                     ELSE seen[b]
  BY <1>1, <1>2 DEF MemoType
<1>4. /\ times' \in [Attrs -> [Values -> Nat]]
      /\ \A b \in Attrs, u \in Values :
            times'[b][u] = IF b = call[w][1] /\ u = call[w][2]
                           THEN times[b][u] + 1 ELSE times[b][u]
  BY <1>1, <1>2 DEF TrackType
<1> QED
  BY <1>1, <1>3, <1>4

LEMMA MemoTypeStep == TrackType /\ MemoType /\ [Next]_vars => MemoType'
<1> SUFFICES ASSUME TrackType, MemoType, [Next]_vars PROVE MemoType'
  OBVIOUS
<1>1. ASSUME NEW w \in Workers, Record(w) PROVE MemoType'
  <2>1. call[w][1] \in Attrs /\ call[w][2] \in Values
    BY DEF TrackType, Calls
  <2>2. Register[call[w][2]] \in Registers
    BY <2>1, HashAssumption
  <2> QED
    BY <1>1, <2>1, <2>2 DEF Record, MemoType
<1>2. CASE \A w \in Workers : ~Record(w)
  BY <1>2, MemoLeft DEF MemoType, memo
<1> QED
  BY <1>1, <1>2

(* A value is seen once it was recorded; while the flag says so the exact  *)
(* set is the set of values recorded, and when it falls, more than the cap *)
(* have been.  (tracker.go:58-68)                                          *)
ExactInv ==
    \A a \in Attrs :
        /\ IsFiniteSet(Distinct(a)) /\ Distinct(a) \subseteq seen[a]
        /\ IF exact[a] THEN exactCount[a] = Distinct(a)
           ELSE Cardinality(Distinct(a)) > PerAttrCap

LEMMA ExactStep == TrackType /\ MemoType /\ ExactInv /\ [Next]_vars => ExactInv'
<1> SUFFICES ASSUME TrackType, MemoType, ExactInv, [Next]_vars PROVE ExactInv'
  OBVIOUS
<1>1. ASSUME NEW w \in Workers, Record(w) PROVE ExactInv'
  <2>1. PICK a \in Attrs, v \in Values :
          /\ a = call[w][1] /\ v = call[w][2]
          /\ \A b \in Attrs : seen'[b] = IF b = a THEN seen[b] \union {v} ELSE seen[b]
          /\ \A b \in Attrs, u \in Values :
                times'[b][u] = IF b = a /\ u = v THEN times[b][u] + 1 ELSE times[b][u]
    BY <1>1, RecordAdds
  <2>2. \A b \in Attrs : Distinct(b)' = IF b = a THEN Distinct(b) \union {v} ELSE Distinct(b)
    BY <2>1 DEF Distinct, TrackType
  <2>3. ASSUME NEW b \in Attrs, b # a
        PROVE  exact'[b] = exact[b] /\ exactCount'[b] = exactCount[b]
    BY <1>1, <2>1, <2>3 DEF Record, MemoType
  <2>4. /\ IsFiniteSet(Distinct(a) \union {v})
        /\ Cardinality(Distinct(a) \union {v}) \in Nat
        /\ Cardinality(Distinct(a)) \in Nat
        /\ Cardinality(Distinct(a) \union {v}) >= Cardinality(Distinct(a))
    <3>1. IsFiniteSet(Distinct(a))
      BY DEF ExactInv
    <3>2. /\ IsFiniteSet(Distinct(a) \union {v})
          /\ Cardinality(Distinct(a) \union {v}) =
                IF v \in Distinct(a) THEN Cardinality(Distinct(a)) ELSE Cardinality(Distinct(a)) + 1
      BY <3>1, FS_AddElement, Zenon
    <3>3. Cardinality(Distinct(a)) \in Nat
      BY <3>1, FS_CardinalityType
    <3> QED
      BY <3>2, <3>3
  <2>7. ASSUME NEW b \in Attrs
        PROVE  IsFiniteSet(Distinct(b)') /\ Distinct(b)' \subseteq seen'[b]
    BY <2>1, <2>2, <2>4 DEF ExactInv
  <2>8. ASSUME NEW b \in Attrs, b # a
        PROVE  IF exact'[b] THEN exactCount'[b] = Distinct(b)'
               ELSE Cardinality(Distinct(b)') > PerAttrCap
    BY <2>2, <2>3, <2>8 DEF ExactInv
  <2>5. CASE exact[a]
    <3>1. /\ exactCount' = [exactCount EXCEPT ![a] = @ \union {v}]
          /\ exact' = [exact EXCEPT ![a] = ~OverCap(exactCount[a] \union {v})]
      BY <1>1, <2>1, <2>5, Zenon DEF Record
    <3>2. exactCount[a] = Distinct(a)
      BY <2>5 DEF ExactInv
    <3>3. exactCount'[a] = Distinct(a) \union {v}
      BY <3>1, <3>2 DEF MemoType
    <3>4. exact'[a] = ~OverCap(Distinct(a) \union {v})
      BY <3>1, <3>2, Zenon DEF MemoType
    <3>5. exact'[a] = ~(Cardinality(Distinct(a) \union {v}) > PerAttrCap)
      BY <3>4, Zenon DEF OverCap
    <3> QED
      BY <2>2, <2>7, <2>8, <3>3, <3>5 DEF ExactInv
  <2>6. CASE ~exact[a]
    <3>1. exact' = exact /\ exactCount' = exactCount
      BY <1>1, <2>1, <2>6 DEF Record
    <3>2. Cardinality(Distinct(a) \union {v}) > PerAttrCap
      BY <2>4, <2>6, SizeAssumption DEF ExactInv
    <3> QED
      BY <2>2, <2>6, <2>7, <2>8, <3>1, <3>2 DEF ExactInv
  <2> QED
    BY <2>5, <2>6
<1>2. CASE \A w \in Workers : ~Record(w)
  BY <1>2, MemoLeft DEF ExactInv, Distinct, memo
<1> QED
  BY <1>1, <1>2

LEMMA MemoCorrect == Spec => [](MemoType /\ ExactInv)
<1>1. Init => MemoType /\ ExactInv
  <2> SUFFICES ASSUME Init PROVE MemoType /\ ExactInv
    OBVIOUS
  <2>1. \A a \in Attrs : Distinct(a) = {}
    BY DEF Init, Distinct
  <2> QED
    BY <2>1, FS_EmptySet DEF Init, MemoType, ExactInv
<1> QED
  BY <1>1, MemoTypeStep, ExactStep, TrackTypeCorrect, PTL DEF Spec

(* Up to the cap the reported cardinality is the exact number of distinct  *)
(* values recorded, whichever workers recorded them in whatever order.     *)
(* (tracker.go:62-66, 72-83)                                               *)
THEOREM ExactCorrect == Spec => []ExactUpToCap
<1>1. TrackType /\ MemoType /\ ExactInv => ExactUpToCap
  <2> SUFFICES ASSUME TrackType, MemoType, ExactInv, NEW a \in known,
                      Cardinality(Distinct(a)) <= PerAttrCap
               PROVE  Reported(a) = Cardinality(Distinct(a))
    BY DEF ExactUpToCap
  <2>1. a \in Attrs /\ Cardinality(Distinct(a)) \in Nat
    BY FS_CardinalityType DEF TrackType, ExactInv
  <2>2. exact[a] /\ exactCount[a] = Distinct(a)
    BY <2>1, SizeAssumption DEF ExactInv, MemoType
  <2> QED
    BY <2>2 DEF Reported
<1> QED
  BY <1>1, TrackTypeCorrect, MemoCorrect, PTL

-----------------------------------------------------------------------------
\* The top values

(* Every set of natural numbers that is not empty has a least one.         *)
LEMMA LeastOfNaturals ==
    ASSUME NEW T, T \subseteq Nat, T # {}
    PROVE  \E x \in T : \A y \in T : x <= y
<1> DEFINE R == {ss \in Nat \X Nat : ss[1] < ss[2]}
<1>1. IsWellFoundedOn(R, Nat)
  BY NatLessThanWellFounded, Zenon DEF OpToRel
<1> HIDE DEF R
<1>2. PICK x \in T : \A y \in T : ~ (<<y, x>> \in R)
  BY <1>1, WFMin, Zenon
<1>3. \A y \in T : ~ (y < x)
  BY <1>2 DEF R
<1> QED
  BY <1>3

(* The sketch's answer is one of its rows, hence no undercount.            *)
(* (count_min_sketch.go:30-39)                                             *)
LEMMA EstimateCovers ==
    ASSUME TrackType, RowInv, NEW a \in Attrs, NEW v \in Values
    PROVE  Estimate(a, v) \in Nat /\ times[a][v] <= Estimate(a, v)
<1>1. RowCounts(a, v) \subseteq Nat /\ RowCounts(a, v) # {}
  <2>1. \A r \in Rows : table[a][r][Hash[r][v]] \in Nat
    BY HashType DEF TrackType
  <2>2. 1 \in Rows
    BY SizeAssumption DEF Rows
  <2> QED
    BY <2>1, <2>2 DEF RowCounts
<1>2. \E n \in RowCounts(a, v) : \A m \in RowCounts(a, v) : n <= m
  BY <1>1, LeastOfNaturals
<1>3. Estimate(a, v) \in RowCounts(a, v)
  BY <1>2, Zenon DEF Estimate
<1>4. \A n \in RowCounts(a, v) : times[a][v] <= n
  BY DEF RowInv, RowCounts
<1> QED
  BY <1>1, <1>3, <1>4

HeapOK(h) ==
    /\ h \subseteq [value : Values, n : Nat]
    /\ IsFiniteSet(h) /\ Cardinality(h) <= K

TopTypeInv == top = NoTop \/ (top \in TopType /\ HeapOK(top.heap))

(* A heap has a least element, ...                                         *)
LEMMA LeastExists ==
    ASSUME NEW h, HeapOK(h), h # {}
    PROVE  \E x \in h : x \in Least(h) /\ \A y \in h : x.n <= y.n
<1> DEFINE T == {x.n : x \in h}
<1>1. T \subseteq Nat /\ T # {}
  BY DEF HeapOK
<1>2. PICK n \in T : \A m \in T : n <= m
  BY <1>1, LeastOfNaturals
<1>3. PICK x \in h : x.n = n
  OBVIOUS
<1>4. \A y \in h : x.n <= y.n
  BY <1>2, <1>3
<1> QED
  BY <1>4 DEF Least

(* ... and stays one: full once it is full, with the new item in it, or a  *)
(* least element of it gone, or the new item no greater than any.          *)
(* (topk.go:56-66)                                                         *)
LEMMA PushedIsHeap ==
    ASSUME NEW h, HeapOK(h), NEW i \in [value : Values, n : Nat], i \notin h,
           NEW g \in Pushed(h, i)
    PROVE  /\ HeapOK(g)
           /\ \/ Cardinality(h) < K /\ g = h \union {i}
              \/ /\ Cardinality(h) = K /\ Cardinality(g) = K
                 /\ \E x \in h : /\ g = (h \ {x}) \union {i} /\ x.n < i.n
                                 /\ \A y \in h : x.n <= y.n
              \/ /\ Cardinality(h) = K /\ g = h
                 /\ \A y \in h : i.n <= y.n
<1>0. Cardinality(h) \in Nat /\ K \in Nat \ {0} /\ IsFiniteSet(h) /\ Cardinality(h) <= K
  BY FS_CardinalityType, SizeAssumption DEF HeapOK
<1>1. CASE Cardinality(h) < K
  <2>1. g = h \union {i}
    BY <1>1, Zenon DEF Pushed
  <2>2. IsFiniteSet(g) /\ Cardinality(g) = Cardinality(h) + 1
    BY <1>0, <2>1, FS_AddElement
  <2> QED
    BY <1>0, <1>1, <2>1, <2>2 DEF HeapOK
<1>2. CASE Cardinality(h) = K
  <2>0. ~(Cardinality(h) < K)
    BY <1>0, <1>2
  <2>1. h # {}
    BY <1>0, <1>2, FS_EmptySet
  <2>2. CASE \E x \in Least(h) : x.n < i.n
    <3>1. PICK x \in Least(h) : g = (h \ {x}) \union {i}
      BY <2>0, <2>2, Zenon DEF Pushed
    <3>2. PICK z \in Least(h) : z.n < i.n
      BY <2>2
    <3>3. x \in h /\ z \in h /\ (\A y \in h : x.n <= y.n) /\ x.n \in Nat /\ z.n \in Nat
      BY DEF Least, HeapOK
    <3>4. x.n < i.n
      BY <3>2, <3>3
    <3>5. IsFiniteSet(h \ {x}) /\ Cardinality(h \ {x}) = K - 1
      BY <1>0, <1>2, <3>3, FS_RemoveElement
    <3>6. IsFiniteSet(g) /\ Cardinality(g) = K - 1 + 1
      BY <3>1, <3>5, FS_AddElement
    <3> QED
      BY <1>0, <1>2, <3>1, <3>3, <3>4, <3>6 DEF HeapOK
  <2>3. CASE ~ \E x \in Least(h) : x.n < i.n
    <3>1. g = h
      BY <2>0, <2>3, Zenon DEF Pushed
    <3>2. PICK x \in h : x \in Least(h) /\ \A y \in h : x.n <= y.n
      BY <2>1, LeastExists
    <3>3. \A y \in h : y.n \in Nat
      BY DEF HeapOK
    <3> QED
      BY <1>2, <2>3, <3>1, <3>2, <3>3
  <2> QED
    BY <2>2, <2>3
<1> QED
  BY <1>0, <1>1, <1>2

(* A call of TopValues: the values it has visited are in the heap, or the  *)
(* heap is full of counts no less than they had at its start; it visits all*)
(* that had been recorded then.                                            *)
Visited == top.from \ top.left
InHeap == {x.value : x \in top.heap}
TopInv ==
    top # NoTop =>
        /\ top.left \subseteq top.from /\ InHeap \subseteq Visited
        /\ \A v \in Values : top.floor[v] <= times[top.attr][v]
        /\ \A v \in Values : top.floor[v] > 0 => v \in top.from
        /\ \A x \in top.heap : top.floor[x.value] <= x.n
        /\ \A v \in Visited \ InHeap :
              Cardinality(top.heap) = K /\ \A x \in top.heap : top.floor[v] <= x.n
        /\ top.at = "returned" => top.left = {}

TopAll == TopTypeInv /\ TopInv

(* While the call is under way the counts only grow.                       *)
LEMMA TopGrows ==
    ASSUME TrackType, MemoType, TopAll, top' = top,
           \A a \in Attrs, v \in Values : times[a][v] <= times'[a][v],
           times' \in [Attrs -> [Values -> Nat]]
    PROVE  TopAll'
<1>1. TopTypeInv'
  BY DEF TopAll, TopTypeInv, HeapOK
<1>2. ASSUME top # NoTop PROVE \A v \in Values : top.floor[v] <= times'[top.attr][v]
  <2>1. top.attr \in Attrs /\ \A v \in Values : top.floor[v] \in Nat
    BY <1>2 DEF TopAll, TopTypeInv, TopType
  <2>2. \A v \in Values : /\ top.floor[v] <= times[top.attr][v]
                          /\ times[top.attr][v] \in Nat /\ times'[top.attr][v] \in Nat
                          /\ times[top.attr][v] <= times'[top.attr][v]
    BY <1>2, <2>1 DEF TopAll, TopInv, TrackType
  <2> QED
    BY <2>1, <2>2
<1> QED
  BY <1>1, <1>2 DEF TopAll, TopInv, Visited, InHeap

LEMMA TopStartStep ==
    ASSUME TrackType, MemoType, ExactInv, NEW a \in Attrs, TopStart(a)
    PROVE  TopAll'
<1>1. /\ top' = [at |-> "ranging", attr |-> a, from |-> seen[a], left |-> seen[a],
                 floor |-> times[a], heap |-> {}]
      /\ times' = times
  BY DEF TopStart, attrVars
<1>2. HeapOK({})
  BY FS_EmptySet, SizeAssumption DEF HeapOK
<1>3. /\ top'.at = "ranging" /\ top'.attr = a /\ top'.from = seen[a] /\ top'.left = seen[a]
      /\ top'.floor = times[a] /\ top'.heap = {}
  BY <1>1
<1>4. top' \in TopType
  BY <1>1 DEF TopType, MemoType, TrackType
<1>5. TopTypeInv'
  BY <1>2, <1>3, <1>4 DEF TopTypeInv, HeapOK
<1>6. \A v \in Values : times[a][v] > 0 => v \in seen[a]
  BY DEF ExactInv, Distinct
<1>7. \A v \in Values : times[a][v] \in Nat
  BY DEF TrackType
<1> QED
  BY <1>1, <1>3, <1>5, <1>6, <1>7 DEF TopAll, TopInv, Visited, InHeap

LEMMA RangingIsCall ==
    ASSUME TopAll, top.at = "ranging"
    PROVE  top # NoTop /\ top \in TopType /\ HeapOK(top.heap) /\ top.left \subseteq top.from
<1>1. top # NoTop
  <2>1. NoTop.at = "idle"
    BY DEF NoTop
  <2> QED
    BY <2>1
<1>2. top \in TopType /\ HeapOK(top.heap)
  BY <1>1 DEF TopAll, TopTypeInv
<1> QED
  BY <1>1, <1>2 DEF TopAll, TopInv

LEMMA TopVisitStep ==
    ASSUME TrackType, RowInv, TopAll, NEW v \in Values, TopVisit(v)
    PROVE  TopAll'
<1> DEFINE i == [value |-> v, n |-> Estimate(top.attr, v)]
<1>1. /\ top # NoTop /\ top \in TopType /\ HeapOK(top.heap) /\ top.at = "ranging"
      /\ v \in top.left /\ top.left \subseteq top.from
  BY RangingIsCall DEF TopVisit
<1>2. PICK h \in Pushed(top.heap, i) : top' = [top EXCEPT !.left = @ \ {v}, !.heap = h]
  BY DEF TopVisit
<1>3. top.attr \in Attrs
  BY <1>1 DEF TopType
<1>4. /\ i \in [value : Values, n : Nat] /\ i.value = v
      /\ times[top.attr][v] <= i.n
  BY <1>3, EstimateCovers
<1> HIDE DEF i
<1>5. i \notin top.heap
  BY <1>1, <1>4 DEF TopAll, TopInv, InHeap, Visited
<1>6. /\ HeapOK(h)
      /\ \/ Cardinality(top.heap) < K /\ h = top.heap \union {i}
         \/ /\ Cardinality(top.heap) = K /\ Cardinality(h) = K
            /\ \E x \in top.heap : /\ h = (top.heap \ {x}) \union {i} /\ x.n < i.n
                                   /\ \A y \in top.heap : x.n <= y.n
         \/ /\ Cardinality(top.heap) = K /\ h = top.heap
            /\ \A y \in top.heap : i.n <= y.n
  BY <1>1, <1>2, <1>4, <1>5, PushedIsHeap
<1>7. /\ top'.at = "ranging" /\ top'.attr = top.attr /\ top'.from = top.from
      /\ top'.left = top.left \ {v} /\ top'.floor = top.floor /\ top'.heap = h
      /\ top' \in TopType /\ times' = times
  BY <1>1, <1>2, <1>6 DEF TopType, HeapOK, TopVisit, attrVars
<1>8. TopTypeInv'
  BY <1>6, <1>7 DEF TopTypeInv, HeapOK
<1>9. /\ Visited' = Visited \union {v}
      /\ InHeap' = {x.value : x \in h}
  BY <1>1, <1>7 DEF Visited, InHeap
<1>10. \A u \in Values : top.floor[u] \in Nat /\ times[top.attr][u] \in Nat
  BY <1>1, <1>3 DEF TopType, TrackType
<1>11. /\ InHeap \subseteq Visited /\ Visited \subseteq Values
       /\ \A u \in Values : top.floor[u] <= times[top.attr][u]
       /\ \A x \in top.heap : top.floor[x.value] <= x.n
       /\ \A u \in Visited \ InHeap :
              Cardinality(top.heap) = K /\ \A x \in top.heap : top.floor[u] <= x.n
  BY <1>1 DEF TopAll, TopInv, TopType, Visited
<1>12. i.n \in Nat /\ top.floor[v] <= i.n /\ \A x \in top.heap : x.n \in Nat /\ x.value \in Values
  BY <1>1, <1>4, <1>10, <1>11 DEF HeapOK
<1>13. /\ {x.value : x \in h} \subseteq Visited \union {v}
       /\ \A x \in h : top.floor[x.value] <= x.n
  <2>1. h \subseteq top.heap \union {i}
    BY <1>6
  <2> QED
    BY <2>1, <1>4, <1>11, <1>12 DEF InHeap
<1>14. ASSUME NEW u \in (Visited \union {v}) \ {x.value : x \in h}
       PROVE  Cardinality(h) = K /\ \A x \in h : top.floor[u] <= x.n
  <2>0. u \in Values
    BY <1>11
  <2>1. CASE Cardinality(top.heap) < K /\ h = top.heap \union {i}
    <3>1. u \notin InHeap /\ u # v
      BY <1>4, <2>1 DEF InHeap
    <3>2. Cardinality(top.heap) = K
      BY <1>11, <3>1
    <3> QED
      BY <2>1, <3>2, SizeAssumption
  <2>2. ASSUME Cardinality(h) = K, Cardinality(top.heap) = K,
               NEW x \in top.heap, h = (top.heap \ {x}) \union {i}, x.n < i.n,
               \A y \in top.heap : x.n <= y.n
        PROVE  Cardinality(h) = K /\ \A y \in h : top.floor[u] <= y.n
    <3>1. u # v
      BY <1>4, <2>2
    <3>2. top.floor[u] <= x.n
      <4>1. CASE u \in InHeap
        <5>1. PICK z \in top.heap : u = z.value
          BY <4>1 DEF InHeap
        <5>2. z = x
          BY <2>2, <5>1
        <5> QED
          BY <1>11, <5>1, <5>2
      <4>2. CASE u \notin InHeap
        BY <1>11, <3>1, <4>2
      <4> QED
        BY <4>1, <4>2
    <3>3. \A y \in h : x.n <= y.n /\ y.n \in Nat
      BY <1>12, <2>2
    <3> QED
      BY <1>10, <1>12, <2>0, <2>2, <3>2, <3>3
  <2>3. CASE /\ Cardinality(top.heap) = K /\ h = top.heap
             /\ \A y \in top.heap : i.n <= y.n
    <3>1. CASE u = v
      BY <1>10, <1>12, <2>3, <3>1
    <3>2. CASE u # v
      BY <1>11, <2>3, <3>2 DEF InHeap
    <3> QED
      BY <3>1, <3>2
  <2> QED
    BY <1>6, <2>1, <2>2, <2>3
<1>15. \A u \in Values : top.floor[u] > 0 => u \in top.from
  BY <1>1 DEF TopAll, TopInv
<1> QED
  BY <1>1, <1>7, <1>8, <1>9, <1>11, <1>13, <1>14, <1>15 DEF TopAll, TopInv

LEMMA TopLateStep ==
    ASSUME MemoType, TopAll, NEW v \in Values, TopLate(v)
    PROVE  TopAll'
<1>1. /\ top # NoTop /\ top \in TopType /\ HeapOK(top.heap) /\ top.at = "ranging"
      /\ v \notin top.from /\ top.left \subseteq top.from
  BY RangingIsCall DEF TopLate
<1>2. top' = [top EXCEPT !.left = @ \union {v}, !.from = @ \union {v}]
  BY DEF TopLate
<1>3. /\ top'.at = "ranging" /\ top'.attr = top.attr /\ top'.from = top.from \union {v}
      /\ top'.left = top.left \union {v} /\ top'.floor = top.floor /\ top'.heap = top.heap
      /\ top' \in TopType
  BY <1>1, <1>2 DEF TopType
<1>5. times' = times
  BY DEF TopLate, attrVars
<1>4. Visited' = Visited /\ InHeap' = InHeap
  BY <1>1, <1>3 DEF Visited, InHeap
<1> QED
  BY <1>1, <1>3, <1>4, <1>5 DEF TopAll, TopInv, TopTypeInv, HeapOK

LEMMA TopReturnStep ==
    ASSUME TopAll, TopReturn
    PROVE  TopAll'
<1>1. top # NoTop /\ top \in TopType /\ HeapOK(top.heap) /\ top.left = {}
  BY RangingIsCall DEF TopReturn
<1>2. top' = [top EXCEPT !.at = "returned"] /\ times' = times
  BY DEF TopReturn, attrVars
<1>3. /\ top'.attr = top.attr /\ top'.from = top.from
      /\ top'.left = {} /\ top'.floor = top.floor /\ top'.heap = top.heap
      /\ top' \in TopType
  BY <1>1, <1>2 DEF TopType
<1> QED
  BY <1>1, <1>2, <1>3 DEF TopAll, TopInv, TopTypeInv, HeapOK, Visited, InHeap

LEMMA TopStep ==
    TrackType /\ MemoType /\ ExactInv /\ RowInv /\ TopAll /\ [Next]_vars => TopAll'
<1> SUFFICES ASSUME TrackType, MemoType, ExactInv, RowInv, TopAll, [Next]_vars PROVE TopAll'
  OBVIOUS
<1>1. ASSUME NEW a \in Attrs, TopStart(a) PROVE TopAll'
  BY <1>1, TopStartStep
<1>2. ASSUME NEW v \in Values, TopVisit(v) PROVE TopAll'
  BY <1>2, TopVisitStep
<1>3. ASSUME NEW v \in Values, TopLate(v) PROVE TopAll'
  BY <1>3, TopLateStep
<1>4. CASE TopReturn
  BY <1>4, TopReturnStep
<1>5. ASSUME NEW w \in Workers, Record(w) PROVE TopAll'
  <2>1. /\ times' \in [Attrs -> [Values -> Nat]]
        /\ \A b \in Attrs, u \in Values :
              times'[b][u] = times[b][u] \/ times'[b][u] = times[b][u] + 1
    BY <1>5, RecordAdds
  <2>2. \A b \in Attrs, u \in Values : times[b][u] \in Nat
    BY DEF TrackType
  <2>3. \A b \in Attrs, u \in Values : times[b][u] <= times'[b][u]
    BY <2>1, <2>2
  <2>4. top' = top
    BY <1>5 DEF Record
  <2> QED
    BY <2>1, <2>3, <2>4, TopGrows
<1>6. ASSUME top' = top, times' = times PROVE TopAll'
  BY <1>6 DEF TopAll, TopTypeInv, TopInv, HeapOK, Visited, InHeap
<1>7. ASSUME NEW w \in Workers,
             (\E c \in Calls : Enter(w, c)) \/ Find(w) \/ Lock(w) \/ AddRow(w)
      PROVE  top' = top /\ times' = times
  BY <1>7 DEF Enter, Find, Lock, AddRow, attrVars
<1>8. CASE UNCHANGED vars
  BY <1>6, <1>8 DEF vars, attrVars
<1> QED
  BY <1>1, <1>2, <1>3, <1>4, <1>5, <1>6, <1>7, <1>8 DEF Next

LEMMA TopCorrectAll == Spec => [](TrackType /\ MemoType /\ TopAll)
<1>1. Init => TopAll
  BY Zenon DEF Init, TopAll, TopTypeInv, TopInv
<1>2. Spec => []RowInv
  BY RowCorrect, PTL
<1> QED
  BY <1>1, <1>2, TopStep, TrackTypeCorrect, MemoCorrect, PTL DEF Spec

(* The tracker, the sketch, the counts and the reader keep their types, and*)
(* the heap its size.                                                      *)
THEOREM TypeCorrect == Spec => []TypeOK
<1>1. TrackType /\ MemoType /\ TopAll => TypeOK
  BY DEF TrackType, MemoType, TopAll, TopTypeInv, HeapOK, TypeOK
<1> QED
  BY <1>1, TopCorrectAll, PTL

(* The values TopValues returns are the top ones: none that it leaves out  *)
(* was recorded, before it began, more often than one it returns is said to*)
(* be, and it returns fewer than K only if there were no more.             *)
(* (topk.go:49-70)                                                         *)
THEOREM TopCorrect == Spec => []TopIsTop
<1>1. MemoType /\ TopAll => TopIsTop
  <2> SUFFICES ASSUME TopAll, top.at = "returned", NEW v \in Values \ InHeap,
                      top.floor[v] > 0
               PROVE  /\ Cardinality(top.heap) = K
                      /\ \A x \in top.heap : top.floor[v] <= x.n
    BY DEF TopIsTop, InHeap
  <2>1. top # NoTop
    BY DEF NoTop
  <2>2. v \in Visited \ InHeap
    BY <2>1 DEF TopAll, TopInv, Visited
  <2> QED
    BY <2>1, <2>2, Zenon DEF TopAll, TopInv
<1> QED
  BY <1>1, TopCorrectAll, PTL
=============================================================================
