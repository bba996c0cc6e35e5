------------------------------ MODULE ApiProofs -----------------------------
(***************************************************************************)
(* List is exact for every set of names, any number of shards and any      *)
(* filters and limits, though it is no snapshot; and a client that reads   *)
(* the dictionary page after page misses nothing unless a match is purged, *)
(* and is shown nothing twice unless something comes to match.             *)
(*                                                                         *)
(* The builder's preview is current at rest for any number of edits and    *)
(* any order of answers, what its validation lets through is generated but *)
(* for the lists it judges otherwise than the server, the files generated  *)
(* hold all that was authored, and their rules find fault only with what   *)
(* breaks a check of the page.                                             *)
(***************************************************************************)
EXTENDS DictionaryListing, BuilderSession, FiniteSetTheorems, SequenceTheorems,
        WellFoundedInduction, TLAPS

-----------------------------------------------------------------------------
\* Types

(* What a request is.                                                      *)
Queries ==
    [filter : [names : SUBSET Names, type : SignalTypes \cup {AnyType}],
     sort : Sorts, order : Orders, limit : 0 .. MaxLimit, offset : Nat]

ListType ==
    /\ signals \in [Names -> SUBSET SignalTypes]
    /\ matched \subseteq Names /\ unmatched \subseteq Names /\ late \subseteq Names
    /\ met \subseteq Names /\ kept \subseteq Names /\ steady \subseteq Names
    /\ query \in Queries
    /\ phase \in {"idle", "listing", "answered"} /\ shard \in 0 .. ShardCount
    /\ page \in Seq(Names) /\ (query.limit > 0 => Len(page) <= query.limit)

(* What sorting leaves is a sequence of the names, each once and no other, *)
(* in which those before a place are as many as the place says.            *)
LEMMA SetToSeqsIsPermutation ==
    ASSUME NEW S, IsFiniteSet(S), NEW s \in SetToSeqs(S)
    PROVE  /\ s \in Seq(S) /\ Len(s) \in Nat /\ DOMAIN s = 1 .. Len(s)
           /\ \A i, j \in 1 .. Len(s) : i # j => s[i] # s[j]
           /\ \A x \in S : \E i \in 1 .. Len(s) : s[i] = x
<1> DEFINE n == Cardinality(S)
<1>1. n \in Nat
  BY FS_CardinalityType
<1>2. s \in [1 .. n -> S] /\ \A i, j \in 1 .. n : i # j => s[i] # s[j]
  BY Zenon DEF SetToSeqs
<1> HIDE DEF n
<1>3. s \in Seq(S) /\ Len(s) = n /\ DOMAIN s = 1 .. n
  BY <1>1, <1>2
<1>4. s \in Injection(1 .. n, S)
  BY <1>2 DEF Injection, IsInjective
<1>5. IsFiniteSet(1 .. n) /\ Cardinality(1 .. n) = n
  BY <1>1, FS_Interval
<1>6. s \in Surjection(1 .. n, S)
  BY <1>4, <1>5, FS_Injection DEF n
<1> QED
  BY <1>1, <1>2, <1>3, <1>6 DEF Surjection

LEMMA PlacesCount ==
    ASSUME NEW S, IsFiniteSet(S), NEW s \in SetToSeqs(S), NEW k \in 0 .. Len(s)
    PROVE  LET T == {s[i] : i \in 1 .. k} IN IsFiniteSet(T) /\ Cardinality(T) = k
<1> DEFINE T == {s[i] : i \in 1 .. k}
           f == [i \in 1 .. k |-> s[i]]
<1>1. /\ s \in Seq(S) /\ Len(s) \in Nat /\ k \in Nat
      /\ \A i, j \in 1 .. Len(s) : i # j => s[i] # s[j]
  <2>1. /\ s \in Seq(S) /\ Len(s) \in Nat
        /\ \A i, j \in 1 .. Len(s) : i # j => s[i] # s[j]
    BY SetToSeqsIsPermutation
  <2> QED
    BY <2>1
<1>2. f \in [1 .. k -> T] /\ \A t \in T : \E i \in 1 .. k : f[i] = t
  OBVIOUS
<1>3. \A i, j \in 1 .. k : f[i] = f[j] => i = j
  BY <1>1
<1>4. f \in Surjection(1 .. k, T) /\ f \in Injection(1 .. k, T)
  BY <1>2, <1>3 DEF Surjection, Injection, IsInjective
<1>5. IsFiniteSet(1 .. k) /\ Cardinality(1 .. k) = k
  BY <1>1, FS_Interval
<1> QED
  BY <1>4, <1>5, FS_Surjection

(* A page is the part of the sorted names from the offset on, no more of   *)
(* them than the limit, and all of them if it is shorter.                  *)
LEMMA CutIsPage ==
    ASSUME NEW s \in Seq(Names), NEW q \in Queries
    PROVE  /\ Cut(s, q) \in Seq(Names)
           /\ Len(Cut(s, q)) \in Nat
           /\ q.limit > 0 => Len(Cut(s, q)) <= q.limit
           /\ \A i \in 1 .. Len(Cut(s, q)) :
                 q.offset + i \in 1 .. Len(s) /\ Cut(s, q)[i] = s[q.offset + i]
           /\ \A i \in 1 .. Len(s) :
                 i > q.offset => /\ Len(Cut(s, q)) > 0
                                 /\ \/ i > q.offset + Len(Cut(s, q))
                                    \/ Cut(s, q)[i - q.offset] = s[i]
<1> DEFINE rest == SubSeq(s, q.offset + 1, Len(s))
           p == Cut(s, q)
<1>1. q.offset \in Nat /\ q.limit \in Nat /\ Len(s) \in Nat
  BY LimitAssumption DEF Queries
<1>2. /\ rest \in Seq(Names)
      /\ Len(rest) = IF q.offset + 1 <= Len(s) THEN Len(s) - q.offset ELSE 0
      /\ \A i \in 1 .. Len(s) - q.offset : rest[i] = s[q.offset + i]
  <2>1. \A i \in q.offset + 1 .. Len(s) : s[i] \in Names
    BY <1>1
  <2>2. /\ rest \in Seq(Names)
        /\ Len(rest) = IF q.offset + 1 <= Len(s) THEN Len(s) - (q.offset + 1) + 1 ELSE 0
        /\ \A i \in 1 .. Len(s) - (q.offset + 1) + 1 : rest[i] = s[q.offset + 1 + i - 1]
    BY <1>1, <2>1, SubSeqProperties
  <2>3. Len(s) - (q.offset + 1) + 1 = Len(s) - q.offset
    BY <1>1
  <2>4. \A i \in 1 .. Len(s) - q.offset : q.offset + 1 + i - 1 = q.offset + i
    BY <1>1
  <2> QED
    BY <2>2, <2>3, <2>4
<1>3. p = IF q.limit > 0 /\ q.limit < Len(rest) THEN SubSeq(rest, 1, q.limit) ELSE rest
  BY DEF Cut
<1> HIDE DEF rest, p
<1>4. CASE q.limit > 0 /\ q.limit < Len(rest)
  <2>1. p = SubSeq(rest, 1, q.limit)
    BY <1>3, <1>4
  <2>2. /\ p \in Seq(Names) /\ Len(p) = q.limit
        /\ \A i \in 1 .. q.limit : p[i] = rest[i]
    <3>1. \A i \in 1 .. q.limit : rest[i] \in Names
      BY <1>1, <1>2, <1>4
    <3>2. /\ p \in Seq(Names)
          /\ Len(p) = IF 1 <= q.limit THEN q.limit - 1 + 1 ELSE 0
          /\ \A i \in 1 .. q.limit - 1 + 1 : p[i] = rest[1 + i - 1]
      BY <1>1, <2>1, <3>1, SubSeqProperties
    <3> QED
      BY <1>1, <1>4, <3>2
  <2>3. q.offset + q.limit < Len(s)
    BY <1>1, <1>2, <1>4
  <2>4. \A i \in 1 .. q.limit : p[i] = s[q.offset + i]
    BY <1>1, <1>2, <2>2, <2>3
  <2>5. \A i \in 1 .. Len(s) :
           i > q.offset /\ i <= q.offset + q.limit => p[i - q.offset] = s[i]
    <3> SUFFICES ASSUME NEW i \in 1 .. Len(s), i > q.offset, i <= q.offset + q.limit
                 PROVE  p[i - q.offset] = s[i]
      OBVIOUS
    <3>1. i - q.offset \in 1 .. q.limit /\ q.offset + (i - q.offset) = i
      BY <1>1
    <3> QED
      BY <2>4, <3>1
  <2> QED
    BY <1>1, <1>4, <2>2, <2>3, <2>4, <2>5 DEF p
<1>5. CASE ~(q.limit > 0 /\ q.limit < Len(rest))
  <2>1. p = rest
    BY <1>3, <1>5
  <2>2. Len(p) \in Nat /\ (q.limit > 0 => Len(p) <= q.limit)
    BY <1>1, <1>2, <1>5, <2>1
  <2>3. \A i \in 1 .. Len(p) : q.offset + i \in 1 .. Len(s) /\ p[i] = s[q.offset + i]
    BY <1>1, <1>2, <2>1
  <2>4. ASSUME NEW i \in 1 .. Len(s), i > q.offset
        PROVE  Len(p) > 0 /\ p[i - q.offset] = s[i]
    <3>1. i - q.offset \in 1 .. Len(s) - q.offset /\ q.offset + (i - q.offset) = i
      BY <1>1, <2>4
    <3>2. Len(p) = Len(s) - q.offset
      BY <1>1, <1>2, <2>1, <2>4
    <3>3. p[i - q.offset] = s[q.offset + (i - q.offset)]
      BY <1>2, <2>1, <3>1
    <3> QED
      BY <1>1, <2>4, <3>1, <3>2, <3>3
  <2> QED
    BY <1>2, <2>1, <2>2, <2>3, <2>4 DEF p
<1> QED
  BY <1>4, <1>5

LEMMA MatchingType ==
    ASSUME NEW q \in Queries
    PROVE  Matching(q) \subseteq Names
BY DEF Matching, Queries

(* An upsert only adds matches, a purge only takes its own. (shard.go:38-39, *)
(* dictionary.go:120-131)                                                   *)
LEMMA MatchesOfSteps ==
    ASSUME ListType, NEW n \in Names
    PROVE  /\ \A type \in SignalTypes :
                Upsert(n, type) => Matching(query) \subseteq Matching(query)'
           /\ PurgeExpired(n) => Matching(query)' = Matching(query) \ {n}
<1> DEFINE t == query.filter.type
<1>0. query.filter.names \subseteq Names
  BY DEF ListType, Queries
<1>1. ASSUME NEW type \in SignalTypes, Upsert(n, type)
      PROVE  Matching(query) \subseteq Matching(query)'
  <2>1. \A m \in Names : signals[m] \subseteq signals'[m]
    BY <1>1 DEF Upsert, ListType
  <2>2. query' = query
    BY <1>1 DEF Upsert
  <2> QED
    BY <1>0, <2>1, <2>2 DEF Matching
<1>2. ASSUME PurgeExpired(n) PROVE Matching(query)' = Matching(query) \ {n}
  <2>1. \A m \in Names : signals'[m] = IF m = n THEN {} ELSE signals[m]
    BY <1>2 DEF PurgeExpired, ListType
  <2>2. query' = query
    BY <1>2 DEF PurgeExpired
  <2> QED
    BY <1>0, <2>1, <2>2 DEF Matching
<1> QED
  BY <1>1, <1>2

LEMMA BeginStep ==
    ASSUME ListType, NEW q \in Queries, Begin(q), steady' \subseteq Names
    PROVE  ListType'
<1>1. 0 \in 0 .. ShardCount /\ <<>> \in Seq(Names) /\ Len(<<>>) = 0
  BY ShardAssumption
<1>2. q.limit \in Nat
  BY LimitAssumption DEF Queries
<1> QED
  BY <1>1, <1>2, MatchingType DEF ListType, Begin

LEMMA AnswerStep ==
    ASSUME ListType, Answer
    PROVE  \E found \in SUBSET late : \E s \in Sorted(matched \cup found, query) :
              /\ s \in Seq(Names) /\ page' = Cut(s, query)
              /\ ListType'
<1>1. PICK found \in SUBSET late :
         \E s \in Sorted(matched \cup found, query) : page' = Cut(s, query)
  BY DEF Answer
<1>2. PICK s \in Sorted(matched \cup found, query) : page' = Cut(s, query)
  BY <1>1
<1>3. IsFiniteSet(matched \cup found) /\ matched \cup found \subseteq Names
  BY NamesAssumption, FS_Subset DEF ListType
<1>4. s \in Seq(matched \cup found)
  BY <1>3, SetToSeqsIsPermutation DEF Sorted
<1>5. s \in Seq(Names)
  BY <1>3, <1>4
<1>6. query \in Queries
  BY DEF ListType
<1>7. page' \in Seq(Names) /\ (query.limit > 0 => Len(page') <= query.limit)
  BY <1>2, <1>5, <1>6, CutIsPage
<1>8. 0 \in 0 .. ShardCount
  BY ShardAssumption
<1> QED
  BY <1>2, <1>5, <1>7, <1>8 DEF ListType, Answer

LEMMA NoQueryType == NoQuery \in Queries /\ NoQuery.limit > 0
BY LimitAssumption DEF NoQuery, Queries, Sorts, Orders

LEMMA ListTypeStep == ListType /\ [Next]_vars => ListType'
<1> SUFFICES ASSUME ListType, [Next]_vars PROVE ListType'
  OBVIOUS
<1>1. ASSUME NEW n \in Names, NEW type \in SignalTypes, Upsert(n, type) PROVE ListType'
  <2> DEFINE came == Matching(query)' \ Matching(query)
  <2>1. /\ UNCHANGED <<query, phase, shard, matched, page, kept, steady>>
        /\ signals' = [signals EXCEPT ![n] = @ \cup {type}]
        /\ late' = late \cup (came \cap unmatched) /\ unmatched' = unmatched \ came
        /\ met' = IF phase = "listing" THEN met \cup came ELSE met
    BY <1>1 DEF Upsert
  <2>2. Matching(query)' \subseteq Names
    <3>1. query' \in Queries
      BY <2>1 DEF ListType
    <3> QED
      BY <3>1 DEF Matching, Queries
  <2>3. signals' \in [Names -> SUBSET SignalTypes]
    BY <2>1 DEF ListType
  <2> HIDE DEF came
  <2>4. came \subseteq Names
    BY <2>2 DEF came
  <2> QED
    BY <2>1, <2>3, <2>4 DEF ListType
<1>2. ASSUME NEW n \in Names, PurgeExpired(n) PROVE ListType'
  BY <1>2 DEF ListType, PurgeExpired
<1>3. ASSUME NEW f \in Filters, NEW s \in Sorts, NEW o \in Orders,
             NEW l \in Limits \cup {DefaultLimit}, Ask(f, s, o, l)
      PROVE  ListType'
  <2> DEFINE q == [filter |-> f, sort |-> s, order |-> o, limit |-> LimitOf(l), offset |-> 0]
  <2>1. LimitOf(l) \in 0 .. MaxLimit
    BY LimitAssumption DEF LimitOf
  <2>2. q \in Queries
    BY <2>1, NamesAssumption DEF Queries
  <2>3. Begin(q) /\ steady' = Matching(q)
    BY <1>3 DEF Ask, Begin
  <2> HIDE DEF q
  <2> QED
    BY <2>2, <2>3, BeginStep, MatchingType
<1>4. CASE AskNext
  <2>1. [query EXCEPT !.offset = @ + Len(page)] \in Queries
    BY DEF ListType, Queries
  <2> QED
    BY <1>4, <2>1, BeginStep DEF AskNext, ListType
<1>5. CASE Leave
  <2>1. <<>> \in Seq(Names) /\ Len(<<>>) = 0 /\ NoQuery.limit \in Nat
    BY NoQueryType, LimitAssumption DEF Queries
  <2> QED
    BY <1>5, <2>1, NoQueryType DEF ListType, Leave, copy
<1>6. CASE Copy
  <2>1. shard' \in 0 .. ShardCount
    BY <1>6, ShardAssumption DEF ListType, Copy
  <2>2. Matching(query) \subseteq Names /\ query.filter.names \subseteq Names
    BY MatchingType DEF ListType, Queries
  <2> QED
    BY <1>6, <2>1, <2>2 DEF ListType, Copy, InShard
<1>7. CASE Answer
  BY <1>7, AnswerStep
<1>8. CASE UNCHANGED vars
  BY <1>8 DEF ListType, vars, listVars, copy
<1> QED
  BY <1>1, <1>2, <1>3, <1>4, <1>5, <1>6, <1>7, <1>8 DEF Next

LEMMA ListTypeCorrect == Spec => []ListType
<1>1. Init => ListType
  <2> SUFFICES ASSUME Init PROVE ListType
    OBVIOUS
  <2>1. query \in Queries /\ query.limit > 0
    BY NoQueryType DEF Init
  <2>2. <<>> \in Seq(Names) /\ Len(<<>>) = 0 /\ query.limit \in Nat
    BY <2>1, LimitAssumption DEF Queries
  <2> QED
    BY <2>1, <2>2, ShardAssumption DEF Init, ListType
<1> QED
  BY <1>1, ListTypeStep, PTL DEF Spec

(* Every request is one the handler admits, and every page is of names, no *)
(* longer than a limit that is set.  (handlers.go:25-41, filter.go)        *)
THEOREM TypeCorrect == Spec => []TypeOK
<1>1. ListType => TypeOK
  BY DEF ListType, TypeOK, Queries, ToSet
<1> QED
  BY <1>1, ListTypeCorrect, PTL

-----------------------------------------------------------------------------
\* The copy

(* What WalkIsExact needs to be preserved: a name kept since the request   *)
(* began still matches when its shard is copied, and whatever matches when *)
(* a shard is copied has been met.                                         *)
WalkInv ==
    phase = "listing" => kept \subseteq Matching(query) /\ Matching(query) \subseteq met

(* Why a copy keeps the exactness: it takes what matches in the shard now, *)
(* which is at least what was kept and at most what was met.               *)
LEMMA CopyIsExact ==
    ASSUME ListType, WalkInv, WalkIsExact, Copy
    PROVE  WalkInv' /\ WalkIsExact'
<1>0. Matching(query)' = Matching(query)
  BY DEF Copy, Matching
<1>1. WalkInv'
  BY <1>0 DEF WalkInv, Copy
<1>2. ASSUME NEW n \in kept, ShardOf[n] < shard + 1 PROVE n \in matched'
  <2>1. ShardOf[n] \in Nat /\ shard \in Nat
    BY ShardAssumption DEF ListType
  <2>2. CASE ShardOf[n] < shard
    BY <2>2 DEF WalkIsExact, Copy
  <2>3. CASE ShardOf[n] = shard
    BY <2>3 DEF WalkInv, Copy, InShard
  <2> QED
    BY <1>2, <2>1, <2>2, <2>3
<1>3. matched' \cup late' \subseteq met'
  BY DEF WalkInv, WalkIsExact, Copy, InShard
<1> QED
  BY <1>1, <1>2, <1>3 DEF WalkIsExact, Copy

LEMMA WalkStep ==
    ListType /\ WalkInv /\ WalkIsExact /\ [Next]_vars => WalkInv' /\ WalkIsExact'
<1> DEFINE Inv == WalkInv /\ WalkIsExact
<1> SUFFICES ASSUME ListType, Inv, [Next]_vars PROVE Inv'
  OBVIOUS
<1>1. ASSUME NEW n \in Names, NEW type \in SignalTypes, Upsert(n, type) PROVE Inv'
  <2> DEFINE M == Matching(query)
             M1 == Matching(query)'
  <2>1. M \subseteq M1
    BY <1>1, MatchesOfSteps
  <2>2. /\ UNCHANGED <<phase, shard, matched, kept>>
        /\ late' = late \cup ((M1 \ M) \cap unmatched)
        /\ met' = IF phase = "listing" THEN met \cup (M1 \ M) ELSE met
    BY <1>1 DEF Upsert
  <2>3. phase = "listing" => kept \subseteq M /\ M \subseteq met
    BY DEF WalkInv
  <2> HIDE DEF M, M1
  <2>4. phase' = "listing" => kept' \subseteq M1 /\ M1 \subseteq met'
    BY <2>1, <2>2, <2>3
  <2>5. WalkIsExact'
    BY <2>2 DEF WalkIsExact
  <2> QED
    BY <2>4, <2>5 DEF WalkInv, M1
<1>2. ASSUME NEW n \in Names, PurgeExpired(n) PROVE Inv'
  <2>1. Matching(query)' = Matching(query) \ {n}
    BY <1>2, MatchesOfSteps
  <2> QED
    BY <1>2, <2>1 DEF PurgeExpired, WalkInv, WalkIsExact
<1>3. ASSUME NEW q, Begin(q) PROVE Inv'
  <2>1. Matching(query)' = Matching(q)
    BY <1>3 DEF Begin, Matching
  <2>2. WalkInv'
    BY <1>3, <2>1 DEF Begin, WalkInv
  <2>3. \A n \in Names : ~(ShardOf[n] < 0)
    BY ShardAssumption
  <2>4. kept' \subseteq Names
    BY ListTypeStep DEF ListType
  <2> QED
    BY <1>3, <2>2, <2>3, <2>4 DEF Begin, WalkIsExact
<1>4. ASSUME NEW f, NEW s, NEW o, NEW l, Ask(f, s, o, l) PROVE Inv'
  BY <1>3, <1>4 DEF Ask
<1>5. CASE AskNext
  BY <1>3, <1>5 DEF AskNext
<1>6. CASE Leave
  BY <1>6 DEF Leave, WalkInv, WalkIsExact
<1>7. CASE Copy
  BY <1>7, CopyIsExact
<1>8. CASE Answer
  BY <1>8 DEF Answer, WalkInv, WalkIsExact
<1>9. CASE UNCHANGED vars
  BY <1>9 DEF vars, listVars, copy, WalkInv, WalkIsExact, Matching
<1> QED
  BY <1>1, <1>2, <1>4, <1>5, <1>6, <1>7, <1>8, <1>9 DEF Next

LEMMA WalkCorrect == Spec => [](WalkInv /\ WalkIsExact)
<1>1. Init => WalkInv /\ WalkIsExact
  BY DEF Init, WalkInv, WalkIsExact
<1> QED
  BY <1>1, WalkStep, ListTypeCorrect, PTL DEF Spec

(* WalkIsExact, about List of dictionary.go and the handlers that call it, *)
(* holds in every behaviour.                                               *)
THEOREM ListingCorrect == Spec => []WalkIsExact
BY WalkCorrect, PTL

-----------------------------------------------------------------------------
\* The pages

(* The order in which a reading by name shows the names, and what of a set *)
(* comes before a name, or no later than it.                               *)
Before(a, b, q) == IF q.order = "asc" THEN a < b ELSE b < a
Ahead(S, n, q) == {x \in S : Before(x, n, q)}
UpTo(S, n, q) == {x \in S : x = n \/ Before(x, n, q)}

(* While no match is purged, a name that matches all the time and has not  *)
(* been shown has at least as many matches before it as the pages so far,  *)
(* for what comes to match only adds to them.                              *)
NoneMissed ==
    query.sort = "name" /\ ~shrunk =>
        /\ phase = "listing" =>
              /\ matched \cup late \subseteq Matching(query) /\ steady \subseteq kept
              /\ \A n \in steady \ shown : query.offset <= Cardinality(Ahead(kept, n, query))
        /\ phase = "answered" =>
              /\ steady \subseteq Matching(query)
              /\ \A n \in steady \ shown :
                    query.offset + Len(page) <= Cardinality(Ahead(Matching(query), n, query))
              /\ page = <<>> => steady \subseteq shown

(* While nothing comes to match, a name that has been shown has no more    *)
(* matches up to it than the pages so far, for a purge only takes from them.*)
NoneRepeated ==
    query.sort = "name" /\ ~grown =>
        /\ repeated = {}
        /\ phase = "listing" =>
              /\ Matching(query) \subseteq kept
              /\ \A n \in shown : Cardinality(UpTo(met, n, query)) <= query.offset
        /\ phase = "answered" =>
              \A n \in shown :
                 Cardinality(UpTo(Matching(query), n, query)) <= query.offset + Len(page)

(* A name's place among the sorted names is the number of those up to it.  *)
(* (filter.go: sort.Slice)                                                 *)
Placed(S, q, s) ==
    /\ s \in Seq(Names) /\ Len(s) \in Nat
    /\ \A i \in 1 .. Len(s) : s[i] \in S
    /\ \A x \in S : \E i \in 1 .. Len(s) : s[i] = x
    /\ \A k \in 1 .. Len(s) :
          /\ Cardinality(Ahead(S, s[k], q)) = k - 1
          /\ Cardinality(UpTo(S, s[k], q)) = k

LEMMA PlaceByName ==
    ASSUME NEW S, S \subseteq Names, NEW q \in Queries, q.sort = "name",
           NEW s \in Sorted(S, q)
    PROVE  Placed(S, q, s)
<1>1. IsFiniteSet(S) /\ \A x \in S : x \in Nat
  BY NamesAssumption, FS_Subset
<1>2. /\ s \in SetToSeqs(S)
      /\ \A i, j \in DOMAIN s :
            i < j => Less(s[i], s[j], q) \/ ~Less(s[j], s[i], q)
  BY DEF Sorted
<1>3. /\ s \in Seq(S) /\ Len(s) \in Nat /\ DOMAIN s = 1 .. Len(s)
      /\ \A i, j \in 1 .. Len(s) : i # j => s[i] # s[j]
      /\ \A x \in S : \E i \in 1 .. Len(s) : s[i] = x
  BY <1>1, <1>2, SetToSeqsIsPermutation
<1>4. \A i \in 1 .. Len(s) : s[i] \in S /\ s[i] \in Nat
  BY <1>1, <1>3
<1>5. \A i, j \in 1 .. Len(s) : i < j => Before(s[i], s[j], q)
  <2> SUFFICES ASSUME NEW i \in 1 .. Len(s), NEW j \in 1 .. Len(s), i < j
               PROVE  Before(s[i], s[j], q)
    OBVIOUS
  <2>1. s[i] # s[j] /\ s[i] \in Nat /\ s[j] \in Nat
    BY <1>3, <1>4
  <2>2. Less(s[i], s[j], q) \/ ~Less(s[j], s[i], q)
    BY <1>2, <1>3
  <2>3. q.order = "asc" \/ q.order = "desc"
    BY DEF Queries, Orders
  <2> QED
    BY <2>1, <2>2, <2>3 DEF Less, Before
<1>6. ASSUME NEW k \in 1 .. Len(s)
      PROVE  /\ Ahead(S, s[k], q) = {s[i] : i \in 1 .. k - 1}
             /\ UpTo(S, s[k], q) = {s[i] : i \in 1 .. k}
  <2>1. \A i \in 1 .. Len(s) : Before(s[i], s[k], q) <=> i < k
    <3> SUFFICES ASSUME NEW i \in 1 .. Len(s) PROVE Before(s[i], s[k], q) <=> i < k
      OBVIOUS
    <3>1. CASE i < k
      BY <1>5, <3>1
    <3>2. CASE k < i
      BY <1>4, <1>5, <3>2 DEF Before
    <3>3. CASE i = k
      BY <1>4, <3>3 DEF Before
    <3> QED
      BY <1>3, <3>1, <3>2, <3>3
  <2>2. \A x \in S : Before(x, s[k], q) <=> \E i \in 1 .. k - 1 : s[i] = x
    <3> SUFFICES ASSUME NEW x \in S
                 PROVE  Before(x, s[k], q) <=> \E i \in 1 .. k - 1 : s[i] = x
      OBVIOUS
    <3>1. PICK j \in 1 .. Len(s) : s[j] = x
      BY <1>3
    <3>2. Before(x, s[k], q) <=> j < k
      BY <2>1, <3>1
    <3>3. j < k <=> j \in 1 .. k - 1
      BY <1>3
    <3>4. 1 .. k - 1 \subseteq 1 .. Len(s)
      BY <1>3
    <3> QED
      BY <1>3, <3>1, <3>2, <3>3, <3>4
  <2>3. \A x \in S : x = s[k] \/ Before(x, s[k], q) <=> \E i \in 1 .. k : s[i] = x
    BY <1>3, <2>2
  <2>4. 1 .. k - 1 \subseteq 1 .. Len(s) /\ 1 .. k \subseteq 1 .. Len(s)
    BY <1>3
  <2> QED
    BY <1>4, <2>2, <2>3, <2>4 DEF Ahead, UpTo
<1>7. ASSUME NEW k \in 1 .. Len(s)
      PROVE  /\ Cardinality(Ahead(S, s[k], q)) = k - 1
             /\ Cardinality(UpTo(S, s[k], q)) = k
  <2>1. k - 1 \in 0 .. Len(s) /\ k \in 0 .. Len(s)
    BY <1>3
  <2>2. /\ Cardinality({s[i] : i \in 1 .. k - 1}) = k - 1
        /\ Cardinality({s[i] : i \in 1 .. k}) = k
    BY <1>1, <1>2, <2>1, PlacesCount
  <2> QED
    BY <1>6, <2>2
<1> QED
  BY <1>1, <1>3, <1>4, <1>7 DEF Placed

(* More names, more before one.                                            *)
LEMMA CountsGrow ==
    ASSUME NEW S, NEW T, S \subseteq T, T \subseteq Names, NEW n, NEW q
    PROVE  /\ Cardinality(Ahead(S, n, q)) \in Nat /\ Cardinality(Ahead(T, n, q)) \in Nat
           /\ Cardinality(Ahead(S, n, q)) <= Cardinality(Ahead(T, n, q))
           /\ Cardinality(UpTo(S, n, q)) \in Nat /\ Cardinality(UpTo(T, n, q)) \in Nat
           /\ Cardinality(UpTo(S, n, q)) <= Cardinality(UpTo(T, n, q))
<1>1. /\ Ahead(T, n, q) \subseteq Names /\ Ahead(S, n, q) \subseteq Ahead(T, n, q)
      /\ UpTo(T, n, q) \subseteq Names /\ UpTo(S, n, q) \subseteq UpTo(T, n, q)
  BY DEF Ahead, UpTo
<1>2. IsFiniteSet(Ahead(T, n, q)) /\ IsFiniteSet(UpTo(T, n, q))
  BY <1>1, NamesAssumption, FS_Subset
<1>3. IsFiniteSet(Ahead(S, n, q)) /\ IsFiniteSet(UpTo(S, n, q))
  BY <1>1, <1>2, FS_Subset
<1> QED
  BY <1>1, <1>2, <1>3, FS_Subset, FS_CardinalityType

(* A request for a page after the first copies what the pages so far left. *)
LEMMA MissedStep ==
    ListType /\ WalkInv /\ WalkIsExact /\ NoneMissed /\ [Next]_vars => NoneMissed'
<1> DEFINE M == Matching(query)
           M1 == Matching(query)'
<1> SUFFICES ASSUME ListType, WalkInv, WalkIsExact, NoneMissed, [Next]_vars,
                    query'.sort = "name", ~shrunk'
             PROVE  NoneMissed'
  BY DEF NoneMissed
<1>0. /\ M \subseteq Names /\ M1 \subseteq Names /\ ListType'
      /\ query.offset \in Nat /\ Len(page) \in Nat
  <2>1. ListType'
    BY ListTypeStep
  <2>2. M1 \subseteq Names
    BY <2>1 DEF ListType, Matching, Queries
  <2> QED
    BY <2>1, <2>2, MatchingType DEF ListType, Queries
<1>1. ASSUME NEW n \in Names, NEW type \in SignalTypes, Upsert(n, type) PROVE NoneMissed'
  <2>1. M \subseteq M1
    BY <1>1, MatchesOfSteps
  <2>2. /\ late' = late \cup ((M1 \ M) \cap unmatched)
        /\ UNCHANGED <<query, phase, matched, page, kept, steady, shown, shrunk>>
    BY <1>1 DEF Upsert, readingVars
  <2> HIDE DEF M, M1
  <2>3. \A m : Cardinality(Ahead(M, m, query)) <= Cardinality(Ahead(M1, m, query))
               /\ Cardinality(Ahead(M, m, query)) \in Nat
               /\ Cardinality(Ahead(M1, m, query)) \in Nat
    BY <1>0, <2>1, CountsGrow
  <2>4. phase = "listing" =>
           /\ matched \cup late \subseteq M /\ steady \subseteq kept
           /\ \A m \in steady \ shown : query.offset <= Cardinality(Ahead(kept, m, query))
    BY <2>2 DEF NoneMissed, M
  <2>5. phase = "answered" =>
           /\ steady \subseteq M /\ (page = <<>> => steady \subseteq shown)
           /\ \A m \in steady \ shown :
                 query.offset + Len(page) <= Cardinality(Ahead(M, m, query))
    BY <2>2 DEF NoneMissed, M
  <2>6. phase = "answered" =>
           /\ steady \subseteq M1
           /\ \A m \in steady \ shown :
                 query.offset + Len(page) <= Cardinality(Ahead(M1, m, query))
    BY <1>0, <2>1, <2>3, <2>5
  <2>7. phase = "listing" => matched' \cup late' \subseteq M1
    BY <2>1, <2>2, <2>4
  <2> QED
    BY <2>2, <2>4, <2>5, <2>6, <2>7 DEF NoneMissed, M1
<1>2. ASSUME NEW n \in Names, PurgeExpired(n) PROVE NoneMissed'
  <2>1. n \notin M /\ M1 = M
    BY <1>2, MatchesOfSteps DEF PurgeExpired
  <2>2. /\ kept' = kept \ {n} /\ steady' = steady \ {n} /\ ~shrunk
        /\ UNCHANGED <<query, phase, matched, late, page, shown>>
    BY <1>2 DEF PurgeExpired, readingVars
  <2>3. phase = "listing" => kept' = kept
    BY <2>1, <2>2 DEF WalkInv
  <2> HIDE DEF M, M1
  <2>4. phase = "listing" =>
           /\ matched \cup late \subseteq M /\ steady \subseteq kept
           /\ \A m \in steady \ shown : query.offset <= Cardinality(Ahead(kept, m, query))
    BY <2>2 DEF NoneMissed, M
  <2>5. phase = "answered" =>
           /\ steady \subseteq M /\ (page = <<>> => steady \subseteq shown)
           /\ \A m \in steady \ shown :
                 query.offset + Len(page) <= Cardinality(Ahead(M, m, query))
    BY <2>2 DEF NoneMissed, M
  <2> QED
    BY <2>1, <2>2, <2>3, <2>4, <2>5 DEF NoneMissed, M1
<1>3. ASSUME NEW f, NEW s, NEW o, NEW l, Ask(f, s, o, l) PROVE NoneMissed'
  <2>1. /\ phase' = "listing" /\ matched' = {} /\ late' = {} /\ kept' = steady'
        /\ query'.offset = 0 /\ kept' \subseteq Names
    BY <1>0, <1>3 DEF Ask, Begin, ListType
  <2>2. \A m : Cardinality(Ahead(kept', m, query')) \in Nat
    BY <2>1, CountsGrow
  <2> QED
    BY <2>1, <2>2 DEF NoneMissed
<1>4. CASE AskNext
  <2>1. /\ phase = "answered" /\ phase' = "listing" /\ matched' = {} /\ late' = {}
        /\ query' = [query EXCEPT !.offset = @ + Len(page)]
        /\ kept' = Matching(query') /\ UNCHANGED <<signals, steady, shown, shrunk>>
    BY <1>4 DEF AskNext, Begin, readingVars
  <2>2. /\ query'.offset = query.offset + Len(page) /\ query'.filter = query.filter
        /\ query'.sort = query.sort /\ query'.order = query.order
    BY <2>1 DEF ListType, Queries
  <2>3. \A S, m : Ahead(S, m, query') = Ahead(S, m, query)
    BY <2>2 DEF Ahead, Before
  <2>4. kept' = M
    BY <2>1, <2>2 DEF Matching
  <2>5. /\ steady \subseteq M
        /\ \A n \in steady \ shown : query.offset + Len(page) <= Cardinality(Ahead(M, n, query))
    BY <2>1, <2>2 DEF NoneMissed
  <2> HIDE DEF M
  <2>6. /\ phase' = "listing" /\ matched' = {} /\ late' = {}
        /\ steady' \subseteq kept' /\ steady' = steady /\ shown' = shown
    BY <2>1, <2>4, <2>5
  <2>7. \A n \in steady \ shown : query'.offset <= Cardinality(Ahead(kept', n, query'))
    BY <2>2, <2>3, <2>4, <2>5
  <2> QED
    BY <2>6, <2>7 DEF NoneMissed
<1>5. CASE Leave
  BY <1>5 DEF Leave, NoneMissed
<1>6. CASE Copy
  <2>1. /\ matched' = matched \cup InShard(M) /\ M1 = M
        /\ UNCHANGED <<query, phase, late, page, kept, steady, shown, shrunk>>
    BY <1>6 DEF Copy, readingVars, Matching
  <2>2. InShard(M) \subseteq M
    BY DEF InShard
  <2> QED
    BY <2>1, <2>2 DEF NoneMissed
<1>7. CASE Answer
  <2>1. PICK found \in SUBSET late :
           \E s \in Sorted(matched \cup found, query) : page' = Cut(s, query)
    BY <1>7 DEF Answer
  <2> DEFINE all == matched \cup found
  <2>2. PICK s \in Sorted(all, query) : page' = Cut(s, query)
    BY <2>1
  <2>3. /\ phase = "listing" /\ phase' = "answered" /\ shard = ShardCount
        /\ shown' = shown \cup ToSet(page') /\ M1 = M
        /\ UNCHANGED <<query, steady, shrunk>>
    BY <1>7 DEF Answer, Matching
  <2>4. /\ all \subseteq M /\ steady \subseteq kept /\ kept \subseteq M
        /\ query \in Queries /\ query.sort = "name"
        /\ \A n \in steady \ shown : query.offset <= Cardinality(Ahead(kept, n, query))
    BY <2>3 DEF NoneMissed, WalkInv, ListType
  <2>5. kept \subseteq all
    BY <2>3, ShardAssumption DEF WalkIsExact, ListType
  <2> HIDE DEF M, M1, all
  <2>6. all \subseteq Names
    BY <1>0, <2>4
  <2>7. /\ s \in Seq(Names) /\ Len(s) \in Nat
        /\ \A x \in all : \E i \in 1 .. Len(s) : s[i] = x
        /\ \A k \in 1 .. Len(s) : Cardinality(Ahead(all, s[k], query)) = k - 1
    <3>1. Placed(all, query, s)
      BY <2>2, <2>4, <2>6, PlaceByName
    <3> QED
      BY <3>1 DEF Placed
  <2>8. /\ page' \in Seq(Names) /\ Len(page') \in Nat
        /\ \A i \in 1 .. Len(s) :
              i > query.offset => /\ Len(page') > 0
                                  /\ \/ i > query.offset + Len(page')
                                     \/ page'[i - query.offset] = s[i]
    BY <2>2, <2>4, <2>7, CutIsPage
  <2>9. ASSUME NEW n \in steady \ shown'
        PROVE  /\ Len(page') > 0
               /\ query.offset + Len(page') <= Cardinality(Ahead(M, n, query))
    <3>1. n \in all /\ n \in steady \ shown
      BY <2>3, <2>4, <2>5
    <3>2. PICK k \in 1 .. Len(s) : s[k] = n
      BY <2>7, <3>1
    <3>3. query.offset <= Cardinality(Ahead(kept, n, query))
      BY <2>4, <3>1
    <3>4. Cardinality(Ahead(kept, n, query)) <= k - 1
      BY <2>5, <2>6, <2>7, <3>2, CountsGrow
    <3>5. k - 1 <= Cardinality(Ahead(M, n, query))
          /\ Cardinality(Ahead(M, n, query)) \in Nat
          /\ Cardinality(Ahead(kept, n, query)) \in Nat
      BY <1>0, <2>4, <2>7, <3>2, CountsGrow
    <3>6. k > query.offset
      BY <1>0, <2>7, <3>3, <3>4, <3>5
    <3>7. ASSUME k <= query.offset + Len(page') PROVE FALSE
      <4>1. page'[k - query.offset] = n
        BY <1>0, <2>7, <2>8, <3>2, <3>6, <3>7
      <4>2. k - query.offset \in DOMAIN page'
        BY <1>0, <2>7, <2>8, <3>6, <3>7
      <4> QED
        BY <2>3, <4>1, <4>2 DEF ToSet
    <3> QED
      BY <1>0, <2>7, <2>8, <3>5, <3>6, <3>7
  <2>10. page' = <<>> => Len(page') = 0
    OBVIOUS
  <2>11. page' = <<>> => steady \subseteq shown'
    BY <2>9, <2>10
  <2> QED
    BY <2>3, <2>4, <2>9, <2>11 DEF NoneMissed, M1
<1>8. CASE UNCHANGED vars
  BY <1>8 DEF vars, listVars, copy, readingVars, NoneMissed, Matching
<1> QED
  BY <1>1, <1>2, <1>3, <1>4, <1>5, <1>6, <1>7, <1>8 DEF Next

(* A page begins after everything that has been shown and is still there.  *)
LEMMA RepeatedStep ==
    ListType /\ WalkInv /\ WalkIsExact /\ NoneRepeated /\ [Next]_vars => NoneRepeated'
<1> DEFINE M == Matching(query)
           M1 == Matching(query)'
<1> SUFFICES ASSUME ListType, WalkInv, WalkIsExact, NoneRepeated, [Next]_vars,
                    query'.sort = "name", ~grown'
             PROVE  NoneRepeated'
  BY DEF NoneRepeated
<1>0. M \subseteq Names /\ query.offset \in Nat /\ Len(page) \in Nat
  BY MatchingType DEF ListType, Queries
<1>1. ASSUME NEW n \in Names, NEW type \in SignalTypes, Upsert(n, type) PROVE NoneRepeated'
  <2>1. /\ grown' = (grown \/ M1 \ M # {})
        /\ met' = IF phase = "listing" THEN met \cup (M1 \ M) ELSE met
        /\ UNCHANGED <<query, phase, page, kept, shown, repeated>>
    BY <1>1 DEF Upsert, readingVars
  <2>2. M \subseteq M1
    BY <1>1, MatchesOfSteps
  <2> HIDE DEF M, M1
  <2>3. M1 = M /\ met' = met /\ ~grown
    BY <2>1, <2>2
  <2> QED
    BY <2>1, <2>3 DEF NoneRepeated, M, M1
<1>2. ASSUME NEW n \in Names, PurgeExpired(n) PROVE NoneRepeated'
  <2>1. /\ kept' = kept \ {n}
        /\ UNCHANGED <<query, phase, page, met, shown, repeated, grown>>
    BY <1>2 DEF PurgeExpired, readingVars
  <2>2. M1 = M \ {n}
    BY <1>2, MatchesOfSteps
  <2> HIDE DEF M, M1
  <2>3. \A m : Cardinality(UpTo(M1, m, query)) <= Cardinality(UpTo(M, m, query))
               /\ Cardinality(UpTo(M, m, query)) \in Nat
               /\ Cardinality(UpTo(M1, m, query)) \in Nat
    BY <1>0, <2>2, CountsGrow
  <2>4. repeated = {} /\ (phase = "listing" => M1 \subseteq kept')
    BY <2>1, <2>2 DEF NoneRepeated, M
  <2>5. ASSUME phase = "answered", NEW m \in shown
        PROVE  Cardinality(UpTo(M1, m, query)) <= query.offset + Len(page)
    <3>1. Cardinality(UpTo(M, m, query)) <= query.offset + Len(page)
      BY <2>1, <2>5 DEF NoneRepeated, M
    <3> QED
      BY <1>0, <2>3, <3>1
  <2>6. phase = "listing" => \A m \in shown : Cardinality(UpTo(met, m, query)) <= query.offset
    BY <2>1 DEF NoneRepeated
  <2> QED
    BY <2>1, <2>4, <2>5, <2>6 DEF NoneRepeated, M1
<1>3. ASSUME NEW f, NEW s, NEW o, NEW l, Ask(f, s, o, l) PROVE NoneRepeated'
  <2> DEFINE q == [filter |-> f, sort |-> s, order |-> o, limit |-> LimitOf(l), offset |-> 0]
  <2>1. query' = q /\ kept' = Matching(q) /\ signals' = signals
        /\ phase' = "listing" /\ shown' = {} /\ repeated' = {}
    BY <1>3 DEF Ask, Begin
  <2>2. M1 = kept'
    BY <2>1 DEF Matching
  <2> QED
    BY <2>1, <2>2 DEF NoneRepeated
<1>4. CASE AskNext
  <2>1. /\ phase = "answered" /\ phase' = "listing"
        /\ met' = Matching(query') /\ kept' = Matching(query')
        /\ query' = [query EXCEPT !.offset = @ + Len(page)]
        /\ UNCHANGED <<signals, shown, repeated, grown>>
    BY <1>4 DEF AskNext, Begin, readingVars
  <2>2. /\ query'.offset = query.offset + Len(page) /\ query'.filter = query.filter
        /\ query'.sort = query.sort /\ query'.order = query.order
    BY <2>1 DEF ListType, Queries
  <2>3. \A S, m : UpTo(S, m, query') = UpTo(S, m, query)
    BY <2>2 DEF UpTo, Before
  <2>4. kept' = M /\ met' = M /\ M1 = M
    BY <2>1, <2>2 DEF Matching
  <2>5. /\ repeated = {}
        /\ \A n \in shown : Cardinality(UpTo(M, n, query)) <= query.offset + Len(page)
    BY <2>1, <2>2 DEF NoneRepeated
  <2> HIDE DEF M, M1
  <2> QED
    BY <2>1, <2>2, <2>3, <2>4, <2>5 DEF NoneRepeated, M1
<1>5. CASE Leave
  BY <1>5 DEF Leave, NoneRepeated
<1>6. CASE Copy
  BY <1>6 DEF Copy, readingVars, NoneRepeated, Matching
<1>7. CASE Answer
  <2>1. PICK found \in SUBSET late :
           \E s \in Sorted(matched \cup found, query) : page' = Cut(s, query)
    BY <1>7 DEF Answer
  <2> DEFINE all == matched \cup found
  <2>2. PICK s \in Sorted(all, query) : page' = Cut(s, query)
    BY <2>1
  <2>3. /\ phase = "listing" /\ phase' = "answered" /\ shard = ShardCount
        /\ repeated' = repeated \cup (shown \cap ToSet(page'))
        /\ shown' = shown \cup ToSet(page') /\ M1 = M
        /\ UNCHANGED <<query, grown>>
    BY <1>7 DEF Answer, Matching
  <2>4. /\ M \subseteq kept /\ met \subseteq Names
        /\ query \in Queries /\ query.sort = "name" /\ repeated = {}
        /\ \A n \in shown : Cardinality(UpTo(met, n, query)) <= query.offset
    BY <2>3 DEF NoneRepeated, ListType
  <2>5. kept \subseteq all /\ all \subseteq met
    BY <2>3, ShardAssumption DEF WalkIsExact, ListType
  <2> HIDE DEF M, M1, all
  <2>6. all \subseteq Names /\ M \subseteq all
    BY <2>4, <2>5
  <2>7. /\ s \in Seq(Names) /\ Len(s) \in Nat
        /\ \A k \in 1 .. Len(s) : Cardinality(UpTo(all, s[k], query)) = k
    <3>1. Placed(all, query, s)
      BY <2>2, <2>4, <2>6, PlaceByName
    <3> QED
      BY <3>1 DEF Placed
  <2>8. /\ page' \in Seq(Names) /\ Len(page') \in Nat
        /\ \A i \in 1 .. Len(page') :
              query.offset + i \in 1 .. Len(s) /\ page'[i] = s[query.offset + i]
    BY <2>2, <2>4, <2>7, CutIsPage
  <2>9. \A m : /\ Cardinality(UpTo(M, m, query)) <= Cardinality(UpTo(all, m, query))
               /\ Cardinality(UpTo(all, m, query)) <= Cardinality(UpTo(met, m, query))
               /\ Cardinality(UpTo(M, m, query)) \in Nat
               /\ Cardinality(UpTo(all, m, query)) \in Nat
               /\ Cardinality(UpTo(met, m, query)) \in Nat
    BY <2>4, <2>5, <2>6, CountsGrow
  <2>10. ASSUME NEW n \in ToSet(page')
         PROVE  /\ query.offset < Cardinality(UpTo(all, n, query))
                /\ Cardinality(UpTo(all, n, query)) <= query.offset + Len(page')
    <3>1. PICK i \in 1 .. Len(page') : page'[i] = n
      BY <2>8 DEF ToSet
    <3>2. Cardinality(UpTo(all, n, query)) = query.offset + i
      BY <2>7, <2>8, <3>1
    <3> QED
      BY <1>0, <2>8, <3>2
  <2>11. shown \cap ToSet(page') = {}
    BY <1>0, <2>4, <2>9, <2>10
  <2>12. \A n \in shown' : Cardinality(UpTo(M, n, query)) <= query.offset + Len(page')
    <3>1. \A n \in shown : Cardinality(UpTo(M, n, query)) <= query.offset + Len(page')
      BY <1>0, <2>4, <2>8, <2>9
    <3>2. \A n \in ToSet(page') :
             Cardinality(UpTo(M, n, query)) <= query.offset + Len(page')
      BY <1>0, <2>8, <2>9, <2>10
    <3> QED
      BY <2>3, <3>1, <3>2
  <2> QED
    BY <2>3, <2>4, <2>11, <2>12 DEF NoneRepeated, M1
<1>8. CASE UNCHANGED vars
  BY <1>8 DEF vars, listVars, copy, readingVars, NoneRepeated, Matching
<1> QED
  BY <1>1, <1>2, <1>3, <1>4, <1>5, <1>6, <1>7, <1>8 DEF Next

(* Reading by name, page after page, shows every name that matches all the *)
(* time unless a match is purged, and none twice unless one comes to match,*)
(* whatever the filter, the order, the limit and the number of shards.     *)
(* (handlers.go:18-45, dictionary.go:89-98, 144-227, shard.go:38-39)       *)
THEOREM PagesCorrect == Spec => []PagesAgree
<1>1. Init => NoneMissed /\ NoneRepeated
  BY DEF Init, NoneMissed, NoneRepeated
<1>2. NoneMissed /\ NoneRepeated => PagesAgree
  BY DEF NoneMissed, NoneRepeated, PagesAgree
<1> QED
  BY <1>1, <1>2, MissedStep, RepeatedStep, ListTypeCorrect, WalkCorrect, PTL DEF Spec

-----------------------------------------------------------------------------
\* The builder's preview

(* What the preview of a form should be; a form without a schema URL.      *)
Blank(u) == u.schema = Absent
Target(u) == IF Blank(u) THEN NoFiles ELSE Respond(BuildState(u)).files

Current(r) == r.edit = edits
Asked == \E r \in inflight : Current(r)

(* The edits a request or an answer belongs to lie in the past; the one of *)
(* the latest edit is on its way, under way or has been shown; without a   *)
(* schema URL there is none; and when it was shown last, the preview is    *)
(* what the form asks for.                                                 *)
EditsInv ==
    /\ edits \in Nat /\ newest \in 0 .. edits /\ preview.edit \in 0 .. newest
    /\ \A r \in inflight : r.edit \in 0 .. edits
AskedInv ==
    /\ timer \in BOOLEAN
    /\ \A r \in inflight : Current(r) => r.state = BuildState(ui)
    /\ timer \/ Asked \/ newest = edits
    /\ Blank(ui) => ~timer /\ ~Asked
ShownInv ==
    preview.edit = edits /\ preview.status # 0 /\ ~timer /\ ~Asked => preview.files = Target(ui)

PreviewInv == EditsInv /\ AskedInv /\ ShownInv

LEMMA PreviewInit == SessionInit => PreviewInv
<1> SUFFICES ASSUME SessionInit PROVE PreviewInv
  OBVIOUS
<1>1. /\ timer = TRUE /\ inflight = {} /\ edits = 0 /\ newest = 0
      /\ preview.edit = 0 /\ ui.schema = "versioned"
  BY DEF SessionInit, Nothing
<1>2. ~Blank(ui)
  <2>1. "versioned" # Absent
    BY Zenon DEF Absent
  <2> QED
    BY <1>1, <2>1 DEF Blank
<1> QED
  BY <1>1, <1>2 DEF PreviewInv, EditsInv, AskedInv, ShownInv, Asked

(* An edit, or the answer that seeds the form. (builder.js:691-699)        *)
LEMMA PreviewChanged ==
    ASSUME PreviewInv, NEW what, NEW to, Changed(what, to)
    PROVE  PreviewInv'
<1>1. edits' = edits + 1 /\ inflight' = inflight /\ ui' = to
  BY Zenon DEF Changed
<1>2. ~Asked'
  <2>1. \A r \in inflight : r.edit # edits + 1
    BY DEF PreviewInv, EditsInv
  <2> QED
    BY <1>1, <2>1 DEF Asked, Current
<1>3. \A r \in inflight' : ~Current(r)'
  BY <1>2 DEF Asked
<1>4. CASE Blank(to)
  <2>1. /\ timer' = FALSE /\ newest' = edits + 1
        /\ preview' = [Nothing EXCEPT !.edit = edits + 1]
    BY <1>4, Zenon DEF Changed, Blank
  <2>2. preview'.edit = edits + 1 /\ preview'.files = NoFiles
    BY <2>1 DEF Nothing
  <2>3. EditsInv'
    BY <1>1, <2>1, <2>2 DEF PreviewInv, EditsInv
  <2>4. AskedInv'
    BY <1>1, <1>2, <1>3, <2>1 DEF AskedInv
  <2>5. ShownInv'
    BY <1>1, <1>4, <2>2 DEF ShownInv, Target
  <2> QED
    BY <2>3, <2>4, <2>5 DEF PreviewInv
<1>5. CASE ~Blank(to)
  <2>1. timer' = (timer \/ Regenerates(what)) /\ preview' = preview /\ newest' = newest
    BY <1>5, Zenon DEF Changed, Blank
  <2>2. timer' = TRUE
    BY <2>1, Zenon DEF Regenerates
  <2>3. EditsInv'
    BY <1>1, <2>1 DEF PreviewInv, EditsInv
  <2>4. AskedInv'
    BY <1>1, <1>3, <1>5, <2>2 DEF AskedInv
  <2>5. ShownInv'
    BY <2>2 DEF ShownInv
  <2> QED
    BY <2>3, <2>4, <2>5 DEF PreviewInv
<1> QED
  BY <1>4, <1>5

(* An answer, or a failure, that leaves the preview with the edit of the   *)
(* request. (builder.js:676-688)                                           *)
LEMMA PreviewShown ==
    ASSUME PreviewInv, NEW r \in inflight, NEW answer, Show(r, answer),
           answer.status # 0 => answer.files = Respond(r.state).files
    PROVE  PreviewInv'
<1>1. /\ inflight' = inflight \ {r} /\ ui' = ui /\ timer' = timer /\ edits' = edits
      /\ preview' = [edit |-> r.edit, status |-> answer.status, files |-> answer.files]
      /\ newest' = IF r.edit > newest THEN r.edit ELSE newest
  BY DEF Show
<1>2. /\ preview'.edit = r.edit /\ preview'.status = answer.status
      /\ preview'.files = answer.files
  BY <1>1
<1>3. EditsInv'
  BY <1>1, <1>2 DEF PreviewInv, EditsInv
<1>4. \A q : Current(q)' <=> Current(q)
  BY <1>1 DEF Current
<1>5. Asked' => Asked
  BY <1>1, <1>4 DEF Asked
<1>6. timer' \/ Asked' \/ newest' = edits'
  <2>1. CASE Current(r)
    <3>1. newest' = edits
      BY <1>1, <2>1 DEF PreviewInv, EditsInv, Current
    <3> QED
      BY <1>1, <3>1
  <2>2. CASE ~Current(r) /\ Asked
    <3>1. PICK q \in inflight : Current(q)
      BY <2>2 DEF Asked
    <3>2. q \in inflight' /\ Current(q)'
      BY <1>1, <1>4, <2>2, <3>1
    <3> QED
      BY <3>2 DEF Asked
  <2>3. CASE newest = edits
    BY <1>1, <2>3 DEF PreviewInv, EditsInv
  <2> QED
    BY <1>1, <2>1, <2>2, <2>3 DEF PreviewInv, AskedInv
<1>7. AskedInv'
  BY <1>1, <1>4, <1>5, <1>6 DEF PreviewInv, AskedInv
<1>8. ASSUME preview'.edit = edits', preview'.status # 0 PROVE preview'.files = Target(ui)
  <2>1. Current(r) /\ Asked
    BY <1>1, <1>2, <1>8 DEF Asked, Current
  <2>2. ~Blank(ui) /\ r.state = BuildState(ui)
    BY <2>1 DEF PreviewInv, AskedInv
  <2> QED
    BY <1>2, <1>8, <2>2 DEF Target
<1>9. ShownInv'
  BY <1>1, <1>8 DEF ShownInv
<1> QED
  BY <1>3, <1>7, <1>9 DEF PreviewInv

LEMMA PreviewStep ==
    PreviewInv /\ [SessionNext]_sessionVars => PreviewInv'
<1> SUFFICES ASSUME PreviewInv, [SessionNext]_sessionVars PROVE PreviewInv'
  OBVIOUS
<1>1. CASE Seed
  <2>1. PICK rows \in Seeds : Changed("rows", [ui EXCEPT !.rows = rows])
    BY <1>1 DEF Seed
  <2> QED
    BY <2>1, PreviewChanged
<1>2. CASE Edit
  <2>1. PICK what, to : Changed(what, to)
    BY <1>2 DEF Edit
  <2> QED
    BY <2>1, PreviewChanged
<1>3. CASE Fire
  <2>1. PICK q : q = [edit |-> edits, state |-> BuildState(ui)]
    OBVIOUS
  <2>2. /\ timer /\ timer' = FALSE /\ inflight' = inflight \union {q}
        /\ ui' = ui /\ edits' = edits /\ preview' = preview /\ newest' = newest
    BY <1>3, <2>1 DEF Fire
  <2>3. q.edit = edits /\ q.state = BuildState(ui)
    BY <2>1
  <2>4. Current(q)' /\ q \in inflight'
    BY <2>2, <2>3 DEF Current
  <2>5. Asked'
    BY <2>4 DEF Asked
  <2>6. EditsInv'
    BY <2>2, <2>3 DEF PreviewInv, EditsInv
  <2>7. ~Blank(ui)
    BY <2>2 DEF PreviewInv, AskedInv
  <2>8. \A r \in inflight' : Current(r)' => r.state = BuildState(ui)
    BY <2>2, <2>3 DEF PreviewInv, AskedInv, Current
  <2>9. AskedInv'
    BY <2>2, <2>5, <2>7, <2>8 DEF AskedInv
  <2>10. ShownInv'
    BY <2>5 DEF ShownInv
  <2> QED
    BY <2>6, <2>9, <2>10 DEF PreviewInv
<1>4. CASE Arrive
  <2>1. PICK r \in inflight : Show(r, Respond(r.state))
    BY <1>4 DEF Arrive
  <2> QED
    BY <2>1, PreviewShown
<1>5. CASE Lose
  <2>1. PICK r \in inflight : Show(r, [status |-> 0, files |-> NoFiles])
    BY <1>5 DEF Lose
  <2> QED
    BY <2>1, PreviewShown
<1>6. CASE Post \/ UNCHANGED sessionVars
  <2>1. /\ timer' = timer /\ inflight' = inflight /\ ui' = ui /\ edits' = edits
        /\ preview' = preview /\ newest' = newest
    BY <1>6 DEF Post, sessionVars
  <2>2. (\A r : Current(r)' <=> Current(r)) /\ (Asked' <=> Asked)
    BY <2>1 DEF Current, Asked
  <2> QED
    BY <2>1, <2>2 DEF PreviewInv, EditsInv, AskedInv, ShownInv
<1> QED
  BY <1>1, <1>2, <1>3, <1>4, <1>5, <1>6 DEF SessionNext

(* When the page is at rest its preview is what Download would fetch, or   *)
(* empty without a schema URL, unless an older answer came last or the     *)
(* request failed, in every session. (builder.js:667-699)                  *)
THEOREM PreviewCorrect == SessionSpec => []PreviewIsCurrent
<1>1. PreviewInv => PreviewIsCurrent
  <2> SUFFICES ASSUME PreviewInv, AtRest, preview.edit = newest, preview.status # 0
               PROVE  preview.files = Target(ui)
    BY Zenon DEF PreviewIsCurrent, Target, Blank
  <2>1. ~timer /\ ~Asked
    BY DEF AtRest, Asked
  <2> QED
    BY <2>1 DEF PreviewInv, AskedInv, ShownInv
<1> QED
  BY PreviewInit, PreviewStep, <1>1, PTL DEF SessionSpec

-----------------------------------------------------------------------------
\* Recursion over sequences

(* Every set of natural numbers that is not empty has a least one.         *)
LEMMA LeastOfNaturals ==
    ASSUME NEW T, T \subseteq Nat, T # {}
    PROVE  \E x \in T : \A y \in T : x <= y
<1> DEFINE R == {ss \in Nat \X Nat : ss[1] < ss[2]}
<1>1. IsWellFoundedOn(R, Nat)
  BY NatLessThanWellFounded, Zenon DEF OpToRel
<1> HIDE DEF R
<1>2. PICK x \in T : \A y \in T : ~ (<<y, x>> \in R)
  BY <1>1, WFMin, Zenon
<1>3. \A y \in T : ~ (y < x)
  BY <1>2 DEF R
<1> QED
  BY <1>3

(* What holds of 0, and of n + 1 if it does of n, holds of all.            *)
LEMMA SetInduction ==
    ASSUME NEW T, 0 \in T, \A n \in Nat : n \in T => n + 1 \in T
    PROVE  Nat \subseteq T
<1> SUFFICES ASSUME Nat \ T # {} PROVE FALSE
  OBVIOUS
<1>1. PICK x \in Nat \ T : \A y \in Nat \ T : x <= y
  BY LeastOfNaturals
<1>2. x # 0 /\ x - 1 \in Nat /\ x - 1 + 1 = x
  BY <1>1
<1>3. x - 1 \in T
  BY <1>1, <1>2
<1> QED
  BY <1>1, <1>2, <1>3

(* The recursion in the definition of a fold has a solution: for every set *)
(* of places, what is left of the greatest of them last.                   *)
Solves(it, h, base, s, n) ==
    \A T \in SUBSET (1 .. n) :
        it[T] = IF T = {} THEN base ELSE h[<<it[T \ {Max(T)}], s[Max(T)]>>]

HasSolution(A, h, base, s, n) ==
    \E it \in [SUBSET (1 .. n) -> A] : Solves(it, h, base, s, n)

LEMMA MaxOfPlaces ==
    ASSUME NEW n \in Nat, NEW T \in SUBSET (1 .. n + 1), n + 1 \in T
    PROVE  Max(T) = n + 1
<1>1. \A y \in T : n + 1 >= y
  OBVIOUS
<1>2. \A x \in T : (\A y \in T : x >= y) => x = n + 1
  OBVIOUS
<1>3. \E x \in T : \A y \in T : x >= y
  BY <1>1
<1> QED
  BY <1>2, <1>3, Zenon DEF Max

LEMMA MaxIsPlace ==
    ASSUME NEW n \in Nat, NEW T \in SUBSET (1 .. n), T # {}
    PROVE  Max(T) \in T
<1> DEFINE U == {n - y : y \in T}
<1>1. U \subseteq Nat
  OBVIOUS
<1>2. U # {}
  OBVIOUS
<1>3. PICK u \in U : \A v \in U : u <= v
  BY <1>1, <1>2, LeastOfNaturals
<1>4. PICK m \in T : u = n - m
  OBVIOUS
<1>5. ASSUME NEW y \in T PROVE m >= y
  <2>1. n - y \in U /\ y \in Nat /\ m \in Nat
    OBVIOUS
  <2>2. n - m <= n - y
    BY <1>3, <1>4, <2>1
  <2> QED
    BY <2>1, <2>2
<1> QED
  BY <1>5, Zenon DEF Max

LEMMA FoldExists ==
    ASSUME NEW A, NEW M, NEW base \in A, NEW h \in [A \X M -> A], NEW s,
           NEW len \in Nat, \A i \in 1 .. len : s[i] \in M
    PROVE  HasSolution(A, h, base, s, len)
<1> DEFINE P(n) == n <= len => HasSolution(A, h, base, s, n)
           T0 == {n \in Nat : P(n)}
<1>1. P(0)
  <2> DEFINE it == [T \in SUBSET (1 .. 0) |-> base]
  <2>1. \A T \in SUBSET (1 .. 0) : T = {}
    OBVIOUS
  <2>2. it \in [SUBSET (1 .. 0) -> A] /\ Solves(it, h, base, s, 0)
    BY <2>1 DEF Solves
  <2> QED
    BY <2>2 DEF HasSolution
<1>2. ASSUME NEW n \in Nat, P(n) PROVE P(n + 1)
  <2> SUFFICES ASSUME n + 1 <= len
               PROVE  HasSolution(A, h, base, s, n + 1)
    OBVIOUS
  <2>1. PICK it \in [SUBSET (1 .. n) -> A] : Solves(it, h, base, s, n)
    <3>1. n <= len
      OBVIOUS
    <3> QED
      BY <1>2, <3>1, Zenon DEF HasSolution
  <2> DEFINE Next1(T) == h[<<it[T \ {n + 1}], s[n + 1]>>]
             jt == [T \in SUBSET (1 .. n + 1) |-> IF n + 1 \in T THEN Next1(T) ELSE it[T]]
  <2>2. \A T \in SUBSET (1 .. n + 1) : T \ {n + 1} \in SUBSET (1 .. n)
    OBVIOUS
  <2>3. \A T \in SUBSET (1 .. n + 1) : n + 1 \notin T => T \in SUBSET (1 .. n)
    OBVIOUS
  <2>4. s[n + 1] \in M
    OBVIOUS
  <2>5. jt \in [SUBSET (1 .. n + 1) -> A]
    BY <2>2, <2>3, <2>4
  <2>6. ASSUME NEW T \in SUBSET (1 .. n + 1)
        PROVE  jt[T] = IF T = {} THEN base ELSE h[<<jt[T \ {Max(T)}], s[Max(T)]>>]
    <3>1. CASE n + 1 \in T
      <4>1. Max(T) = n + 1
        BY <3>1, MaxOfPlaces
      <4>2. jt[T \ {n + 1}] = it[T \ {n + 1}]
        BY <2>2
      <4> QED
        BY <3>1, <4>1, <4>2
    <3>2. CASE n + 1 \notin T
      <4>1. T \in SUBSET (1 .. n) /\ T \ {Max(T)} \in SUBSET (1 .. n)
        BY <2>3, <3>2
      <4>2. jt[T] = it[T] /\ jt[T \ {Max(T)}] = it[T \ {Max(T)}]
        BY <3>2, <4>1
      <4> QED
        BY <2>1, <4>1, <4>2 DEF Solves
    <3> QED
      BY <3>1, <3>2
  <2>7. Solves(jt, h, base, s, n + 1)
    BY <2>6 DEF Solves
  <2> QED
    BY <2>5, <2>7, Zenon DEF HasSolution
<1> HIDE DEF P
<1>3. Nat \subseteq T0
  <2>1. 0 \in T0
    BY <1>1
  <2>2. \A n \in Nat : n \in T0 => n + 1 \in T0
    BY <1>2
  <2> QED
    BY <2>1, <2>2, SetInduction
<1>4. P(len)
  BY <1>3, Zenon
<1>5. len <= len
  OBVIOUS
<1> QED
  BY <1>4, <1>5, Zenon DEF P

(* What a solution says of the places up to one.                           *)
LEMMA SolutionByPlace ==
    ASSUME NEW n \in Nat, NEW i \in 1 .. n
    PROVE  /\ 1 .. i \in SUBSET (1 .. n) /\ 1 .. i # {}
           /\ Max(1 .. i) = i /\ (1 .. i) \ {i} = 1 .. i - 1
           /\ 1 .. i - 1 \in SUBSET (1 .. n)
<1>1. i - 1 \in Nat /\ i - 1 + 1 = i
  OBVIOUS
<1>2. 1 .. i \in SUBSET (1 .. i - 1 + 1) /\ i \in 1 .. i
  OBVIOUS
<1>3. Max(1 .. i) = i
  BY <1>1, <1>2, MaxOfPlaces
<1> QED
  BY <1>1, <1>3

-----------------------------------------------------------------------------
\* What the page posts

(* A check of the page: of a template, with its defaults but for a list.   *)
Defaults == {<<"acme.">>, <<"int">>, <<Absent>>}
PageParams(t) ==
    {p \in [Keys -> {<< >>} \union Defaults \union ListTexts] :
        \A key \in Keys \ {"allowed"} :
            IF key \in Required[t] THEN p[key] \in Defaults ELSE p[key] = << >>}
CheckOf(t, p) == [raw |-> Absent, template |-> t, name |-> Absent, params |-> p]
PageChecks == UNION {{CheckOf(t, p) : p \in PageParams(t)} : t \in Templates}
Complete == {c \in PageChecks : CheckComplete(c)}

LEMMA PageCheckFields ==
    ASSUME NEW c \in PageChecks
    PROVE  \E t \in Templates : \E p \in PageParams(t) : c = CheckOf(t, p)
BY DEF PageChecks

LEMMA NewCheckOfPage ==
    ASSUME NEW t \in Templates
    PROVE  NewCheck(t) \in PageChecks
<1> DEFINE default(key) ==
             IF key \notin Required[t] THEN << >>
             ELSE CASE key = "prefix" -> <<"acme.">>
                    [] key = "expected_type" -> <<"int">>
                    [] OTHER -> <<Absent>>
           p == [key \in Keys |-> default(key)]
<1>1. NewCheck(t) = CheckOf(t, p)
  BY Zenon DEF NewCheck, DefaultParams, CheckOf
<1>2. \A key : IF key \in Required[t] THEN default(key) \in Defaults ELSE default(key) = << >>
  BY DEF Defaults
<1> HIDE DEF default
<1>3. p \in PageParams(t)
  BY <1>2 DEF PageParams
<1> HIDE DEF p
<1> QED
  BY <1>1, <1>3 DEF PageChecks

(* A complete check of the page is refused only for its list.              *)
LEMMA OnlyListsRefused ==
    ASSUME NEW c \in Complete, ~Emits(c)
    PROVE  c.template = "namespace_allow_list" /\ Param(c.params, "allowed") = {}
<1>1. PICK t : t \in Templates /\ \E p \in PageParams(t) : c = CheckOf(t, p)
  BY PageCheckFields DEF Complete
<1>2. PICK p \in PageParams(t) : c = CheckOf(t, p)
  BY <1>1
<1>3. c.template = t /\ c.params = p
  BY <1>2 DEF CheckOf
<1>4. \A key \in Required[t] : p[key] # <<Absent>>
  <2>1. CheckComplete(c)
    BY DEF Complete
  <2> QED
    BY <1>3, <2>1, Zenon DEF CheckComplete
<1>5. PICK key \in Required[t] : Param(p, key) = {}
  BY <1>1, <1>3, Zenon DEF Emits
<1>6. key \in Keys
  BY <1>1, <1>5 DEF Required, Templates, Keys
<1>7. ASSUME key # "allowed" PROVE FALSE
  <2>1. p[key] = <<"acme.">> \/ p[key] = <<"int">>
    BY <1>2, <1>4, <1>5, <1>6, <1>7 DEF PageParams, Defaults
  <2>2. PICK x : p[key] = <<x>> /\ x # Absent
    <3>1. "acme." # Absent /\ "int" # Absent
      BY Zenon DEF Absent
    <3> QED
      BY <2>1, <3>1
  <2>3. x \in ToSet(p[key])
    BY <2>2 DEF ToSet
  <2>4. Param(p, key) = ToSet(p[key]) \ {Absent}
    BY DEF Param
  <2> QED
    BY <1>5, <2>2, <2>3, <2>4
<1>8. \A u \in Templates : "allowed" \in Required[u] => u = "namespace_allow_list"
  BY DEF Required, Templates
<1> QED
  BY <1>1, <1>3, <1>5, <1>7, <1>8

(* Only complete checks are kept. (builder.js:112-121)                     *)
LEMMA KeptAreComplete ==
    ASSUME NEW s \in Seq(PageChecks)
    PROVE  FoldLeft(KeepComplete, << >>, s) \in Seq(Complete)
<1> DEFINE A == Seq(Complete)
           h == [am \in A \X PageChecks |-> KeepComplete(am[1], am[2])]
           len == Len(s)
           Step(it, T) ==
               IF T = {} THEN << >> ELSE KeepComplete(it[T \ {Max(T)}], s[Max(T)])
           Fold == CHOOSE it : it = [T \in SUBSET (1 .. len) |-> Step(it, T)]
<1>1. len \in Nat /\ DOMAIN s = 1 .. len /\ \A i \in 1 .. len : s[i] \in PageChecks
  OBVIOUS
<1>2. ASSUME NEW a \in A, NEW c \in PageChecks PROVE KeepComplete(a, c) \in A
  <2>1. CheckComplete(c) => c \in Complete
    BY DEF Complete
  <2> HIDE DEF Complete
  <2> QED
    BY <2>1, AppendProperties DEF KeepComplete
<1>3. h \in [A \X PageChecks -> A] /\ << >> \in A
  <2>1. ASSUME NEW am \in A \X PageChecks PROVE KeepComplete(am[1], am[2]) \in A
    <3>1. am[1] \in A /\ am[2] \in PageChecks
      OBVIOUS
    <3> QED
      BY <1>2, <3>1
  <2>2. << >> \in A
    OBVIOUS
  <2> QED
    BY <2>1, <2>2, Zenon
<1> HIDE DEF h, A
<1>4. PICK it \in [SUBSET (1 .. len) -> A] : Solves(it, h, << >>, s, len)
  <2>1. HasSolution(A, h, << >>, s, len)
    BY <1>1, <1>3, FoldExists
  <2> QED
    BY <2>1 DEF HasSolution
<1>5. ASSUME NEW T \in SUBSET (1 .. len) PROVE it[T] = Step(it, T)
  <2>1. CASE T = {}
    BY <1>4, <2>1 DEF Solves
  <2>2. CASE T # {}
    <3>1. Max(T) \in 1 .. len
      BY <1>1, <2>2, MaxIsPlace
    <3>2. s[Max(T)] \in PageChecks /\ it[T \ {Max(T)}] \in A
      BY <1>1, <3>1
    <3> QED
      BY <1>4, <2>2, <3>2 DEF Solves, h
  <2> QED
    BY <2>1, <2>2
<1>6. it = [T \in SUBSET (1 .. len) |-> Step(it, T)]
  BY <1>5, Zenon
<1>7. Fold = [T \in SUBSET (1 .. len) |-> Step(Fold, T)]
  BY <1>6, Zenon
<1>8. FoldLeft(KeepComplete, << >>, s) = Fold[1 .. len]
  BY <1>1 DEF FoldLeft, MapThenFoldSet, Max, Max
<1> HIDE DEF Fold
<1> DEFINE P(n) == n <= len => Fold[1 .. n] \in A
           T0 == {n \in Nat : P(n)}
<1>9. P(0)
  <2>1. 1 .. 0 = {} /\ 1 .. 0 \in SUBSET (1 .. len)
    OBVIOUS
  <2> QED
    BY <1>3, <1>7, <2>1
<1>10. ASSUME NEW n \in Nat, P(n) PROVE P(n + 1)
  <2> SUFFICES ASSUME n + 1 <= len PROVE Fold[1 .. n + 1] \in A
    OBVIOUS
  <2> DEFINE i == n + 1
  <2>1. i \in 1 .. len /\ i - 1 = n /\ n <= len
    BY <1>1
  <2>2. /\ 1 .. i \in SUBSET (1 .. len) /\ 1 .. i # {}
        /\ Max(1 .. i) = i /\ (1 .. i) \ {i} = 1 .. i - 1
    BY <1>1, <2>1, SolutionByPlace
  <2>3. Fold[1 .. i] = KeepComplete(Fold[1 .. i - 1], s[i])
    BY <1>7, <2>2
  <2>4. Fold[1 .. i - 1] \in A /\ s[i] \in PageChecks
    BY <1>1, <1>10, <2>1
  <2> QED
    BY <1>2, <2>3, <2>4
<1> HIDE DEF P
<1>11. Nat \subseteq T0
  <2>1. 0 \in T0 /\ \A n \in Nat : n \in T0 => n + 1 \in T0
    BY <1>9, <1>10
  <2> QED
    BY <2>1, SetInduction
<1>12. P(len)
  BY <1>1, <1>11, Zenon
<1> QED
  BY <1>1, <1>8, <1>12 DEF P, A

(* The form of a page, and what is made of it.                             *)
Form(s, r, c, g) == [schema |-> s, rows |-> r, checks |-> c, config |-> g]
IsList(r) == \E R : r \in Seq(R)
IsForm(u) ==
    \E s, r, c, g : IsList(r) /\ c \in Seq(PageChecks) /\ u = Form(s, r, c, g)
OfPage(state) ==
    /\ \E r : IsList(r) /\ state.groups = [i \in DOMAIN r |-> RowGroup(r[i])]
    /\ state.policies \in Seq(Complete)

LEMMA BuiltOfPage ==
    ASSUME NEW u, IsForm(u)
    PROVE  OfPage(BuildState(u))
<1>1. u.checks \in Seq(PageChecks) /\ IsList(u.rows)
  BY DEF IsForm, Form
<1>2. BuildState(u).policies = FoldLeft(KeepComplete, << >>, u.checks)
  BY DEF BuildState
<1>3. BuildState(u).groups = [i \in DOMAIN u.rows |-> RowGroup(u.rows[i])]
  BY DEF BuildState
<1>4. BuildState(u).policies \in Seq(Complete)
  BY <1>1, <1>2, KeptAreComplete
<1> QED
  BY <1>1, <1>3, <1>4, Zenon DEF OfPage

LEMMA ListTyped ==
    ASSUME NEW c \in PageChecks, NEW x \in ListTexts
    PROVE  [c EXCEPT !.params.allowed = x] \in PageChecks
<1>1. PICK t : t \in Templates /\ \E p \in PageParams(t) : c = CheckOf(t, p)
  BY PageCheckFields
<1>2. PICK p \in PageParams(t) : c = CheckOf(t, p)
  BY <1>1
<1> DEFINE q == [p EXCEPT !["allowed"] = x]
<1>3. PICK y : y = [c EXCEPT !.params.allowed = x]
  OBVIOUS
<1>4. y = CheckOf(t, q)
  BY <1>2, <1>3 DEF CheckOf
<1>5. q \in PageParams(t)
  BY <1>2 DEF PageParams
<1> HIDE DEF q
<1>6. y \in PageChecks
  BY <1>1, <1>4, <1>5 DEF PageChecks
<1> QED
  BY <1>3, <1>6

LEMMA CheckRemoved ==
    ASSUME NEW s \in Seq(PageChecks), NEW i \in DOMAIN s
    PROVE  RemoveAt(s, i) \in Seq(PageChecks)
<1>1. Len(s) \in Nat /\ i \in 1 .. Len(s)
  OBVIOUS
<1>2. SubSeq(s, 1, i - 1) \in Seq(PageChecks)
  BY <1>1, SubSeqProperties
<1>3. SubSeq(s, i + 1, Len(s)) \in Seq(PageChecks)
  BY <1>1, SubSeqProperties
<1> QED
  BY <1>2, <1>3, ConcatProperties DEF RemoveAt

(* Every edit leaves a form.                                               *)
LEMMA EditedChecksOfPage ==
    ASSUME NEW c \in Seq(PageChecks), NEW d \in EditedChecks(c)
    PROVE  d \in Seq(PageChecks)
<1>1. CASE \E t \in Templates : d = Append(c, NewCheck(t))
  BY <1>1, NewCheckOfPage, AppendProperties
<1>2. CASE \E i \in DOMAIN c : d = RemoveAt(c, i)
  BY <1>2, CheckRemoved
<1>3. CASE \E i \in DOMAIN c, x \in ListTexts :
              d = [c EXCEPT ![i].params.allowed = x]
  <2>1. PICK i \in DOMAIN c, x \in ListTexts :
            d = [c EXCEPT ![i].params.allowed = x]
    BY <1>3
  <2>2. PICK y : y = [c[i] EXCEPT !.params.allowed = x]
    OBVIOUS
  <2>3. y \in PageChecks
    BY <2>1, <2>2, ListTyped
  <2>4. d = [c EXCEPT ![i] = y]
    BY <2>1, <2>2
  <2> QED
    BY <2>3, <2>4
<1> QED
  BY <1>1, <1>2, <1>3 DEF EditedChecks

LEMMA EditedRowsListed ==
    ASSUME NEW r, IsList(r), NEW x \in EditedRows(r)
    PROVE  IsList(x)
<1>1. Len(r) \in Nat /\ DOMAIN r = 1 .. Len(r)
  BY DEF IsList
<1>2. \E X : x \in [1 .. Len(r) -> X]
  <2> DEFINE Spaced(sel, ns) ==
                [i \in DOMAIN r |-> IF i \in sel THEN [r[i] EXCEPT !.namespace = ns] ELSE r[i]]
             Typed(i, t) == [r EXCEPT ![i].type = t]
  <2>1. CASE \E sel \in SUBSET DOMAIN r, ns \in NamespaceTexts : x = Spaced(sel, ns)
    <3>1. PICK sel \in SUBSET DOMAIN r, ns \in NamespaceTexts : x = Spaced(sel, ns)
      BY <2>1
    <3> DEFINE val(i) == IF i \in sel THEN [r[i] EXCEPT !.namespace = ns] ELSE r[i]
    <3>2. x = [i \in 1 .. Len(r) |-> val(i)]
      BY <1>1, <3>1, Zenon
    <3> HIDE DEF val
    <3>3. x \in [1 .. Len(r) -> {val(i) : i \in 1 .. Len(r)}]
      BY <3>2
    <3> QED
      BY <3>3
  <2>2. CASE \E i \in DOMAIN r, t \in TypeTexts : x = Typed(i, t)
    <3>1. PICK i \in DOMAIN r, t \in TypeTexts : x = Typed(i, t)
      BY <2>2
    <3>2. PICK y : y = [r[i] EXCEPT !.type = t]
      OBVIOUS
    <3>3. x = [r EXCEPT ![i] = y]
      BY <3>1, <3>2
    <3>4. x \in [1 .. Len(r) -> {r[j] : j \in DOMAIN r} \union {y}]
      BY <1>1, <3>3 DEF IsList
    <3> QED
      BY <3>4
  <2>3. \/ \E sel \in SUBSET DOMAIN r, ns \in NamespaceTexts : x = Spaced(sel, ns)
        \/ \E i \in DOMAIN r, t \in TypeTexts : x = Typed(i, t)
    <3>1. EditedRows(r) =
            {Spaced(sel, ns) : sel \in SUBSET DOMAIN r, ns \in NamespaceTexts}
                \union {Typed(i, t) : i \in DOMAIN r, t \in TypeTexts}
      BY DEF EditedRows
    <3> HIDE DEF Spaced, Typed
    <3> QED
      BY <3>1
  <2> QED
    BY <2>1, <2>2, <2>3
<1>3. PICK X : x \in [1 .. Len(r) -> X]
  BY <1>2
<1>4. x \in Seq(X)
  BY <1>1, <1>3
<1> QED
  BY <1>4 DEF IsList

LEMMA FormEdited ==
    ASSUME NEW u, IsForm(u), NEW x
    PROVE  /\ IsForm([u EXCEPT !.schema = x]) /\ IsForm([u EXCEPT !.config = x])
           /\ x \in Seeds \/ x \in EditedRows(u.rows) => IsForm([u EXCEPT !.rows = x])
           /\ x \in EditedChecks(u.checks) => IsForm([u EXCEPT !.checks = x])
<1>1. PICK s, r, c, g : IsList(r) /\ c \in Seq(PageChecks) /\ u = Form(s, r, c, g)
  BY DEF IsForm
<1>2. /\ [u EXCEPT !.schema = x] = Form(x, r, c, g) /\ [u EXCEPT !.rows = x] = Form(s, x, c, g)
      /\ [u EXCEPT !.config = x] = Form(s, r, c, x) /\ [u EXCEPT !.checks = x] = Form(s, r, x, g)
      /\ u.checks = c /\ u.rows = r
  BY <1>1 DEF Form
<1>3. x \in EditedChecks(u.checks) => x \in Seq(PageChecks)
  BY <1>1, <1>2, EditedChecksOfPage
<1>4. x \in Seeds \/ x \in EditedRows(u.rows) => IsList(x)
  <2>1. x \in Seeds => IsList(x)
    BY InputsAssumption DEF IsList
  <2> QED
    BY <1>1, <1>2, <2>1, EditedRowsListed
<1>5. /\ IsForm(Form(x, r, c, g)) /\ IsForm(Form(s, r, c, x))
      /\ IsList(x) => IsForm(Form(s, x, c, g))
      /\ x \in Seq(PageChecks) => IsForm(Form(s, r, x, g))
  BY <1>1, Zenon DEF IsForm
<1> QED
  BY <1>2, <1>3, <1>4, <1>5

(* The page's form, the requests under way and the last one answered, which*)
(* was answered by Respond, are what the page can make.                    *)
AnsweredInv ==
    /\ IsForm(ui) /\ \A r \in inflight : OfPage(r.state)
    /\ inflight # {} => client = "page"
    /\ answered # << >> =>
          /\ answered.answer = Respond(answered.state)
          /\ IF client = "page" THEN OfPage(answered.state) ELSE answered.state \in Posts

LEMMA AnsweredInit ==
    ASSUME SessionInit
    PROVE  AnsweredInv
<1>1. ui = Form("versioned", << >>, << >>, NoConfig)
  BY DEF SessionInit, Form
<1>2. << >> \in Seq(PageChecks) /\ IsList(<< >>)
  <2>1. << >> \in Seq(PageChecks)
    OBVIOUS
  <2> QED
    BY <2>1, Zenon DEF IsList
<1>3. IsForm(ui)
  BY <1>1, <1>2, Zenon DEF IsForm
<1> QED
  BY <1>3 DEF AnsweredInv, SessionInit

LEMMA AnsweredStep ==
    AnsweredInv /\ [SessionNext]_sessionVars => AnsweredInv'
<1> SUFFICES ASSUME AnsweredInv, [SessionNext]_sessionVars PROVE AnsweredInv'
  OBVIOUS
<1>1. ASSUME NEW what, NEW to, Changed(what, to), IsForm(to) PROVE AnsweredInv'
  <2>1. ui' = to /\ inflight' = inflight /\ answered' = answered /\ client' = client
    BY <1>1, Zenon DEF Changed
  <2> QED
    BY <1>1, <2>1 DEF AnsweredInv
<1>2. CASE Seed
  <2>1. PICK rows \in Seeds : Changed("rows", [ui EXCEPT !.rows = rows])
    BY <1>2 DEF Seed
  <2>2. IsForm([ui EXCEPT !.rows = rows])
    BY FormEdited DEF AnsweredInv
  <2> QED
    BY <1>1, <2>1, <2>2
<1>3. CASE Edit
  <2>1. PICK what, to : Changed(what, to) /\ IsForm(to)
    <3>1. /\ \A x : IsForm([ui EXCEPT !.schema = x]) /\ IsForm([ui EXCEPT !.config = x])
          /\ \A x \in EditedRows(ui.rows) : IsForm([ui EXCEPT !.rows = x])
          /\ \A x \in EditedChecks(ui.checks) : IsForm([ui EXCEPT !.checks = x])
      BY FormEdited DEF AnsweredInv
    <3> QED
      BY <1>3, <3>1, Zenon DEF Edit
  <2> QED
    BY <1>1, <2>1
<1>4. CASE Fire
  <2>1. PICK q : q = [edit |-> edits, state |-> BuildState(ui)]
    OBVIOUS
  <2>2. /\ inflight' = inflight \union {q} /\ client = "page"
        /\ ui' = ui /\ answered' = answered /\ client' = client
    BY <1>4, <2>1 DEF Fire
  <2>3. OfPage(q.state)
    BY <2>1, BuiltOfPage DEF AnsweredInv
  <2> QED
    BY <2>2, <2>3 DEF AnsweredInv
<1>5. CASE Arrive
  <2>1. PICK r \in inflight :
            /\ Show(r, Respond(r.state))
            /\ answered' = [state |-> r.state, answer |-> Respond(r.state)]
    BY <1>5 DEF Arrive
  <2>2. inflight' = inflight \ {r} /\ ui' = ui /\ client' = client
    BY <2>1 DEF Show
  <2>3. answered'.state = r.state /\ answered'.answer = Respond(r.state)
    BY <2>1
  <2> QED
    BY <2>2, <2>3 DEF AnsweredInv
<1>6. CASE Lose
  <2>1. PICK r \in inflight :
            Show(r, [status |-> 0, files |-> NoFiles]) /\ answered' = answered
    BY <1>6 DEF Lose
  <2>2. inflight' = inflight \ {r} /\ ui' = ui /\ client' = client
    BY <2>1 DEF Show
  <2> QED
    BY <2>1, <2>2 DEF AnsweredInv
<1>7. CASE Post
  <2>1. PICK s \in Posts : answered' = [state |-> s, answer |-> Respond(s)]
    BY <1>7 DEF Post
  <2>2. answered'.state = s /\ answered'.answer = Respond(s)
    BY <2>1
  <2>3. inflight' = inflight /\ ui' = ui /\ client' = client /\ client # "page"
    BY <1>7 DEF Post
  <2> QED
    BY <2>2, <2>3 DEF AnsweredInv
<1>8. CASE UNCHANGED sessionVars
  BY <1>8 DEF sessionVars, AnsweredInv
<1> QED
  BY <1>2, <1>3, <1>4, <1>5, <1>6, <1>7, <1>8 DEF SessionNext

(* A project that validation let through is refused only for a check, and  *)
(* the page's only for an allow-list of nothing but separators, which page *)
(* and server judge differently; the default dependency is one or none.    *)
(* (handlers_builder.go:38-78, builder.js:74-79, policy.go:297-325)        *)
THEOREM ValidationCorrect == SessionSpec => []ValidationCoversGeneration
<1>1. AnsweredInv => ValidationCoversGeneration
  <2> SUFFICES ASSUME AnsweredInv, answered # << >>, answered.answer.status = 500
               PROVE  \E i \in DOMAIN State.policies :
                         /\ ~Emits(State.policies[i])
                         /\ client = "page" =>
                               /\ State.policies[i].template = "namespace_allow_list"
                               /\ Param(State.policies[i].params, "allowed") = {}
    BY Zenon DEF ValidationCoversGeneration
  <2>1. PICK s : s = State
    OBVIOUS
  <2>2. s = answered.state
    BY <2>1 DEF State
  <2>3. Respond(s).status = 500
    BY <2>2 DEF AnsweredInv
  <2>4. Valid(s) /\ ~CanGenerate(s)
    BY <2>3 DEF Respond
  <2>5. Len(Dependencies(s.manifest)) <= 1
    BY <2>4, DepsAssumption DEF Valid, Dependencies
  <2>6. PICK i \in DOMAIN s.policies : ~Emits(s.policies[i])
    BY <2>4, <2>5 DEF CanGenerate, Valid
  <2>7. ASSUME client = "page"
        PROVE  /\ s.policies[i].template = "namespace_allow_list"
               /\ Param(s.policies[i].params, "allowed") = {}
    <3>1. s.policies \in Seq(Complete)
      BY <2>2, <2>7 DEF AnsweredInv, OfPage
    <3>2. s.policies[i] \in Complete
      BY <3>1
    <3> QED
      BY <2>6, <3>2, OnlyListsRefused
  <2> QED
    BY <2>1, <2>6, <2>7
<1>2. SessionInit => AnsweredInv
  BY AnsweredInit
<1> QED
  BY <1>1, <1>2, AnsweredStep, PTL DEF SessionSpec

-----------------------------------------------------------------------------
\* Groups, input by input

(* Inputs whose briefs are of texts of W, and attributes of B.             *)
GroupsOf(s, W, B) ==
    /\ \E S : s \in Seq(S)
    /\ Space \in W
    /\ \A i \in DOMAIN s : s[i].brief \in Seq(W) /\ s[i].attributes \in Seq(B)

(* What can be made of them.                                               *)
Made(s, W, B) ==
    [id : {s[i].id : i \in DOMAIN s},
     type : {Absent} \union {s[i].type : i \in DOMAIN s},
     stability : {Absent} \union {s[i].stability : i \in DOMAIN s},
     brief : Seq(W), attributes : Seq({Enriched(b) : b \in B})]
ByKey(s, W, B) ==
    UNION {[D -> Made(s, W, B)] : D \in SUBSET {FileKey(s[i]) : i \in DOMAIN s}}

LEMMA ByKeyFields ==
    ASSUME NEW s, NEW W, NEW B, NEW a \in ByKey(s, W, B)
    PROVE  /\ DOMAIN a \subseteq {FileKey(s[i]) : i \in DOMAIN s}
           /\ a = [n \in DOMAIN a |-> a[n]]
           /\ \A n \in DOMAIN a : a[n] \in Made(s, W, B)
BY DEF ByKey

LEMMA ByKeyFrom ==
    ASSUME NEW s, NEW W, NEW B, NEW D, D \subseteq {FileKey(s[i]) : i \in DOMAIN s},
           NEW a \in [D -> Made(s, W, B)]
    PROVE  a \in ByKey(s, W, B)
BY DEF ByKey

LEMMA EnrichedAllType ==
    ASSUME NEW B, NEW q \in Seq(B)
    PROVE  EnrichedAll(q) \in Seq({Enriched(b) : b \in B})
<1>1. Len(q) \in Nat /\ DOMAIN q = 1 .. Len(q) /\ \A i \in 1 .. Len(q) : q[i] \in B
  OBVIOUS
<1>2. EnrichedAll(q) \in [1 .. Len(q) -> {Enriched(b) : b \in B}]
  BY <1>1 DEF EnrichedAll
<1> QED
  BY <1>1, <1>2

LEMMA WithBriefType ==
    ASSUME NEW W, Space \in W, NEW t \in Seq(W), NEW u \in Seq(W)
    PROVE  WithBrief(t, u) \in Seq(W) /\ t \o <<Space>> \in Seq(W)
<1>1. t \o <<Space>> \in Seq(W)
  <2>1. <<Space>> \in Seq(W)
    OBVIOUS
  <2> QED
    BY <2>1, ConcatProperties
<1>2. (t \o <<Space>>) \o u \in Seq(W)
  BY <1>1, ConcatProperties
<1> QED
  BY <1>1, <1>2 DEF WithBrief, WithSpace

LEMMA MergeType ==
    ASSUME NEW s, NEW W, NEW B, GroupsOf(s, W, B), NEW i \in DOMAIN s,
           NEW a \in ByKey(s, W, B)
    PROVE  /\ Part(a, s[i]) \in Made(s, W, B)
           /\ Joined(Part(a, s[i]), s[i]) \in Made(s, W, B)
           /\ MergeGroup(a, s[i]) \in ByKey(s, W, B)
<1> DEFINE g == s[i]
           p == Part(a, g)
<1>1. g.brief \in Seq(W) /\ g.attributes \in Seq(B)
  BY DEF GroupsOf
<1>2. p \in Made(s, W, B)
  <2>1. NewGroup(g) \in Made(s, W, B)
    BY DEF NewGroup, Made
  <2> QED
    BY <2>1, ByKeyFields DEF Part
<1>3. Joined(p, g) \in Made(s, W, B)
  <2>1. EnrichedAll(g.attributes) \in Seq({Enriched(b) : b \in B})
    BY <1>1, EnrichedAllType
  <2>2. p.brief \in Seq(W) /\ p.attributes \in Seq({Enriched(b) : b \in B})
    BY <1>2 DEF Made
  <2>3. WithBrief(p.brief, g.brief) \in Seq(W)
    <3>1. Space \in W
      BY DEF GroupsOf
    <3> HIDE DEF p, g
    <3> QED
      BY <1>1, <2>2, <3>1, WithBriefType
  <2>4. p.attributes \o EnrichedAll(g.attributes) \in Seq({Enriched(b) : b \in B})
    BY <2>1, <2>2, ConcatProperties
  <2> DEFINE b1 == WithBrief(p.brief, g.brief)
             a1 == p.attributes \o EnrichedAll(g.attributes)
             t1 == FirstNonEmpty(p.type, g.type)
             s1 == FirstNonEmpty(p.stability, g.stability)
  <2>5. b1 \in Seq(W) /\ a1 \in Seq({Enriched(b) : b \in B})
    BY <2>2, <2>3, <2>4
  <2>6. /\ t1 \in {Absent} \union {s[j].type : j \in DOMAIN s}
        /\ s1 \in {Absent} \union {s[j].stability : j \in DOMAIN s}
        /\ p.id \in {s[j].id : j \in DOMAIN s}
    BY <1>2 DEF Made, FirstNonEmpty
  <2>7. Joined(p, g) = [id |-> p.id, type |-> t1, stability |-> s1, brief |-> b1, attributes |-> a1]
    BY DEF Joined
  <2> HIDE DEF b1, a1, t1, s1
  <2> QED
    BY <2>5, <2>6, <2>7 DEF Made
<1>4. MergeGroup(a, g) \in ByKey(s, W, B)
  <2> DEFINE D == DOMAIN a \union {FileKey(g)}
  <2>1. D \subseteq {FileKey(s[j]) : j \in DOMAIN s}
    BY ByKeyFields
  <2>2. MergeGroup(a, g) \in [D -> Made(s, W, B)]
    BY <1>3, ByKeyFields DEF MergeGroup
  <2> QED
    BY <2>1, <2>2, ByKeyFrom, Zenon
<1> QED
  BY <1>2, <1>3, <1>4, Zenon

(* The fold goes input by input.                                           *)
LEMMA GroupsByStep ==
    ASSUME NEW s, NEW W, NEW B, GroupsOf(s, W, B)
    PROVE  /\ Len(s) \in Nat /\ DOMAIN s = 1 .. Len(s)
           /\ \E F \in [0 .. Len(s) -> ByKey(s, W, B)] :
                /\ F[0] = NoFiles
                /\ \A i \in 1 .. Len(s) : F[i] = MergeGroup(F[i - 1], s[i])
                /\ FoldLeft(MergeGroup, NoFiles, s) = F[Len(s)]
<1> DEFINE A == ByKey(s, W, B)
           M == {s[i] : i \in DOMAIN s}
           h == [am \in A \X M |-> MergeGroup(am[1], am[2])]
           len == Len(s)
           Step(it, T) ==
               IF T = {} THEN NoFiles ELSE MergeGroup(it[T \ {Max(T)}], s[Max(T)])
           Fold == CHOOSE it : it = [T \in SUBSET (1 .. len) |-> Step(it, T)]
           F == [i \in 0 .. len |-> Fold[1 .. i]]
<1>1. len \in Nat /\ DOMAIN s = 1 .. len /\ \A i \in 1 .. len : s[i] \in M
  BY DEF GroupsOf
<1>2. ASSUME NEW a \in A, NEW g \in M PROVE MergeGroup(a, g) \in A
  BY MergeType
<1>3. h \in [A \X M -> A] /\ NoFiles \in A
  <2>1. ASSUME NEW am \in A \X M PROVE MergeGroup(am[1], am[2]) \in A
    <3>1. am[1] \in A /\ am[2] \in M
      OBVIOUS
    <3> QED
      BY <1>2, <3>1
  <2>2. NoFiles \in A
    BY DEF NoFiles, ByKey
  <2> QED
    BY <2>1, <2>2, Zenon
<1> HIDE DEF h, A, M
<1>4. PICK it \in [SUBSET (1 .. len) -> A] : Solves(it, h, NoFiles, s, len)
  <2>1. HasSolution(A, h, NoFiles, s, len)
    BY <1>1, <1>3, FoldExists
  <2> QED
    BY <2>1 DEF HasSolution
<1>5. ASSUME NEW T \in SUBSET (1 .. len) PROVE it[T] = Step(it, T)
  <2>1. CASE T = {}
    BY <1>4, <2>1 DEF Solves
  <2>2. CASE T # {}
    <3>1. Max(T) \in 1 .. len
      BY <1>1, <2>2, MaxIsPlace
    <3>2. s[Max(T)] \in M /\ it[T \ {Max(T)}] \in A
      BY <1>1, <3>1
    <3> QED
      BY <1>4, <2>2, <3>2 DEF Solves, h
  <2> QED
    BY <2>1, <2>2
<1>6. it = [T \in SUBSET (1 .. len) |-> Step(it, T)]
  BY <1>5, Zenon
<1>7. Fold = [T \in SUBSET (1 .. len) |-> Step(Fold, T)]
  BY <1>6, Zenon
<1>8. FoldLeft(MergeGroup, NoFiles, s) = Fold[1 .. len]
  BY <1>1 DEF FoldLeft, MapThenFoldSet, Max, Max
<1> HIDE DEF Fold
<1>9. F[0] = NoFiles
  <2>1. 1 .. 0 = {} /\ 1 .. 0 \in SUBSET (1 .. len) /\ 0 \in 0 .. len
    BY <1>1
  <2> QED
    BY <1>7, <2>1
<1>10. ASSUME NEW i \in 1 .. len PROVE F[i] = MergeGroup(F[i - 1], s[i])
  <2>1. i - 1 \in 0 .. len /\ i \in 0 .. len
    BY <1>1
  <2>2. /\ 1 .. i \in SUBSET (1 .. len) /\ 1 .. i # {}
        /\ Max(1 .. i) = i /\ (1 .. i) \ {i} = 1 .. i - 1
    BY <1>1, SolutionByPlace
  <2>3. Fold[1 .. i] = MergeGroup(Fold[1 .. i - 1], s[i])
    BY <1>7, <2>2
  <2> QED
    BY <2>1, <2>3
<1>11. FoldLeft(MergeGroup, NoFiles, s) = F[len]
  BY <1>1, <1>8
<1> HIDE DEF F
<1> DEFINE T0 == {n \in Nat : n <= len => F[n] \in A}
<1>12. 0 \in T0
  BY <1>3, <1>9
<1>13. ASSUME NEW n \in Nat, n \in T0 PROVE n + 1 \in T0
  <2> SUFFICES ASSUME n + 1 <= len PROVE F[n + 1] \in A
    OBVIOUS
  <2>1. n + 1 \in 1 .. len /\ n + 1 - 1 = n /\ F[n] \in A
    BY <1>1, <1>13
  <2>2. F[n + 1] = MergeGroup(F[n], s[n + 1])
    BY <1>10, <2>1
  <2> QED
    BY <1>1, <1>2, <2>1, <2>2
<1>14. \A n \in 0 .. len : F[n] \in A
  <2>1. Nat \subseteq T0
    BY <1>12, <1>13, SetInduction
  <2> QED
    BY <1>1, <2>1
<1>15. F \in [0 .. len -> A]
  BY <1>14 DEF F
<1> QED
  BY <1>1, <1>9, <1>10, <1>11, <1>15 DEF A

(* Flattening goes sequence by sequence.                                   *)
Joins(J, M, q, n) ==
    /\ J \in [0 .. n -> Seq(M)] /\ J[0] = << >>
    /\ \A i \in 1 .. n : J[i] = J[i - 1] \o q[i]

LEMMA FlattenByStep ==
    ASSUME NEW M, NEW q \in Seq(Seq(M))
    PROVE  \E J : Joins(J, M, q, Len(q)) /\ FlattenSeq(q) = J[Len(q)]
<1> DEFINE len == Len(q)
           T == {n \in Nat : n <= len => \E J : Joins(J, M, q, n)}
           Rec(f, i) == IF i = 1 THEN q[i] ELSE f[i - 1] \o q[i]
           F == CHOOSE f : f = [i \in 1 .. len |-> Rec(f, i)]
<1>1. len \in Nat /\ \A i \in 1 .. len : q[i] \in Seq(M)
  OBVIOUS
<1>2. 0 \in T
  <2>1. Joins([i \in 0 .. 0 |-> << >>], M, q, 0)
    BY DEF Joins
  <2> QED
    BY <2>1
<1>3. ASSUME NEW n \in Nat, n \in T PROVE n + 1 \in T
  <2> SUFFICES ASSUME n + 1 <= len PROVE \E J : Joins(J, M, q, n + 1)
    OBVIOUS
  <2>1. n <= len /\ n + 1 \in 1 .. len
    BY <1>1
  <2>2. PICK J : Joins(J, M, q, n)
    BY <1>3, <2>1
  <2> DEFINE x == J[n] \o q[n + 1]
             K == [i \in 0 .. n + 1 |-> IF i = n + 1 THEN x ELSE J[i]]
  <2>3. x \in Seq(M)
    BY <1>1, <2>1, <2>2, ConcatProperties DEF Joins
  <2>4. \A i \in 0 .. n : i \in 0 .. n + 1 /\ i # n + 1
    OBVIOUS
  <2>5. \A i \in 1 .. n + 1 : i - 1 \in 0 .. n /\ ((i = n + 1 /\ i - 1 = n) \/ i \in 1 .. n)
    OBVIOUS
  <2> HIDE DEF x
  <2>6. K \in [0 .. n + 1 -> Seq(M)] /\ K[0] = << >> /\ K[n + 1] = x
    BY <2>2, <2>3 DEF Joins
  <2>7. \A i \in 0 .. n : K[i] = J[i]
    BY <2>4
  <2> HIDE DEF K
  <2>8. ASSUME NEW i \in 1 .. n + 1 PROVE K[i] = K[i - 1] \o q[i]
    <3>1. CASE i = n + 1 /\ i - 1 = n
      BY <2>5, <2>6, <2>7, <3>1 DEF x
    <3>2. CASE i \in 1 .. n
      <4>1. i \in 0 .. n /\ K[i - 1] = J[i - 1] /\ K[i] = J[i]
        BY <2>5, <2>7, <3>2
      <4> QED
        BY <2>2, <3>2, <4>1 DEF Joins
    <3> QED
      BY <2>5, <3>1, <3>2
  <2>9. Joins(K, M, q, n + 1)
    BY <2>6, <2>8 DEF Joins
  <2> QED
    BY <2>9
<1>4. PICK J : Joins(J, M, q, len)
  <2>1. Nat \subseteq T
    BY <1>2, <1>3, SetInduction
  <2> QED
    BY <1>1, <2>1
<1>5. FlattenSeq(q) = J[len]
  <2>1. CASE len = 0
    <3>1. q = << >>
      BY <1>1, <2>1
    <3> QED
      BY <1>4, <2>1, <3>1 DEF FlattenSeq, Joins
  <2>2. CASE len # 0
    <3> DEFINE f == [i \in 1 .. len |-> J[i]]
    <3>1. ASSUME NEW i \in 1 .. len PROVE f[i] = Rec(f, i)
      <4>1. CASE i = 1
        <5>1. 1 \in 1 .. len /\ 1 - 1 = 0
          BY <1>1, <2>2
        <5>2. J[1] = J[0] \o q[1] /\ q[1] \in Seq(M) /\ J[0] = << >>
          BY <1>1, <1>4, <5>1 DEF Joins
        <5> QED
          BY <4>1, <5>1, <5>2
      <4>2. CASE i # 1
        <5>1. i - 1 \in 1 .. len
          BY <1>1, <4>2
        <5> QED
          BY <1>4, <4>2, <5>1 DEF Joins
      <4> QED
        BY <4>1, <4>2
    <3>2. f = [i \in 1 .. len |-> Rec(f, i)]
      BY <3>1, Zenon
    <3>3. F = [i \in 1 .. len |-> Rec(F, i)]
      BY <3>2, Zenon
    <3>4. FlattenSeq(q) = F[len]
      BY <2>2 DEF FlattenSeq
    <3> HIDE DEF F, f
    <3> DEFINE U == {n \in Nat : n + 1 <= len => F[n + 1] = J[n + 1]}
    <3>5. 0 \in U
      <4>1. 1 \in 1 .. len /\ 1 - 1 = 0 /\ q[1] \in Seq(M)
        BY <1>1, <2>2
      <4>2. F[1] = q[1] /\ J[1] = J[0] \o q[1] /\ J[0] = << >>
        BY <1>4, <3>3, <4>1 DEF Joins
      <4> QED
        BY <4>1, <4>2
    <3>6. ASSUME NEW n \in Nat, n \in U PROVE n + 1 \in U
      <4> SUFFICES ASSUME n + 1 + 1 <= len PROVE F[n + 1 + 1] = J[n + 1 + 1]
        OBVIOUS
      <4> DEFINE m == n + 1 + 1
      <4>1. F[n + 1] = J[n + 1] /\ m \in 1 .. len /\ m # 1 /\ m - 1 = n + 1
        BY <1>1, <3>6
      <4> HIDE DEF m
      <4>2. F[m] = F[n + 1] \o q[m]
        BY <3>3, <4>1
      <4>3. J[m] = J[n + 1] \o q[m]
        BY <1>4, <4>1 DEF Joins
      <4> QED
        BY <4>1, <4>2, <4>3 DEF m
    <3>7. Nat \subseteq U
      BY <3>5, <3>6, SetInduction
    <3>8. PICK n \in Nat : n + 1 = len
      <4>1. len - 1 \in Nat /\ len - 1 + 1 = len
        BY <1>1, <2>2
      <4> QED
        BY <4>1, Zenon
    <3>9. F[n + 1] = J[n + 1]
      <4>1. n \in U /\ n + 1 <= len
        BY <1>1, <3>7, <3>8
      <4> QED
        BY <4>1
    <3> QED
      BY <3>4, <3>8, <3>9
  <2> QED
    BY <2>1, <2>2
<1> QED
  BY <1>4, <1>5

(* The first of the texts given up to a place.                             *)
FirstUpTo(x, v, n) ==
    \/ x = Absent /\ \A i \in 1 .. n : v[i] = Absent
    \/ \E i \in 1 .. n : v[i] # Absent /\ x = v[i] /\ \A j \in 1 .. i - 1 : v[j] = Absent

LEMMA FirstOfOneMore ==
    ASSUME NEW x, NEW v, NEW n \in Nat, FirstUpTo(x, v, n)
    PROVE  FirstUpTo(FirstNonEmpty(x, v[n + 1]), v, n + 1)
<1>1. \A i \in 1 .. n : i \in 1 .. n + 1
  OBVIOUS
<1>2. CASE \E i \in 1 .. n : v[i] # Absent /\ x = v[i] /\ \A j \in 1 .. i - 1 : v[j] = Absent
  <2>1. FirstNonEmpty(x, v[n + 1]) = x
    BY <1>2 DEF FirstNonEmpty
  <2> QED
    BY <1>1, <1>2, <2>1, Zenon DEF FirstUpTo
<1>3. CASE x = Absent /\ \A i \in 1 .. n : v[i] = Absent
  <2>1. FirstNonEmpty(x, v[n + 1]) = v[n + 1]
    BY <1>3 DEF FirstNonEmpty
  <2>2. n + 1 \in 1 .. n + 1 /\ \A j \in 1 .. (n + 1) - 1 : v[j] = Absent
    BY <1>3
  <2>3. \A i \in 1 .. n + 1 : i \in 1 .. n \/ i = n + 1
    OBVIOUS
  <2>4. CASE v[n + 1] = Absent
    BY <1>3, <2>1, <2>3, <2>4 DEF FirstUpTo
  <2>5. CASE v[n + 1] # Absent
    <3> DEFINE y == FirstNonEmpty(x, v[n + 1])
    <3>1. v[n + 1] # Absent /\ y = v[n + 1] /\ \A j \in 1 .. (n + 1) - 1 : v[j] = Absent
      BY <2>1, <2>2, <2>5
    <3> HIDE DEF y
    <3>2. FirstUpTo(y, v, n + 1)
      BY <2>2, <3>1, Zenon DEF FirstUpTo
    <3> QED
      BY <3>2 DEF y
  <2> QED
    BY <2>4, <2>5
<1> QED
  BY <1>2, <1>3 DEF FirstUpTo

LEMMA FirstOfAll ==
    ASSUME NEW x, NEW v, NEW n \in Nat, DOMAIN v = 1 .. n, FirstUpTo(x, v, n), NEW d
    PROVE  FirstNonEmpty(x, d) = First(v, d)
<1> DEFINE places == {i \in DOMAIN v : v[i] # Absent}
<1>1. CASE x = Absent /\ \A i \in 1 .. n : v[i] = Absent
  <2>1. places = {}
    BY <1>1
  <2>2. First(v, d) = d
    BY <2>1, Zenon DEF First
  <2> QED
    BY <1>1, <2>2 DEF FirstNonEmpty
<1>2. CASE \E i \in 1 .. n : v[i] # Absent /\ x = v[i] /\ \A j \in 1 .. i - 1 : v[j] = Absent
  <2>1. PICK i \in 1 .. n : v[i] # Absent /\ x = v[i] /\ \A j \in 1 .. i - 1 : v[j] = Absent
    BY <1>2
  <2>2. i \in places /\ places # {}
    BY <2>1
  <2>3. ASSUME NEW j \in places PROVE i <= j
    <3>1. j \in 1 .. n /\ ~(j \in 1 .. i - 1)
      BY <2>1
    <3> QED
      BY <3>1
  <2>4. ASSUME NEW j \in places, \A k \in places : j <= k PROVE j = i
    <3>1. j <= i /\ i <= j /\ j \in Int /\ i \in Int
      BY <2>2, <2>3, <2>4
    <3> QED
      BY <3>1
  <2> HIDE DEF places
  <2>5. Min(places) = i
    BY <2>2, <2>3, <2>4, Zenon DEF Min
  <2>6. First(v, d) = v[i]
    BY <2>2, <2>5, Zenon DEF First, places
  <2> QED
    BY <2>1, <2>6 DEF FirstNonEmpty
<1> QED
  BY <1>1, <1>2 DEF FirstUpTo

(* A run of pieces stays one in what is longer.                            *)
LEMMA EmptyIsRun ==
    ASSUME NEW W, NEW s \in Seq(W)
    PROVE  << >> \in SubSeqs(s)
<1>1. 0 \in 0 .. Len(s)
  OBVIOUS
<1>2. SubSeq(s, 0 + 1, 0) = << >>
  OBVIOUS
<1> QED
  BY <1>1, <1>2 DEF SubSeqs

LEMMA RunOfItself ==
    ASSUME NEW W, NEW s \in Seq(W), NEW t \in Seq(W)
    PROVE  t \in SubSeqs(s \o t)
<1> DEFINE u == s \o t
<1>1. /\ u \in Seq(W) /\ Len(u) = Len(s) + Len(t)
      /\ Len(s) \in 0 .. Len(u) /\ Len(u) \in 0 .. Len(u)
  OBVIOUS
<1>2. SubSeq(u, Len(s) + 1, Len(u)) = t
  OBVIOUS
<1> HIDE DEF u
<1>3. \E i, j \in 0 .. Len(u) : t = SubSeq(u, i + 1, j)
  BY <1>1, <1>2, Zenon
<1>4. t \in SubSeqs(u)
  BY <1>3 DEF SubSeqs
<1> QED
  BY <1>4 DEF u

LEMMA RunStays ==
    ASSUME NEW W, NEW s \in Seq(W), NEW t \in Seq(W), NEW x \in SubSeqs(s)
    PROVE  x \in SubSeqs(s \o t)
<1> DEFINE u == s \o t
<1>1. PICK i \in 0 .. Len(s), j \in 0 .. Len(s) : x = SubSeq(s, i + 1, j)
  BY DEF SubSeqs
<1>2. /\ u \in Seq(W) /\ Len(u) = Len(s) + Len(t) /\ Len(s) \in Nat
      /\ i \in 0 .. Len(u) /\ j \in 0 .. Len(u)
  OBVIOUS
<1>3. \A k \in 1 .. Len(s) : u[k] = s[k]
  OBVIOUS
<1> HIDE DEF u
<1>4. SubSeq(u, i + 1, j) = SubSeq(s, i + 1, j)
  <2>1. /\ SubSeq(s, i + 1, j) = [k \in 1 .. 1 + j - (i + 1) |-> s[k + (i + 1) - 1]]
        /\ SubSeq(u, i + 1, j) = [k \in 1 .. 1 + j - (i + 1) |-> u[k + (i + 1) - 1]]
    BY <1>2
  <2>2. \A k \in 1 .. 1 + j - (i + 1) : k + (i + 1) - 1 \in 1 .. Len(s)
    BY <1>2
  <2>3. \A k \in 1 .. 1 + j - (i + 1) : u[k + (i + 1) - 1] = s[k + (i + 1) - 1]
    BY <1>3, <2>2, Zenon
  <2> QED
    BY <2>1, <2>3, Zenon
<1>5. \E k, l \in 0 .. Len(u) : x = SubSeq(u, k + 1, l)
  BY <1>1, <1>2, <1>4, Zenon
<1>6. x \in SubSeqs(u)
  BY <1>5 DEF SubSeqs
<1> QED
  BY <1>6 DEF u

LEMMA WithBriefKeeps ==
    ASSUME NEW W, Space \in W, NEW t \in Seq(W), NEW u \in Seq(W)
    PROVE  SubSeqs(t) \subseteq SubSeqs(WithBrief(t, u)) /\ u \in SubSeqs(WithBrief(t, u))
<1>1. CASE u \in SubSeqs(t)
  BY <1>1 DEF WithBrief
<1>2. CASE u \notin SubSeqs(t) /\ t = << >>
  <2>1. WithBrief(t, u) = u
    BY <1>2 DEF WithBrief, WithSpace
  <2>2. << >> \o u = u
    OBVIOUS
  <2>3. u \in SubSeqs(t \o u) /\ \A x \in SubSeqs(t) : x \in SubSeqs(t \o u)
    BY RunOfItself, RunStays
  <2> QED
    BY <1>2, <2>1, <2>2, <2>3
<1>3. CASE u \notin SubSeqs(t) /\ t # << >>
  <2> DEFINE v == t \o <<Space>>
  <2>1. WithBrief(t, u) = v \o u
    BY <1>3 DEF WithBrief, WithSpace
  <2>2. v \in Seq(W) /\ <<Space>> \in Seq(W)
    BY WithBriefType
  <2>3. \A x \in SubSeqs(t) : x \in SubSeqs(v)
    BY <2>2, RunStays
  <2> HIDE DEF v
  <2>4. u \in SubSeqs(v \o u) /\ \A x \in SubSeqs(v) : x \in SubSeqs(v \o u)
    BY <2>2, RunOfItself, RunStays
  <2> QED
    BY <2>1, <2>3, <2>4
<1> QED
  BY <1>1, <1>2, <1>3

(* What a group says of the inputs of its file, up to a place.             *)
Only(s, ns) == [i \in DOMAIN s |-> IF FileKey(s[i]) = ns THEN s[i] ELSE NoGroup]
Types(m) == [i \in DOMAIN m |-> m[i].type]
Stabilities(m) == [i \in DOMAIN m |-> m[i].stability]
Lists(m) == [i \in DOMAIN m |-> EnrichedAll(m[i].attributes)]
SaysUpTo(p, m, J, n) ==
    /\ FirstUpTo(p.type, Types(m), n) /\ FirstUpTo(p.stability, Stabilities(m), n)
    /\ p.attributes = J[n]
    /\ \A i \in 1 .. n : m[i].brief \in SubSeqs(p.brief)
PartOf(a, ns) == IF ns \in DOMAIN a THEN a[ns] ELSE NoGroup

LEMMA OnlyTyped ==
    ASSUME NEW s, NEW W, NEW B, GroupsOf(s, W, B), NEW ns
    PROVE  /\ DOMAIN Only(s, ns) = DOMAIN s
           /\ \A i \in DOMAIN s :
                Only(s, ns)[i].brief \in Seq(W) /\ Only(s, ns)[i].attributes \in Seq(B)
           /\ Lists(Only(s, ns)) \in Seq(Seq({Enriched(b) : b \in B}))
           /\ Len(Lists(Only(s, ns))) = Len(s)
<1> DEFINE m == Only(s, ns)
           E == {Enriched(b) : b \in B}
<1>1. DOMAIN m = DOMAIN s
  BY DEF Only
<1>2. ASSUME NEW i \in DOMAIN s PROVE m[i].brief \in Seq(W) /\ m[i].attributes \in Seq(B)
  <2>1. NoGroup.brief \in Seq(W) /\ NoGroup.attributes \in Seq(B)
    BY DEF NoGroup
  <2> QED
    BY <2>1 DEF Only, GroupsOf
<1>3. \A i \in DOMAIN s : EnrichedAll(m[i].attributes) \in Seq(E)
  BY <1>2, EnrichedAllType
<1>4. Len(s) \in Nat /\ DOMAIN s = 1 .. Len(s)
  BY DEF GroupsOf
<1> HIDE DEF m, E
<1>5. Lists(m) \in [1 .. Len(s) -> Seq(E)]
  BY <1>1, <1>3, <1>4 DEF Lists
<1>6. Lists(m) \in Seq(Seq(E)) /\ Len(Lists(m)) = Len(s)
  BY <1>4, <1>5
<1> QED
  BY <1>1, <1>2, <1>6 DEF m, E

LEMMA SaysOneMore ==
    ASSUME NEW p, NEW q, NEW m, NEW J, NEW n \in Nat, SaysUpTo(p, m, J, n),
           n + 1 \in DOMAIN m, J[n + 1] = J[n] \o EnrichedAll(m[n + 1].attributes),
           q.type = FirstNonEmpty(p.type, m[n + 1].type),
           q.stability = FirstNonEmpty(p.stability, m[n + 1].stability),
           q.attributes = p.attributes \o EnrichedAll(m[n + 1].attributes),
           SubSeqs(p.brief) \subseteq SubSeqs(q.brief),
           m[n + 1].brief \in SubSeqs(q.brief)
    PROVE  SaysUpTo(q, m, J, n + 1)
<1>1. Types(m)[n + 1] = m[n + 1].type /\ Stabilities(m)[n + 1] = m[n + 1].stability
  BY DEF Types, Stabilities
<1>2. FirstUpTo(q.type, Types(m), n + 1)
  BY <1>1, FirstOfOneMore DEF SaysUpTo
<1>3. FirstUpTo(q.stability, Stabilities(m), n + 1)
  BY <1>1, FirstOfOneMore DEF SaysUpTo
<1>4. q.attributes = J[n + 1]
  BY DEF SaysUpTo
<1>5. ASSUME NEW i \in 1 .. n + 1 PROVE m[i].brief \in SubSeqs(q.brief)
  <2>1. i \in 1 .. n \/ i = n + 1
    OBVIOUS
  <2> QED
    BY <2>1 DEF SaysUpTo
<1> QED
  BY <1>2, <1>3, <1>4, <1>5 DEF SaysUpTo

(* One input more, in the group of the file or in another's.               *)
LEMMA MergeSays ==
    ASSUME NEW s, NEW W, NEW B, GroupsOf(s, W, B), NEW ns, NEW a \in ByKey(s, W, B),
           NEW n \in Nat, n + 1 \in DOMAIN s, NEW J,
           J[n] \in Seq({Enriched(b) : b \in B}),
           J[n + 1] = J[n] \o Lists(Only(s, ns))[n + 1],
           SaysUpTo(PartOf(a, ns), Only(s, ns), J, n)
    PROVE  SaysUpTo(PartOf(MergeGroup(a, s[n + 1]), ns), Only(s, ns), J, n + 1)
<1> DEFINE m == Only(s, ns)
           g == s[n + 1]
           p == PartOf(a, ns)
           q == PartOf(MergeGroup(a, g), ns)
<1>1. n + 1 \in DOMAIN m /\ J[n + 1] = J[n] \o EnrichedAll(m[n + 1].attributes)
  BY OnlyTyped DEF Lists
<1>2. g.brief \in Seq(W) /\ g.attributes \in Seq(B)
  BY DEF GroupsOf
<1>3. CASE FileKey(g) = ns
  <2>1. m[n + 1] = g
    BY <1>3 DEF Only
  <2>2. q = Joined(Part(a, g), g)
    BY <1>3 DEF PartOf, MergeGroup
  <2>3. /\ Part(a, g).type = p.type /\ Part(a, g).stability = p.stability
        /\ Part(a, g).brief = p.brief /\ Part(a, g).attributes = p.attributes
    BY <1>3 DEF Part, PartOf, NewGroup, NoGroup
  <2>4. p.brief \in Seq(W)
    <3>1. Part(a, g) \in Made(s, W, B)
      BY MergeType
    <3> QED
      BY <2>3, <3>1 DEF Made
  <2>5. /\ q.type = FirstNonEmpty(p.type, g.type)
        /\ q.stability = FirstNonEmpty(p.stability, g.stability)
        /\ q.attributes = p.attributes \o EnrichedAll(g.attributes)
        /\ q.brief = WithBrief(p.brief, g.brief)
    <3> DEFINE o == Part(a, g)
    <3> HIDE DEF p, q, m, g, o
    <3>1. /\ o.type = p.type /\ o.stability = p.stability
          /\ o.brief = p.brief /\ o.attributes = p.attributes
      BY <2>3 DEF o
    <3>2. q = Joined(o, g)
      BY <2>2 DEF o
    <3> DEFINE b1 == WithBrief(o.brief, g.brief)
    <3>3. b1 = WithBrief(p.brief, g.brief)
      BY <3>1
    <3>4. /\ q.type = FirstNonEmpty(o.type, g.type)
          /\ q.stability = FirstNonEmpty(o.stability, g.stability)
          /\ q.attributes = o.attributes \o EnrichedAll(g.attributes)
          /\ q.brief = b1
      BY <3>2, Zenon DEF Joined
    <3> QED
      BY <3>1, <3>3, <3>4
  <2> HIDE DEF p, q, m, g
  <2>6. SubSeqs(p.brief) \subseteq SubSeqs(q.brief) /\ g.brief \in SubSeqs(q.brief)
    <3>1. Space \in W
      BY DEF GroupsOf
    <3> QED
      BY <1>2, <2>4, <2>5, <3>1, WithBriefKeeps
  <2>7. SaysUpTo(p, m, J, n)
    BY DEF p, m
  <2>8. SaysUpTo(q, m, J, n + 1)
    BY <1>1, <2>1, <2>5, <2>6, <2>7, SaysOneMore
  <2> QED
    BY <2>8 DEF q, m, g
<1>4. CASE FileKey(g) # ns
  <2>1. m[n + 1] = NoGroup
    BY <1>4 DEF Only
  <2>2. q = p
    BY <1>4 DEF PartOf, MergeGroup
  <2>3. p.brief \in Seq(W)
    <3>1. NoGroup.brief \in Seq(W)
      BY DEF NoGroup
    <3> QED
      BY <3>1, ByKeyFields DEF PartOf, Made
  <2>4. EnrichedAll(NoGroup.attributes) = << >>
    BY DEF EnrichedAll, NoGroup
  <2>5. p.attributes = J[n]
    BY DEF SaysUpTo
  <2>6. p.attributes = p.attributes \o EnrichedAll(NoGroup.attributes)
    BY <2>4, <2>5
  <2>7. /\ p.type = FirstNonEmpty(p.type, NoGroup.type)
        /\ p.stability = FirstNonEmpty(p.stability, NoGroup.stability)
    BY DEF NoGroup, FirstNonEmpty
  <2>8. NoGroup.brief \in SubSeqs(p.brief)
    BY <2>3, EmptyIsRun DEF NoGroup
  <2> HIDE DEF p, q, m, g
  <2>9. SaysUpTo(p, m, J, n)
    BY DEF p, m
  <2>10. SaysUpTo(q, m, J, n + 1)
    BY <1>1, <2>1, <2>2, <2>6, <2>7, <2>8, <2>9, SaysOneMore
  <2> QED
    BY <2>10 DEF q, m, g
<1> QED
  BY <1>3, <1>4
LEMMA FinishedSays ==
    ASSUME NEW s, NEW W, NEW B, GroupsOf(s, W, B), NEW ns, NEW p \in Made(s, W, B), NEW J,
           SaysUpTo(p, Only(s, ns), J, Len(s)), FlattenSeq(Lists(Only(s, ns))) = J[Len(s)]
    PROVE  SaysAll(Finished(p), Only(s, ns))
<1> DEFINE m == Only(s, ns)
           f == Finished(p)
<1>1. Len(s) \in Nat /\ DOMAIN m = 1 .. Len(s)
  BY OnlyTyped, GroupsByStep
<1> HIDE DEF m
<1>2. DOMAIN Types(m) = 1 .. Len(s) /\ DOMAIN Stabilities(m) = 1 .. Len(s)
  BY <1>1 DEF Types, Stabilities
<1>3. SaysUpTo(p, m, J, Len(s)) /\ FlattenSeq(Lists(m)) = J[Len(s)]
  BY DEF m
<1>4. /\ f.type = FirstNonEmpty(p.type, "attribute_group")
      /\ f.stability = FirstNonEmpty(p.stability, "development")
      /\ f.attributes = p.attributes
      /\ f.brief = IF p.brief = << >> THEN <<"default">> ELSE p.brief
  BY DEF Finished
<1> HIDE DEF f
<1>5. f.type = First(Types(m), "attribute_group")
  BY <1>1, <1>2, <1>3, <1>4, FirstOfAll DEF SaysUpTo
<1>6. f.stability = First(Stabilities(m), "development")
  BY <1>1, <1>2, <1>3, <1>4, FirstOfAll DEF SaysUpTo
<1>7. f.attributes = FlattenSeq(Lists(m))
  BY <1>3, <1>4 DEF SaysUpTo
<1>8. ASSUME NEW i \in 1 .. Len(s) PROVE m[i].brief \in SubSeqs(f.brief)
  <2>1. m[i].brief \in SubSeqs(p.brief)
    BY <1>3 DEF SaysUpTo
  <2>2. CASE p.brief = << >>
    <3>1. PICK j \in 0 .. 0, k \in 0 .. 0 : m[i].brief = SubSeq(<< >>, j + 1, k)
      BY <2>1, <2>2 DEF SubSeqs
    <3>2. m[i].brief = << >>
      BY <3>1
    <3>3. <<"default">> \in Seq({"default"})
      OBVIOUS
    <3>4. << >> \in SubSeqs(<<"default">>)
      BY <3>3, EmptyIsRun
    <3> QED
      BY <1>4, <2>2, <3>2, <3>4
  <2>3. CASE p.brief # << >>
    BY <1>4, <2>1, <2>3
  <2> QED
    BY <2>2, <2>3
<1>9. SaysAll(f, m)
  <2>1. \A i \in DOMAIN m : m[i].brief \in SubSeqs(f.brief)
    BY <1>1, <1>8
  <2> QED
    BY <1>5, <1>6, <1>7, <2>1, Zenon DEF SaysAll, Types, Stabilities, Lists
<1> QED
  BY <1>9 DEF f, m

(* Every file of a namespace says all of its inputs. (weaver.go:187-252)   *)
LEMMA GroupFilesSay ==
    ASSUME NEW s, NEW W, NEW B, GroupsOf(s, W, B)
    PROVE  /\ DOMAIN GroupFiles(s) = {FileKey(s[i]) : i \in DOMAIN s}
           /\ \A ns \in DOMAIN GroupFiles(s) : SaysAll(GroupFiles(s)[ns], Only(s, ns))
<1> DEFINE len == Len(s)
<1>1. len \in Nat /\ DOMAIN s = 1 .. len
  BY GroupsByStep
<1>2. PICK F \in [0 .. len -> ByKey(s, W, B)] :
         /\ F[0] = NoFiles
         /\ \A i \in 1 .. len : F[i] = MergeGroup(F[i - 1], s[i])
         /\ FoldLeft(MergeGroup, NoFiles, s) = F[len]
  BY GroupsByStep
<1>3. ASSUME NEW n \in Nat, n + 1 <= len
      PROVE  /\ n + 1 \in DOMAIN s /\ F[n] \in ByKey(s, W, B)
             /\ F[n + 1] = MergeGroup(F[n], s[n + 1])
  <2>1. n + 1 \in 1 .. len /\ (n + 1) - 1 = n /\ n \in 0 .. len
    BY <1>1, <1>3
  <2> QED
    BY <1>1, <1>2, <2>1
<1>4. DOMAIN F[len] = {FileKey(s[i]) : i \in DOMAIN s}
  <2> DEFINE T == {n \in Nat : n <= len => DOMAIN F[n] = {FileKey(s[i]) : i \in 1 .. n}}
  <2>1. 0 \in T
    BY <1>2 DEF NoFiles
  <2>2. ASSUME NEW n \in Nat, n \in T PROVE n + 1 \in T
    <3> SUFFICES ASSUME n + 1 <= len
                 PROVE  DOMAIN F[n + 1] = {FileKey(s[i]) : i \in 1 .. n + 1}
      OBVIOUS
    <3>1. DOMAIN F[n + 1] = DOMAIN F[n] \union {FileKey(s[n + 1])}
      BY <1>3 DEF MergeGroup
    <3>2. DOMAIN F[n] = {FileKey(s[i]) : i \in 1 .. n}
      BY <1>1, <2>2
    <3>3. 1 .. n + 1 = (1 .. n) \union {n + 1}
      OBVIOUS
    <3> QED
      BY <3>1, <3>2, <3>3
  <2>3. len \in T
    BY <1>1, <2>1, <2>2, SetInduction
  <2> QED
    BY <1>1, <2>3
<1>5. ASSUME NEW ns \in DOMAIN F[len] PROVE SaysAll(Finished(F[len][ns]), Only(s, ns))
  <2> DEFINE m == Only(s, ns)
             E == {Enriched(b) : b \in B}
  <2>1. Lists(m) \in Seq(Seq(E)) /\ Len(Lists(m)) = len
    BY OnlyTyped
  <2>2. PICK J : Joins(J, E, Lists(m), len) /\ FlattenSeq(Lists(m)) = J[len]
    BY <2>1, FlattenByStep
  <2> DEFINE T == {n \in Nat : n <= len => SaysUpTo(PartOf(F[n], ns), m, J, n)}
  <2>3. 0 \in T
    <3>1. PartOf(F[0], ns) = NoGroup
      BY <1>2 DEF PartOf, NoFiles
    <3>2. /\ NoGroup.type = Absent /\ NoGroup.stability = Absent
          /\ NoGroup.attributes = << >> /\ J[0] = << >>
      BY <2>2 DEF NoGroup, Joins
    <3>3. SaysUpTo(NoGroup, m, J, 0)
      BY <3>2 DEF SaysUpTo, FirstUpTo
    <3> QED
      BY <3>1, <3>3
  <2>4. ASSUME NEW n \in Nat, n \in T PROVE n + 1 \in T
    <3> SUFFICES ASSUME n + 1 <= len PROVE SaysUpTo(PartOf(F[n + 1], ns), m, J, n + 1)
      OBVIOUS
    <3>1. n + 1 \in 1 .. len /\ (n + 1) - 1 = n /\ n \in 0 .. len
      BY <1>1
    <3>2. J[n] \in Seq(E) /\ J[n + 1] = J[n] \o Lists(m)[n + 1]
      BY <2>2, <3>1 DEF Joins
    <3>3. SaysUpTo(PartOf(F[n], ns), m, J, n)
      BY <1>1, <2>4, <3>1
    <3> HIDE DEF T
    <3> QED
      BY <1>3, <3>2, <3>3, MergeSays
  <2>5. len \in T
    BY <1>1, <2>3, <2>4, SetInduction
  <2>6. SaysUpTo(F[len][ns], m, J, len)
    <3>1. SaysUpTo(PartOf(F[len], ns), m, J, len)
      BY <1>1, <2>5
    <3> QED
      BY <3>1, <1>5 DEF PartOf
  <2>7. F[len][ns] \in Made(s, W, B)
    <3>1. F[len] \in ByKey(s, W, B)
      BY <1>1, <1>2
    <3> QED
      BY <3>1, ByKeyFields
  <2> QED
    BY <2>2, <2>6, <2>7, FinishedSays
<1>6. GroupFiles(s) = [ns \in DOMAIN F[len] |-> Finished(F[len][ns])]
  BY <1>2, Zenon DEF GroupFiles
<1> QED
  BY <1>4, <1>5, <1>6

-----------------------------------------------------------------------------
\* What was answered

LEMMA AnsweredGroups ==
    ASSUME AnsweredInv, answered # << >>
    PROVE  \E W, B : GroupsOf(State.groups, W, B)
<1> DEFINE s == answered.state.groups
<1>1. s = State.groups
  BY DEF State
<1>2. CASE client = "page"
  <2>1. PICK r : IsList(r) /\ s = [i \in DOMAIN r |-> RowGroup(r[i])]
    BY <1>2 DEF AnsweredInv, OfPage
  <2>2. Len(r) \in Nat /\ DOMAIN r = 1 .. Len(r)
    BY <2>1 DEF IsList
  <2> DEFINE A(i) == [id |-> r[i].id, type |-> r[i].type, stability |-> "development",
                      requirement_level |-> "recommended"]
             B == {A(i) : i \in DOMAIN r}
  <2>3. ASSUME NEW i \in DOMAIN r
        PROVE  s[i].brief \in Seq({Space}) /\ s[i].attributes \in Seq(B)
    <3>1. s[i].brief = << >> /\ s[i].attributes = <<A(i)>>
      BY <2>1 DEF RowGroup
    <3>2. A(i) \in B
      OBVIOUS
    <3> HIDE DEF A, B
    <3> QED
      BY <3>1, <3>2
  <2>4. s \in [1 .. Len(r) -> {RowGroup(r[i]) : i \in DOMAIN r}]
    BY <2>1, <2>2
  <2>5. s \in Seq({RowGroup(r[i]) : i \in DOMAIN r}) /\ DOMAIN s = DOMAIN r
    BY <2>1, <2>2, <2>4
  <2> HIDE DEF s, A, B
  <2>6. GroupsOf(s, {Space}, B)
    BY <2>3, <2>5, Zenon DEF GroupsOf
  <2> QED
    BY <1>1, <2>6, Zenon DEF s
<1>3. CASE client # "page"
  <2>1. s \in Seq(GroupInput)
    <3>1. answered.state \in Posts
      BY <1>3, Zenon DEF AnsweredInv
    <3>2. \A p \in Posts : p.groups \in Seq(GroupInput)
      BY InputsAssumption
    <3> QED
      BY <3>1, <3>2, Zenon
  <2>2. \A i \in DOMAIN s :
            s[i].brief \in Seq(STRING) /\ s[i].attributes \in Seq(AttributeInput)
    <3> HIDE DEF s
    <3>1. \A i \in DOMAIN s : s[i] \in GroupInput
      BY <2>1
    <3>2. \A g \in GroupInput : g.brief \in Seq(STRING) /\ g.attributes \in Seq(AttributeInput)
      BY DEF GroupInput
    <3> QED
      BY <3>1, <3>2
  <2> DEFINE W == STRING \union {Space}
  <2>3. GroupsOf(s, W, AttributeInput)
    <3>1. Space \in W /\ \A b \in Seq(STRING) : b \in Seq(W)
      OBVIOUS
    <3> HIDE DEF s, W
    <3> QED
      BY <2>1, <2>2, <3>1, Zenon DEF GroupsOf
  <2> HIDE DEF W
  <2> QED
    BY <1>1, <2>3, Zenon
<1> QED
  BY <1>2, <1>3

LEMMA AnsweredFiles ==
    ASSUME AnsweredInv, Generated
    PROVE  CanGenerate(State) /\ Files = Generate(State)
<1>1. answered.answer = Respond(State) /\ Respond(State).status = 200
  BY DEF AnsweredInv, Generated, State
<1>2. Valid(State) /\ CanGenerate(State)
  BY <1>1 DEF Respond
<1>3. Respond(State) = [status |-> 200, files |-> Generate(State)]
  BY <1>2, Zenon DEF Respond
<1>4. Files = Generate(State)
  BY <1>1, <1>3 DEF Files
<1> QED
  BY <1>2, <1>4

(* Every authored attribute is in the file of its namespace, once, in the  *)
(* order of the inputs and with its defaults, the first type and stability *)
(* given count, the text of every brief is found in the file's, if only    *)
(* within a word of an earlier one, and no file is added: for projects of  *)
(* any size, whichever namespaces are one once sanitized.                  *)
(* (weaver.go:187-252)                                                     *)
THEOREM MergeCorrect == SessionSpec => []NothingAuthoredIsLost
<1>1. AnsweredInv => NothingAuthoredIsLost
  <2> SUFFICES ASSUME AnsweredInv, Generated
               PROVE  /\ DOMAIN Files.groups =
                            {Sanitized[Namespace(State.groups[i])] : i \in DOMAIN State.groups}
                      /\ \A ns \in DOMAIN Files.groups : SaysAll(Files.groups[ns], In(ns))
    BY Zenon DEF NothingAuthoredIsLost
  <2> DEFINE s == State.groups
  <2>1. PICK W, B : GroupsOf(s, W, B)
    BY AnsweredGroups DEF Generated
  <2>2. Files.groups = GroupFiles(s)
    BY AnsweredFiles DEF Generate
  <2>3. /\ DOMAIN GroupFiles(s) = {FileKey(s[i]) : i \in DOMAIN s}
        /\ \A ns \in DOMAIN GroupFiles(s) : SaysAll(GroupFiles(s)[ns], Only(s, ns))
    BY <2>1, GroupFilesSay
  <2>4. \A ns : In(ns) = Only(s, ns)
    BY DEF In, Only, FileKey
  <2>5. \A i \in DOMAIN s : FileKey(s[i]) = Sanitized[Namespace(s[i])]
    BY DEF FileKey
  <2> HIDE DEF s
  <2>6. {FileKey(s[i]) : i \in DOMAIN s} = {Sanitized[Namespace(s[i])] : i \in DOMAIN s}
    BY <2>5
  <2> QED
    BY <2>2, <2>3, <2>4, <2>6 DEF s
<1> QED
  BY <1>1, AnsweredInit, AnsweredStep, PTL DEF SessionSpec

-----------------------------------------------------------------------------
\* Policies, check by check

LEMMA SuffixedDiffer ==
    ASSUME NEW base \in Name, NEW i \in Nat, NEW j \in Nat, i # j
    PROVE  Suffixed(base, i) # Suffixed(base, j)
<1>1. base.nums \in Seq(Nat) /\ Len(base.nums) \in Nat
  BY DEF Name
<1>2. \A k \in Nat : /\ Len(Append(base.nums, k)) = Len(base.nums) + 1
                     /\ Append(base.nums, k)[Len(base.nums) + 1] = k
  BY <1>1
<1>3. \A k \in Nat : k # 1 => Suffixed(base, k).nums = Append(base.nums, k)
  BY DEF Suffixed
<1>4. Suffixed(base, 1) = base
  BY DEF Suffixed
<1> QED
  BY <1>1, <1>2, <1>3, <1>4

LEMMA SuffixedType ==
    ASSUME NEW base \in Name, NEW i \in Nat
    PROVE  Suffixed(base, i) \in Name
<1>1. base.nums \in Seq(Nat) /\ base.stem \in STRING
  BY DEF Name
<1>2. Append(base.nums, i) \in Seq(Nat)
  BY <1>1
<1> QED
  BY <1>1, <1>2 DEF Suffixed, Name

(* Of one suffix more than there are names one is free. (policy.go:327-336)*)
LEMMA FreshName ==
    ASSUME NEW base \in Name, NEW used, IsFiniteSet(used)
    PROVE  UniquePolicyName(base, used) \in Name \ used
<1> DEFINE n == Cardinality(used)
           D == 1 .. n + 1
           free == {i \in D : Suffixed(base, i) \notin used}
<1>1. n \in Nat
  BY FS_CardinalityType
<1>2. free # {}
  <2> SUFFICES ASSUME \A i \in D : Suffixed(base, i) \in used PROVE FALSE
    OBVIOUS
  <2> DEFINE f == [i \in D |-> Suffixed(base, i)]
  <2>1. f \in [D -> used]
    OBVIOUS
  <2>2. IsFiniteSet(D) /\ Cardinality(D) = n + 1
    BY <1>1, FS_Interval
  <2>3. Cardinality(used) < Cardinality(D)
    BY <1>1, <2>2
  <2>4. \E x, y \in D : x # y /\ f[x] = f[y]
    <3> HIDE DEF f, D
    <3> QED
      BY <2>1, <2>2, <2>3, FS_PigeonHole
  <2>5. PICK x \in D, y \in D : x # y /\ f[x] = f[y]
    BY <2>4
  <2>6. x \in Nat /\ y \in Nat /\ Suffixed(base, x) = Suffixed(base, y)
    BY <1>1, <2>5
  <2> QED
    BY <2>5, <2>6, SuffixedDiffer
<1>3. free \subseteq Nat
  BY <1>1
<1>4. \E x \in free : \A y \in free : x <= y
  BY <1>2, <1>3, LeastOfNaturals
<1>5. Min(free) \in free
  BY <1>4, Zenon DEF Min
<1>6. UniquePolicyName(base, used) = Suffixed(base, Min(free))
  BY Zenon DEF UniquePolicyName
<1>7. Suffixed(base, Min(free)) \notin used
  BY <1>5
<1>8. Suffixed(base, Min(free)) \in Name
  BY <1>3, <1>5, SuffixedType
<1> HIDE DEF free
<1> QED
  BY <1>6, <1>7, <1>8

(* Checks whose names can be sanitized, and what can be made of them.      *)
PoliciesOf(s) ==
    /\ \E S : s \in Seq(S)
    /\ \A i \in DOMAIN s : BaseName(s[i]) \in Name
Emitted(s) == {EmitPolicyRego(s[i]) : i \in DOMAIN s}
ByFile(s) == UNION {[D -> Emitted(s)] : D \in {D \in SUBSET Name : IsFiniteSet(D)}}

LEMMA ByFileFields ==
    ASSUME NEW s, NEW a \in ByFile(s)
    PROVE  /\ DOMAIN a \subseteq Name /\ IsFiniteSet(DOMAIN a)
           /\ \A n \in DOMAIN a : a[n] \in Emitted(s)
BY DEF ByFile

LEMMA NoFilesByFile ==
    ASSUME NEW s
    PROVE  NoFiles \in ByFile(s)
<1>1. NoFiles \in [{} -> Emitted(s)]
  BY DEF NoFiles
<1>2. {} \in {D \in SUBSET Name : IsFiniteSet(D)}
  BY FS_EmptySet
<1> QED
  BY <1>1, <1>2 DEF ByFile

LEMMA AddPolicyType ==
    ASSUME NEW s, PoliciesOf(s), NEW i \in DOMAIN s, NEW a \in ByFile(s)
    PROVE  /\ AddPolicy(a, s[i]) \in ByFile(s)
           /\ Range(AddPolicy(a, s[i])) = Range(a) \union {EmitPolicyRego(s[i])}
<1> DEFINE c == s[i]
           name == UniquePolicyName(BaseName(c), DOMAIN a)
           D == DOMAIN a \union {name}
           b == AddPolicy(a, c)
<1>1. name \in Name \ DOMAIN a
  BY ByFileFields, FreshName DEF PoliciesOf
<1>2. b = [n \in D |-> IF n = name THEN EmitPolicyRego(c) ELSE a[n]]
  BY Zenon DEF AddPolicy
<1>3. EmitPolicyRego(c) \in Emitted(s)
  BY DEF Emitted
<1>4. IsFiniteSet(D) /\ D \subseteq Name
  <2>1. IsFiniteSet(DOMAIN a) /\ DOMAIN a \subseteq Name
    BY ByFileFields
  <2>2. IsFiniteSet(DOMAIN a \union {name})
    BY <2>1, FS_AddElement
  <2> QED
    BY <1>1, <2>1, <2>2
<1>5. \A n \in DOMAIN a : a[n] \in Emitted(s)
  BY ByFileFields
<1> HIDE DEF name, b, c
<1>6. b \in [D -> Emitted(s)]
  BY <1>2, <1>3, <1>5
<1>7. b \in ByFile(s)
  BY <1>4, <1>6 DEF ByFile
<1>8. Range(b) = Range(a) \union {EmitPolicyRego(c)}
  <2>1. DOMAIN b = D /\ b[name] = EmitPolicyRego(c) /\ \A n \in DOMAIN a : b[n] = a[n]
    BY <1>1, <1>2
  <2> QED
    BY <2>1 DEF Range
<1> QED
  BY <1>7, <1>8 DEF b, c

(* The fold goes check by check.                                           *)
LEMMA PoliciesByStep ==
    ASSUME NEW s, PoliciesOf(s)
    PROVE  /\ Len(s) \in Nat /\ DOMAIN s = 1 .. Len(s)
           /\ \E F \in [0 .. Len(s) -> ByFile(s)] :
                /\ F[0] = NoFiles
                /\ \A i \in 1 .. Len(s) : F[i] = AddPolicy(F[i - 1], s[i])
                /\ FoldLeft(AddPolicy, NoFiles, s) = F[Len(s)]
<1> DEFINE A == ByFile(s)
           M == {s[i] : i \in DOMAIN s}
           h == [am \in A \X M |-> AddPolicy(am[1], am[2])]
           len == Len(s)
           Step(it, T) ==
               IF T = {} THEN NoFiles ELSE AddPolicy(it[T \ {Max(T)}], s[Max(T)])
           Fold == CHOOSE it : it = [T \in SUBSET (1 .. len) |-> Step(it, T)]
           F == [i \in 0 .. len |-> Fold[1 .. i]]
<1>1. len \in Nat /\ DOMAIN s = 1 .. len /\ \A i \in 1 .. len : s[i] \in M
  BY DEF PoliciesOf
<1>2. ASSUME NEW a \in A, NEW c \in M PROVE AddPolicy(a, c) \in A
  BY AddPolicyType
<1>3. h \in [A \X M -> A] /\ NoFiles \in A
  <2>1. ASSUME NEW am \in A \X M PROVE AddPolicy(am[1], am[2]) \in A
    <3>1. am[1] \in A /\ am[2] \in M
      OBVIOUS
    <3> QED
      BY <1>2, <3>1
  <2>2. NoFiles \in A
    BY NoFilesByFile
  <2> QED
    BY <2>1, <2>2, Zenon
<1> HIDE DEF h, A, M
<1>4. PICK it \in [SUBSET (1 .. len) -> A] : Solves(it, h, NoFiles, s, len)
  <2>1. HasSolution(A, h, NoFiles, s, len)
    BY <1>1, <1>3, FoldExists
  <2> QED
    BY <2>1 DEF HasSolution
<1>5. ASSUME NEW T \in SUBSET (1 .. len) PROVE it[T] = Step(it, T)
  <2>1. CASE T = {}
    BY <1>4, <2>1 DEF Solves
  <2>2. CASE T # {}
    <3>1. Max(T) \in 1 .. len
      BY <1>1, <2>2, MaxIsPlace
    <3>2. s[Max(T)] \in M /\ it[T \ {Max(T)}] \in A
      BY <1>1, <3>1
    <3> QED
      BY <1>4, <2>2, <3>2 DEF Solves, h
  <2> QED
    BY <2>1, <2>2
<1>6. it = [T \in SUBSET (1 .. len) |-> Step(it, T)]
  BY <1>5, Zenon
<1>7. Fold = [T \in SUBSET (1 .. len) |-> Step(Fold, T)]
  BY <1>6, Zenon
<1>8. FoldLeft(AddPolicy, NoFiles, s) = Fold[1 .. len]
  BY <1>1 DEF FoldLeft, MapThenFoldSet, Max, Max
<1> HIDE DEF Fold
<1>9. F[0] = NoFiles
  <2>1. 1 .. 0 = {} /\ 1 .. 0 \in SUBSET (1 .. len) /\ 0 \in 0 .. len
    BY <1>1
  <2> QED
    BY <1>7, <2>1
<1>10. ASSUME NEW i \in 1 .. len PROVE F[i] = AddPolicy(F[i - 1], s[i])
  <2>1. i - 1 \in 0 .. len /\ i \in 0 .. len
    BY <1>1
  <2>2. /\ 1 .. i \in SUBSET (1 .. len) /\ 1 .. i # {}
        /\ Max(1 .. i) = i /\ (1 .. i) \ {i} = 1 .. i - 1
    BY <1>1, SolutionByPlace
  <2>3. Fold[1 .. i] = AddPolicy(Fold[1 .. i - 1], s[i])
    BY <1>7, <2>2
  <2> QED
    BY <2>1, <2>3
<1>11. FoldLeft(AddPolicy, NoFiles, s) = F[len]
  BY <1>1, <1>8
<1> HIDE DEF F
<1> DEFINE T0 == {n \in Nat : n <= len => F[n] \in A}
<1>12. 0 \in T0
  BY <1>3, <1>9
<1>13. ASSUME NEW n \in Nat, n \in T0 PROVE n + 1 \in T0
  <2> SUFFICES ASSUME n + 1 <= len PROVE F[n + 1] \in A
    OBVIOUS
  <2>1. n + 1 \in 1 .. len /\ n + 1 - 1 = n /\ F[n] \in A
    BY <1>1, <1>13
  <2>2. F[n + 1] = AddPolicy(F[n], s[n + 1])
    BY <1>10, <2>1
  <2> QED
    BY <1>1, <1>2, <2>1, <2>2
<1>14. \A n \in 0 .. len : F[n] \in A
  <2>1. Nat \subseteq T0
    BY <1>12, <1>13, SetInduction
  <2> QED
    BY <1>1, <2>1
<1>15. F \in [0 .. len -> A]
  BY <1>14 DEF F
<1> QED
  BY <1>1, <1>9, <1>10, <1>11, <1>15 DEF A

(* No check is lost to a file of the same name.                            *)
LEMMA PolicyFilesSay ==
    ASSUME NEW s, PoliciesOf(s)
    PROVE  Range(PolicyFiles(s)) = Emitted(s)
<1> DEFINE len == Len(s)
<1>1. len \in Nat /\ DOMAIN s = 1 .. len
  BY PoliciesByStep
<1>2. PICK F \in [0 .. len -> ByFile(s)] :
         /\ F[0] = NoFiles
         /\ \A i \in 1 .. len : F[i] = AddPolicy(F[i - 1], s[i])
         /\ FoldLeft(AddPolicy, NoFiles, s) = F[len]
  BY PoliciesByStep
<1> DEFINE T == {n \in Nat : n <= len => Range(F[n]) = {EmitPolicyRego(s[i]) : i \in 1 .. n}}
<1>3. 0 \in T
  BY <1>2 DEF NoFiles, Range
<1>4. ASSUME NEW n \in Nat, n \in T PROVE n + 1 \in T
  <2> SUFFICES ASSUME n + 1 <= len
               PROVE  Range(F[n + 1]) = {EmitPolicyRego(s[i]) : i \in 1 .. n + 1}
    OBVIOUS
  <2>1. n + 1 \in 1 .. len /\ (n + 1) - 1 = n /\ n \in 0 .. len
    BY <1>1
  <2>2. F[n + 1] = AddPolicy(F[n], s[n + 1]) /\ F[n] \in ByFile(s)
    BY <1>2, <2>1
  <2>3. Range(F[n + 1]) = Range(F[n]) \union {EmitPolicyRego(s[n + 1])}
    BY <1>1, <2>1, <2>2, AddPolicyType
  <2>4. Range(F[n]) = {EmitPolicyRego(s[i]) : i \in 1 .. n}
    BY <1>1, <1>4
  <2>5. 1 .. n + 1 = (1 .. n) \union {n + 1}
    OBVIOUS
  <2> QED
    BY <2>3, <2>4, <2>5
<1>5. len \in T
  BY <1>1, <1>3, <1>4, SetInduction
<1> QED
  BY <1>1, <1>2, <1>5 DEF PolicyFiles, Emitted

-----------------------------------------------------------------------------
\* Findings

LEMMA SetOfConcat ==
    ASSUME NEW M, NEW x \in Seq(M), NEW y \in Seq(M)
    PROVE  ToSet(x \o y) = ToSet(x) \union ToSet(y)
<1> DEFINE z == x \o y
<1>1. /\ Len(x) \in Nat /\ Len(y) \in Nat /\ DOMAIN x = 1 .. Len(x) /\ DOMAIN y = 1 .. Len(y)
      /\ DOMAIN z = 1 .. Len(x) + Len(y)
      /\ \A i \in 1 .. Len(x) + Len(y) :
            z[i] = IF i <= Len(x) THEN x[i] ELSE y[i - Len(x)]
  OBVIOUS
<1> HIDE DEF z
<1>2. ASSUME NEW i \in 1 .. Len(x) + Len(y) PROVE z[i] \in ToSet(x) \union ToSet(y)
  <2>1. i \in 1 .. Len(x) \/ (i - Len(x) \in 1 .. Len(y) /\ ~(i <= Len(x)))
    BY <1>1
  <2> QED
    BY <1>1, <2>1 DEF ToSet
<1>3. ASSUME NEW i \in 1 .. Len(x) PROVE x[i] \in ToSet(z)
  <2>1. i \in 1 .. Len(x) + Len(y) /\ z[i] = x[i]
    BY <1>1
  <2> QED
    BY <1>1, <2>1 DEF ToSet
<1>4. ASSUME NEW i \in 1 .. Len(y) PROVE y[i] \in ToSet(z)
  <2>1. /\ Len(x) + i \in 1 .. Len(x) + Len(y) /\ ~(Len(x) + i <= Len(x))
        /\ (Len(x) + i) - Len(x) = i
    BY <1>1
  <2>2. z[Len(x) + i] = y[i]
    BY <1>1, <2>1
  <2> QED
    BY <1>1, <2>1, <2>2 DEF ToSet
<1>5. ToSet(z) = ToSet(x) \union ToSet(y)
  <2>1. ToSet(z) \subseteq ToSet(x) \union ToSet(y)
    BY <1>1, <1>2 DEF ToSet
  <2>2. ToSet(x) \subseteq ToSet(z) /\ ToSet(y) \subseteq ToSet(z)
    BY <1>1, <1>3, <1>4 DEF ToSet
  <2> QED
    BY <2>1, <2>2
<1> QED
  BY <1>5 DEF z

LEMMA SetOfFlat ==
    ASSUME NEW M, NEW q \in Seq(Seq(M))
    PROVE  \A x : x \in ToSet(FlattenSeq(q)) <=> \E i \in DOMAIN q : x \in ToSet(q[i])
<1> DEFINE len == Len(q)
<1>1. len \in Nat /\ DOMAIN q = 1 .. len /\ \A i \in 1 .. len : q[i] \in Seq(M)
  OBVIOUS
<1>2. PICK J : Joins(J, M, q, len) /\ FlattenSeq(q) = J[len]
  BY FlattenByStep
<1> DEFINE Holds(n) == \A x : x \in ToSet(J[n]) <=> \E i \in 1 .. n : x \in ToSet(q[i])
           T == {n \in Nat : n <= len => Holds(n)}
<1>3. 0 \in T
  <2>1. J[0] = << >>
    BY <1>2 DEF Joins
  <2> QED
    BY <2>1 DEF ToSet
<1>4. ASSUME NEW n \in Nat, n \in T PROVE n + 1 \in T
  <2> SUFFICES ASSUME n + 1 <= len PROVE Holds(n + 1)
    OBVIOUS
  <2>1. n + 1 \in 1 .. len /\ (n + 1) - 1 = n /\ n \in 0 .. len
    BY <1>1
  <2>2. J[n + 1] = J[n] \o q[n + 1] /\ J[n] \in Seq(M)
    BY <1>2, <2>1 DEF Joins
  <2>3. ToSet(J[n + 1]) = ToSet(J[n]) \union ToSet(q[n + 1])
    BY <1>1, <2>1, <2>2, SetOfConcat
  <2>4. Holds(n)
    BY <1>1, <1>4, <2>1
  <2>5. \A i : i \in 1 .. n + 1 <=> i \in 1 .. n \/ i = n + 1
    OBVIOUS
  <2> QED
    BY <2>3, <2>4, <2>5
<1> HIDE DEF Holds
<1>5. len \in T
  BY <1>1, <1>3, <1>4, SetInduction
<1>6. Holds(len)
  BY <1>1, <1>5
<1> QED
  BY <1>1, <1>2, <1>6 DEF Holds

(* The attributes of the files are those authored, with their defaults.    *)
LEMMA AttributesOfFiles ==
    ASSUME NEW s, NEW W, NEW B, GroupsOf(s, W, B)
    PROVE  UNION {ToSet(g.attributes) : g \in Range(GroupFiles(s))} =
             {Enriched(b) : b \in UNION {ToSet(s[i].attributes) : i \in DOMAIN s}}
<1> DEFINE G == GroupFiles(s)
           N == DOMAIN G
           Raw == UNION {ToSet(s[i].attributes) : i \in DOMAIN s}
           All == UNION {ToSet(g.attributes) : g \in Range(G)}
<1>1. /\ N = {FileKey(s[i]) : i \in DOMAIN s}
      /\ \A ns \in N : SaysAll(G[ns], Only(s, ns))
  BY GroupFilesSay
<1>2. ASSUME NEW ns \in N
      PROVE  \A x : x \in ToSet(G[ns].attributes) <=>
                       \E i \in DOMAIN s : x \in ToSet(EnrichedAll(Only(s, ns)[i].attributes))
  <2> DEFINE m == Only(s, ns)
  <2>1. /\ Lists(m) \in Seq(Seq({Enriched(b) : b \in B})) /\ DOMAIN m = DOMAIN s
    BY OnlyTyped
  <2>2. G[ns].attributes = FlattenSeq(Lists(m))
    BY <1>1, Zenon DEF SaysAll, Lists
  <2>3. DOMAIN Lists(m) = DOMAIN s /\ \A i \in DOMAIN s : Lists(m)[i] = EnrichedAll(m[i].attributes)
    BY <2>1 DEF Lists
  <2> HIDE DEF m, G
  <2>4. \A x : x \in ToSet(FlattenSeq(Lists(m))) <=>
                 \E i \in DOMAIN Lists(m) : x \in ToSet(Lists(m)[i])
    BY <2>1, SetOfFlat
  <2> QED
    BY <2>2, <2>3, <2>4 DEF m
<1>3. ASSUME NEW q PROVE ToSet(EnrichedAll(q)) = {Enriched(b) : b \in ToSet(q)}
  BY DEF EnrichedAll, ToSet
<1> HIDE DEF G, N
<1>4. ASSUME NEW x \in All PROVE x \in {Enriched(b) : b \in Raw}
  <2>1. PICK ns \in N : x \in ToSet(G[ns].attributes)
    BY DEF Range, N
  <2>2. PICK i \in DOMAIN s : x \in ToSet(EnrichedAll(Only(s, ns)[i].attributes))
    BY <1>2, <2>1
  <2>3. PICK b \in ToSet(Only(s, ns)[i].attributes) : x = Enriched(b)
    BY <1>3, <2>2
  <2>4. Only(s, ns)[i] = s[i] \/ Only(s, ns)[i].attributes = << >>
    BY DEF Only, NoGroup
  <2>5. b \in ToSet(s[i].attributes)
    BY <2>3, <2>4 DEF ToSet
  <2> QED
    BY <2>3, <2>5
<1>5. ASSUME NEW b \in Raw PROVE Enriched(b) \in All
  <2>1. PICK i \in DOMAIN s : b \in ToSet(s[i].attributes)
    OBVIOUS
  <2> DEFINE ns == FileKey(s[i])
  <2>2. ns \in N /\ Only(s, ns)[i] = s[i]
    BY <1>1 DEF Only
  <2>3. Enriched(b) \in ToSet(EnrichedAll(Only(s, ns)[i].attributes))
    BY <1>3, <2>1, <2>2
  <2>4. Enriched(b) \in ToSet(G[ns].attributes)
    BY <1>2, <2>2, <2>3
  <2> HIDE DEF ns
  <2>5. G[ns] \in Range(G)
    BY <2>2 DEF Range, N
  <2> QED
    BY <2>4, <2>5
<1> QED
  BY <1>4, <1>5 DEF G

(* A check whose name can be sanitized, of one piece but in an allow-list. *)
TypedCheck(c) ==
    /\ BaseName(c) \in Name
    /\ \A key \in Keys \ {"allowed"} :
        Len(c.params[key]) <= 1 /\ \E S : c.params[key] \in Seq(S)

LEMMA PageCheckTyped ==
    ASSUME NEW c \in PageChecks
    PROVE  TypedCheck(c)
<1>1. PICK t : t \in Templates /\ \E p \in PageParams(t) : c = CheckOf(t, p)
  BY PageCheckFields
<1>2. PICK p \in PageParams(t) : c = CheckOf(t, p)
  BY <1>1
<1>3. /\ c.template = t /\ c.params = p /\ c.name = Absent /\ c.raw = Absent
  BY <1>2 DEF CheckOf
<1>4. BaseName(c) \in Name
  <2>1. NameText(c) = t
    BY <1>3 DEF NameText, FirstNonEmpty
  <2>2. t \in DOMAIN Sanitized
    BY <1>1, SanitizedAssumption
  <2>3. Sanitized[t] \in Name
    BY <2>2, SanitizedAssumption
  <2> QED
    BY <2>1, <2>3 DEF BaseName
<1>5. ASSUME NEW key \in Keys \ {"allowed"}
      PROVE  Len(p[key]) <= 1 /\ \E S : p[key] \in Seq(S)
  <2>1. p[key] = << >> \/ p[key] = <<"acme.">> \/ p[key] = <<"int">> \/ p[key] = <<Absent>>
    BY <1>2, <1>5 DEF PageParams, Defaults
  <2>2. ASSUME NEW x PROVE Len(<<x>>) <= 1 /\ <<x>> \in Seq({x})
    OBVIOUS
  <2>3. Len(<< >>) <= 1 /\ << >> \in Seq({})
    OBVIOUS
  <2> QED
    BY <2>1, <2>2, <2>3
<1> QED
  BY <1>3, <1>4, <1>5 DEF TypedCheck

LEMMA AnsweredPolicies ==
    ASSUME AnsweredInv, answered # << >>
    PROVE  /\ PoliciesOf(State.policies)
           /\ \A i \in DOMAIN State.policies : TypedCheck(State.policies[i])
<1> DEFINE s == answered.state.policies
<1>1. s = State.policies
  BY DEF State
<1>2. (\E S : s \in Seq(S)) /\ \A i \in DOMAIN s : TypedCheck(s[i])
  <2>1. CASE client = "page"
    <3>1. s \in Seq(Complete)
      BY <2>1, Zenon DEF AnsweredInv, OfPage
    <3> HIDE DEF s
    <3>2. \A i \in DOMAIN s : s[i] \in PageChecks
      BY <3>1 DEF Complete
    <3> QED
      BY <3>1, <3>2, PageCheckTyped
  <2>2. CASE client # "page"
    <3>1. answered.state \in Posts
      BY <2>2, Zenon DEF AnsweredInv
    <3>2. /\ s \in Seq(PolicyInput)
          /\ \A i \in DOMAIN s : NameText(s[i]) \in DOMAIN Sanitized
      BY <3>1, InputsAssumption, Zenon
    <3> HIDE DEF s
    <3>3. ASSUME NEW i \in DOMAIN s PROVE TypedCheck(s[i])
      <4>1. BaseName(s[i]) \in Name
        BY <3>2, SanitizedAssumption DEF BaseName
      <4>2. s[i] \in PolicyInput
        BY <3>2
      <4>3. ASSUME NEW c \in PolicyInput, NEW key \in Keys \ {"allowed"}
            PROVE  Len(c.params[key]) <= 1 /\ c.params[key] \in Seq(STRING)
        BY DEF PolicyInput
      <4> QED
        BY <4>1, <4>2, <4>3, Zenon DEF TypedCheck
    <3> QED
      BY <3>2, <3>3
  <2> QED
    BY <2>1, <2>2
<1> HIDE DEF s
<1>3. \A i \in DOMAIN s : BaseName(s[i]) \in Name
  BY <1>2 DEF TypedCheck
<1>4. PoliciesOf(s)
  BY <1>2, <1>3, Zenon DEF PoliciesOf
<1> QED
  BY <1>1, <1>2, <1>4

LEMMA OneParam ==
    ASSUME NEW c, TypedCheck(c), NEW key \in Keys \ {"allowed"}, Param(c.params, key) # {}
    PROVE  \E x : c.params[key] = <<x>> /\ Param(c.params, key) = {x}
<1> DEFINE q == c.params[key]
<1>1. PICK S : q \in Seq(S)
  BY DEF TypedCheck
<1>2. Len(q) <= 1 /\ Len(q) \in Nat /\ DOMAIN q = 1 .. Len(q)
  BY <1>1 DEF TypedCheck
<1>3. PICK x \in ToSet(q) : x # Absent
  BY DEF Param
<1> HIDE DEF q
<1>4. Len(q) = 1 /\ q[1] = x
  BY <1>2, <1>3 DEF ToSet
<1>5. q = <<x>>
  BY <1>1, <1>4
<1>6. ToSet(q) \ {Absent} = {x}
  BY <1>2, <1>3, <1>4 DEF ToSet
<1> QED
  BY <1>5, <1>6 DEF q, Param

(* A rule denies what its check says, with its siblings on an allow-list.  *)
LEMMA DenialDeserved ==
    ASSUME Rules = {EmitPolicyRego(c) : c \in Checks},
           \A c \in Checks : TypedCheck(c) /\ Emits(c),
           NEW c \in Checks, NEW b
    PROVE  Denies(EmitPolicyRego(c), Enriched(b)) <=> Breaks(c, b)
<1> DEFINE r == EmitPolicyRego(c)
           a == Enriched(b)
           p == c.params
<1>1. r.template = c.template /\ r.params = p /\ r.token = BaseName(c)
  BY DEF EmitPolicyRego
<1>2. /\ a.id = b.id /\ a.type = FirstNonEmpty(b.type, "string")
      /\ a.stability # Absent /\ a.requirement_level # Absent
  <2>1. "development" # Absent /\ "recommended" # Absent
    BY Zenon DEF Absent
  <2> QED
    BY <2>1 DEF Enriched, FirstNonEmpty
<1>3. /\ c.template \in Templates
      /\ \A key \in Required[c.template] : Param(p, key) # {}
  BY Zenon DEF Emits, Checks
<1> HIDE DEF r, a
<1>4. CASE c.template = "naming_prefix_required"
  <2>1. Param(p, "prefix") # {} /\ "prefix" \in Keys \ {"allowed"}
    BY <1>3, <1>4 DEF Required, Keys
  <2>2. PICK x : p["prefix"] = <<x>> /\ Param(p, "prefix") = {x}
    BY <2>1, OneParam
  <2>3. Denies(r, a) <=> <<b.id, x>> \notin Prefixed
    BY <1>1, <1>2, <1>4, <2>2 DEF Denies
  <2>4. Breaks(c, b) <=> <<b.id, Head(p.prefix)>> \notin Prefixed
    BY <1>4 DEF Breaks
  <2>5. Head(p.prefix) = x
    BY <2>2
  <2> QED
    BY <2>3, <2>4, <2>5 DEF r, a
<1>5. CASE c.template = "namespace_allow_list"
  <2> DEFINE Same == {q \in Rules : q.template = r.template /\ q.token = r.token}
             Bad(o) == \A x \in ToSet(o.params.allowed) \ {Absent} : <<b.id, x>> \notin Prefixed
             Sibling(o) == o.template = c.template /\ BaseName(o) = BaseName(c)
  <2>1. Denies(r, a)
          <=> \A q \in Same : \A x \in Param(q.params, "allowed") : <<b.id, x>> \notin Prefixed
    BY <1>1, <1>2, <1>5 DEF Denies
  <2>2. Breaks(c, b) <=> \A o \in Checks : Sibling(o) => Bad(o)
    BY <1>5 DEF Breaks
  <2>3. ASSUME NEW o \in Checks
        PROVE  /\ EmitPolicyRego(o) \in Rules
               /\ EmitPolicyRego(o) \in Same <=> Sibling(o)
               /\ Param(EmitPolicyRego(o).params, "allowed") = ToSet(o.params.allowed) \ {Absent}
    <3>1. /\ EmitPolicyRego(o).template = o.template
          /\ EmitPolicyRego(o).token = BaseName(o)
          /\ EmitPolicyRego(o).params = o.params
      BY DEF EmitPolicyRego
    <3>2. EmitPolicyRego(o) \in Rules
      OBVIOUS
    <3>3. EmitPolicyRego(o) \in Same <=> Sibling(o)
      BY <1>1, <3>1, <3>2
    <3>4. Param(EmitPolicyRego(o).params, "allowed") = ToSet(o.params.allowed) \ {Absent}
      BY <3>1 DEF Param
    <3> QED
      BY <3>2, <3>3, <3>4
  <2>4. ASSUME NEW q \in Same PROVE \E o \in Checks : q = EmitPolicyRego(o)
    OBVIOUS
  <2> HIDE DEF Same, Sibling
  <2>5. (\A q \in Same : \A x \in Param(q.params, "allowed") : <<b.id, x>> \notin Prefixed)
           <=> \A o \in Checks : Sibling(o) => Bad(o)
    BY <2>3, <2>4, Zenon
  <2> QED
    BY <2>1, <2>2, <2>5 DEF r, a
<1>6. CASE c.template = "type_consistency"
  <2>1. /\ Param(p, "attribute") # {} /\ Param(p, "expected_type") # {}
        /\ "attribute" \in Keys \ {"allowed"} /\ "expected_type" \in Keys \ {"allowed"}
    BY <1>3, <1>6 DEF Required, Keys
  <2>2. PICK x : p["attribute"] = <<x>> /\ Param(p, "attribute") = {x}
    BY <2>1, OneParam
  <2>3. PICK y : p["expected_type"] = <<y>> /\ Param(p, "expected_type") = {y}
    BY <2>1, OneParam
  <2>4. Denies(r, a) <=> a.id = x /\ a.type # y
    BY <1>1, <1>6, <2>2, <2>3 DEF Denies
  <2>5. Breaks(c, b) <=>
          /\ p.attribute = <<b.id>> /\ p.expected_type # <<FirstNonEmpty(b.type, "string")>>
    BY <1>6 DEF Breaks
  <2>6. ASSUME NEW u, NEW v PROVE <<u>> = <<v>> <=> u = v
    OBVIOUS
  <2> QED
    BY <1>2, <2>2, <2>3, <2>4, <2>5, <2>6 DEF r, a
<1>7. CASE c.template \notin {"naming_prefix_required", "namespace_allow_list", "type_consistency"}
  <2>1. ~Denies(r, a)
    BY <1>1, <1>2, <1>7 DEF Denies
  <2>2. ~Breaks(c, b)
    BY <1>7 DEF Breaks
  <2> QED
    BY <2>1, <2>2 DEF r, a
<1> QED
  BY <1>4, <1>5, <1>6, <1>7

(* An emitted config leads to the checks unless it was told otherwise.     *)
LEMMA ConfigLeads ==
    ASSUME Files = Generate(State), State.policies # << >>
    PROVE  Runs <=> Told
<1> DEFINE g == State.config
           P == PolicyPaths(g, State.policies)
<1>1. Files.config = IF ~g.enabled THEN NoConfig ELSE EmitWeaverConfig(g, State.policies)
  BY DEF Generate
<1>2. CASE ~g.enabled
  <2>1. ~Files.config.enabled
    BY <1>1, <1>2 DEF NoConfig
  <2> QED
    BY <1>2, <2>1, Zenon DEF Runs, Told
<1>3. CASE g.enabled
  <2> DEFINE e == EmitWeaverConfig(g, State.policies)
             fs == SelectSeq(g.filters, Constrains)
             reg == FirstNonEmpty(g.registry_path, ".")
  <2>1. e = [enabled |-> TRUE, registry |-> reg, policy_paths |-> P,
             policy_skip |-> g.policy_skip, filters |-> fs]
    BY Zenon DEF EmitWeaverConfig
  <2>2. Files.config = e
    BY <1>1, <1>3
  <2>3. "policies" \in P <=> g.policy_paths = {} \/ "policies" \in g.policy_paths
    BY DEF PolicyPaths
  <2> HIDE DEF fs, reg, P, e, g
  <2>4. e.enabled = TRUE /\ e.policy_paths = P /\ e.policy_skip = g.policy_skip
    BY <2>1
  <2> QED
    BY <1>3, <2>2, <2>3, <2>4, Zenon DEF Runs, Told, g
<1> QED
  BY <1>2, <1>3

(* Weaver reports an attribute under a check exactly when it breaks that   *)
(* check: for any number of checks, whatever their names are once          *)
(* sanitized, and any attributes, config and allow-lists.                  *)
(* (policy.go:117-166, 194-250, weaver.go:254-283)                         *)
THEOREM FindingsCorrect == SessionSpec => []FindingsAreDeserved
<1>1. AnsweredInv => FindingsAreDeserved
  <2> DEFINE Due(c) == {b \in Authored : Told /\ Breaks(c, b)}
             Deserved == UNION {{Finding(c.template, c.params, b) : b \in Due(c)} : c \in Checks}
             Found(r) == {a \in Attributes : Runs /\ Denies(r, a)}
  <2> SUFFICES ASSUME AnsweredInv, Generated PROVE Findings = Deserved
    BY Zenon DEF FindingsAreDeserved
  <2>1. CanGenerate(State) /\ Files = Generate(State)
    BY AnsweredFiles
  <2>2. /\ PoliciesOf(State.policies)
        /\ \A i \in DOMAIN State.policies : TypedCheck(State.policies[i])
    BY AnsweredPolicies DEF Generated
  <2>3. \A c \in Checks : TypedCheck(c) /\ Emits(c)
    BY <2>1, <2>2 DEF Checks, CanGenerate, ToSet
  <2>4. Rules = {EmitPolicyRego(c) : c \in Checks}
    <3>1. Range(Files.policies) = Emitted(State.policies)
      BY <2>1, <2>2, PolicyFilesSay DEF Generate
    <3>2. \A c : EmitPolicyRego(c).raw = c.raw
      BY DEF EmitPolicyRego
    <3> QED
      BY <3>1, <3>2 DEF Rules, Checks, Emitted, ToSet
  <2>5. Attributes = {Enriched(b) : b \in Authored}
    <3>1. PICK W, B : GroupsOf(State.groups, W, B)
      BY AnsweredGroups DEF Generated
    <3>2. Files.groups = GroupFiles(State.groups)
      BY <2>1 DEF Generate
    <3> QED
      BY <3>1, <3>2, AttributesOfFiles, Zenon DEF Attributes, Authored
  <2>6. ASSUME NEW c \in Checks PROVE Runs <=> Told
    <3>1. State.policies # << >>
      BY DEF Checks, ToSet
    <3> QED
      BY <2>1, <3>1, ConfigLeads
  <2>7. ASSUME NEW c \in Checks, NEW b \in Authored
        PROVE  /\ Enriched(b) \in Found(EmitPolicyRego(c)) <=> b \in Due(c)
               /\ Finding(EmitPolicyRego(c).template, EmitPolicyRego(c).params, Enriched(b)) =
                     Finding(c.template, c.params, b)
    <3>1. Denies(EmitPolicyRego(c), Enriched(b)) <=> Breaks(c, b)
      BY <2>3, <2>4, DenialDeserved
    <3>2. Enriched(b) \in Attributes
      BY <2>5
    <3>3. Enriched(b).id = b.id
      BY DEF Enriched
    <3>4. EmitPolicyRego(c).template = c.template /\ EmitPolicyRego(c).params = c.params
      BY DEF EmitPolicyRego
    <3> QED
      BY <2>6, <3>1, <3>2, <3>3, <3>4 DEF Finding
  <2>8. Findings = UNION {{Finding(r.template, r.params, a) : a \in Found(r)} : r \in Rules}
    BY Zenon DEF Findings
  <2>9. ASSUME NEW x \in Findings PROVE x \in Deserved
    <3>1. PICK r \in Rules : x \in {Finding(r.template, r.params, a) : a \in Found(r)}
      BY <2>8
    <3>2. PICK a \in Found(r) : x = Finding(r.template, r.params, a)
      BY <3>1
    <3>3. PICK c \in Checks : r = EmitPolicyRego(c)
      BY <2>4
    <3>4. PICK b \in Authored : a = Enriched(b)
      BY <2>5
    <3>5. b \in Due(c) /\ x = Finding(c.template, c.params, b)
      BY <2>7, <3>2, <3>3, <3>4
    <3> HIDE DEF Due
    <3> QED
      BY <3>5
  <2>10. ASSUME NEW x \in Deserved PROVE x \in Findings
    <3>1. PICK c \in Checks : x \in {Finding(c.template, c.params, b) : b \in Due(c)}
      OBVIOUS
    <3>2. PICK b \in Due(c) : x = Finding(c.template, c.params, b)
      BY <3>1
    <3>3. /\ EmitPolicyRego(c) \in Rules /\ Enriched(b) \in Found(EmitPolicyRego(c))
          /\ x = Finding(EmitPolicyRego(c).template, EmitPolicyRego(c).params, Enriched(b))
      BY <2>4, <2>7, <3>2
    <3> HIDE DEF Found
    <3> QED
      BY <2>8, <3>3
  <2> QED
    BY <2>9, <2>10
<1> QED
  BY <1>1, AnsweredInit, AnsweredStep, PTL DEF SessionSpec
=============================================================================
