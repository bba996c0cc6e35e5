--------------------------- MODULE RegistryProofs ---------------------------
(***************************************************************************)
(* Whatever the snapshot, looking an attribute up finds what its mentions  *)
(* say; a comparison and a seed classify every entry they list by it,      *)
(* though observations change the entries meanwhile; and the facets, the   *)
(* total and the page of a search agree with one another.                  *)
(***************************************************************************)
EXTENDS RegistryCompare, FiniteSetTheorems, SequenceTheorems, WellFoundedInduction, TLAPS

-----------------------------------------------------------------------------
\* Recursion over sequences

(* Every set of natural numbers that is not empty has a least one.         *)
LEMMA LeastOfNaturals ==
    ASSUME NEW T, T \subseteq Nat, T # {}
    PROVE  \E x \in T : \A y \in T : x <= y
<1> DEFINE R == {ss \in Nat \X Nat : ss[1] < ss[2]}
<1>1. IsWellFoundedOn(R, Nat)
  BY NatLessThanWellFounded, Zenon DEF OpToRel
<1> HIDE DEF R
<1>2. PICK x \in T : \A y \in T : ~ (<<y, x>> \in R)
  BY <1>1, WFMin, Zenon
<1>3. \A y \in T : ~ (y < x)
  BY <1>2 DEF R
<1> QED
  BY <1>3

(* What holds of 0, and of n + 1 if it does of n, holds of all.            *)
LEMMA SetInduction ==
    ASSUME NEW T, 0 \in T, \A n \in Nat : n \in T => n + 1 \in T
    PROVE  Nat \subseteq T
<1> SUFFICES ASSUME Nat \ T # {} PROVE FALSE
  OBVIOUS
<1>1. PICK x \in Nat \ T : \A y \in Nat \ T : x <= y
  BY LeastOfNaturals
<1>2. x # 0 /\ x - 1 \in Nat /\ x - 1 + 1 = x
  BY <1>1
<1>3. x - 1 \in T
  BY <1>1, <1>2
<1> QED
  BY <1>1, <1>2, <1>3

(* The recursion in the definition of a fold has a solution: for every set *)
(* of places, what is left of the greatest of them last.                   *)
Solves(it, h, base, s, n) ==
    \A T \in SUBSET (1 .. n) :
        it[T] = IF T = {} THEN base ELSE h[<<it[T \ {Max(T)}], s[Max(T)]>>]

HasSolution(A, h, base, s, n) ==
    \E it \in [SUBSET (1 .. n) -> A] : Solves(it, h, base, s, n)

LEMMA MaxOfPlaces ==
    ASSUME NEW n \in Nat, NEW T \in SUBSET (1 .. n + 1), n + 1 \in T
    PROVE  Max(T) = n + 1
<1>1. \A y \in T : n + 1 >= y
  OBVIOUS
<1>2. \A x \in T : (\A y \in T : x >= y) => x = n + 1
  OBVIOUS
<1>3. \E x \in T : \A y \in T : x >= y
  BY <1>1
<1> QED
  BY <1>2, <1>3, Zenon DEF Max

LEMMA MaxIsPlace ==
    ASSUME NEW n \in Nat, NEW T \in SUBSET (1 .. n), T # {}
    PROVE  Max(T) \in T
<1> DEFINE U == {n - y : y \in T}
<1>1. U \subseteq Nat
  OBVIOUS
<1>2. U # {}
  OBVIOUS
<1>3. PICK u \in U : \A v \in U : u <= v
  BY <1>1, <1>2, LeastOfNaturals
<1>4. PICK m \in T : u = n - m
  OBVIOUS
<1>5. ASSUME NEW y \in T PROVE m >= y
  <2>1. n - y \in U /\ y \in Nat /\ m \in Nat
    OBVIOUS
  <2>2. n - m <= n - y
    BY <1>3, <1>4, <2>1
  <2> QED
    BY <2>1, <2>2
<1> QED
  BY <1>5, Zenon DEF Max

LEMMA FoldExists ==
    ASSUME NEW A, NEW M, NEW base \in A, NEW h \in [A \X M -> A], NEW s,
           NEW len \in Nat, \A i \in 1 .. len : s[i] \in M
    PROVE  HasSolution(A, h, base, s, len)
<1> DEFINE P(n) == n <= len => HasSolution(A, h, base, s, n)
           T0 == {n \in Nat : P(n)}
<1>1. P(0)
  <2> DEFINE it == [T \in SUBSET (1 .. 0) |-> base]
  <2>1. \A T \in SUBSET (1 .. 0) : T = {}
    OBVIOUS
  <2>2. it \in [SUBSET (1 .. 0) -> A] /\ Solves(it, h, base, s, 0)
    BY <2>1 DEF Solves
  <2> QED
    BY <2>2 DEF HasSolution
<1>2. ASSUME NEW n \in Nat, P(n) PROVE P(n + 1)
  <2> SUFFICES ASSUME n + 1 <= len
               PROVE  HasSolution(A, h, base, s, n + 1)
    OBVIOUS
  <2>1. PICK it \in [SUBSET (1 .. n) -> A] : Solves(it, h, base, s, n)
    <3>1. n <= len
      OBVIOUS
    <3> QED
      BY <1>2, <3>1, Zenon DEF HasSolution
  <2> DEFINE Next1(T) == h[<<it[T \ {n + 1}], s[n + 1]>>]
             jt == [T \in SUBSET (1 .. n + 1) |-> IF n + 1 \in T THEN Next1(T) ELSE it[T]]
  <2>2. \A T \in SUBSET (1 .. n + 1) : T \ {n + 1} \in SUBSET (1 .. n)
    OBVIOUS
  <2>3. \A T \in SUBSET (1 .. n + 1) : n + 1 \notin T => T \in SUBSET (1 .. n)
    OBVIOUS
  <2>4. s[n + 1] \in M
    OBVIOUS
  <2>5. jt \in [SUBSET (1 .. n + 1) -> A]
    BY <2>2, <2>3, <2>4
  <2>6. ASSUME NEW T \in SUBSET (1 .. n + 1)
        PROVE  jt[T] = IF T = {} THEN base ELSE h[<<jt[T \ {Max(T)}], s[Max(T)]>>]
    <3>1. CASE n + 1 \in T
      <4>1. Max(T) = n + 1
        BY <3>1, MaxOfPlaces
      <4>2. jt[T \ {n + 1}] = it[T \ {n + 1}]
        BY <2>2
      <4> QED
        BY <3>1, <4>1, <4>2
    <3>2. CASE n + 1 \notin T
      <4>1. T \in SUBSET (1 .. n) /\ T \ {Max(T)} \in SUBSET (1 .. n)
        BY <2>3, <3>2
      <4>2. jt[T] = it[T] /\ jt[T \ {Max(T)}] = it[T \ {Max(T)}]
        BY <3>2, <4>1
      <4> QED
        BY <2>1, <4>1, <4>2 DEF Solves
    <3> QED
      BY <3>1, <3>2
  <2>7. Solves(jt, h, base, s, n + 1)
    BY <2>6 DEF Solves
  <2> QED
    BY <2>5, <2>7, Zenon DEF HasSolution
<1> HIDE DEF P
<1>3. Nat \subseteq T0
  <2>1. 0 \in T0
    BY <1>1
  <2>2. \A n \in Nat : n \in T0 => n + 1 \in T0
    BY <1>2
  <2> QED
    BY <2>1, <2>2, SetInduction
<1>4. P(len)
  BY <1>3, Zenon
<1>5. len <= len
  OBVIOUS
<1> QED
  BY <1>4, <1>5, Zenon DEF P

(* What a solution says of the places up to one.                           *)
LEMMA SolutionByPlace ==
    ASSUME NEW n \in Nat, NEW i \in 1 .. n
    PROVE  /\ 1 .. i \in SUBSET (1 .. n) /\ 1 .. i # {}
           /\ Max(1 .. i) = i /\ (1 .. i) \ {i} = 1 .. i - 1
           /\ 1 .. i - 1 \in SUBSET (1 .. n)
<1>1. i - 1 \in Nat /\ i - 1 + 1 = i
  OBVIOUS
<1>2. 1 .. i \in SUBSET (1 .. i - 1 + 1) /\ i \in 1 .. i
  OBVIOUS
<1>3. Max(1 .. i) = i
  BY <1>1, <1>2, MaxOfPlaces
<1> QED
  BY <1>1, <1>3

-----------------------------------------------------------------------------
\* Orders of a finite set

(* What sorting leaves is a sequence of the names, each once and no other, *)
(* in which those before a place are as many as the place says.            *)
LEMMA SetToSeqsIsPermutation ==
    ASSUME NEW S, IsFiniteSet(S), NEW s \in SetToSeqs(S)
    PROVE  /\ s \in Seq(S) /\ Len(s) \in Nat /\ DOMAIN s = 1 .. Len(s)
           /\ \A i, j \in 1 .. Len(s) : i # j => s[i] # s[j]
           /\ \A x \in S : \E i \in 1 .. Len(s) : s[i] = x
<1> DEFINE n == Cardinality(S)
<1>1. n \in Nat
  BY FS_CardinalityType
<1>2. s \in [1 .. n -> S] /\ \A i, j \in 1 .. n : i # j => s[i] # s[j]
  BY Zenon DEF SetToSeqs
<1> HIDE DEF n
<1>3. s \in Seq(S) /\ Len(s) = n /\ DOMAIN s = 1 .. n
  BY <1>1, <1>2
<1>4. s \in Injection(1 .. n, S)
  BY <1>2 DEF Injection, IsInjective
<1>5. IsFiniteSet(1 .. n) /\ Cardinality(1 .. n) = n
  BY <1>1, FS_Interval
<1>6. s \in Surjection(1 .. n, S)
  BY <1>4, <1>5, FS_Injection DEF n
<1> QED
  BY <1>1, <1>2, <1>3, <1>6 DEF Surjection

LEMMA PlacesCount ==
    ASSUME NEW S, IsFiniteSet(S), NEW s \in SetToSeqs(S), NEW k \in 0 .. Len(s)
    PROVE  LET T == {s[i] : i \in 1 .. k} IN IsFiniteSet(T) /\ Cardinality(T) = k
<1> DEFINE T == {s[i] : i \in 1 .. k}
           f == [i \in 1 .. k |-> s[i]]
<1>1. /\ s \in Seq(S) /\ Len(s) \in Nat /\ k \in Nat
      /\ \A i, j \in 1 .. Len(s) : i # j => s[i] # s[j]
  <2>1. /\ s \in Seq(S) /\ Len(s) \in Nat
        /\ \A i, j \in 1 .. Len(s) : i # j => s[i] # s[j]
    BY SetToSeqsIsPermutation
  <2> QED
    BY <2>1
<1>2. f \in [1 .. k -> T] /\ \A t \in T : \E i \in 1 .. k : f[i] = t
  OBVIOUS
<1>3. \A i, j \in 1 .. k : f[i] = f[j] => i = j
  BY <1>1
<1>4. f \in Surjection(1 .. k, T) /\ f \in Injection(1 .. k, T)
  BY <1>2, <1>3 DEF Surjection, Injection, IsInjective
<1>5. IsFiniteSet(1 .. k) /\ Cardinality(1 .. k) = k
  BY <1>1, FS_Interval
<1> QED
  BY <1>4, <1>5, FS_Surjection

-----------------------------------------------------------------------------
\* The first of several texts

(* The empty text under a name of its own, and the texts: the provers do   *)
(* not know of a literal that it is in STRING.                             *)
NoText == ""
Texts == STRING \union {NoText, "enum"}

LEMMA OrText == ASSUME NEW x, NEW y PROVE Or(x, y) = IF x = NoText THEN y ELSE x
BY Zenon DEF Or, NoText

(* The label of a type is empty if and only if the type is, so the first   *)
(* label is that of the first type.                                        *)
LEMMA LabelOfType ==
    ASSUME NEW x \in Texts
    PROVE  ValueType(x) \in Texts /\ (ValueType(x) = NoText <=> x = NoText)
<1> DEFINE objects == {"enum of strings", "enum of ints"}
<1>1. ValueType(x) = IF x \in objects THEN "enum" ELSE x
  BY Zenon DEF ValueType
<1>2. "enum" # NoText /\ NoText \notin objects
  BY Zenon DEF NoText
<1>3. "enum" \in Texts
  BY DEF Texts
<1> HIDE DEF objects
<1> QED
  BY <1>1, <1>2, <1>3

LEMMA OrOfLabels ==
    ASSUME NEW x \in Texts, NEW y \in Texts
    PROVE  Or(x, y) \in Texts /\ Or(ValueType(x), ValueType(y)) = ValueType(Or(x, y))
BY OrText, LabelOfType

(* The text of a field that the mentions of a name in D give it.           *)
FirstIs(D, n, f, v) ==
    \/ v = NoText /\ \A i \in 1 .. Len(D) : D[i].name = n => D[i][f] = NoText
    \/ \E i \in 1 .. Len(D) :
          /\ D[i].name = n /\ D[i][f] = v /\ v # NoText
          /\ \A j \in 1 .. i - 1 : D[j].name = n => D[j][f] = NoText

(* One more mention fills the field if it is empty.                        *)
LEMMA FirstGrows ==
    ASSUME NEW D \in Seq(Mentions), NEW a \in Mentions, NEW n, NEW f, NEW v,
           FirstIs(D, n, f, v)
    PROVE  FirstIs(Append(D, a), n, f, IF a.name = n THEN Or(v, a[f]) ELSE v)
<1> DEFINE E == Append(D, a)
           w == IF a.name = n THEN Or(v, a[f]) ELSE v
<1>1. /\ Len(D) \in Nat /\ Len(E) = Len(D) + 1 /\ E[Len(D) + 1] = a
      /\ \A i \in 1 .. Len(D) : E[i] = D[i]
  OBVIOUS
<1>2. CASE v = NoText /\ \A i \in 1 .. Len(D) : D[i].name = n => D[i][f] = NoText
  <2>1. CASE a.name = n /\ a[f] # NoText
    <3>1. w = a[f]
      BY <1>2, <2>1, OrText
    <3> HIDE DEF w
    <3>2. E[Len(D) + 1].name = n /\ E[Len(D) + 1][f] = w /\ w # NoText
      BY <1>1, <2>1, <3>1
    <3>3. \A j \in 1 .. Len(D) + 1 - 1 : E[j].name = n => E[j][f] = NoText
      BY <1>1, <1>2
    <3>4. Len(D) + 1 \in 1 .. Len(E)
      BY <1>1
    <3> HIDE DEF E
    <3> QED
      BY <3>2, <3>3, <3>4 DEF FirstIs, w, E
  <2>2. CASE ~ (a.name = n /\ a[f] # NoText)
    <3>1. w = NoText
      BY <1>2, <2>2, OrText
    <3>2. \A i \in 1 .. Len(E) : E[i].name = n => E[i][f] = NoText
      BY <1>1, <1>2, <2>2
    <3> QED
      BY <3>1, <3>2 DEF FirstIs
  <2> QED
    BY <2>1, <2>2
<1>3. CASE \E i \in 1 .. Len(D) :
              /\ D[i].name = n /\ D[i][f] = v /\ v # NoText
              /\ \A j \in 1 .. i - 1 : D[j].name = n => D[j][f] = NoText
  <2>1. w = v
    BY <1>3, OrText
  <2>2. PICK i \in 1 .. Len(D) :
              /\ D[i].name = n /\ D[i][f] = v /\ v # NoText
              /\ \A j \in 1 .. i - 1 : D[j].name = n => D[j][f] = NoText
    BY <1>3
  <2>3. /\ i \in 1 .. Len(E) /\ E[i] = D[i]
        /\ \A j \in 1 .. i - 1 : E[j] = D[j]
    BY <1>1
  <2> HIDE DEF E, w
  <2>4. FirstIs(E, n, f, w)
    BY <2>1, <2>2, <2>3 DEF FirstIs
  <2> QED
    BY <2>4 DEF E, w
<1> QED
  BY <1>2, <1>3 DEF FirstIs

-----------------------------------------------------------------------------
\* What the items say

Items ==
    [type : ToSet(ItemTypes), name : Names, brief : Texts, stability : Texts,
     deprecated : Texts, valueType : Texts, enum : BOOLEAN, requirement : Texts]

(* An attribute's item describes it by its mentions.                       *)
Described(it, D) ==
    /\ \E i \in 1 .. Len(D) : D[i].name = it.name
    /\ FirstIs(D, it.name, "brief", it.brief)
    /\ FirstIs(D, it.name, "stability", it.stability)
    /\ FirstIs(D, it.name, "deprecated", it.deprecated)
    /\ \E t \in Texts : FirstIs(D, it.name, "type", t) /\ it.valueType = ValueType(t)

(* Every item has a key of its own, every mention an item, and every item  *)
(* of an attribute describes it.                                           *)
KeysDiffer(its) == \A i, j \in 1 .. Len(its) : Key(its[i]) = Key(its[j]) => i = j
Mentioned(its, D) ==
    \A i \in 1 .. Len(D) : \E j \in 1 .. Len(its) : Key(its[j]) = <<"attribute", D[i].name>>
AllDescribed(its, D) ==
    \A i \in 1 .. Len(its) : its[i].type = "attribute" => Described(its[i], D)
Say(its, D) == its \in Seq(Items) /\ KeysDiffer(its) /\ Mentioned(its, D) /\ AllDescribed(its, D)

LEMMA TypesOfItems ==
    ToSet(ItemTypes) = {"attribute", "entity", "event", "metric", "span"}
<1>1. DOMAIN ItemTypes = 1 .. 5
  BY DEF ItemTypes
<1> QED
  BY <1>1 DEF ToSet, ItemTypes

LEMMA ItemOfMention ==
    ASSUME NEW a \in Mentions
    PROVE  /\ AttributeItem(a) \in Items /\ Key(AttributeItem(a)) = <<"attribute", a.name>>
           /\ AttributeItem(a).type = "attribute" /\ AttributeItem(a).name = a.name
           /\ AttributeItem(a).brief = a.brief /\ AttributeItem(a).stability = a.stability
           /\ AttributeItem(a).deprecated = a.deprecated
           /\ AttributeItem(a).valueType = ValueType(a.type)
<1>1. ValueType(a.type) \in Texts
  BY LabelOfType DEF Mentions, Texts
<1>2. Members(a.type) \in BOOLEAN
  BY DEF Members
<1>3. /\ a.name \in Names /\ a.brief \in Texts /\ a.stability \in Texts
      /\ a.deprecated \in Texts /\ a.requirement \in Texts
  BY DEF Mentions, Texts
<1>4. "attribute" \in ToSet(ItemTypes)
  BY TypesOfItems
<1> QED
  BY <1>1, <1>2, <1>3, <1>4 DEF AttributeItem, Items, Key

LEMMA BackfillFields ==
    ASSUME NEW x \in Items, NEW y \in Items
    PROVE  /\ Backfill(x, y) \in [type : {x.type}, name : {x.name}, brief : Texts,
                stability : Texts, deprecated : Texts, valueType : {Or(x.valueType, y.valueType)},
                enum : BOOLEAN, requirement : Texts]
           /\ Backfill(x, y).brief = Or(x.brief, y.brief)
           /\ Backfill(x, y).stability = Or(x.stability, y.stability)
           /\ Backfill(x, y).deprecated = Or(x.deprecated, y.deprecated)
           /\ Key(Backfill(x, y)) = Key(x)
<1>1. /\ Or(x.brief, y.brief) \in Texts /\ Or(x.stability, y.stability) \in Texts
      /\ Or(x.deprecated, y.deprecated) \in Texts
  BY OrText DEF Items
<1> QED
  BY <1>1 DEF Backfill, Items, Key

(* One more mention leaves the items of other names as they are, and makes *)
(* or fills the item of its own.                                           *)
LEMMA DescribedGrows ==
    ASSUME NEW D \in Seq(Mentions), NEW a \in Mentions, NEW it \in Items, Described(it, D)
    PROVE  /\ it.name # a.name => Described(it, Append(D, a))
           /\ it.name = a.name => Described(Backfill(it, AttributeItem(a)), Append(D, a))
<1> DEFINE E == Append(D, a)
           n == it.name
           now == IF n = a.name THEN Backfill(it, AttributeItem(a)) ELSE it
           Grown(v, f) == IF a.name = n THEN Or(v, a[f]) ELSE v
<1>1. \A v, f : FirstIs(D, n, f, v) => FirstIs(E, n, f, Grown(v, f))
  BY FirstGrows
<1>2. PICK t \in Texts : FirstIs(D, n, "type", t) /\ it.valueType = ValueType(t)
  BY DEF Described
<1>3. a.type \in Texts /\ AttributeItem(a) \in Items
  BY ItemOfMention DEF Mentions, Texts
<1>4. Or(t, a.type) \in Texts /\ Or(ValueType(t), ValueType(a.type)) = ValueType(Or(t, a.type))
  BY <1>3, OrOfLabels
<1> DEFINE u == Grown(t, "type")
<1>5. u \in Texts /\ now.valueType = ValueType(u)
  BY <1>2, <1>3, <1>4, BackfillFields, ItemOfMention
<1>6. /\ now.name = n
      /\ now.brief = Grown(it.brief, "brief")
      /\ now.stability = Grown(it.stability, "stability")
      /\ now.deprecated = Grown(it.deprecated, "deprecated")
  BY <1>3, BackfillFields, ItemOfMention
<1>7. \E i \in 1 .. Len(E) : E[i].name = n
  <2>1. PICK i \in 1 .. Len(D) : D[i].name = n
    BY DEF Described
  <2>2. i \in 1 .. Len(E) /\ E[i] = D[i]
    OBVIOUS
  <2> QED
    BY <2>1, <2>2
<1>8. /\ FirstIs(D, n, "brief", it.brief) /\ FirstIs(D, n, "stability", it.stability)
      /\ FirstIs(D, n, "deprecated", it.deprecated)
  BY DEF Described
<1> HIDE DEF Grown, now, E, n
<1>9. /\ FirstIs(E, n, "brief", now.brief) /\ FirstIs(E, n, "stability", now.stability)
      /\ FirstIs(E, n, "deprecated", now.deprecated) /\ FirstIs(E, n, "type", u)
  BY <1>1, <1>2, <1>6, <1>8
<1>10. Described(now, E)
  BY <1>5, <1>6, <1>7, <1>9 DEF Described
<1> QED
  BY <1>10 DEF now, E, n

LEMMA NewDescribed ==
    ASSUME NEW D \in Seq(Mentions), NEW a \in Mentions,
           \A i \in 1 .. Len(D) : D[i].name # a.name
    PROVE  Described(AttributeItem(a), Append(D, a))
<1> DEFINE E == Append(D, a)
           n == a.name
<1>1. \A f : FirstIs(D, n, f, NoText)
  BY DEF FirstIs
<1>2. \A f : FirstIs(E, n, f, Or(NoText, a[f]))
  BY <1>1, FirstGrows
<1>3. \A v : Or(NoText, v) = v
  BY OrText
<1>4. /\ FirstIs(E, n, "brief", a.brief) /\ FirstIs(E, n, "stability", a.stability)
      /\ FirstIs(E, n, "deprecated", a.deprecated) /\ FirstIs(E, n, "type", a.type)
  BY <1>2, <1>3
<1>5. Len(E) = Len(D) + 1 /\ E[Len(D) + 1] = a /\ Len(D) + 1 \in 1 .. Len(E)
  OBVIOUS
<1>6. \E i \in 1 .. Len(E) : E[i].name = n
  BY <1>5
<1>7. a.type \in Texts
  BY DEF Mentions, Texts
<1> HIDE DEF E
<1>8. Described(AttributeItem(a), E)
  BY <1>4, <1>6, <1>7, ItemOfMention DEF Described
<1> QED
  BY <1>8 DEF E

LEMMA SayAttribute ==
    ASSUME NEW D \in Seq(Mentions), NEW its, Say(its, D), NEW a \in Mentions
    PROVE  Say(AddAttribute(its, a), Append(D, a))
<1> DEFINE E == Append(D, a)
           item == AttributeItem(a)
           known == {i \in DOMAIN its : Key(its[i]) = Key(item)}
           now == AddAttribute(its, a)
<1>1. /\ Len(D) \in Nat /\ Len(E) = Len(D) + 1 /\ E[Len(D) + 1] = a /\ E \in Seq(Mentions)
      /\ \A i \in 1 .. Len(D) : E[i] = D[i] /\ D[i] \in Mentions
  OBVIOUS
<1>2. /\ its \in Seq(Items) /\ Len(its) \in Nat /\ DOMAIN its = 1 .. Len(its)
      /\ \A i \in 1 .. Len(its) : its[i] \in Items
  BY DEF Say
<1>3. /\ item \in Items /\ Key(item) = <<"attribute", a.name>>
      /\ item.type = "attribute" /\ item.name = a.name
  BY ItemOfMention
<1>4. \A it \in Items : Key(it) = Key(item) <=> it.type = "attribute" /\ it.name = a.name
  BY <1>3 DEF Key
<1> HIDE DEF E, item
<1>5. CASE known = {}
  <2>1. now = Append(its, item)
    BY <1>5 DEF AddAttribute, item
  <2>2. /\ now \in Seq(Items) /\ Len(now) = Len(its) + 1 /\ now[Len(its) + 1] = item
        /\ \A i \in 1 .. Len(its) : now[i] = its[i]
    BY <1>2, <1>3, <2>1
  <2>3. \A i \in 1 .. Len(its) : Key(its[i]) # Key(item)
    BY <1>2, <1>5
  <2> HIDE DEF known, now
  <2>4. KeysDiffer(now)
    <3> SUFFICES ASSUME NEW i \in 1 .. Len(now), NEW j \in 1 .. Len(now), Key(now[i]) = Key(now[j])
                 PROVE  i = j
      BY DEF KeysDiffer
    <3>1. i \in 1 .. Len(its) \/ i = Len(its) + 1
      BY <1>2, <2>2
    <3>2. j \in 1 .. Len(its) \/ j = Len(its) + 1
      BY <1>2, <2>2
    <3> QED
      BY <2>2, <2>3, <3>1, <3>2 DEF Say, KeysDiffer
  <2>5. Mentioned(now, E)
    <3> SUFFICES ASSUME NEW i \in 1 .. Len(E)
                 PROVE  \E j \in 1 .. Len(now) : Key(now[j]) = <<"attribute", E[i].name>>
      BY DEF Mentioned
    <3>1. CASE i = Len(D) + 1
      BY <1>1, <1>2, <1>3, <2>2, <3>1
    <3>2. CASE i \in 1 .. Len(D)
      <4>1. PICK j \in 1 .. Len(its) : Key(its[j]) = <<"attribute", D[i].name>>
        BY <3>2 DEF Say, Mentioned
      <4>2. j \in 1 .. Len(now) /\ now[j] = its[j] /\ E[i] = D[i]
        BY <1>1, <1>2, <2>2, <3>2
      <4> QED
        BY <4>1, <4>2
    <3> QED
      BY <1>1, <3>1, <3>2
  <2>6. AllDescribed(now, E)
    <3> SUFFICES ASSUME NEW i \in 1 .. Len(now), now[i].type = "attribute"
                 PROVE  Described(now[i], E)
      BY DEF AllDescribed
    <3>1. CASE i = Len(its) + 1
      <4>1. \A k \in 1 .. Len(D) : D[k].name # a.name
        BY <1>3, <2>3 DEF Say, Mentioned
      <4> QED
        BY <2>2, <3>1, <4>1, NewDescribed DEF item, E
    <3>2. CASE i \in 1 .. Len(its)
      <4>1. its[i] \in Items /\ its[i].type = "attribute" /\ Described(its[i], D)
        BY <1>2, <2>2, <3>2 DEF Say, AllDescribed
      <4>2. its[i].name # a.name
        BY <1>4, <2>3, <3>2, <4>1
      <4> QED
        BY <2>2, <3>2, <4>1, <4>2, DescribedGrows DEF E
    <3> QED
      BY <1>2, <2>2, <3>1, <3>2
  <2>7. Say(now, E)
    BY <2>2, <2>4, <2>5, <2>6 DEF Say
  <2> QED
    BY <2>7 DEF now, E
<1>6. CASE known # {}
  <2>1. PICK k \in 1 .. Len(its) : Key(its[k]) = Key(item)
    BY <1>2, <1>6
  <2>2. known = {k}
    BY <1>2, <2>1 DEF Say, KeysDiffer
  <2>3. now = [i \in 1 .. Len(its) |-> IF i = k THEN Backfill(its[i], item) ELSE its[i]]
    BY <1>2, <1>6, <2>2 DEF AddAttribute, item
  <2>4. /\ Backfill(its[k], item) \in Items /\ Key(Backfill(its[k], item)) = Key(its[k])
        /\ Backfill(its[k], item).type = its[k].type
    <3>1. Backfill(its[k], item) \in
            [type : {its[k].type}, name : {its[k].name}, brief : Texts, stability : Texts,
             deprecated : Texts, valueType : {Or(its[k].valueType, item.valueType)},
             enum : BOOLEAN, requirement : Texts]
          /\ Key(Backfill(its[k], item)) = Key(its[k])
      BY <1>2, <1>3, BackfillFields
    <3>2. its[k] \in Items /\ Or(its[k].valueType, item.valueType) \in Texts
      BY <1>2, <1>3, OrText DEF Items
    <3> QED
      BY <3>1, <3>2 DEF Items
  <2>5. /\ now \in Seq(Items) /\ Len(now) = Len(its)
        /\ now[k] = Backfill(its[k], item)
        /\ \A i \in 1 .. Len(its) : i # k => now[i] = its[i]
    BY <1>2, <2>3, <2>4
  <2> HIDE DEF known, now
  <2>6. \A i \in 1 .. Len(its) : Key(now[i]) = Key(its[i])
    BY <2>4, <2>5
  <2>7. KeysDiffer(now)
    BY <2>5, <2>6 DEF Say, KeysDiffer
  <2>8. Mentioned(now, E)
    <3> SUFFICES ASSUME NEW i \in 1 .. Len(E)
                 PROVE  \E j \in 1 .. Len(now) : Key(now[j]) = <<"attribute", E[i].name>>
      BY DEF Mentioned
    <3>1. CASE i = Len(D) + 1
      BY <1>1, <1>3, <2>1, <2>5, <2>6, <3>1
    <3>2. CASE i \in 1 .. Len(D)
      <4>1. PICK j \in 1 .. Len(its) : Key(its[j]) = <<"attribute", D[i].name>>
        BY <3>2 DEF Say, Mentioned
      <4> QED
        BY <1>1, <2>5, <2>6, <3>2, <4>1
    <3> QED
      BY <1>1, <3>1, <3>2
  <2>9. AllDescribed(now, E)
    <3> SUFFICES ASSUME NEW i \in 1 .. Len(its), now[i].type = "attribute"
                 PROVE  Described(now[i], E)
      BY <2>5 DEF AllDescribed
    <3>1. its[i] \in Items /\ its[i].type = "attribute" /\ Described(its[i], D)
      BY <1>2, <2>4, <2>5 DEF Say, AllDescribed
    <3>2. CASE i = k
      <4>1. its[i].name = a.name
        BY <1>4, <2>1, <3>1, <3>2
      <4> QED
        BY <2>5, <3>1, <3>2, <4>1, DescribedGrows DEF E, item
    <3>3. CASE i # k
      <4>1. its[i].name # a.name
        BY <1>4, <2>1, <3>1, <3>3 DEF Say, KeysDiffer
      <4> QED
        BY <2>5, <3>1, <3>3, <4>1, DescribedGrows DEF E
    <3> QED
      BY <3>2, <3>3
  <2>10. Say(now, E)
    BY <2>5, <2>7, <2>8, <2>9 DEF Say
  <2> QED
    BY <2>10 DEF now, E
<1> QED
  BY <1>5, <1>6

(* A signal is no mention, and has no mention's key.                       *)
SignalTypes == {"entity", "event", "metric", "span"}
LEMMA SaySignal ==
    ASSUME NEW D \in Seq(Mentions), NEW its, Say(its, D), NEW g \in Groups,
           g.type # "attribute_group", \A i \in DOMAIN its : Key(its[i]) # <<g.type, g.name>>
    PROVE  Say(Append(its, SignalItem(g)), D)
<1> DEFINE item == SignalItem(g)
           now == Append(its, item)
<1>1. /\ g.type \in SignalTypes /\ g.name \in Names /\ g.brief \in STRING
      /\ g.stability \in STRING /\ g.deprecated \in STRING
  BY GroupsAssumption DEF SignalTypes
<1>2. item = [type |-> g.type, name |-> g.name, brief |-> g.brief, stability |-> g.stability,
              deprecated |-> g.deprecated, valueType |-> NoText, enum |-> FALSE,
              requirement |-> NoText]
  BY Zenon DEF SignalItem, NoText
<1>3. item \in Items /\ Key(item) = <<g.type, g.name>> /\ item.type # "attribute"
  BY <1>1, <1>2, TypesOfItems DEF Items, Key, SignalTypes, Texts
<1> HIDE DEF item
<1>4. /\ its \in Seq(Items) /\ Len(its) \in Nat /\ DOMAIN its = 1 .. Len(its)
      /\ now \in Seq(Items) /\ Len(now) = Len(its) + 1 /\ now[Len(its) + 1] = item
      /\ \A i \in 1 .. Len(its) : now[i] = its[i]
  BY <1>3 DEF Say
<1> HIDE DEF now
<1>5. KeysDiffer(now)
  <2> SUFFICES ASSUME NEW i \in 1 .. Len(now), NEW j \in 1 .. Len(now), Key(now[i]) = Key(now[j])
               PROVE  i = j
    BY DEF KeysDiffer
  <2>1. i \in 1 .. Len(its) \/ i = Len(its) + 1
    BY <1>4
  <2>2. j \in 1 .. Len(its) \/ j = Len(its) + 1
    BY <1>4
  <2>3. \A k \in 1 .. Len(its) : Key(its[k]) # Key(item)
    BY <1>3, <1>4
  <2> QED
    BY <1>4, <2>1, <2>2, <2>3 DEF Say, KeysDiffer
<1>6. Mentioned(now, D)
  <2> SUFFICES ASSUME NEW i \in 1 .. Len(D)
               PROVE  \E j \in 1 .. Len(now) : Key(now[j]) = <<"attribute", D[i].name>>
    BY DEF Mentioned
  <2>1. PICK j \in 1 .. Len(its) : Key(its[j]) = <<"attribute", D[i].name>>
    BY DEF Say, Mentioned
  <2>2. j \in 1 .. Len(now) /\ now[j] = its[j]
    BY <1>4
  <2> QED
    BY <2>1, <2>2
<1>7. AllDescribed(now, D)
  <2> SUFFICES ASSUME NEW i \in 1 .. Len(now), now[i].type = "attribute"
               PROVE  Described(now[i], D)
    BY DEF AllDescribed
  <2>1. i \in 1 .. Len(its) /\ now[i] = its[i]
    BY <1>3, <1>4
  <2> QED
    BY <2>1 DEF Say, AllDescribed
<1>8. Say(now, D)
  BY <1>4, <1>5, <1>6, <1>7 DEF Say
<1> QED
  BY <1>8 DEF now, item

(* Group after group, mention after mention.                               *)
LEMMA PrefixGrows ==
    ASSUME NEW D \in Seq(Mentions), NEW s \in Seq(Mentions), NEW n \in Nat, n + 1 <= Len(s)
    PROVE  /\ D \o SubSeq(s, 1, n) \in Seq(Mentions) /\ s[n + 1] \in Mentions
           /\ Append(D \o SubSeq(s, 1, n), s[n + 1]) = D \o SubSeq(s, 1, n + 1)
<1> DEFINE p == SubSeq(s, 1, n)
           q == SubSeq(s, 1, n + 1)
<1>1. /\ p \in Seq(Mentions) /\ Len(p) = n /\ q \in Seq(Mentions) /\ Len(q) = n + 1
      /\ \A i \in 1 .. n : p[i] = s[i]
      /\ \A i \in 1 .. n + 1 : q[i] = s[i]
  OBVIOUS
<1>2. s[n + 1] \in Mentions
  OBVIOUS
<1> HIDE DEF p, q
<1> DEFINE r == D \o p
           x == Append(r, s[n + 1])
           y == D \o q
           d == Len(D)
           m == n + 1
<1>3. d \in Nat
  OBVIOUS
<1>4. /\ r \in Seq(Mentions) /\ Len(r) = d + n
      /\ \A i \in 1 .. d + n : r[i] = IF i <= d THEN D[i] ELSE p[i - d]
  BY <1>1, ConcatProperties
<1> HIDE DEF m
<1>5. /\ y \in Seq(Mentions) /\ Len(y) = d + m
      /\ \A i \in 1 .. d + m : y[i] = IF i <= d THEN D[i] ELSE q[i - d]
  <2>1. Len(q) = m
    BY <1>1 DEF m
  <2> QED
    BY <1>1, <2>1, ConcatProperties
<1> USE DEF m
<1> HIDE DEF r, y
<1>6. /\ x \in Seq(Mentions) /\ Len(x) = Len(r) + 1 /\ x[Len(r) + 1] = s[n + 1]
      /\ \A i \in 1 .. Len(r) : x[i] = r[i]
  BY <1>2, <1>4, AppendProperties
<1> HIDE DEF x, d
<1>7. ASSUME NEW i \in 1 .. d + m PROVE x[i] = y[i]
  <2>1. CASE i = d + m
    <3>1. x[i] = s[n + 1]
      BY <1>3, <1>4, <1>6, <2>1
    <3>2. ~ (i <= d) /\ i - d = n + 1
      BY <1>3, <2>1
    <3>3. y[i] = q[n + 1]
      BY <1>5, <3>2
    <3> QED
      BY <1>1, <3>1, <3>3
  <2>2. CASE i \in 1 .. d + n
    <3>1. x[i] = r[i]
      BY <1>4, <1>6, <2>2
    <3>2. CASE i <= d
      BY <1>4, <1>5, <2>2, <3>1, <3>2
    <3>3. CASE ~ (i <= d)
      <4>1. i - d \in 1 .. n /\ i - d \in 1 .. n + 1
        BY <1>3, <2>2, <3>3
      <4>2. x[i] = p[i - d] /\ y[i] = q[i - d]
        BY <1>4, <1>5, <2>2, <3>1, <3>3
      <4> QED
        BY <1>1, <4>1, <4>2
    <3> QED
      BY <3>2, <3>3
  <2> QED
    BY <1>3, <2>1, <2>2
<1>8. Len(x) = d + m
  BY <1>3, <1>4, <1>6
<1>9. x = y
  BY <1>5, <1>6, <1>7, <1>8, SeqEqual
<1> QED
  BY <1>2, <1>4, <1>9 DEF p, q, r, x, y

LEMMA BackfillTyped ==
    ASSUME NEW x \in Items, NEW y \in Items
    PROVE  Backfill(x, y) \in Items
<1>1. Or(x.valueType, y.valueType) \in Texts
  BY OrText DEF Items
<1>2. x.type \in ToSet(ItemTypes) /\ x.name \in Names
  BY DEF Items
<1> QED
  BY <1>1, <1>2, BackfillFields DEF Items

LEMMA AddAttributeTyped ==
    ASSUME NEW its \in Seq(Items), NEW a \in Mentions
    PROVE  AddAttribute(its, a) \in Seq(Items)
<1> DEFINE item == AttributeItem(a)
           known == {i \in DOMAIN its : Key(its[i]) = Key(item)}
<1>1. item \in Items
  BY ItemOfMention
<1>2. /\ Len(its) \in Nat /\ DOMAIN its = 1 .. Len(its)
      /\ \A i \in 1 .. Len(its) : its[i] \in Items /\ Backfill(its[i], item) \in Items
  BY <1>1, BackfillTyped
<1> HIDE DEF item
<1>3. CASE known = {}
  <2>1. AddAttribute(its, a) = Append(its, item)
    BY <1>3 DEF AddAttribute, item
  <2> QED
    BY <1>1, <2>1
<1>4. CASE known # {}
  <2>1. AddAttribute(its, a)
          = [i \in 1 .. Len(its) |-> IF i \in known THEN Backfill(its[i], item) ELSE its[i]]
    BY <1>2, <1>4 DEF AddAttribute, item
  <2> HIDE DEF known
  <2> QED
    BY <1>2, <2>1
<1> QED
  BY <1>3, <1>4

LEMMA SayMentions ==
    ASSUME NEW D \in Seq(Mentions), NEW base, Say(base, D), NEW s \in Seq(Mentions)
    PROVE  Say(FoldLeft(AddAttribute, base, s), D \o s)
<1> DEFINE A == Seq(Items)
           h == [am \in A \X Mentions |-> AddAttribute(am[1], am[2])]
           len == Len(s)
           Step(it, T) ==
               IF T = {} THEN base ELSE AddAttribute(it[T \ {Max(T)}], s[Max(T)])
           Fold == CHOOSE it : it = [T \in SUBSET (1 .. len) |-> Step(it, T)]
<1>1. len \in Nat /\ DOMAIN s = 1 .. len /\ \A i \in 1 .. len : s[i] \in Mentions
  OBVIOUS
<1>2. h \in [A \X Mentions -> A] /\ base \in A
  <2>1. ASSUME NEW am \in A \X Mentions PROVE AddAttribute(am[1], am[2]) \in A
    <3>1. am[1] \in Seq(Items) /\ am[2] \in Mentions
      OBVIOUS
    <3> QED
      BY <3>1, AddAttributeTyped
  <2>2. base \in A
    BY DEF Say
  <2> QED
    BY <2>1, <2>2, Zenon
<1> HIDE DEF h, A
<1>3. PICK it \in [SUBSET (1 .. len) -> A] : Solves(it, h, base, s, len)
  <2>1. HasSolution(A, h, base, s, len)
    BY <1>1, <1>2, FoldExists
  <2> QED
    BY <2>1 DEF HasSolution
<1>4. ASSUME NEW T \in SUBSET (1 .. len) PROVE it[T] = Step(it, T)
  <2>1. CASE T = {}
    BY <1>3, <2>1 DEF Solves
  <2>2. CASE T # {}
    <3>1. Max(T) \in 1 .. len
      BY <1>1, <2>2, MaxIsPlace
    <3>2. s[Max(T)] \in Mentions /\ it[T \ {Max(T)}] \in A
      BY <1>1, <3>1
    <3> QED
      BY <1>3, <2>2, <3>2 DEF Solves, h
  <2> QED
    BY <2>1, <2>2
<1>5. it = [T \in SUBSET (1 .. len) |-> Step(it, T)]
  BY <1>4, Zenon
<1>6. Fold = [T \in SUBSET (1 .. len) |-> Step(Fold, T)]
  BY <1>5, Zenon
<1>7. FoldLeft(AddAttribute, base, s) = Fold[1 .. len]
  BY <1>1 DEF FoldLeft, MapThenFoldSet, Max
<1> HIDE DEF Fold
<1> DEFINE P(n) == n <= len => Say(Fold[1 .. n], D \o SubSeq(s, 1, n))
           T0 == {n \in Nat : P(n)}
<1>8. P(0)
  <2>1. 1 .. 0 = {} /\ 1 .. 0 \in SUBSET (1 .. len)
    OBVIOUS
  <2>2. SubSeq(s, 1, 0) = << >> /\ D \o << >> = D
    OBVIOUS
  <2>3. Fold[1 .. 0] = base
    BY <1>6, <2>1
  <2> QED
    BY <2>2, <2>3
<1>9. ASSUME NEW n \in Nat, P(n) PROVE P(n + 1)
  <2> SUFFICES ASSUME n + 1 <= len PROVE Say(Fold[1 .. n + 1], D \o SubSeq(s, 1, n + 1))
    OBVIOUS
  <2> DEFINE i == n + 1
             p == D \o SubSeq(s, 1, n)
  <2>1. i \in 1 .. len /\ i - 1 = n /\ n <= len
    BY <1>1
  <2>2. /\ 1 .. i \in SUBSET (1 .. len) /\ 1 .. i # {}
        /\ Max(1 .. i) = i /\ (1 .. i) \ {i} = 1 .. i - 1
    BY <1>1, <2>1, SolutionByPlace
  <2>3. Fold[1 .. i] = AddAttribute(Fold[1 .. n], s[i])
    BY <1>6, <2>1, <2>2
  <2>4. Say(Fold[1 .. n], p)
    BY <1>9, <2>1
  <2>5. p \in Seq(Mentions) /\ s[i] \in Mentions /\ Append(p, s[i]) = D \o SubSeq(s, 1, i)
    BY <1>1, <2>1, PrefixGrows
  <2> HIDE DEF p, i
  <2>6. Say(AddAttribute(Fold[1 .. n], s[i]), Append(p, s[i]))
    BY <2>4, <2>5, SayAttribute
  <2> QED
    BY <2>3, <2>5, <2>6 DEF i
<1> HIDE DEF P
<1>10. Nat \subseteq T0
  <2>1. 0 \in T0 /\ \A n \in Nat : n \in T0 => n + 1 \in T0
    BY <1>8, <1>9
  <2> QED
    BY <2>1, SetInduction
<1>11. P(len)
  BY <1>1, <1>10, Zenon
<1>12. SubSeq(s, 1, len) = s
  OBVIOUS
<1>13. len <= len
  BY <1>1
<1> QED
  BY <1>7, <1>11, <1>12, <1>13 DEF P

-----------------------------------------------------------------------------
\* Parsing

(* The items say what was read, and the index is theirs.                   *)
RegistryInv ==
    /\ parsed \in BOOLEAN /\ read \in Seq(Mentions)
    /\ Say(items, read)
    /\ parsed => byKey = Index(items)

LEMMA SayGroup ==
    ASSUME RegistryInv, NEW g \in Groups, ParseGroup(g)
    PROVE  RegistryInv'
<1>1. g.attributes \in Seq(Mentions)
  BY GroupsAssumption
<1> DEFINE base == IF g.type = "attribute_group" THEN items ELSE Append(items, SignalItem(g))
<1>2. Say(base, read)
  <2>1. \A i \in DOMAIN items : Key(items[i]) # <<g.type, g.name>>
    BY DEF ParseGroup
  <2>2. read \in Seq(Mentions) /\ Say(items, read)
    BY DEF RegistryInv
  <2> QED
    BY <2>1, <2>2, SaySignal
<1> HIDE DEF base
<1>3. items' = FoldLeft(AddAttribute, base, g.attributes)
  BY DEF ParseGroup, AddGroup, base
<1>4. read' = read \o g.attributes /\ ~parsed /\ parsed' = parsed
  BY DEF ParseGroup
<1>5. read \in Seq(Mentions)
  BY DEF RegistryInv
<1>6. Say(items', read')
  BY <1>1, <1>2, <1>3, <1>4, <1>5, SayMentions
<1>7. read' \in Seq(Mentions)
  BY <1>1, <1>4, <1>5
<1> QED
  BY <1>4, <1>6, <1>7 DEF RegistryInv

(* Another order of the items says the same.                               *)
LEMMA SayInOrder ==
    ASSUME NEW its, NEW D, Say(its, D), NEW s \in InOrder(ToSet(its))
    PROVE  Say(s, D)
<1> DEFINE S == ToSet(its)
<1>1. its \in Seq(Items) /\ Len(its) \in Nat /\ DOMAIN its = 1 .. Len(its)
  BY DEF Say
<1>2. S = {its[i] : i \in 1 .. Len(its)} /\ S \subseteq Items
  BY <1>1 DEF ToSet
<1>3. IsFiniteSet(S)
  <2> DEFINE f == [i \in 1 .. Len(its) |-> its[i]]
  <2>1. IsFiniteSet(1 .. Len(its))
    BY <1>1, FS_Interval
  <2>2. f \in Surjection(1 .. Len(its), S)
    BY <1>2 DEF Surjection
  <2> QED
    BY <2>1, <2>2, FS_Surjection
<1>4. s \in SetToSeqs(S)
  BY DEF InOrder
<1> HIDE DEF S
<1>5. /\ s \in Seq(S) /\ Len(s) \in Nat /\ DOMAIN s = 1 .. Len(s)
      /\ \A i, j \in 1 .. Len(s) : i # j => s[i] # s[j]
      /\ \A x \in S : \E i \in 1 .. Len(s) : s[i] = x
  BY <1>3, <1>4, SetToSeqsIsPermutation
<1>6. \A i \in 1 .. Len(s) : \E k \in 1 .. Len(its) : s[i] = its[k]
  BY <1>2, <1>5
<1>7. \A k \in 1 .. Len(its) : \E i \in 1 .. Len(s) : s[i] = its[k]
  BY <1>2, <1>5
<1>8. KeysDiffer(s)
  BY <1>5, <1>6 DEF Say, KeysDiffer
<1>9. Mentioned(s, D)
  BY <1>7 DEF Say, Mentioned
<1>10. AllDescribed(s, D)
  BY <1>6 DEF Say, AllDescribed
<1>11. s \in Seq(Items)
  BY <1>2, <1>5
<1> QED
  BY <1>8, <1>9, <1>10, <1>11 DEF Say

LEMMA RegistryStep == RegistryInv /\ [Next]_vars => RegistryInv'
<1> SUFFICES ASSUME RegistryInv, [Next]_vars PROVE RegistryInv'
  OBVIOUS
<1>1. ASSUME UNCHANGED registry PROVE RegistryInv'
  BY <1>1 DEF registry, RegistryInv, Say, KeysDiffer, Mentioned, AllDescribed
<1>2. CASE Load
  <2>1. CASE ParseEnd
    <3>1. /\ items' \in InOrder(ToSet(items)) /\ byKey' = Index(items')
          /\ parsed' = TRUE /\ read' = read
      BY <2>1 DEF ParseEnd
    <3>2. Say(items, read) /\ read \in Seq(Mentions)
      BY DEF RegistryInv
    <3>3. Say(items', read)
      BY <3>1, <3>2, SayInOrder
    <3> QED
      BY <3>1, <3>2, <3>3 DEF RegistryInv
  <2>2. CASE \E g \in Groups : ParseGroup(g)
    BY <2>2, SayGroup
  <2> QED
    BY <1>2, <2>1, <2>2 DEF Load, Parse
<1>3. CASE \E o \in Observable : Observe(o)
  BY <1>1, <1>3 DEF Observe
<1>4. CASE \E q \in Queries : CommunitySearch(q)
  BY <1>1, <1>4 DEF CommunitySearch
<1>5. CASE \E f \in Filters, l \in Limits : Compare(f, l) \/ Seed(f, l)
  BY <1>1, <1>5 DEF Compare, Seed, Begin
<1>6. CASE CompareNext \/ SeedNext \/ Respond \/ Return
  BY <1>1, <1>6 DEF CompareNext, SeedNext, Respond, Return
<1>7. CASE UNCHANGED vars
  BY <1>1, <1>7 DEF vars
<1> QED
  BY <1>2, <1>3, <1>4, <1>5, <1>6, <1>7 DEF Next

LEMMA RegistryInit == Init => RegistryInv
<1> SUFFICES ASSUME Init PROVE RegistryInv
  OBVIOUS
<1>1. parsed = FALSE /\ items = << >> /\ read = << >>
  BY DEF Init, ParseInit
<1>2. items \in Seq(Items) /\ Len(items) = 0 /\ read \in Seq(Mentions) /\ Len(read) = 0
  BY <1>1
<1>3. KeysDiffer(items) /\ Mentioned(items, read) /\ AllDescribed(items, read)
  BY <1>2 DEF KeysDiffer, Mentioned, AllDescribed
<1> QED
  BY <1>1, <1>2, <1>3 DEF RegistryInv, Say

-----------------------------------------------------------------------------
\* Looking up

LEMMA MinIs ==
    ASSUME NEW T, T \subseteq Nat, NEW x \in T, \A y \in T : x <= y
    PROVE  Min(T) = x
<1>1. \A z \in T : (\A y \in T : z <= y) => z = x
  OBVIOUS
<1> QED
  BY <1>1, Zenon DEF Min

LEMMA FirstOfIs ==
    ASSUME read \in Seq(Mentions), NEW n, NEW f, NEW v, FirstIs(read, n, f, v)
    PROVE  FirstOf(n, f) = v
<1> DEFINE given == {i \in MentionsOf(n) : read[i][f] # NoText}
<1>1. FirstOf(n, f) = IF given = {} THEN NoText ELSE read[Min(given)][f]
  BY Zenon DEF FirstOf, NoText
<1>2. Len(read) \in Nat /\ MentionsOf(n) = {i \in 1 .. Len(read) : read[i].name = n}
  BY DEF MentionsOf
<1> HIDE DEF MentionsOf
<1>3. CASE v = NoText /\ \A i \in 1 .. Len(read) : read[i].name = n => read[i][f] = NoText
  BY <1>1, <1>2, <1>3
<1>4. CASE \E i \in 1 .. Len(read) :
              /\ read[i].name = n /\ read[i][f] = v /\ v # NoText
              /\ \A j \in 1 .. i - 1 : read[j].name = n => read[j][f] = NoText
  <2>1. PICK i \in 1 .. Len(read) :
              /\ read[i].name = n /\ read[i][f] = v /\ v # NoText
              /\ \A j \in 1 .. i - 1 : read[j].name = n => read[j][f] = NoText
    BY <1>4
  <2>2. i \in given /\ given \subseteq Nat
    BY <1>2, <2>1
  <2>3. \A j \in given : i <= j
    BY <1>2, <2>1
  <2>4. Min(given) = i
    BY <2>2, <2>3, MinIs
  <2> HIDE DEF given
  <2> QED
    BY <1>1, <2>1, <2>2, <2>4
<1> QED
  BY <1>3, <1>4 DEF FirstIs

LEMMA IndexFinds ==
    ASSUME RegistryInv, parsed, NEW k
    PROVE  /\ Has(k) <=> \E j \in 1 .. Len(items) : Key(items[j]) = k
           /\ Has(k) => byKey[k] \in 1 .. Len(items) /\ Key(Get(k)) = k
<1>1. /\ byKey = Index(items) /\ Len(items) \in Nat /\ DOMAIN items = 1 .. Len(items)
  BY DEF RegistryInv, Say
<1>2. Has(k) <=> \E j \in 1 .. Len(items) : Key(items[j]) = k
  BY <1>1 DEF Has, Index
<1>3. ASSUME Has(k) PROVE byKey[k] \in 1 .. Len(items) /\ Key(items[byKey[k]]) = k
  <2>1. byKey[k] = CHOOSE i \in DOMAIN items : Key(items[i]) = k
    BY <1>1, <1>3 DEF Has, Index
  <2>2. \E i \in DOMAIN items : Key(items[i]) = k
    BY <1>1, <1>2, <1>3
  <2> QED
    BY <1>1, <2>1, <2>2
<1> QED
  BY <1>2, <1>3 DEF Get

LEMMA LookupFinds ==
    ASSUME RegistryInv, parsed, NEW n \in Names
    PROVE  LET key == <<"attribute", n>>
               it == Get(key)
           IN  /\ Has(key) <=> MentionsOf(n) # {}
               /\ Has(key) => /\ Key(it) = key
                              /\ it.brief = FirstOf(n, "brief")
                              /\ it.stability = FirstOf(n, "stability")
                              /\ it.deprecated = FirstOf(n, "deprecated")
                              /\ it.valueType = ValueType(FirstOf(n, "type"))
<1> DEFINE key == <<"attribute", n>>
           it == Get(key)
<1>1. /\ Say(items, read) /\ read \in Seq(Mentions) /\ items \in Seq(Items)
  BY DEF RegistryInv, Say
<1>2. MentionsOf(n) = {i \in 1 .. Len(read) : read[i].name = n}
  BY <1>1 DEF MentionsOf
<1>3. ASSUME MentionsOf(n) # {} PROVE Has(key)
  <2>1. PICK i \in 1 .. Len(read) : read[i].name = n
    BY <1>2, <1>3
  <2> QED
    BY <1>1, <2>1, IndexFinds DEF Say, Mentioned
<1>4. ASSUME Has(key)
      PROVE  /\ Key(it) = key /\ Described(it, read) /\ it.name = n
  <2>1. byKey[key] \in 1 .. Len(items) /\ Key(it) = key
    BY <1>4, IndexFinds
  <2>2. it = items[byKey[key]]
    BY DEF Get
  <2> HIDE DEF it
  <2>3. it.type = "attribute" /\ it.name = n
    BY <2>1 DEF Key
  <2> QED
    BY <1>1, <2>1, <2>2, <2>3 DEF Say, AllDescribed
<1> HIDE DEF it, key
<1>5. ASSUME Has(key) PROVE MentionsOf(n) # {}
  <2>1. PICK i \in 1 .. Len(read) : read[i].name = it.name
    BY <1>4, <1>5 DEF Described
  <2> QED
    BY <1>2, <1>4, <1>5, <2>1
<1>6. ASSUME Has(key)
      PROVE  /\ it.brief = FirstOf(n, "brief") /\ it.stability = FirstOf(n, "stability")
             /\ it.deprecated = FirstOf(n, "deprecated")
             /\ it.valueType = ValueType(FirstOf(n, "type"))
  <2>1. PICK t \in Texts : FirstIs(read, n, "type", t) /\ it.valueType = ValueType(t)
    BY <1>4, <1>6 DEF Described
  <2>2. /\ FirstIs(read, n, "brief", it.brief) /\ FirstIs(read, n, "stability", it.stability)
        /\ FirstIs(read, n, "deprecated", it.deprecated)
    BY <1>4, <1>6 DEF Described
  <2> QED
    BY <1>1, <2>1, <2>2, FirstOfIs
<1>7. (Has(key) <=> MentionsOf(n) # {}) /\ (Has(key) => Key(it) = key)
  BY <1>3, <1>4, <1>5
<1> QED
  BY <1>6, <1>7 DEF it, key

(* Looking an attribute up finds it if and only if some group mentions it, *)
(* with every field as the first mention that has it, for any snapshot.    *)
(* (registry.go:100-214)                                                   *)
THEOREM LookupCorrect == Spec => []LookupFindsFirst
<1>1. RegistryInv => LookupFindsFirst
  <2> SUFFICES ASSUME RegistryInv, parsed PROVE LookupFindsFirst
    BY DEF LookupFindsFirst
  <2> QED
    BY LookupFinds, Zenon DEF LookupFindsFirst
<1> QED
  BY <1>1, RegistryInit, RegistryStep, PTL DEF Spec

-----------------------------------------------------------------------------
\* The loops

(* What a loop has got to; no name in the buckets.                         *)
Done == listed \ ToSet(rest)
NoBuckets == [c \in Classes |-> [count |-> 0, entries |-> <<>>]]

(* The entries listed are observed, and the loop takes them in name order. *)
ListInv ==
    /\ pc \in {"idle", "searched", "comparing", "compared", "seeding", "seeded"}
    /\ limit \in Nat /\ (pc # "idle" => parsed)
    /\ pc \in {"idle", "searched"} => buckets = NoBuckets /\ rows = <<>>
    /\ DOMAIN observed \subseteq Names /\ listed \subseteq DOMAIN observed
    /\ \A n \in DOMAIN observed : observed[n] \in WireTypes
    /\ steady \subseteq listed
    /\ rest \in Seq(listed)
    /\ \A i, j \in 1 .. Len(rest) : i < j => rest[i] < rest[j]
    /\ \A m \in Done : \A i \in 1 .. Len(rest) : m < rest[i]

LEMMA LimitTyped ==
    ASSUME NEW n \in Int, NEW default \in Nat, NEW max \in Nat, default <= max
    PROVE  ParseIntDefault(n, default, max) \in 0 .. max
BY DEF ParseIntDefault

LEMMA ListBegins ==
    ASSUME ListInv, NEW loop \in {"comparing", "seeding"}, NEW f, NEW max \in Nat,
           Begin(loop, f), limit' \in 0 .. max
    PROVE  ListInv' /\ Done' = {} /\ pc' = loop /\ buckets' = NoBuckets /\ rows' = <<>>
<1>1. /\ pc = "idle" /\ pc' = loop /\ parsed /\ parsed' = parsed /\ observed' = observed
      /\ listed' = DOMAIN observed \cap f /\ steady' = listed' /\ rest' \in ByName(listed')
      /\ buckets' = buckets /\ rows' = rows
  BY DEF Begin, registry
<1>2. DOMAIN observed \subseteq Names /\ buckets = NoBuckets /\ rows = <<>>
  BY <1>1 DEF ListInv
<1>3. listed' \subseteq Names /\ IsFiniteSet(listed')
  BY <1>1, <1>2, NamesAssumption, FS_Subset
<1>4. /\ rest' \in Seq(listed') /\ Len(rest') \in Nat /\ DOMAIN rest' = 1 .. Len(rest')
      /\ \A x \in listed' : \E i \in 1 .. Len(rest') : rest'[i] = x
  <2>1. rest' \in SetToSeqs(listed')
    BY <1>1 DEF ByName
  <2> QED
    BY <1>3, <2>1, SetToSeqsIsPermutation
<1>5. \A i, j \in 1 .. Len(rest') : i < j => rest'[i] < rest'[j]
  BY <1>1, <1>4 DEF ByName
<1>6. Done' = {}
  BY <1>4 DEF Done, ToSet
<1> QED
  BY <1>1, <1>2, <1>4, <1>5, <1>6 DEF ListInv

LEMMA ListGoesOn ==
    ASSUME ListInv, rest # <<>>, rest' = Tail(rest),
           UNCHANGED <<registry, observed, pc, limit, listed, steady>>,
           pc \in {"comparing", "seeding"}
    PROVE  /\ ListInv'
           /\ Head(rest) \in listed /\ Head(rest) \notin Done
           /\ Done' = Done \union {Head(rest)}
           /\ \A m \in Done : m < Head(rest)
<1> DEFINE h == Head(rest)
<1>1. /\ rest \in Seq(listed) /\ Len(rest) \in Nat /\ Len(rest) > 0 /\ DOMAIN rest = 1 .. Len(rest)
      /\ listed \subseteq Nat
  <2>1. rest \in Seq(listed)
    BY DEF ListInv
  <2>2. Len(rest) \in Nat /\ Len(rest) > 0 /\ DOMAIN rest = 1 .. Len(rest)
    BY <2>1
  <2>3. listed \subseteq Nat
    BY NamesAssumption DEF ListInv
  <2> QED
    BY <2>1, <2>2, <2>3
<1>2. h = rest[1] /\ h \in listed
  BY <1>1
<1>3. /\ rest' \in Seq(listed) /\ Len(rest') = Len(rest) - 1 /\ DOMAIN rest' = 1 .. Len(rest')
      /\ \A i \in 1 .. Len(rest') : rest'[i] = rest[i + 1]
  BY <1>1
<1> HIDE DEF h
<1>4. \A i \in 1 .. Len(rest) : i = 1 \/ (i - 1 \in 1 .. Len(rest') /\ i - 1 + 1 = i)
  BY <1>1, <1>3
<1>5. \A i \in 1 .. Len(rest') : i + 1 \in 1 .. Len(rest)
  BY <1>1, <1>3
<1>6. \A i \in 1 .. Len(rest') : h < rest'[i] /\ rest'[i] \in Nat
  BY <1>1, <1>2, <1>3, <1>5 DEF ListInv
<1>7. h \notin ToSet(rest') /\ h \in ToSet(rest)
  BY <1>1, <1>2, <1>3, <1>6 DEF ToSet
<1>8. ToSet(rest') = ToSet(rest) \ {h}
  <2>1. ASSUME NEW x \in ToSet(rest), x # h PROVE x \in ToSet(rest')
    <3>1. PICK i \in 1 .. Len(rest) : x = rest[i]
      BY <1>1 DEF ToSet
    <3>2. i - 1 \in 1 .. Len(rest') /\ rest'[i - 1] = x
      BY <1>2, <1>3, <1>4, <2>1, <3>1
    <3> QED
      BY <1>3, <3>2 DEF ToSet
  <2>2. ASSUME NEW x \in ToSet(rest') PROVE x \in ToSet(rest)
    BY <1>1, <1>3, <1>5, <2>2 DEF ToSet
  <2> QED
    BY <1>7, <2>1, <2>2
<1>9. listed' = listed /\ Done' = Done \union {h} /\ h \notin Done
  BY <1>2, <1>7, <1>8 DEF Done
<1>10. \A m \in Done : m < h
  BY <1>1, <1>2 DEF ListInv
<1>11. \A i, j \in 1 .. Len(rest') : i < j => rest'[i] < rest'[j]
  BY <1>3, <1>5 DEF ListInv
<1>12. \A m \in Done' : \A i \in 1 .. Len(rest') : m < rest'[i]
  BY <1>3, <1>5, <1>6, <1>9 DEF ListInv
<1>13. ListInv'
  BY <1>3, <1>9, <1>11, <1>12 DEF ListInv, registry
<1> QED
  BY <1>2, <1>9, <1>10, <1>13 DEF h

(* An observation leaves the types of the steady entries as they are.      *)
LEMMA ListObserves ==
    ASSUME ListInv, NEW o \in Observable, Observe(o)
    PROVE  /\ ListInv' /\ Done' = Done /\ steady' \subseteq steady
           /\ \A n \in steady' : BucketOf(n)' = BucketOf(n)
<1>1. /\ o.name \in Names /\ o.type \in WireTypes
      /\ observed' = [n \in DOMAIN observed \union {o.name} |->
                          IF n = o.name THEN o.type ELSE observed[n]]
      /\ steady' = IF o.name \in DOMAIN observed /\ observed[o.name] = o.type
                   THEN steady ELSE steady \ {o.name}
      /\ UNCHANGED <<parsed, items, byKey, read, pc, limit, rest, buckets, rows, listed>>
  BY ObservableAssumption DEF Observe, registry, loopVars
<1>2. /\ DOMAIN observed' = DOMAIN observed \union {o.name}
      /\ \A n \in DOMAIN observed : n # o.name => observed'[n] = observed[n]
      /\ observed'[o.name] = o.type
  BY <1>1
<1>3. \A n \in steady' : n \in steady /\ observed'[n] = observed[n]
  BY <1>1, <1>2 DEF ListInv
<1>4. ASSUME NEW n \in steady' PROVE BucketOf(n)' = BucketOf(n)
  <2>1. observed'[n] = observed[n] /\ read' = read
    BY <1>1, <1>3
  <2> QED
    BY <2>1, Zenon DEF BucketOf, FirstOf, MentionsOf
<1>5. Done' = Done
  BY <1>1 DEF Done
<1>6. ListInv'
  BY <1>1, <1>2, <1>3, <1>5 DEF ListInv
<1> QED
  BY <1>3, <1>4, <1>5, <1>6

(* On what the extractor reports, the table of labels is the wire's.       *)
LEMMA CanonicalIs ==
    ASSUME NEW s \in DOMAIN ScalarLabels, NEW t \in ScalarLabels[s]
    PROVE  CanonicalScalar(t) = s
<1>1. \A r \in DOMAIN ScalarLabels : t \in ScalarLabels[r] => r = s
  BY DEF ScalarLabels
<1> QED
  BY <1>1 DEF CanonicalScalar

LEMMA ConflictIs ==
    ASSUME NEW t \in WireTypes, NEW d
    PROVE  TypesConflict(t, d) <=> Contradicts(t, d)
<1>1. CanonicalScalar(t) = IF t \in ScalarsOnTheWire THEN t ELSE ""
  <2>1. CASE t \in ScalarsOnTheWire
    <3>1. t \in DOMAIN ScalarLabels /\ t \in ScalarLabels[t]
      BY <2>1 DEF ScalarsOnTheWire, ScalarLabels
    <3> QED
      BY <2>1, <3>1, CanonicalIs
  <2>2. CASE t \notin ScalarsOnTheWire
    <3>1. \A s \in DOMAIN ScalarLabels : t \notin ScalarLabels[s]
      BY <2>2 DEF ScalarsOnTheWire, ScalarLabels, WireTypes
    <3> QED
      BY <2>2, <3>1, Zenon DEF CanonicalScalar
  <2> QED
    BY <2>1, <2>2
<1>2. CanonicalScalar(d) = IF OnTheWire(d) = "anything" THEN "" ELSE OnTheWire(d)
  <2>1. CASE \E s \in DOMAIN ScalarLabels : d \in ScalarLabels[s]
    <3>1. PICK s \in DOMAIN ScalarLabels : d \in ScalarLabels[s]
      BY <2>1
    <3>2. CanonicalScalar(d) = s
      BY <3>1, CanonicalIs
    <3>3. OnTheWire(d) = s /\ s # "anything"
      BY <3>1 DEF OnTheWire, ScalarLabels
    <3> QED
      BY <3>2, <3>3
  <2>2. CASE \A s \in DOMAIN ScalarLabels : d \notin ScalarLabels[s]
    <3>1. OnTheWire(d) = "anything"
      BY <2>2 DEF OnTheWire, ScalarLabels
    <3>2. CanonicalScalar(d) = ""
      BY <2>2, Zenon DEF CanonicalScalar
    <3> QED
      BY <3>1, <3>2
  <2> QED
    BY <2>1, <2>2
<1>3. OnTheWire(d) \in {"anything"} \union ScalarsOnTheWire
  BY DEF OnTheWire, ScalarsOnTheWire
<1> HIDE DEF ScalarsOnTheWire
<1>4. \A s \in ScalarsOnTheWire : s # "" /\ s # "anything"
  BY DEF ScalarsOnTheWire
<1> QED
  BY <1>1, <1>2, <1>3, <1>4 DEF TypesConflict, Contradicts

LEMMA ClassifyIs ==
    ASSUME RegistryInv, parsed, NEW n \in Names, observed[n] \in WireTypes
    PROVE  ClassifyAttribute(n) = BucketOf(n) /\ BucketOf(n) \in Classes
<1>1. BucketOf(n) \in Classes
  BY Zenon DEF BucketOf, Classes
<1>2. CASE MentionsOf(n) = {}
  <2>1. ~Has(<<"attribute", n>>)
    BY <1>2, LookupFinds
  <2> QED
    BY <1>1, <1>2, <2>1, Zenon DEF ClassifyAttribute, BucketOf
<1>3. CASE MentionsOf(n) # {}
  <2>1. /\ Has(<<"attribute", n>>)
        /\ Get(<<"attribute", n>>).deprecated = FirstOf(n, "deprecated")
        /\ Get(<<"attribute", n>>).valueType = ValueType(FirstOf(n, "type"))
    BY <1>3, LookupFinds
  <2>2. TypesConflict(observed[n], ValueType(FirstOf(n, "type")))
            <=> Contradicts(observed[n], ValueType(FirstOf(n, "type")))
    BY ConflictIs
  <2> QED
    BY <1>1, <1>3, <2>1, <2>2, Zenon DEF ClassifyAttribute, BucketOf
<1> QED
  BY <1>2, <1>3

(* A comparison has counted what it has got to, and an entry whose type is *)
(* still the listed one is in its bucket, or that is full of names before. *)
Kept(n, names, room) ==
    \/ \E i \in 1 .. Len(names) : names[i] = n
    \/ Len(names) = room /\ \A i \in 1 .. Len(names) : names[i] < n

CountsAdd ==
    buckets["matched"].count + buckets["type-mismatch"].count
        + buckets["deprecated"].count + buckets["not-in-registry"].count = Cardinality(Done)

CompareInv ==
    /\ pc = "compared" => rest = <<>>
    /\ pc \in {"comparing", "compared"} =>
          /\ buckets \in [Classes -> [count : Nat, entries : Seq(Done)]]
          /\ CountsAdd
          /\ \A c \in Classes : Len(buckets[c].entries) <= limit
          /\ \A n \in steady \cap Done : Kept(n, buckets[BucketOf(n)].entries, limit)

LEMMA CompareGoesOn ==
    ASSUME RegistryInv, ListInv, CompareInv, CompareNext
    PROVE  ListInv' /\ CompareInv'
<1> DEFINE h == Head(rest)
<1>1. /\ pc = "comparing" /\ rest # <<>> /\ rest' = Tail(rest)
      /\ UNCHANGED <<registry, observed, pc, limit, listed, steady>>
      /\ buckets' = [buckets EXCEPT ![ClassifyAttribute(h)] = Counted(@, h)]
  BY DEF CompareNext
<1>2. /\ ListInv' /\ h \in listed /\ h \notin Done /\ Done' = Done \union {h}
      /\ \A m \in Done : m < h
  BY <1>1, ListGoesOn
<1>3. /\ h \in Names /\ Done \subseteq Names /\ Names \subseteq Nat
      /\ observed[h] \in WireTypes /\ parsed /\ limit \in Nat
  BY <1>1, <1>2, NamesAssumption DEF ListInv, Done
<1> HIDE DEF h
<1>4. PICK c \in Classes : c = BucketOf(h) /\ c = ClassifyAttribute(h)
  BY <1>3, ClassifyIs
<1>5. /\ buckets \in [Classes -> [count : Nat, entries : Seq(Done)]]
      /\ CountsAdd /\ \A d \in Classes : Len(buckets[d].entries) <= limit
      /\ \A n \in steady \cap Done : Kept(n, buckets[BucketOf(n)].entries, limit)
  BY <1>1 DEF CompareInv
<1> DEFINE old == buckets[c].entries
           full == Len(old) >= limit
           new == IF full THEN old ELSE Append(old, h)
<1>6. buckets' = [buckets EXCEPT ![c] = [count |-> buckets[c].count + 1, entries |-> new]]
  <2>1. Counted(buckets[c], h) = [count |-> buckets[c].count + 1, entries |-> new]
    <3>1. Len(old) \in Nat
      BY <1>5
    <3> QED
      BY <1>3, <3>1 DEF Counted
  <2> QED
    BY <1>1, <1>4, <1>5, <2>1
<1>7. /\ old \in Seq(Done) /\ Len(old) \in Nat /\ Len(old) <= limit
      /\ \A i \in 1 .. Len(old) : old[i] \in Done
  BY <1>5
<1> HIDE DEF old
<1>8. /\ new \in Seq(Done \union {h}) /\ Len(new) <= limit
      /\ \A i \in 1 .. Len(old) : i \in 1 .. Len(new) /\ new[i] = old[i]
      /\ IF full THEN new = old /\ Len(old) = limit
                 ELSE Len(new) \in 1 .. Len(new) /\ new[Len(new)] = h
  <2>1. old \in Seq(Done \union {h}) /\ h \in Done \union {h}
    BY <1>7
  <2>2. CASE full
    BY <1>3, <1>7, <2>1, <2>2
  <2>3. CASE ~full
    <3>1. new = Append(old, h)
      BY <2>3
    <3>2. /\ new \in Seq(Done \union {h}) /\ Len(new) = Len(old) + 1
          /\ \A i \in 1 .. Len(old) : new[i] = old[i]
          /\ new[Len(old) + 1] = h
      BY <2>1, <3>1, AppendProperties
    <3> HIDE DEF new
    <3> QED
      BY <1>3, <1>7, <2>3, <3>2
  <2> QED
    BY <2>2, <2>3
<1> HIDE DEF new
<1>9. /\ buckets' \in [Classes -> [count : Nat, entries : Seq(Done')]]
      /\ buckets'[c].count = buckets[c].count + 1 /\ buckets'[c].entries = new
      /\ \A d \in Classes : d # c => buckets'[d] = buckets[d]
  <2>1. \A d \in Classes : buckets[d].count \in Nat /\ buckets[d].entries \in Seq(Done)
    BY <1>5
  <2>2. \A s \in Seq(Done) : s \in Seq(Done \union {h})
    OBVIOUS
  <2>3. \A d \in Classes : buckets[d] \in [count : Nat, entries : Seq(Done \union {h})]
    BY <1>5, <2>2
  <2>4. [count |-> buckets[c].count + 1, entries |-> new]
          \in [count : Nat, entries : Seq(Done \union {h})]
    BY <1>8, <2>1
  <2>5. /\ buckets' \in [Classes -> [count : Nat, entries : Seq(Done \union {h})]]
        /\ buckets'[c] = [count |-> buckets[c].count + 1, entries |-> new]
        /\ \A d \in Classes : d # c => buckets'[d] = buckets[d]
    BY <1>5, <1>6, <2>3, <2>4
  <2> QED
    BY <1>2, <2>5
<1>10. CountsAdd'
  <2>1. IsFiniteSet(Done)
    BY <1>3, NamesAssumption, FS_Subset
  <2>2. Cardinality(Done') = Cardinality(Done) + 1
    BY <1>2, <2>1, FS_AddElement
  <2>3. \A d \in Classes : buckets[d].count \in Nat
    BY <1>5
  <2>4. Cardinality(Done) \in Nat
    BY <2>1, FS_CardinalityType
  <2> HIDE DEF new
  <2>5. \A d \in Classes :
          buckets'[d].count = IF d = c THEN buckets[d].count + 1 ELSE buckets[d].count
    BY <1>9
  <2>6. CountsAdd
    BY <1>5
  <2>7. Classes = {"matched", "type-mismatch", "deprecated", "not-in-registry"}
    BY DEF Classes
  <2> QED
    BY <2>2, <2>3, <2>4, <2>5, <2>6, <2>7 DEF CountsAdd
<1>11. \A d \in Classes : Len(buckets'[d].entries) <= limit'
  BY <1>1, <1>5, <1>8, <1>9
<1>12. ASSUME NEW n \in steady' \cap Done' PROVE Kept(n, buckets[BucketOf(n)].entries, limit)'
  <2>1. read' = read /\ observed' = observed /\ limit' = limit /\ steady' = steady
    BY <1>1 DEF registry
  <2>2. BucketOf(n)' = BucketOf(n)
    BY <2>1, Zenon DEF BucketOf, FirstOf, MentionsOf
  <2>3. PICK b : b = BucketOf(n)
    OBVIOUS
  <2>5. b \in Classes
    BY <2>3, Zenon DEF BucketOf, Classes
  <2>6. Kept(n, buckets'[b].entries, limit')
    <3>1. CASE n = h
      <4>1. b = c
        BY <1>4, <2>3, <3>1
      <4>2. CASE full
        BY <1>2, <1>7, <1>8, <1>9, <2>1, <3>1, <4>1, <4>2 DEF Kept
      <4>3. CASE ~full
        BY <1>8, <1>9, <3>1, <4>1, <4>3 DEF Kept
      <4> QED
        BY <4>2, <4>3
    <3>2. CASE n # h
      <4>1. n \in steady \cap Done /\ Kept(n, buckets[b].entries, limit)
        BY <1>2, <1>5, <2>1, <2>3, <3>2
      <4>2. CASE b # c
        BY <1>9, <2>1, <2>5, <4>1, <4>2 DEF Kept
      <4>3. CASE b = c
        <5>1. Kept(n, old, limit)
          BY <4>1, <4>3 DEF old
        <5>2. CASE \E i \in 1 .. Len(old) : old[i] = n
          BY <1>8, <1>9, <4>3, <5>2 DEF Kept
        <5>3. CASE Len(old) = limit /\ \A i \in 1 .. Len(old) : old[i] < n
          <6>1. full
            BY <1>3, <5>3
          <6>2. new = old
            BY <1>8, <6>1
          <6> QED
            BY <1>9, <2>1, <4>3, <5>3, <6>2 DEF Kept
        <5> QED
          BY <5>1, <5>2, <5>3 DEF Kept
      <4> QED
        BY <4>2, <4>3
    <3> QED
      BY <3>1, <3>2
  <2> QED
    BY <2>2, <2>3, <2>6
<1>13. pc' = "comparing"
  BY <1>1
<1> QED
  BY <1>2, <1>9, <1>10, <1>11, <1>12, <1>13 DEF CompareInv

(* A seed has a row for each entry it has got to, and breaks off only when *)
(* there are enough.                                                       *)
SeedInv ==
    /\ pc = "seeded" => rest = <<>> \/ Len(rows) >= limit
    /\ pc \in {"seeding", "seeded"} =>
          /\ rows \in Seq([id : Done, crossRef : Classes]) /\ Len(rows) <= limit
          /\ \A m \in Done : \E i \in 1 .. Len(rows) : rows[i].id = m
          /\ \A i \in 1 .. Len(rows) :
                rows[i].id \in steady => rows[i].crossRef = BucketOf(rows[i].id)

LEMMA SeedGoesOn ==
    ASSUME RegistryInv, ListInv, SeedInv, SeedNext
    PROVE  ListInv' /\ SeedInv'
<1> DEFINE h == Head(rest)
<1>1. /\ pc = "seeding" /\ rest # <<>> /\ rest' = Tail(rest) /\ Len(rows) < limit
      /\ UNCHANGED <<registry, observed, pc, limit, listed, steady>>
      /\ rows' = Append(rows, [id |-> h, crossRef |-> ClassifyAttribute(h)])
  BY DEF SeedNext
<1>2. ListInv' /\ h \in listed /\ Done' = Done \union {h}
  BY <1>1, ListGoesOn
<1>3. h \in Names /\ observed[h] \in WireTypes /\ Done \subseteq Names /\ parsed /\ limit \in Nat
  BY <1>1, <1>2 DEF ListInv, Done
<1> HIDE DEF h
<1>4. PICK c \in Classes : c = BucketOf(h) /\ c = ClassifyAttribute(h)
  BY <1>3, ClassifyIs
<1>5. PICK r : r = [id |-> h, crossRef |-> c]
  OBVIOUS
<1> DEFINE R == [id : Done \union {h}, crossRef : Classes]
<1>6. /\ rows \in Seq([id : Done, crossRef : Classes]) /\ Len(rows) <= limit
      /\ \A m \in Done : \E i \in 1 .. Len(rows) : rows[i].id = m
      /\ \A i \in 1 .. Len(rows) :
            rows[i].id \in steady => rows[i].crossRef = BucketOf(rows[i].id)
  BY <1>1 DEF SeedInv
<1>7. rows \in Seq(R) /\ r \in R /\ r.id = h /\ r.crossRef = c
  <2>1. \A i \in 1 .. Len(rows) : rows[i] \in R
    <3> DEFINE Q == [id : Done, crossRef : Classes]
    <3>1. \A i \in 1 .. Len(rows) : rows[i] \in Q
      <4>1. rows \in Seq(Q)
        BY <1>6
      <4> HIDE DEF Q
      <4> QED
        BY <4>1
    <3>2. \A x \in [id : Done, crossRef : Classes] : x \in R
      OBVIOUS
    <3> QED
      BY <3>1, <3>2
  <2>2. r \in R /\ r.id = h /\ r.crossRef = c
    BY <1>5
  <2> HIDE DEF R
  <2>3. Len(rows) \in Nat /\ rows = [i \in 1 .. Len(rows) |-> rows[i]]
    BY <1>6
  <2>4. rows \in [1 .. Len(rows) -> R]
    BY <2>1, <2>3
  <2> QED
    BY <2>2, <2>3, <2>4
<1> HIDE DEF R
<1>8. rows' = Append(rows, r)
  BY <1>1, <1>4, <1>5
<1>9. /\ rows' \in Seq(R) /\ Len(rows') = Len(rows) + 1 /\ Len(rows) \in Nat
      /\ \A i \in 1 .. Len(rows) : rows'[i] = rows[i]
      /\ rows'[Len(rows) + 1] = r
  BY <1>7, <1>8, AppendProperties
<1>10. Len(rows') <= limit' /\ limit' = limit
  BY <1>1, <1>3, <1>9
<1>11. \A m \in Done' : \E i \in 1 .. Len(rows') : rows'[i].id = m
  <2>1. Len(rows) + 1 \in 1 .. Len(rows') /\ rows'[Len(rows) + 1].id = h
    BY <1>7, <1>9
  <2>2. \A i \in 1 .. Len(rows) : i \in 1 .. Len(rows') /\ rows'[i].id = rows[i].id
    BY <1>9
  <2> QED
    BY <1>2, <1>6, <2>1, <2>2
<1>12. ASSUME NEW i \in 1 .. Len(rows'), rows'[i].id \in steady'
       PROVE  (rows[i].crossRef = BucketOf(rows[i].id))'
  <2>1. read' = read /\ observed' = observed /\ steady' = steady
    BY <1>1 DEF registry
  <2>2. PICK n : n = rows'[i].id
    OBVIOUS
  <2>3. BucketOf(n)' = BucketOf(n)
    BY <2>1, Zenon DEF BucketOf, FirstOf, MentionsOf
  <2>4. rows'[i].crossRef = BucketOf(n)
    <3>1. CASE i = Len(rows) + 1
      BY <1>4, <1>7, <1>9, <2>2, <3>1
    <3>2. CASE i \in 1 .. Len(rows)
      BY <1>6, <1>9, <1>12, <2>1, <2>2, <3>2
    <3> QED
      BY <1>9, <3>1, <3>2
  <2> QED
    BY <2>2, <2>3, <2>4
<1>13. rows' \in Seq([id : Done, crossRef : Classes])'
  BY <1>2, <1>9 DEF R
<1>14. pc' = "seeding"
  BY <1>1
<1> QED
  BY <1>2, <1>10, <1>11, <1>12, <1>13, <1>14 DEF SeedInv

LoopInv == ListInv /\ CompareInv /\ SeedInv

LEMMA LoopObserves ==
    ASSUME LoopInv, NEW o \in Observable, Observe(o)
    PROVE  LoopInv'
<1>1. /\ ListInv' /\ Done' = Done /\ steady' \subseteq steady
      /\ \A n \in steady' : BucketOf(n)' = BucketOf(n)
  BY ListObserves DEF LoopInv
<1>2. UNCHANGED <<pc, limit, rest, buckets, rows, listed>>
  BY DEF Observe, loopVars
<1>3. CompareInv'
  <2>1. ASSUME pc \in {"comparing", "compared"}, NEW n \in steady' \cap Done'
        PROVE  Kept(n, buckets[BucketOf(n)].entries, limit)'
    <3>1. Kept(n, buckets[BucketOf(n)].entries, limit)
      BY <1>1, <2>1 DEF LoopInv, CompareInv
    <3>2. BucketOf(n)' = BucketOf(n)
      BY <1>1
    <3> QED
      BY <1>2, <3>1, <3>2 DEF Kept
  <2> QED
    BY <1>1, <1>2, <2>1 DEF LoopInv, CompareInv, CountsAdd
<1>4. SeedInv'
  <2>1. ASSUME pc \in {"seeding", "seeded"}, NEW i \in 1 .. Len(rows), rows[i].id \in steady'
        PROVE  (rows[i].crossRef = BucketOf(rows[i].id))'
    <3>1. PICK n \in steady' : n = rows[i].id
      BY <2>1
    <3>2. rows[i].crossRef = BucketOf(n)
      BY <1>1, <2>1, <3>1 DEF LoopInv, SeedInv
    <3>3. BucketOf(n)' = BucketOf(n)
      BY <1>1, <3>1
    <3> QED
      BY <1>2, <3>1, <3>2, <3>3
  <2> QED
    BY <1>1, <1>2, <2>1 DEF LoopInv, SeedInv
<1> QED
  BY <1>1, <1>3, <1>4 DEF LoopInv

LEMMA LoopBegins ==
    ASSUME LoopInv, NEW loop \in {"comparing", "seeding"}, NEW f, NEW max \in Nat,
           Begin(loop, f), limit' \in 0 .. max
    PROVE  LoopInv'
<1>1. /\ ListInv' /\ Done' = {} /\ pc' = loop /\ buckets' = NoBuckets /\ rows' = <<>>
  BY ListBegins DEF LoopInv
<1>2. limit' \in Nat
  OBVIOUS
<1>3. CompareInv'
  <2>1. /\ \A c \in Classes : NoBuckets[c].count = 0 /\ NoBuckets[c].entries = <<>>
        /\ NoBuckets \in [Classes -> [count : Nat, entries : Seq(Done')]]
    BY DEF NoBuckets
  <2>2. CountsAdd'
    BY <1>1, <2>1, FS_EmptySet DEF CountsAdd, Classes
  <2> QED
    BY <1>1, <1>2, <2>1, <2>2 DEF CompareInv
<1>4. SeedInv'
  BY <1>1, <1>2 DEF SeedInv
<1> QED
  BY <1>1, <1>3, <1>4 DEF LoopInv

(* The end of a loop, and steps that do not touch it.                      *)
LEMMA LoopStays ==
    ASSUME LoopInv,
           UNCHANGED <<registry, observed, limit, rest, buckets, rows, listed, steady>>,
           \/ pc' = pc
           \/ pc = "comparing" /\ rest = <<>> /\ pc' = "compared"
           \/ pc = "seeding" /\ (rest = <<>> \/ Len(rows) >= limit) /\ pc' = "seeded"
    PROVE  LoopInv'
<1>1. /\ Done' = Done /\ read' = read /\ observed' = observed /\ parsed' = parsed
      /\ limit' = limit /\ rest' = rest /\ buckets' = buckets /\ rows' = rows
      /\ listed' = listed /\ steady' = steady
  BY DEF Done, registry
<1>2. \A n : BucketOf(n)' = BucketOf(n)
  BY <1>1, Zenon DEF BucketOf, FirstOf, MentionsOf
<1>3. ListInv'
  BY <1>1 DEF LoopInv, ListInv
<1>4. CompareInv'
  <2>1. ASSUME pc \in {"comparing", "compared"}, NEW n \in steady' \cap Done'
        PROVE  Kept(n, buckets[BucketOf(n)].entries, limit)'
    <3>1. Kept(n, buckets[BucketOf(n)].entries, limit)
      BY <1>1, <2>1 DEF LoopInv, CompareInv
    <3>2. BucketOf(n)' = BucketOf(n)
      BY <1>2
    <3> QED
      BY <1>1, <3>1, <3>2 DEF Kept
  <2> QED
    BY <1>1, <2>1 DEF LoopInv, CompareInv, CountsAdd
<1>5. SeedInv'
  <2>1. ASSUME pc \in {"seeding", "seeded"}, NEW i \in 1 .. Len(rows), rows[i].id \in steady'
        PROVE  (rows[i].crossRef = BucketOf(rows[i].id))'
    <3>1. PICK n \in steady' : n = rows[i].id
      BY <2>1
    <3>2. rows[i].crossRef = BucketOf(n)
      BY <1>1, <2>1, <3>1 DEF LoopInv, SeedInv
    <3>3. BucketOf(n)' = BucketOf(n)
      BY <1>2
    <3> QED
      BY <1>1, <3>1, <3>2, <3>3
  <2> QED
    BY <1>1, <2>1 DEF LoopInv, SeedInv
<1> QED
  BY <1>3, <1>4, <1>5 DEF LoopInv

LEMMA LoopStep == RegistryInv /\ LoopInv /\ [Next]_vars => LoopInv'
<1> SUFFICES ASSUME RegistryInv, LoopInv, [Next]_vars PROVE LoopInv'
  OBVIOUS
<1>1. CASE Load
  <2>1. UNCHANGED <<observed, loopVars, listed, steady>> /\ ~parsed
    BY <1>1 DEF Load, Parse, ParseEnd, ParseGroup
  <2>2. /\ UNCHANGED <<observed, pc, limit, rest, buckets, rows, listed, steady>>
        /\ pc = "idle" /\ Done' = Done
    BY <2>1 DEF loopVars, LoopInv, ListInv, Done
  <2> QED
    BY <2>2 DEF LoopInv, ListInv, CompareInv, SeedInv
<1>2. CASE \E o \in Observable : Observe(o)
  BY <1>2, LoopObserves
<1>3. CASE \E q \in Queries : CommunitySearch(q)
  <2>1. /\ UNCHANGED <<observed, limit, rest, buckets, rows, listed, steady>>
        /\ parsed /\ parsed' = parsed /\ pc = "idle" /\ pc' = "searched" /\ Done' = Done
    BY <1>3 DEF CommunitySearch, registry, Done
  <2> QED
    BY <2>1 DEF LoopInv, ListInv, CompareInv, SeedInv
<1>4. CASE \E f \in Filters, l \in Limits : Compare(f, l) \/ Seed(f, l)
  <2>1. PICK f \in Filters, l \in Limits : Compare(f, l) \/ Seed(f, l)
    BY <1>4
  <2>2. l \in Int
    BY LimitAssumption
  <2>3. CASE Compare(f, l)
    <3>1. Begin("comparing", f) /\ limit' = ParseIntDefault(l, DefaultLimit, MaxLimit)
      BY <2>3 DEF Compare
    <3>2. limit' \in 0 .. MaxLimit /\ MaxLimit \in Nat
      BY <2>2, <3>1, LimitTyped, LimitAssumption
    <3> QED
      BY <3>1, <3>2, LoopBegins
  <2>4. CASE Seed(f, l)
    <3>1. Begin("seeding", f) /\ limit' = ParseIntDefault(l, DefaultRows, MaxRows)
      BY <2>4 DEF Seed
    <3>2. limit' \in 0 .. MaxRows /\ MaxRows \in Nat
      BY <2>2, <3>1, LimitTyped, LimitAssumption
    <3> QED
      BY <3>1, <3>2, LoopBegins
  <2> QED
    BY <2>1, <2>3, <2>4
<1>5. CASE CompareNext
  <2>1. ListInv' /\ CompareInv' /\ pc' = "comparing"
    BY <1>5, CompareGoesOn DEF LoopInv, CompareNext
  <2> QED
    BY <2>1 DEF LoopInv, SeedInv
<1>6. CASE SeedNext
  <2>1. ListInv' /\ SeedInv' /\ pc' = "seeding"
    BY <1>6, SeedGoesOn DEF LoopInv, SeedNext
  <2> QED
    BY <2>1 DEF LoopInv, CompareInv
<1>7. CASE Respond
  BY <1>7, LoopStays DEF Respond
<1>8. CASE Return
  <2>1. /\ pc' = "idle" /\ limit' = 0 /\ rest' = <<>> /\ rows' = <<>> /\ buckets' = NoBuckets
        /\ listed' = {} /\ steady' = {} /\ observed' = observed
    BY <1>8 DEF Return, NoBuckets
  <2> QED
    BY <2>1 DEF LoopInv, ListInv, CompareInv, SeedInv, Done
<1>9. CASE UNCHANGED vars
  BY <1>9, LoopStays DEF vars, loopVars
<1> QED
  BY <1>1, <1>2, <1>3, <1>4, <1>5, <1>6, <1>7, <1>8, <1>9 DEF Next

LEMMA LoopInit == Init => LoopInv
<1> SUFFICES ASSUME Init PROVE LoopInv
  OBVIOUS
<1>1. /\ pc = "idle" /\ limit = 0 /\ rest = <<>> /\ rows = <<>> /\ buckets = NoBuckets
      /\ listed = {} /\ steady = {} /\ observed = <<>>
  BY DEF Init, NoBuckets
<1> QED
  BY <1>1 DEF LoopInv, ListInv, CompareInv, SeedInv, Done

(* A comparison counts every entry in one bucket; an entry that keeps its  *)
(* type is in the bucket the snapshot says, or left out of a full one; a   *)
(* seed says the same of the first entries by name.  Any snapshot, filter, *)
(* limit and number of observations.  (handlers_compare.go:47-141,         *)
(* handlers_builder.go:183-240)                                            *)
THEOREM CompareCorrect == Spec => []CompareIsRight
<1>1. LoopInv => CompareIsRight
  <2> SUFFICES ASSUME LoopInv PROVE CompareIsRight
    OBVIOUS
  <2>1. ASSUME pc = "compared"
        PROVE  /\ buckets["matched"].count + buckets["type-mismatch"].count
                    + buckets["deprecated"].count + buckets["not-in-registry"].count
                    = Cardinality(listed)
               /\ \A n \in steady :
                     LET names == buckets[BucketOf(n)].entries
                     IN  n \notin ToSet(names) =>
                             Len(names) = limit /\ \A m \in ToSet(names) : m < n
    <3>1. rest = <<>> /\ CountsAdd
      BY <2>1 DEF LoopInv, CompareInv
    <3>2. Done = listed /\ steady \subseteq listed
      BY <3>1 DEF Done, ToSet, LoopInv, ListInv
    <3>3. ASSUME NEW n \in steady
          PROVE  LET names == buckets[BucketOf(n)].entries
                 IN  n \notin ToSet(names) =>
                         Len(names) = limit /\ \A m \in ToSet(names) : m < n
      <4>1. Kept(n, buckets[BucketOf(n)].entries, limit)
        BY <2>1, <3>2 DEF LoopInv, CompareInv
      <4>2. n \in Names
        BY DEF LoopInv, ListInv
      <4>3. BucketOf(n) \in Classes
        BY Zenon DEF BucketOf, Classes
      <4>4. buckets[BucketOf(n)].entries \in Seq(Done)
        BY <2>1, <4>3 DEF LoopInv, CompareInv
      <4>5. PICK names \in Seq(Done) : names = buckets[BucketOf(n)].entries
        BY <4>4
      <4>6. DOMAIN names = 1 .. Len(names)
        OBVIOUS
      <4>7. ToSet(names) = {names[i] : i \in 1 .. Len(names)}
        BY <4>6 DEF ToSet
      <4> QED
        BY <4>1, <4>5, <4>7 DEF Kept
    <3> QED
      BY <3>1, <3>2, <3>3 DEF CountsAdd
  <2>2. ASSUME pc = "seeded"
        PROVE  /\ \A i \in DOMAIN rows :
                     rows[i].id \in steady => rows[i].crossRef = BucketOf(rows[i].id)
               /\ \A n \in listed \ {rows[i].id : i \in DOMAIN rows} :
                     Len(rows) = limit /\ \A i \in DOMAIN rows : rows[i].id < n
    <3>1. /\ rest = <<>> \/ Len(rows) >= limit
          /\ rows \in Seq([id : Done, crossRef : Classes]) /\ Len(rows) <= limit
          /\ \A m \in Done : \E i \in 1 .. Len(rows) : rows[i].id = m
          /\ \A i \in 1 .. Len(rows) :
                rows[i].id \in steady => rows[i].crossRef = BucketOf(rows[i].id)
      BY <2>2 DEF LoopInv, SeedInv
    <3>2. DOMAIN rows = 1 .. Len(rows) /\ Len(rows) \in Nat
      BY <3>1
    <3>3. \A i \in 1 .. Len(rows) : rows[i].id \in Done
      <4>1. \A i \in 1 .. Len(rows) : rows[i] \in [id : Done, crossRef : Classes]
        <5> DEFINE Q == [id : Done, crossRef : Classes]
        <5>1. rows \in Seq(Q)
          BY <3>1
        <5> HIDE DEF Q
        <5>2. \A i \in 1 .. Len(rows) : rows[i] \in Q
          BY <5>1
        <5> QED
          BY <5>2 DEF Q
      <4> QED
        BY <4>1
    <3>4. ASSUME NEW n \in listed \ {rows[i].id : i \in DOMAIN rows}
          PROVE  Len(rows) = limit /\ \A i \in DOMAIN rows : rows[i].id < n
      <4>1. n \notin Done
        BY <3>1, <3>2
      <4>2. n \in ToSet(rest)
        BY <4>1 DEF Done
      <4>3. rest \in Seq(listed) /\ DOMAIN rest = 1 .. Len(rest) /\ limit \in Nat
        BY DEF LoopInv, ListInv
      <4>4. PICK k \in 1 .. Len(rest) : n = rest[k]
        BY <4>2, <4>3 DEF ToSet
      <4>5. \A m \in Done : m < n
        BY <4>4 DEF LoopInv, ListInv
      <4>6. rest # <<>>
        BY <4>3, <4>4
      <4>7. Len(rows) = limit
        <5>1. Len(rows) >= limit /\ Len(rows) <= limit
          BY <3>1, <4>6, Zenon
        <5>2. Len(rows) \in Nat /\ limit \in Nat
          BY <3>2, <4>3
        <5> QED
          BY <5>1, <5>2
      <4>8. \A i \in DOMAIN rows : rows[i].id < n
        BY <3>2, <3>3, <4>5
      <4> QED
        BY <4>7, <4>8
    <3> QED
      BY <3>1, <3>2, <3>4
  <2> QED
    BY <2>1, <2>2, Zenon DEF CompareIsRight
<1> QED
  BY <1>1, RegistryInit, RegistryStep, LoopInit, LoopStep, PTL DEF Spec

-----------------------------------------------------------------------------
\* Searching

(* A search the handler has accepted.                                      *)
Accepted ==
    [terms : Seq(Terms), types : SUBSET ToSet(ItemTypes), stability : SUBSET STRING,
     namespace : STRING, limit : 0 .. MaxPage, offset : Nat]

SearchInv ==
    pc = "searched" =>
        /\ parsed /\ query \in Accepted
        /\ \E ranked \in Rankings(Filtered(query), query.terms) :
              result = <<Answer(query, ranked)>>

LEMMA SearchStarts ==
    ASSUME NEW q \in Queries, CommunitySearch(q)
    PROVE  SearchInv'
<1>1. /\ query' = [q EXCEPT !.limit = ParseIntDefault(@, DefaultPage, MaxPage),
                            !.offset = ParseIntDefault(@, 0, -1)]
      /\ \E answer \in Search(query') : result' = <<answer>>
      /\ parsed /\ parsed' = parsed /\ items' = items
  BY DEF CommunitySearch, registry
<1>2. query' \in Accepted
  <2>1. /\ q.terms \in Seq(Terms) /\ q.types \in SUBSET ToSet(ItemTypes)
        /\ q.stability \in SUBSET STRING /\ q.namespace \in STRING
        /\ q.limit \in Int /\ q.offset \in Int
        /\ q = [terms |-> q.terms, types |-> q.types, stability |-> q.stability,
                namespace |-> q.namespace, limit |-> q.limit, offset |-> q.offset]
    BY QueriesAssumption
  <2>2. ParseIntDefault(q.limit, DefaultPage, MaxPage) \in 0 .. MaxPage
    BY <2>1, PageAssumption, LimitTyped
  <2>3. ParseIntDefault(q.offset, 0, -1) \in Nat
    BY <2>1 DEF ParseIntDefault
  <2>4. query' = [terms |-> q.terms, types |-> q.types, stability |-> q.stability,
                  namespace |-> q.namespace,
                  limit |-> ParseIntDefault(q.limit, DefaultPage, MaxPage),
                  offset |-> ParseIntDefault(q.offset, 0, -1)]
    BY <1>1, <2>1
  <2> QED
    BY <2>1, <2>2, <2>3, <2>4 DEF Accepted
<1>3. PICK p : p = query'
  OBVIOUS
<1>4. PICK ranked \in Rankings(Filtered(p), p.terms) : result' = <<Answer(p, ranked)>>
  BY <1>1, <1>3 DEF Search
<1>5. /\ Rankings(Filtered(p), p.terms)' = Rankings(Filtered(p), p.terms)
      /\ Answer(p, ranked)' = Answer(p, ranked)
  BY <1>1 DEF Rankings, Filtered, Matching, ComesFirst, Answer, Facets
<1> QED
  BY <1>1, <1>2, <1>3, <1>4, <1>5 DEF SearchInv

LEMMA SearchStep == RegistryInv /\ LoopInv /\ SearchInv /\ [Next]_vars => SearchInv'
<1> SUFFICES ASSUME LoopInv, SearchInv, [Next]_vars PROVE SearchInv'
  OBVIOUS
<1>1. ASSUME UNCHANGED <<parsed, items, query, result, pc>> PROVE SearchInv'
  <2> SUFFICES ASSUME pc = "searched" PROVE SearchInv'
    BY <1>1 DEF SearchInv
  <2>1. PICK p : p = query
    OBVIOUS
  <2>2. PICK ranked \in Rankings(Filtered(p), p.terms) : result = <<Answer(p, ranked)>>
    BY <2>1 DEF SearchInv
  <2>3. /\ Rankings(Filtered(p), p.terms)' = Rankings(Filtered(p), p.terms)
        /\ Answer(p, ranked)' = Answer(p, ranked)
    BY <1>1 DEF Rankings, Filtered, Matching, ComesFirst, Answer, Facets
  <2> QED
    BY <1>1, <2>1, <2>2, <2>3 DEF SearchInv
<1>2. CASE Load
  <2>1. pc' = pc /\ ~parsed
    BY <1>2 DEF Load, Parse, ParseEnd, ParseGroup, loopVars
  <2> QED
    BY <2>1 DEF SearchInv
<1>3. CASE \E o \in Observable : Observe(o)
  BY <1>1, <1>3 DEF Observe, registry, loopVars
<1>4. CASE \E q \in Queries : CommunitySearch(q)
  BY <1>4, SearchStarts
<1>5. CASE \E f \in Filters, l \in Limits : Compare(f, l) \/ Seed(f, l)
  BY <1>5 DEF Compare, Seed, Begin, SearchInv
<1>6. CASE CompareNext \/ SeedNext \/ Respond \/ Return
  BY <1>6 DEF CompareNext, SeedNext, Respond, Return, SearchInv
<1>7. CASE UNCHANGED vars
  BY <1>1, <1>7 DEF vars, registry, loopVars
<1> QED
  BY <1>2, <1>3, <1>4, <1>5, <1>6, <1>7 DEF Next

(* Counting by a value is counting what has it.                            *)
LEMMA CountAt ==
    ASSUME NEW f, NEW v, v # NoText
    PROVE  At(CountBy(f), v) = Cardinality({i \in DOMAIN f : f[i] = v})
<1> DEFINE V == {f[i] : i \in DOMAIN f} \ {NoText}
           T == {i \in DOMAIN f : f[i] = v}
<1>1. CountBy(f) = [u \in V |-> Cardinality({i \in DOMAIN f : f[i] = u})]
  BY Zenon DEF CountBy, NoText
<1>2. CASE v \in V
  BY <1>1, <1>2 DEF At
<1>3. CASE v \notin V
  <2>1. T = {}
    BY <1>3
  <2>2. At(CountBy(f), v) = 0
    BY <1>1, <1>3 DEF At
  <2> QED
    BY <2>1, <2>2, FS_EmptySet
<1> QED
  BY <1>2, <1>3

LEMMA SelectedIs ==
    ASSUME NEW it, NEW q
    PROVE  Selected(it, q) <=> /\ q.types # {} => it.type \in q.types
                               /\ q.stability # {} => it.stability \in q.stability
                               /\ q.namespace # NoText => NamespaceOf[it.name] = q.namespace
BY Zenon DEF Selected, NoText

LEMMA AloneIs ==
    ASSUME NEW q \in Accepted
    PROVE  Alone(q) = [terms |-> q.terms, types |-> {}, stability |-> {}, namespace |-> NoText,
                       limit |-> q.limit, offset |-> q.offset]
<1>1. Alone(q) = [q EXCEPT !.types = {}, !.stability = {}, !.namespace = NoText]
  BY Zenon DEF Alone, NoText
<1> QED
  BY <1>1 DEF Accepted

(* The facets are the totals of the searches that select them alone.       *)
LEMMA FacetsAreTotals ==
    ASSUME NEW q \in Accepted, NEW v, v # NoText
    PROVE  LET facets == Facets(Matching(q))
               number(p) == Cardinality(Filtered(p))
           IN  /\ At(facets.type, v) = number([Alone(q) EXCEPT !.types = {v}])
               /\ At(facets.stability, v) = number([Alone(q) EXCEPT !.stability = {v}])
               /\ At(facets.namespace, v) = number([Alone(q) EXCEPT !.namespace = v])
<1> DEFINE M == Matching(q)
           byType == [Alone(q) EXCEPT !.types = {v}]
           byStability == [Alone(q) EXCEPT !.stability = {v}]
           byNamespace == [Alone(q) EXCEPT !.namespace = v]
<1>1. /\ byType.terms = q.terms /\ byType.types = {v}
      /\ byType.stability = {} /\ byType.namespace = NoText
  BY AloneIs
<1>2. /\ byStability.terms = q.terms /\ byStability.types = {}
      /\ byStability.stability = {v} /\ byStability.namespace = NoText
  BY AloneIs
<1>3. /\ byNamespace.terms = q.terms /\ byNamespace.types = {}
      /\ byNamespace.stability = {} /\ byNamespace.namespace = v
  BY AloneIs
<1> HIDE DEF byType, byStability, byNamespace
<1>4. Filtered(byType) = {i \in M : items[i].type = v}
  BY <1>1, SelectedIs DEF Filtered, Matching
<1>5. Filtered(byStability) = {i \in M : items[i].stability = v}
  BY <1>2, SelectedIs DEF Filtered, Matching
<1>6. Filtered(byNamespace) = {i \in M : NamespaceOf[items[i].name] = v}
  BY <1>3, SelectedIs DEF Filtered, Matching
<1> HIDE DEF M
<1> DEFINE f == [i \in M |-> items[i].type]
           g == [i \in M |-> items[i].stability]
           h == [i \in M |-> NamespaceOf[items[i].name]]
<1>7. /\ {i \in DOMAIN f : f[i] = v} = Filtered(byType)
      /\ {i \in DOMAIN g : g[i] = v} = Filtered(byStability)
      /\ {i \in DOMAIN h : h[i] = v} = Filtered(byNamespace)
  BY <1>4, <1>5, <1>6
<1>8. /\ Facets(M).type = CountBy(f) /\ Facets(M).stability = CountBy(g)
      /\ Facets(M).namespace = CountBy(h)
  BY DEF Facets
<1> HIDE DEF f, g, h
<1>9. /\ At(CountBy(f), v) = Cardinality(Filtered(byType))
      /\ At(CountBy(g), v) = Cardinality(Filtered(byStability))
      /\ At(CountBy(h), v) = Cardinality(Filtered(byNamespace))
  BY <1>7, CountAt
<1> QED
  BY <1>8, <1>9 DEF byType, byStability, byNamespace, M


(* Scores are numbers.                                                     *)
LEMMA ScoreIsNumber ==
    ASSUME NEW it, NEW terms \in Seq(Terms)
    PROVE  RankScore(it, terms) \in Nat
<1> DEFINE h == [am \in Nat \X Terms |-> am[1] + TermScore(it, am[2])]
           len == Len(terms)
           Step(sc, T) ==
               IF T = {} THEN 0 ELSE sc[T \ {Max(T)}] + TermScore(it, terms[Max(T)])
           Fold == CHOOSE sc : sc = [T \in SUBSET (1 .. len) |-> Step(sc, T)]
           extra == IF Len(terms) = 1 /\ it.name \in Equals[terms[1]] THEN 100 ELSE 0
<1>1. len \in Nat /\ DOMAIN terms = 1 .. len /\ \A i \in 1 .. len : terms[i] \in Terms
  OBVIOUS
<1>2. h \in [Nat \X Terms -> Nat] /\ 0 \in Nat
  <2>1. ASSUME NEW t PROVE TermScore(it, t) \in Nat
    BY DEF TermScore
  <2>2. ASSUME NEW am \in Nat \X Terms PROVE am[1] + TermScore(it, am[2]) \in Nat
    <3>1. am[1] \in Nat /\ TermScore(it, am[2]) \in Nat
      BY <2>1
    <3> QED
      BY <3>1
  <2> QED
    BY <2>2
<1> HIDE DEF h
<1>3. PICK sc \in [SUBSET (1 .. len) -> Nat] : Solves(sc, h, 0, terms, len)
  <2>1. HasSolution(Nat, h, 0, terms, len)
    BY <1>1, <1>2, FoldExists
  <2> QED
    BY <2>1 DEF HasSolution
<1>4. ASSUME NEW T \in SUBSET (1 .. len) PROVE sc[T] = Step(sc, T)
  <2>1. CASE T = {}
    BY <1>3, <2>1 DEF Solves
  <2>2. CASE T # {}
    <3>1. Max(T) \in 1 .. len
      BY <1>1, <2>2, MaxIsPlace
    <3>2. terms[Max(T)] \in Terms /\ sc[T \ {Max(T)}] \in Nat
      BY <1>1, <3>1
    <3> QED
      BY <1>3, <2>2, <3>2 DEF Solves, h
  <2> QED
    BY <2>1, <2>2
<1>5. sc = [T \in SUBSET (1 .. len) |-> Step(sc, T)]
  BY <1>4, Zenon
<1>6. Fold = [T \in SUBSET (1 .. len) |-> Step(Fold, T)]
  BY <1>5, Zenon
<1>7. RankScore(it, terms) = Fold[1 .. len] + extra
  BY <1>1 DEF RankScore, FoldLeft, MapThenFoldSet, Max
<1> HIDE DEF Fold
<1> DEFINE T0 == {n \in Nat : n <= len => Fold[1 .. n] \in Nat}
<1>8. 0 \in T0
  <2>1. 1 .. 0 = {} /\ 1 .. 0 \in SUBSET (1 .. len)
    OBVIOUS
  <2>2. Fold[1 .. 0] = 0
    BY <1>6, <2>1
  <2> QED
    BY <2>2
<1>9. ASSUME NEW n \in Nat, n \in T0 PROVE n + 1 \in T0
  <2> SUFFICES ASSUME n + 1 <= len PROVE Fold[1 .. n + 1] \in Nat
    OBVIOUS
  <2> DEFINE i == n + 1
  <2>1. i \in 1 .. len /\ i - 1 = n /\ n <= len
    BY <1>1
  <2>2. /\ 1 .. i \in SUBSET (1 .. len) /\ 1 .. i # {}
        /\ Max(1 .. i) = i /\ (1 .. i) \ {i} = 1 .. i - 1
    BY <1>1, <2>1, SolutionByPlace
  <2>3. Fold[1 .. i] = Fold[1 .. n] + TermScore(it, terms[i])
    BY <1>6, <2>1, <2>2
  <2>4. TermScore(it, terms[i]) \in Nat /\ Fold[1 .. n] \in Nat
    BY <1>9, <2>1 DEF TermScore
  <2> QED
    BY <2>3, <2>4
<1>10. Nat \subseteq T0
  <2> HIDE DEF T0
  <2> QED
    BY <1>8, <1>9, SetInduction
<1>11. Fold[1 .. len] \in Nat
  BY <1>1, <1>10
<1> QED
  BY <1>7, <1>11


(* Of two items at most one comes first.                                   *)
LEMMA RankTyped ==
    ASSUME NEW type \in ToSet(ItemTypes)
    PROVE  Rank(type) \in Nat
<1>1. DOMAIN ItemTypes = 1 .. 5 /\ \E i \in 1 .. 5 : ItemTypes[i] = type
  BY DEF ToSet, ItemTypes
<1>2. Rank(type) \in 1 .. 5
  BY <1>1 DEF Rank
<1> QED
  BY <1>2

(* Equal names are equally long.                                           *)
LEMMA NeverBoth ==
    ASSUME NEW s \in Nat, NEW t \in Nat, NEW l \in Nat, NEW m \in Nat,
           NEW u \in Nat, NEW v \in Nat, NEW k \in Nat, NEW h \in Nat,
           u = v => l = m,
           \/ s > t
           \/ s = t /\ l < m
           \/ s = t /\ l = m /\ u < v
           \/ s = t /\ u = v /\ k < h
    PROVE  ~(\/ t > s
             \/ t = s /\ m < l
             \/ t = s /\ m = l /\ v < u
             \/ t = s /\ v = u /\ h < k)
  OBVIOUS

LEMMA ComesFirstIsStrict ==
    ASSUME items \in Seq(Items), NEW terms \in Seq(Terms),
           NEW i \in 1 .. Len(items), NEW j \in 1 .. Len(items),
           ComesFirst(i, j, terms), ComesFirst(j, i, terms)
    PROVE  FALSE
<1>1. CASE terms = << >>
  BY <1>1 DEF ComesFirst
<1>2. CASE terms # << >>
  <2>1. Precedes(items[i], items[j], terms) /\ Precedes(items[j], items[i], terms)
    BY <1>2 DEF ComesFirst
  <2>2. PICK x, y : x = items[i] /\ y = items[j]
    OBVIOUS
  <2>3. x \in Items /\ y \in Items
    BY <2>2
  <2>4. RankScore(x, terms) \in Nat /\ RankScore(y, terms) \in Nat
    BY ScoreIsNumber
  <2>5. /\ LengthOf[x.name] \in Nat /\ LengthOf[y.name] \in Nat
        /\ x.name \in Nat /\ y.name \in Nat
    BY <2>3, NamesAssumption DEF Items
  <2>6. Rank(x.type) \in Nat /\ Rank(y.type) \in Nat
    BY <2>3, RankTyped DEF Items
  <2>7. x.name = y.name => LengthOf[x.name] = LengthOf[y.name]
    OBVIOUS
  <2>8. Precedes(x, y, terms) /\ Precedes(y, x, terms)
    BY <2>1, <2>2
  <2> QED
    BY <2>4, <2>5, <2>6, <2>7, <2>8, NeverBoth DEF Precedes
<1> QED
  BY <1>1, <1>2

(* As many come before a place of the ranking as the place says.           *)
LEMMA PlaceInRanking ==
    ASSUME items \in Seq(Items), NEW terms \in Seq(Terms),
           NEW S \in SUBSET (1 .. Len(items)), NEW s \in Rankings(S, terms)
    PROVE  /\ s \in Seq(S) /\ Len(s) = Cardinality(S)
           /\ \A n \in 1 .. Len(s) :
                 Cardinality({k \in S : ComesFirst(k, s[n], terms)}) = n - 1
<1>1. IsFiniteSet(S)
  <2>1. Len(items) \in Nat
    OBVIOUS
  <2>2. IsFiniteSet(1 .. Len(items))
    BY <2>1, FS_Interval
  <2> QED
    BY <2>2, FS_Subset
<1>2. s \in SetToSeqs(S) /\ \A i, j \in DOMAIN s : i < j => ComesFirst(s[i], s[j], terms)
  BY DEF Rankings
<1>3. /\ s \in Seq(S) /\ Len(s) \in Nat /\ DOMAIN s = 1 .. Len(s)
      /\ \A x \in S : \E i \in 1 .. Len(s) : s[i] = x
      /\ \A i \in 1 .. Len(s) : s[i] \in S
  <2>1. /\ s \in Seq(S) /\ Len(s) \in Nat /\ DOMAIN s = 1 .. Len(s)
        /\ \A x \in S : \E i \in 1 .. Len(s) : s[i] = x
    BY <1>1, <1>2, SetToSeqsIsPermutation
  <2>2. \A i \in 1 .. Len(s) : s[i] \in S
    BY <2>1
  <2> QED
    BY <2>1, <2>2
<1>4. Len(s) = Cardinality(S)
  <2>1. Len(s) \in 0 .. Len(s)
    BY <1>3
  <2>2. Cardinality({s[i] : i \in 1 .. Len(s)}) = Len(s)
    BY <1>1, <1>2, <2>1, PlacesCount
  <2>3. {s[i] : i \in 1 .. Len(s)} = S
    BY <1>3, Zenon
  <2> QED
    BY <2>2, <2>3
<1>5. ASSUME NEW n \in 1 .. Len(s)
      PROVE  Cardinality({k \in S : ComesFirst(k, s[n], terms)}) = n - 1
  <2>1. n - 1 \in 0 .. Len(s)
    BY <1>3
  <2>2. Cardinality({s[i] : i \in 1 .. n - 1}) = n - 1
    BY <1>1, <1>2, <2>1, PlacesCount
  <2>3. ASSUME NEW m \in 1 .. Len(s)
        PROVE  ComesFirst(s[m], s[n], terms) <=> m < n
    <3>1. CASE m < n
      BY <1>2, <1>3, <3>1
    <3>2. CASE ~(m < n)
      <4>1. m = n \/ n < m
        BY <1>3, <3>2
      <4>2. ~ComesFirst(s[m], s[n], terms)
        <5> SUFFICES ASSUME ComesFirst(s[m], s[n], terms) PROVE FALSE
          OBVIOUS
        <5>1. ComesFirst(s[n], s[m], terms)
          BY <1>2, <1>3, <4>1
        <5>2. s[n] \in 1 .. Len(items) /\ s[m] \in 1 .. Len(items)
          BY <1>3, Zenon
        <5> QED
          BY <5>1, <5>2, ComesFirstIsStrict
      <4> QED
        BY <3>2, <4>2
    <3> QED
      BY <3>1, <3>2
  <2>4. {k \in S : ComesFirst(k, s[n], terms)} = {s[i] : i \in 1 .. n - 1}
    <3>1. \A k \in S : ComesFirst(k, s[n], terms) => \E m \in 1 .. n - 1 : k = s[m]
      <4> SUFFICES ASSUME NEW k \in S, ComesFirst(k, s[n], terms)
                   PROVE  \E m \in 1 .. n - 1 : k = s[m]
        OBVIOUS
      <4>1. PICK m \in 1 .. Len(s) : s[m] = k
        BY <1>3
      <4>2. m < n
        BY <2>3, <4>1
      <4>3. m \in 1 .. n - 1
        BY <4>2
      <4> QED
        BY <4>1, <4>3
    <3>2. \A m \in 1 .. n - 1 : s[m] \in S /\ ComesFirst(s[m], s[n], terms)
      <4> SUFFICES ASSUME NEW m \in 1 .. n - 1
                   PROVE  s[m] \in S /\ ComesFirst(s[m], s[n], terms)
        OBVIOUS
      <4>1. m \in 1 .. Len(s) /\ m < n
        BY <1>3
      <4> QED
        BY <1>3, <2>3, <4>1
    <3> QED
      BY <3>1, <3>2
  <2> QED
    BY <2>2, <2>4
<1> QED
  BY <1>3, <1>4, <1>5

(* The window of a sequence is a part of it at the offset.                 *)
LEMMA WindowAt ==
    ASSUME NEW A, NEW s \in Seq(A), NEW max \in Nat, NEW offset \in Nat,
           NEW i \in DOMAIN Window(s, max, offset)
    PROVE  /\ i \in Nat /\ offset + i \in 1 .. Len(s)
           /\ Window(s, max, offset)[i] = s[offset + i]
<1> DEFINE from == IF offset < 0 THEN 0 ELSE IF offset > Len(s) THEN Len(s) ELSE offset
           size == IF max <= 0 THEN DefaultPage ELSE max
           to == IF from + size > Len(s) THEN Len(s) ELSE from + size
<1>1. Len(s) \in Nat /\ from \in 0 .. Len(s) /\ size \in Nat /\ to \in from .. Len(s)
  <2>1. Len(s) \in Nat /\ size \in Nat
    BY PageAssumption
  <2> HIDE DEF size
  <2>2. from \in 0 .. Len(s)
    BY <2>1
  <2> HIDE DEF from
  <2> QED
    BY <2>1, <2>2
<1>2. Window(s, max, offset) = SubSeq(s, from + 1, to)
  BY DEF Window
<1>3. from = offset \/ from = Len(s)
  OBVIOUS
<1> HIDE DEF from, to, size
<1>4. /\ DOMAIN SubSeq(s, from + 1, to) = 1 .. to - from
      /\ \A k \in 1 .. to - from : SubSeq(s, from + 1, to)[k] = s[from + k]
  BY <1>1
<1>5. i \in 1 .. to - from
  BY <1>2, <1>4
<1>6. from = offset
  BY <1>1, <1>3, <1>5
<1> QED
  BY <1>1, <1>2, <1>4, <1>5, <1>6

(* The numbers at a search's facets are the totals of the searches that    *)
(* select them alone, and its page is the window of the ranking, whatever  *)
(* the snapshot and the query.  (query.go:62-127)                          *)
THEOREM SearchCorrect == Spec => []SearchAgrees
<1>1. RegistryInv /\ SearchInv => SearchAgrees
  <2> SUFFICES ASSUME RegistryInv, SearchInv, pc = "searched" PROVE SearchAgrees
    BY Zenon DEF SearchAgrees
  <2> DEFINE number(q) == Cardinality(Filtered(q))
             matches == Filtered(query)
  <2>1. items \in Seq(Items) /\ query \in Accepted
    BY DEF RegistryInv, Say, SearchInv
  <2>2. PICK ranked \in Rankings(matches, query.terms) : result = <<Answer(query, ranked)>>
    BY DEF SearchInv
  <2> DEFINE answer == result[1]
             page == [i \in DOMAIN ranked |-> items[ranked[i]]]
  <2>3. /\ answer.total = Len(ranked) /\ answer.facets = Facets(Matching(query))
        /\ answer.entries = Window(page, query.limit, query.offset)
    BY <2>2 DEF Answer
  <2>4. ASSUME NEW v, v # NoText
        PROVE  /\ At(answer.facets.type, v) = number([Alone(query) EXCEPT !.types = {v}])
               /\ At(answer.facets.stability, v)
                     = number([Alone(query) EXCEPT !.stability = {v}])
               /\ At(answer.facets.namespace, v)
                     = number([Alone(query) EXCEPT !.namespace = v])
    BY <2>1, <2>3, <2>4, FacetsAreTotals
  <2>5. /\ \A t \in ToSet(ItemTypes) : t # NoText
        /\ \A v \in Stabilities \ {""} : v # NoText
        /\ \A n \in Namespaces \ {""} : n # NoText
    <3>1. \A t \in ToSet(ItemTypes) : t # NoText
      BY TypesOfItems DEF NoText
    <3>2. \A v \in Stabilities \ {""} : v # NoText
      BY Zenon DEF NoText
    <3>3. \A n \in Namespaces \ {""} : n # NoText
      BY Zenon DEF NoText
    <3> QED
      BY <3>1, <3>2, <3>3
  <2>6. /\ query.terms \in Seq(Terms) /\ query.limit \in Nat /\ query.offset \in Nat
        /\ matches \in SUBSET (1 .. Len(items))
    <3>1. query.limit \in Nat
      BY <2>1, PageAssumption DEF Accepted
    <3>2. query.terms \in Seq(Terms) /\ query.offset \in Nat
      BY <2>1 DEF Accepted
    <3>3. matches \in SUBSET (1 .. Len(items))
      BY <2>1 DEF Filtered, Matching
    <3> QED
      BY <3>1, <3>2, <3>3
  <2> HIDE DEF matches
  <2>7. /\ ranked \in Seq(matches) /\ Len(ranked) = Cardinality(matches)
        /\ \A n \in 1 .. Len(ranked) :
              Cardinality({k \in matches : ComesFirst(k, ranked[n], query.terms)}) = n - 1
    BY <2>1, <2>2, <2>6, PlaceInRanking
  <2>8. ASSUME NEW i \in DOMAIN answer.entries
        PROVE  \E j \in matches :
                  /\ items[j] = answer.entries[i]
                  /\ Cardinality({k \in matches : ComesFirst(k, j, query.terms)})
                        = query.offset + i - 1
    <3>1. page \in Seq(Items) /\ Len(page) = Len(ranked)
          /\ \A n \in 1 .. Len(ranked) : page[n] = items[ranked[n]]
      <4>1. Len(ranked) \in Nat /\ DOMAIN ranked = 1 .. Len(ranked)
        BY <2>7
      <4>2. \A n \in 1 .. Len(ranked) : items[ranked[n]] \in Items
        <5> SUFFICES ASSUME NEW n \in 1 .. Len(ranked) PROVE items[ranked[n]] \in Items
          OBVIOUS
        <5>1. ranked[n] \in matches
          BY <2>7
        <5>2. ranked[n] \in 1 .. Len(items)
          BY <2>6, <5>1
        <5> QED
          BY <2>1, <5>2
      <4> QED
        BY <4>1, <4>2
    <3> HIDE DEF page
    <3>2. i \in DOMAIN Window(page, query.limit, query.offset)
      BY <2>3
    <3>3. /\ i \in Nat /\ query.offset + i \in 1 .. Len(page)
          /\ Window(page, query.limit, query.offset)[i] = page[query.offset + i]
      BY <2>6, <3>1, <3>2, WindowAt
    <3>4. PICK n \in 1 .. Len(ranked) : n = query.offset + i
      BY <3>1, <3>3
    <3>5. ranked[n] \in matches /\ items[ranked[n]] = answer.entries[i]
      BY <2>3, <2>7, <3>1, <3>3, <3>4
    <3>6. Cardinality({k \in matches : ComesFirst(k, ranked[n], query.terms)})
             = query.offset + i - 1
      <4>1. Cardinality({k \in matches : ComesFirst(k, ranked[n], query.terms)}) = n - 1
        BY <2>7
      <4>2. (query.offset + i) - 1 = query.offset + i - 1
        BY <2>6, <3>3
      <4> QED
        BY <3>4, <4>1, <4>2, Zenon
    <3> QED
      BY <3>5, <3>6
  <2> HIDE DEF answer
  <2>9. answer.total = Cardinality(matches)
    BY <2>3, <2>7
  <2>10. /\ \A t \in ToSet(ItemTypes) :
               At(answer.facets.type, t) = number([Alone(query) EXCEPT !.types = {t}])
         /\ \A v \in Stabilities \ {""} :
               At(answer.facets.stability, v)
                   = number([Alone(query) EXCEPT !.stability = {v}])
         /\ \A n \in Namespaces \ {""} :
               At(answer.facets.namespace, n)
                   = number([Alone(query) EXCEPT !.namespace = n])
    BY <2>4, <2>5, Zenon
  <2> QED
    BY <2>8, <2>9, <2>10, Zenon DEF SearchAgrees, matches, answer
<1>2. Init => SearchInv
  BY DEF Init, SearchInv
<1> QED
  BY <1>1, <1>2, RegistryInit, RegistryStep, LoopInit, LoopStep, SearchStep, PTL DEF Spec
=============================================================================
