-------------------------- MODULE SemconvRegistry --------------------------
(***************************************************************************)
(* internal/semconv: the snapshot of the official registry is parsed once, *)
(* group after group, into items (registry.go), which the community        *)
(* endpoint searches by text and facets (query.go).                        *)
(*                                                                         *)
(* A name stands for its place in the order of names.  What a term matches *)
(* is given by constants; a text is a member of a small set, "" when it is *)
(* absent.  Notes and examples are backfilled like briefs and left out.    *)
(***************************************************************************)
EXTENDS Integers, SequencesExt, FiniteSetsExt

CONSTANTS
    Names,              \* of attributes, metrics and spans, as numbers in name order
    NamespaceOf,        \* name -> the segment before its first dot
    LengthOf,           \* name -> number of bytes
    Groups,             \* the groups a snapshot may hold
    MaxMentions,        \* bound of the model: mentions of attributes in the snapshot
    Terms,              \* search terms, in lower case
    Equals, Begins, InName,   \* term -> the names it equals, begins, occurs in
    InBrief,            \* term -> the briefs it occurs in
    DefaultPage, MaxPage        \* 50 and 1000

(* Item types in the order of their labels; groups of type "attribute_group"*)
(* have no item of their own.                                              *)
ItemTypes == <<"attribute", "entity", "event", "metric", "span">>

Mentions ==
    [name : Names, brief : STRING, type : STRING, stability : STRING,
     deprecated : STRING, requirement : STRING]

ASSUME NamesAssumption ==
    Names \subseteq Nat /\ IsFiniteSet(Names) /\ LengthOf \in [Names -> Nat]
ASSUME GroupsAssumption ==
    Groups \subseteq [type : {"attribute_group", "entity", "event", "metric", "span"},
                     name : Names, brief : STRING, stability : STRING,
                     deprecated : STRING, attributes : Seq(Mentions)]
ASSUME PageAssumption == DefaultPage \in 1 .. MaxPage /\ MaxPage \in Nat

VARIABLES
    parsed,     \* has Load returned?
    items,      \* Registry.items
    byKey,      \* Registry.byKey
    read        \* history: the mentions of attributes read, in order

registry == <<parsed, items, byKey, read>>

(* The key is the type and the name.                                        *)
Key(it) == <<it.type, it.name>>
Rank(type) == CHOOSE i \in DOMAIN ItemTypes : ItemTypes[i] = type

-----------------------------------------------------------------------------
(* Parsing.                                                                 *)

(* A type is a label or an object with members; Go refuses members whose    *)
(* values are not strings, and the item has none then.                      *)
ValueType(raw) == IF raw \in {"enum of strings", "enum of ints"} THEN "enum" ELSE raw
Members(raw) == raw = "enum of strings"

AttributeItem(a) ==
    [type |-> "attribute", name |-> a.name, brief |-> a.brief, stability |-> a.stability,
     deprecated |-> a.deprecated, valueType |-> ValueType(a.type),
     enum |-> Members(a.type), requirement |-> a.requirement]

SignalItem(g) ==
    [type |-> g.type, name |-> g.name, brief |-> g.brief, stability |-> g.stability,
     deprecated |-> g.deprecated, valueType |-> "", enum |-> FALSE, requirement |-> ""]

Or(x, y) == IF x = "" THEN y ELSE x

Backfill(dst, src) ==
    [dst EXCEPT !.brief = Or(@, src.brief), !.stability = Or(@, src.stability),
                !.deprecated = Or(@, src.deprecated), !.valueType = Or(@, src.valueType)]

(* The first mention of an attribute makes its item, the later ones         *)
(* backfill it.                                                             *)
AddAttribute(its, a) ==
    LET item == AttributeItem(a)
        seen == {i \in DOMAIN its : Key(its[i]) = Key(item)}
    IN  IF seen = {} THEN Append(its, item)
        ELSE [i \in DOMAIN its |-> IF i \in seen THEN Backfill(its[i], item) ELSE its[i]]

AddGroup(its, g) ==
    FoldLeft(AddAttribute, IF g.type = "attribute_group" THEN its
                           ELSE Append(its, SignalItem(g)), g.attributes)

Before(x, y) == Rank(x.type) < Rank(y.type) \/ (x.type = y.type /\ x.name < y.name)
Index(its) ==
    [k \in {Key(its[i]) : i \in DOMAIN its} |-> CHOOSE i \in DOMAIN its : Key(its[i]) = k]

ParseInit == parsed = FALSE /\ items = <<>> /\ byKey = <<>> /\ read = <<>>

(* The loop of parse reads the next group of the snapshot; no two groups of *)
(* a snapshot describe the same signal.                                     *)
ParseGroup(g) ==
    /\ ~parsed /\ Len(read) + Len(g.attributes) <= MaxMentions
    /\ \A i \in DOMAIN items : Key(items[i]) # <<g.type, g.name>>
    /\ items' = AddGroup(items, g)
    /\ read' = read \o g.attributes
    /\ UNCHANGED <<parsed, byKey>>

(* Behind the loop the items are sorted and indexed.                       *)
InOrder(S) == {s \in SetToSeqs(S) : \A i, j \in DOMAIN s : i < j => Before(s[i], s[j])}

ParseEnd_IndexFirst ==
    /\ ~parsed
    /\ items' \in InOrder(ToSet(items))
    /\ byKey' = Index(items)
    /\ parsed' = TRUE
    /\ UNCHANGED read
ParseEnd ==
    /\ ~parsed
    /\ items' \in InOrder(ToSet(items))
    /\ byKey' = Index(items')
    /\ parsed' = TRUE
    /\ UNCHANGED read

Parse == ParseEnd \/ \E g \in Groups : ParseGroup(g)

Has(key) == key \in DOMAIN byKey
Get(key) == items[byKey[key]]

-----------------------------------------------------------------------------
(* Searching.  A query is what the handler has parsed: terms, the selected  *)
(* types, stabilities and namespace, limit and offset.                      *)

(* Absent, unreadable and negative numbers are -1 here.                     *)
ParseIntDefault(n, default, max) ==
    IF n < 0 THEN default ELSE IF max >= 0 /\ n > max THEN max ELSE n

MatchesTerms(it, terms) ==
    \A i \in DOMAIN terms : it.name \in InName[terms[i]] \/ it.brief \in InBrief[terms[i]]

Selected(it, q) ==
    /\ q.types # {} => it.type \in q.types
    /\ q.stability # {} => it.stability \in q.stability
    /\ q.namespace # "" => NamespaceOf[it.name] = q.namespace

TermScore(it, t) ==
    IF it.name \in InName[t] THEN IF it.name \in Begins[t] THEN 15 ELSE 10 ELSE 2

RankScore(it, terms) ==
    LET Add(score, t) == score + TermScore(it, t)
    IN  FoldLeft(Add, 0, terms)
            + (IF Len(terms) = 1 /\ it.name \in Equals[terms[1]] THEN 100 ELSE 0)

(* By score, then the shorter name, then the name; SliceStable leaves items*)
(* of one name in the order of types.                                      *)
Precedes(x, y, terms) ==
    LET sx == RankScore(x, terms) sy == RankScore(y, terms)
        lx == LengthOf[x.name] ly == LengthOf[y.name]
    IN  \/ sx > sy
        \/ sx = sy /\ lx < ly
        \/ sx = sy /\ lx = ly /\ x.name < y.name
        \/ sx = sy /\ x.name = y.name /\ Rank(x.type) < Rank(y.type)

(* What follows is about items by their places: those that match the text, *)
(* those of them that are selected, and the orders they may be ranked in.  *)
Matching(q) == {i \in DOMAIN items : MatchesTerms(items[i], q.terms)}
Filtered(q) == {i \in Matching(q) : Selected(items[i], q)}

ComesFirst(i, j, terms) ==
    IF terms = <<>> THEN i < j ELSE Precedes(items[i], items[j], terms)
Rankings(S, terms) ==
    {s \in SetToSeqs(S) : \A i, j \in DOMAIN s : i < j => ComesFirst(s[i], s[j], terms)}

CountBy(f) ==
    [v \in {f[i] : i \in DOMAIN f} \ {""} |-> Cardinality({i \in DOMAIN f : f[i] = v})]
Facets(S) ==
    [type |-> CountBy([i \in S |-> items[i].type]),
     stability |-> CountBy([i \in S |-> items[i].stability]),
     namespace |-> CountBy([i \in S |-> NamespaceOf[items[i].name]])]

Window(s, limit, offset) ==
    LET from == IF offset < 0 THEN 0 ELSE IF offset > Len(s) THEN Len(s) ELSE offset
        size == IF limit <= 0 THEN DefaultPage ELSE limit
    IN  SubSeq(s, from + 1, IF from + size > Len(s) THEN Len(s) ELSE from + size)

(* The facets count the text matches, before the selections narrow them.   *)
Answer_FacetsNarrowed(q, ranked) ==
    [total |-> Len(ranked), facets |-> Facets(Filtered(q)),
     entries |-> Window([i \in DOMAIN ranked |-> items[ranked[i]]], q.limit, q.offset)]
Answer(q, ranked) ==
    [total |-> Len(ranked), facets |-> Facets(Matching(q)),
     entries |-> Window([i \in DOMAIN ranked |-> items[ranked[i]]], q.limit, q.offset)]
Search(q) == {Answer(q, ranked) : ranked \in Rankings(Filtered(q), q.terms)}
=============================================================================
