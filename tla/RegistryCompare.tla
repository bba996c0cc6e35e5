-------------------------- MODULE RegistryCompare --------------------------
(***************************************************************************)
(* The endpoints over the registry: searching it (handlers_semconv.go) and *)
(* comparing the dictionary with it (handlers_compare.go), while workers   *)
(* go on observing attributes.                                             *)
(*                                                                         *)
(* The comparison works on the entries themselves, not on copies of them:  *)
(* the type it classifies by is the one at the moment it gets to the entry.*)
(***************************************************************************)
EXTENDS SemconvRegistry

CONSTANTS
    Observable,             \* what the dictionary may see: [name, type]
    Queries,                \* searches, as the handler passes them on
    Filters,                \* what q lets through: sets of names
    Limits,                 \* what limit may say; -1: nothing readable
    DefaultLimit, MaxLimit, \* of a comparison: 200 and 1000
    DefaultRows, MaxRows,   \* of a seed: 500 and 2000
    MaxObserved             \* bound of the model: observations

(* The types the extractor gives to values, and to metrics as names.        *)
WireTypes ==
    {"string", "int", "double", "bool", "map", "slice", "bytes", "unknown",
     "gauge", "counter", "histogram", "summary", "exponential_histogram"}

ASSUME ObservableAssumption == Observable \subseteq [name : Names, type : WireTypes]
ASSUME LimitAssumption ==
    /\ Limits \subseteq Int
    /\ DefaultLimit \in 0 .. MaxLimit /\ MaxLimit \in Nat
    /\ DefaultRows \in 0 .. MaxRows /\ MaxRows \in Nat
ASSUME QueriesAssumption ==
    Queries \subseteq [terms : Seq(Terms), types : SUBSET ToSet(ItemTypes),
                      stability : SUBSET STRING, namespace : STRING, limit : Int, offset : Int]

VARIABLES
    observed,   \* the dictionary: name -> type last seen
    pc,         \* of the request: "idle", at work, or answered
    query,      \* the search that was answered, and its answer
    result,
    limit,      \* the limit of the comparison or the seed
    rest,       \* the entries it has not got to, in name order
    buckets,    \* of a comparison: class -> the number counted, the names returned
    rows,       \* of a seed: the rows returned
    seen,       \* history: observations made
    listed,     \* history: the entries that were listed for it
    steady      \* history: those whose type has not changed since

loopVars == <<pc, limit, rest, buckets, rows>>
vars == <<registry, observed, query, result, loopVars, seen, listed, steady>>

Classes == {"matched", "type-mismatch", "deprecated", "not-in-registry"}
NoQuery == [terms |-> <<>>, types |-> {}, stability |-> {}, namespace |-> "",
            limit |-> 0, offset |-> 0]

-----------------------------------------------------------------------------
(* Classifying.                                                             *)

(* Arrays go by the type of their elements.                                 *)
ScalarLabels ==
    [string |-> {"string", "string[]", "enum", "enum[]"},
     int |-> {"int", "int[]"}, double |-> {"double", "double[]"},
     bool |-> {"bool", "bool[]", "boolean", "boolean[]"}]
CanonicalScalar(t) ==
    IF \E s \in DOMAIN ScalarLabels : t \in ScalarLabels[s]
    THEN CHOOSE s \in DOMAIN ScalarLabels : t \in ScalarLabels[s] ELSE ""

TypesConflict(telemetry, declared) ==
    LET t == CanonicalScalar(telemetry) r == CanonicalScalar(declared)
    IN  t # "" /\ r # "" /\ t # r

ClassifyAttribute_TypeFirst(n) ==
    LET item == Get(<<"attribute", n>>)
    IN  IF ~Has(<<"attribute", n>>) THEN "not-in-registry"
        ELSE IF TypesConflict(observed[n], item.valueType) THEN "type-mismatch"
        ELSE IF item.deprecated # "" THEN "deprecated" ELSE "matched"
ClassifyAttribute(n) ==
    LET item == Get(<<"attribute", n>>)
    IN  IF ~Has(<<"attribute", n>>) THEN "not-in-registry"
        ELSE IF item.deprecated # "" THEN "deprecated"
        ELSE IF TypesConflict(observed[n], item.valueType) THEN "type-mismatch"
        ELSE "matched"

-----------------------------------------------------------------------------
Init ==
    /\ ParseInit
    /\ observed = <<>>
    /\ query = NoQuery /\ result = <<>>
    /\ pc = "idle" /\ limit = 0 /\ rest = <<>>
    /\ buckets = [c \in Classes |-> [count |-> 0, entries |-> <<>>]]
    /\ rows = <<>>
    /\ seen = 0 /\ listed = {} /\ steady = {}

(* Load runs before anything is served.                                     *)
Load ==
    /\ Parse
    /\ UNCHANGED <<observed, query, result, loopVars, seen, listed, steady>>

(* A worker upserts an attribute: the type last seen wins.                  *)
Observe(o) ==
    /\ parsed /\ seen < MaxObserved
    /\ observed' = [n \in DOMAIN observed \union {o.name} |->
                        IF n = o.name THEN o.type ELSE observed[n]]
    /\ steady' = IF o.name \in DOMAIN observed /\ observed[o.name] = o.type
                 THEN steady ELSE steady \ {o.name}
    /\ seen' = seen + 1
    /\ UNCHANGED <<registry, query, result, loopVars, listed>>

(* handleCommunitySearch.                                                   *)
CommunitySearch(q) ==
    /\ parsed /\ pc = "idle"
    /\ query' = [q EXCEPT !.limit = ParseIntDefault(@, DefaultPage, MaxPage),
                          !.offset = ParseIntDefault(@, 0, -1)]
    /\ \E answer \in Search(query') : result' = <<answer>>
    /\ pc' = "searched"
    /\ UNCHANGED <<registry, observed, limit, rest, buckets, rows, seen, listed, steady>>

(* Both loops begin by listing the entries, sorted by name.                *)
ByName(S) == {s \in SetToSeqs(S) : \A i, j \in DOMAIN s : i < j => s[i] < s[j]}
Begin(loop, f) ==
    /\ parsed /\ pc = "idle"
    /\ pc' = loop
    /\ listed' = DOMAIN observed \cap f
    /\ steady' = listed'
    /\ rest' \in ByName(listed')
    /\ UNCHANGED <<registry, observed, query, result, buckets, rows, seen>>

(* handleCompare: its loop counts every entry and returns those that find   *)
(* room in their bucket.                                                    *)
Compare(f, l) ==
    /\ Begin("comparing", f)
    /\ limit' = ParseIntDefault(l, DefaultLimit, MaxLimit)

Counted(b, n) ==
    [count |-> b.count + 1,
     entries |-> IF Len(b.entries) < limit THEN Append(b.entries, n) ELSE b.entries]

CompareNext ==
    /\ pc = "comparing" /\ rest # <<>>
    /\ buckets' = [buckets EXCEPT ![ClassifyAttribute(Head(rest))] = Counted(@, Head(rest))]
    /\ rest' = Tail(rest)
    /\ UNCHANGED <<registry, observed, query, result, pc, limit, rows, seen, listed, steady>>

(* handleBuilderSeed: its loop breaks off when there are enough rows.       *)
Seed(f, l) ==
    /\ Begin("seeding", f)
    /\ limit' = ParseIntDefault(l, DefaultRows, MaxRows)

SeedNext ==
    /\ pc = "seeding" /\ rest # <<>> /\ Len(rows) < limit
    /\ rows' = Append(rows, [id |-> Head(rest), crossRef |-> ClassifyAttribute(Head(rest))])
    /\ rest' = Tail(rest)
    /\ UNCHANGED <<registry, observed, query, result, pc, limit, buckets, seen, listed,
                   steady>>

Respond ==
    /\ \/ pc = "comparing" /\ rest = <<>> /\ pc' = "compared"
       \/ pc = "seeding" /\ (rest = <<>> \/ Len(rows) >= limit) /\ pc' = "seeded"
    /\ UNCHANGED <<registry, observed, query, result, limit, rest, buckets, rows, seen,
                   listed, steady>>

(* The handler's variables are gone when it has answered.                   *)
Return ==
    /\ pc \in {"searched", "compared", "seeded"}
    /\ query' = NoQuery /\ result' = <<>>
    /\ pc' = "idle" /\ limit' = 0 /\ rest' = <<>> /\ rows' = <<>>
    /\ buckets' = [c \in Classes |-> [count |-> 0, entries |-> <<>>]]
    /\ listed' = {} /\ steady' = {}
    /\ UNCHANGED <<registry, observed, seen>>

Next ==
    \/ Load
    \/ \E o \in Observable : Observe(o)
    \/ \E q \in Queries : CommunitySearch(q)
    \/ \E f \in Filters, l \in Limits : Compare(f, l) \/ Seed(f, l)
    \/ CompareNext \/ SeedNext \/ Respond \/ Return

Spec == Init /\ [][Next]_vars

-----------------------------------------------------------------------------
(* The state has its types; no bucket and no seed returns more than asked   *)
(* for, and no limit exceeds its maximum.                                   *)
TypeOK ==
    /\ parsed \in BOOLEAN
    /\ \A i \in DOMAIN items : items[i].name \in Names /\ Rank(items[i].type) \in 1 .. 5
    /\ \A k \in DOMAIN byKey : byKey[k] \in DOMAIN items
    /\ \A n \in DOMAIN observed : [name |-> n, type |-> observed[n]] \in Observable
    /\ query.limit \in 0 .. MaxPage /\ query.offset \in Nat /\ Len(result) <= 1
    /\ pc \in {"idle", "searched", "comparing", "compared", "seeding", "seeded"}
    /\ limit \in 0 .. (IF pc \in {"seeding", "seeded"} THEN MaxRows ELSE MaxLimit)
    /\ ToSet(rest) \subseteq listed /\ steady \subseteq listed
    /\ \A c \in Classes : buckets[c].count \in Nat /\ Len(buckets[c].entries) <= limit
    /\ Len(rows) <= limit

(* What a field of an attribute is by all of its mentions in the snapshot: *)
(* the first that is not empty.                                            *)
MentionsOf(n) == {i \in DOMAIN read : read[i].name = n}
FirstOf(n, field) ==
    LET given == {i \in MentionsOf(n) : read[i][field] # ""}
    IN  IF given = {} THEN "" ELSE read[Min(given)][field]

(* Looking an attribute up by its key finds it if and only if some group    *)
(* mentions it, and finds every field as the first definition that has it   *)
(* gives it, in whatever order groups mention it and sorting leaves it.     *)
LookupFindsFirst ==
    parsed => \A n \in Names :
        /\ Has(<<"attribute", n>>) <=> MentionsOf(n) # {}
        /\ Has(<<"attribute", n>>) =>
              LET it == Get(<<"attribute", n>>)
              IN  /\ Key(it) = <<"attribute", n>>
                  /\ it.brief = FirstOf(n, "brief")
                  /\ it.stability = FirstOf(n, "stability")
                  /\ it.deprecated = FirstOf(n, "deprecated")
                  /\ it.valueType = ValueType(FirstOf(n, "type"))

(* A search keeps its promises: the number at each facet is the total of the*)
(* search that selects that facet alone, and the page is the window of the  *)
(* ranking at the offset: as many matches precede an entry as its place     *)
(* says.                                                                    *)
At(counts, v) == IF v \in DOMAIN counts THEN counts[v] ELSE 0
Alone(q) == [q EXCEPT !.types = {}, !.stability = {}, !.namespace = ""]
Stabilities == {items[i].stability : i \in DOMAIN items}
Namespaces == {NamespaceOf[n] : n \in Names}

SearchAgrees ==
    pc = "searched" =>
        LET answer == result[1]
            matches == Filtered(query)
            number(q) == Cardinality(Filtered(q))
        IN  /\ \A t \in ToSet(ItemTypes) :
                  At(answer.facets.type, t) = number([Alone(query) EXCEPT !.types = {t}])
            /\ \A v \in Stabilities \ {""} :
                  At(answer.facets.stability, v)
                      = number([Alone(query) EXCEPT !.stability = {v}])
            /\ \A n \in Namespaces \ {""} :
                  At(answer.facets.namespace, n)
                      = number([Alone(query) EXCEPT !.namespace = n])
            /\ answer.total = Cardinality(matches)
            /\ \A i \in DOMAIN answer.entries : \E j \in matches :
                  /\ items[j] = answer.entries[i]
                  /\ Cardinality({k \in matches : ComesFirst(k, j, query.terms)})
                        = query.offset + i - 1

(* What a value of a declared type, or an element of it, is on the wire; a  *)
(* value whose type is scalar contradicts any other.                        *)
ScalarsOnTheWire == {"string", "int", "double", "bool"}
OnTheWire(declared) ==
    CASE declared \in {"bool", "bool[]", "boolean", "boolean[]"} -> "bool"
      [] declared \in {"int", "int[]"} -> "int"
      [] declared \in {"double", "double[]"} -> "double"
      [] declared \in {"string", "string[]", "enum", "enum[]"} -> "string"
      [] OTHER -> "anything"
Contradicts(type, declared) ==
    type \in ScalarsOnTheWire /\ OnTheWire(declared) \notin {type, "anything"}

(* The bucket of an attribute by the snapshot itself: deprecated if any of  *)
(* its definitions says so, mismatched if what is observed contradicts them.*)
BucketOf(n) ==
    IF MentionsOf(n) = {} THEN "not-in-registry"
    ELSE IF FirstOf(n, "deprecated") # "" THEN "deprecated"
    ELSE IF Contradicts(observed[n], ValueType(FirstOf(n, "type"))) THEN "type-mismatch"
    ELSE "matched"

(* A comparison counts every entry it lists in one bucket, whatever the     *)
(* limit; an entry whose type does not change meanwhile is in the bucket the*)
(* snapshot says, and is left out of the answer only when the bucket is full*)
(* of names before it.  A seed says the same of the first entries by name.  *)
CompareIsRight ==
    /\ pc = "compared" =>
          /\ buckets["matched"].count + buckets["type-mismatch"].count
                + buckets["deprecated"].count + buckets["not-in-registry"].count
                = Cardinality(listed)
          /\ \A n \in steady :
                LET names == buckets[BucketOf(n)].entries
                IN  n \notin ToSet(names) =>
                        Len(names) = limit /\ \A m \in ToSet(names) : m < n
    /\ pc = "seeded" =>
          /\ \A i \in DOMAIN rows :
                rows[i].id \in steady => rows[i].crossRef = BucketOf(rows[i].id)
          /\ \A n \in listed \ {rows[i].id : i \in DOMAIN rows} :
                Len(rows) = limit /\ \A i \in DOMAIN rows : rows[i].id < n

=============================================================================
