----------------------------- MODULE Extraction -----------------------------
(***************************************************************************)
(* internal/analysis/extractor.go and processTask in worker_pool.go: what  *)
(* a worker makes of one payload, and what several workers together leave  *)
(* in the dictionary and the cardinality tracker.                          *)
(*                                                                         *)
(* A payload is a tree: resources, scopes, items (metrics with data points,*)
(* spans, log records), with an attribute map at each level.  A worker     *)
(* walks it once, then upserts one entry per name and tracks one value     *)
(* after the other while other workers do the same.  The budgets of both   *)
(* stores are left to Dictionary and CardinalityTracker.                   *)
(***************************************************************************)
EXTENDS Naturals, Bags, SequencesExt

CONSTANTS
    Workers,
    Payloads,       \* [signal, resources], see MCExtraction
    Unreadable,     \* a payload that does not unmarshal
    MaxTasks        \* bound of the model: payloads taken

MetricType ==
    [gauge |-> "gauge", sum |-> "counter", histogram |-> "histogram",
     summary |-> "summary", exponential |-> "exponential_histogram",
     none |-> "unknown"]

(* A payload is what protobuf decodes.                                     *)
KeyValue == [key : STRING, type : STRING, text : STRING]
Item(signal) ==
    IF signal = "metric"
    THEN [name : STRING, kind : DOMAIN MetricType, points : Seq(Seq(KeyValue))]
    ELSE [points : Seq(Seq(KeyValue))]
Scope(signal) == [attrs : Seq(KeyValue), items : Seq(Item(signal))]
Resource(signal) == [attrs : Seq(KeyValue), scopes : Seq(Scope(signal))]

ASSUME PayloadAssumption ==
    \A p \in Payloads :
        \E signal \in {"metric", "trace", "log"} :
            p \in [signal : {signal}, resources : Seq(Resource(signal))]
ASSUME WorkersAssumption == IsFiniteSet(Workers)

VARIABLES
    dict,       \* name -> [type, signals]
    tracked,    \* bag of <<name, value>>: the calls of TrackValue
    busy,       \* per worker: the entries and values it has still to pass on
    taken       \* history: the payloads, in the order they were taken

vars == <<dict, tracked, busy, taken>>

-----------------------------------------------------------------------------
(* The walk.                                                               *)

(* valueToStr renders scalars; of anything else it leaves nothing.         *)
Scalars == {"string", "int", "double", "bool"}
Text(v) == IF v.type \in Scalars THEN v.text ELSE ""

Collect(map) ==
    [i \in DOMAIN map |->
        [name |-> map[i].key, type |-> map[i].type, value |-> Text(map[i])]]

(* Only a metric is a name of its own; one without data has no data points.*)
Points(signal, item) ==
    IF signal = "metric" /\ item.kind = "none" THEN << >> ELSE item.points
Heading(signal, item) ==
    IF signal # "metric" THEN << >>
    ELSE <<[name |-> item.name, type |-> MetricType[item.kind], value |-> ""]>>

ItemMentions(signal, item) ==
    Heading(signal, item)
        \o FlattenSeq([p \in DOMAIN Points(signal, item) |-> Collect(item.points[p])])
ScopeMentions(signal, scope) ==
    Collect(scope.attrs)
        \o FlattenSeq([k \in DOMAIN scope.items |-> ItemMentions(signal, scope.items[k])])
ResourceMentions(signal, resource) ==
    Collect(resource.attrs)
        \o FlattenSeq([j \in DOMAIN resource.scopes |->
                        ScopeMentions(signal, resource.scopes[j])])
Mentions(payload) ==
    FlattenSeq([i \in DOMAIN payload.resources |->
                    ResourceMentions(payload.signal, payload.resources[i])])

-----------------------------------------------------------------------------
(* Two rounds of deduplication: by name and value while walking (whatever  *)
(* the type), then by name, the first mention staying.                     *)

SameValue_Name(a, b) == a.name = b.name
SameValue(a, b) == a.name = b.name /\ a.value = b.value
AddValue(all, mention) ==
    IF \E i \in DOMAIN all : SameValue(all[i], mention) THEN all
    ELSE Append(all, mention)
AllAttrs(payload) == FoldLeft(AddValue, << >>, Mentions(payload))

AddName_LastWins(found, attr) ==
    SelectSeq(found, LAMBDA a : a.name # attr.name) \o <<attr>>
AddName(found, attr) ==
    IF \E i \in DOMAIN found : found[i].name = attr.name THEN found
    ELSE Append(found, attr)
DedupByName(attrs) == FoldLeft(AddName, << >>, attrs)

(* ExtractFromData's result, for every payload.                            *)
ExtractionResult ==
    [p \in Payloads |->
        [signal |-> p.signal,
         entries |-> DedupByName(AllAttrs(p)),
         values |-> AllAttrs(p)]]

-----------------------------------------------------------------------------

Idle == [signal |-> "", entries |-> << >>, values |-> << >>]

Init ==
    /\ dict = [n \in {} |-> 0]
    /\ tracked = EmptyBag
    /\ busy = [w \in Workers |-> Idle]
    /\ taken = << >>

(* ExtractFromData; a payload that cannot be read is dropped with a warning. *)
Extract(w) ==
    /\ busy[w] = Idle /\ Len(taken) < MaxTasks
    /\ \E p \in Payloads \union {Unreadable} :
        /\ taken' = Append(taken, p)
        /\ busy' = IF p = Unreadable THEN busy
                   ELSE [busy EXCEPT ![w] = ExtractionResult[p]]
    /\ UNCHANGED <<dict, tracked>>

(* ToDictionaryEntries and Upsert of the next entry: the type is replaced, *)
(* the signal added.                                                       *)
Signals(n) == IF n \in DOMAIN dict THEN dict[n].signals ELSE {}
Upsert(w) ==
    /\ busy[w].entries # << >>
    /\ LET entry == Head(busy[w].entries) IN
        dict' = [n \in DOMAIN dict \union {entry.name} |->
                    IF n # entry.name THEN dict[n]
                    ELSE [type |-> entry.type,
                          signals |-> Signals(n) \union {busy[w].signal}]]
    /\ busy' = [busy EXCEPT ![w].entries = Tail(@)]
    /\ UNCHANGED <<tracked, taken>>

(* The loop over CardinalityAttrs, after the one over the entries, passes  *)
(* on all that has a value.                                                *)
Track(w) ==
    /\ busy[w].entries = << >> /\ busy[w].values # << >>
    /\ LET attr == Head(busy[w].values) IN
        tracked' = IF attr.value = "" THEN tracked
                   ELSE tracked (+) SetToBag({<<attr.name, attr.value>>})
    /\ busy' = [busy EXCEPT ![w].values = Tail(@)]
    /\ UNCHANGED <<dict, taken>>

(* processTask returns.                                                    *)
Finish(w) ==
    /\ busy[w] # Idle /\ busy[w].entries = << >> /\ busy[w].values = << >>
    /\ busy' = [busy EXCEPT ![w] = Idle]
    /\ UNCHANGED <<dict, tracked, taken>>

Next == \E w \in Workers : Extract(w) \/ Upsert(w) \/ Track(w) \/ Finish(w)

Spec == Init /\ [][Next]_vars

-----------------------------------------------------------------------------
(* Reference: what the payloads taken so far say.                          *)

SaidBy == [p \in Payloads |-> Mentions(p)]
Said(i) == IF taken[i] = Unreadable THEN << >> ELSE SaidBy[taken[i]]
NamesIn(i) == {Said(i)[k].name : k \in DOMAIN Said(i)}
ValuesIn(i) ==
    {<<Said(i)[k].name, Said(i)[k].value>> :
        k \in {k \in DOMAIN Said(i) : Said(i)[k].value # ""}}
FirstType(i, n) ==
    Said(i)[CHOOSE k \in DOMAIN Said(i) :
                /\ Said(i)[k].name = n
                /\ \A j \in 1..(k - 1) : Said(i)[j].name # n].type
Mentioning(n) == {i \in DOMAIN taken : n \in NamesIn(i)}
AllIdle == \A w \in Workers : busy[w] = Idle

(* Whatever the workers' order, the dictionary gives a name the type of its*)
(* first mention in some payload, as an attribute or as a metric, and only *)
(* signals that carried it; when the workers rest it misses no name and no *)
(* signal, although a metric is skipped when its name was met before with  *)
(* an empty value. (extractor.go:79-91, 195-211, 266-291)                  *)
DictionaryIsWhatWasSaid ==
    /\ \A n \in DOMAIN dict :
        /\ \E i \in Mentioning(n) : dict[n].type = FirstType(i, n)
        /\ dict[n].signals \subseteq {taken[i].signal : i \in Mentioning(n)}
    /\ AllIdle =>
        /\ DOMAIN dict = UNION {NamesIn(i) : i \in DOMAIN taken}
        /\ \A n \in DOMAIN dict :
            dict[n].signals = {taken[i].signal : i \in Mentioning(n)}

(* The tracker counts payloads, not occurrences: each value of a name once *)
(* for every payload that has it, wherever and under whatever types it     *)
(* appears in it, and none that renders as nothing.                        *)
(* (extractor.go:195-211, worker_pool.go:102-108)                          *)
Owed(pair) ==
    Cardinality({w \in Workers : \E k \in DOMAIN busy[w].values :
        <<busy[w].values[k].name, busy[w].values[k].value>> = pair})
Passed(pair) == IF BagIn(pair, tracked) THEN tracked[pair] ELSE 0
ValuesOncePerPayload ==
    \A pair \in BagToSet(tracked) \union UNION {ValuesIn(i) : i \in DOMAIN taken} :
        Passed(pair) + Owed(pair)
            = Cardinality({i \in DOMAIN taken : pair \in ValuesIn(i)})
=============================================================================
