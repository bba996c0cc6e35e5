------------------------- MODULE DictionaryListing -------------------------
(***************************************************************************)
(* GET /api/v1/dictionary (internal/api/handlers.go) over Dictionary.List, *)
(* while the workers add entries and the sweeper purges them.  List copies *)
(* one shard after the other, each under its own lock; filtering, sorting  *)
(* and cutting out the page happen on the copy.  A client that reads page  *)
(* after page has each of them cut from another copy.                      *)
(*                                                                         *)
(* The copy is one of pointers: the filter reads the signal types of the   *)
(* entries themselves, without a lock, and an upsert may add one meanwhile.*)
(* So an entry that came to match since it was copied may or may not be    *)
(* found to match.                                                         *)
(*                                                                         *)
(* A name stands for its place in the order of names; the pattern q for the*)
(* names it lets through.  Sorting by first_seen and last_seen is left out.*)
(***************************************************************************)
EXTENDS Integers, SequencesExt

CONSTANTS
    Names,                  \* the attribute names, as numbers in name order
    ShardCount, ShardOf,    \* as in Dictionary
    SignalTypes,
    Filters,                \* what q and type may be
    Limits,                 \* what "limit" may say; 0: not a positive number
    DefaultLimit, MaxLimit  \* 100 and 1000

AnyType == "any"    \* no type parameter

ASSUME NamesAssumption ==
    /\ Names \subseteq Nat /\ IsFiniteSet(Names)
    /\ Filters \subseteq [names : SUBSET Names, type : SignalTypes \cup {AnyType}]
ASSUME ShardAssumption ==
    ShardCount \in Nat \ {0} /\ ShardOf \in [Names -> 0 .. ShardCount - 1]
ASSUME LimitAssumption ==
    /\ MaxLimit \in Nat /\ DefaultLimit \in 1 .. MaxLimit
    /\ Limits \subseteq Nat

VARIABLES
    signals,    \* name -> the signal types of its entry; none: no entry
    query,      \* the request being served, or the last one
    phase,      \* of the client and its request
    shard,      \* the shard List copies next
    matched,    \* copied, and matching when copied
    unmatched,  \* copied, still in the dictionary, and q but not type matches so far
    late,       \* copied, and matching only since
    page,       \* the entries of the last answer
    kept, met,          \* history: matching all through / at some time of the request
    steady,             \* history: matching since the first page was asked for
    shown, repeated,    \* history: names in some page / in two pages of this reading
    grown, shrunk       \* history: a name came to match / was purged during this reading

copy == <<matched, unmatched, late>>
listVars == <<query, phase, shard, copy, page>>
readingVars == <<shown, repeated>>
vars == <<signals, listVars, kept, met, steady, readingVars, grown, shrunk>>

Sorts == {"name", "cardinality"}
Orders == {"asc", "desc"}

-----------------------------------------------------------------------------
(* The entries of the copy, filtered, sorted and cut.                       *)

(* An entry's Cardinality field: nobody ever sets it, so sorting by it, in   *)
(* contrast to the cardinality that is shown, says nothing.                 *)
StoredCardinality(n) == 0

(* The comparison given to sort.Slice; "desc" negates it.                   *)
Less(a, b, q) ==
    LET less == IF q.sort = "cardinality"
                THEN StoredCardinality(a) < StoredCardinality(b) ELSE a < b
    IN  less # (q.order = "desc")

(* The results sort.Slice may leave: it is not stable, and the copy comes   *)
(* out of maps in any order, so entries that do not differ are in any order.*)
Sorted(S, q) ==
    {s \in SetToSeqs(S) :
        \A i, j \in DOMAIN s :
            i < j => Less(s[i], s[j], q) \/ ~Less(s[j], s[i], q)}

(* The names with an entry that the filters let through.                    *)
Matching(q) ==
    {n \in q.filter.names :
        IF q.filter.type = AnyType THEN signals[n] # {} ELSE q.filter.type \in signals[n]}

Cut_OneFurther(s, q) ==
    LET rest == SubSeq(s, IF q.offset = 0 THEN 1 ELSE q.offset + 2, Len(s))
    IN  IF q.limit > 0 /\ q.limit < Len(rest) THEN SubSeq(rest, 1, q.limit) ELSE rest

Cut(s, q) ==
    LET rest == SubSeq(s, q.offset + 1, Len(s))
    IN  IF q.limit > 0 /\ q.limit < Len(rest) THEN SubSeq(rest, 1, q.limit) ELSE rest

(* A limit that is absent is the default; one that is not a positive number *)
(* sets no limit; one above the maximum is the maximum.                     *)
LimitOf(limit) == IF limit > MaxLimit THEN MaxLimit ELSE limit

NoQuery ==
    [filter |-> [names |-> {}, type |-> AnyType], sort |-> "name", order |-> "asc",
     limit |-> DefaultLimit, offset |-> 0]

-----------------------------------------------------------------------------
Init ==
    /\ signals \in [Names -> SUBSET SignalTypes]
    /\ query = NoQuery
    /\ phase = "idle" /\ shard = 0
    /\ matched = {} /\ unmatched = {} /\ late = {} /\ page = <<>>
    /\ kept = {} /\ met = {} /\ steady = {} /\ shown = {} /\ repeated = {}
    /\ grown = FALSE /\ shrunk = FALSE

(* A worker's Upsert adds a name, or a signal type to the entry it has.     *)
Upsert(n, type) ==
    /\ signals' = [signals EXCEPT ![n] = @ \cup {type}]
    /\ UNCHANGED <<query, phase, shard, matched, page, kept, steady, readingVars, shrunk>>
    /\ LET came == Matching(query)' \ Matching(query)
       IN  /\ late' = late \cup (came \cap unmatched)
           /\ unmatched' = unmatched \ came
           /\ met' = IF phase = "listing" THEN met \cup came ELSE met
           /\ grown' = (grown \/ came # {})

(* The sweeper's PurgeExpired deletes one.  A copied entry stays as it is.  *)
PurgeExpired(n) ==
    /\ signals[n] # {}
    /\ signals' = [signals EXCEPT ![n] = {}]
    /\ unmatched' = unmatched \ {n}
    /\ kept' = kept \ {n} /\ steady' = steady \ {n}
    /\ shrunk' = (shrunk \/ n \in Matching(query))
    /\ UNCHANGED <<query, phase, shard, matched, late, page, met, readingVars, grown>>

(* The handler has read its parameters and calls List.                      *)
Begin(q) ==
    /\ query' = q /\ phase' = "listing" /\ shard' = 0 /\ page' = <<>>
    /\ matched' = {} /\ unmatched' = {} /\ late' = {}
    /\ kept' = Matching(q) /\ met' = Matching(q)
    /\ UNCHANGED signals

(* A client asks for a first page, ...                                      *)
Ask(filter, sort, order, limit) ==
    /\ phase = "idle"
    /\ Begin([filter |-> filter, sort |-> sort, order |-> order,
              limit |-> LimitOf(limit), offset |-> 0])
    /\ steady' = kept' /\ shown' = {} /\ repeated' = {}
    /\ grown' = FALSE /\ shrunk' = FALSE

(* ... after a page that is not empty for the next one, ...                 *)
AskNext ==
    /\ phase = "answered" /\ page # <<>>
    /\ Begin([query EXCEPT !.offset = @ + Len(page)])
    /\ UNCHANGED <<steady, readingVars, grown, shrunk>>

(* ... or is done.                                                          *)
Leave ==
    /\ phase = "answered"
    /\ phase' = "idle" /\ query' = NoQuery /\ page' = <<>>
    /\ steady' = {} /\ shown' = {} /\ repeated' = {}
    /\ grown' = FALSE /\ shrunk' = FALSE
    /\ UNCHANGED <<signals, shard, copy, kept, met>>

InShard(S) == {n \in S : ShardOf[n] = shard}

(* A copy that forgets the shards before.                                   *)
Copy_Replace ==
    /\ phase = "listing" /\ shard < ShardCount
    /\ matched' = InShard(Matching(query))
    /\ unmatched' = InShard({n \in query.filter.names : signals[n] # {}}) \ Matching(query)
    /\ shard' = shard + 1
    /\ UNCHANGED <<signals, query, phase, late, page, kept, met, steady, readingVars, grown,
                   shrunk>>

(* List copies a shard under its read lock.                                 *)
Copy ==
    /\ phase = "listing" /\ shard < ShardCount
    /\ matched' = matched \cup InShard(Matching(query))
    /\ unmatched' = unmatched
          \cup (InShard({n \in query.filter.names : signals[n] # {}}) \ Matching(query))
    /\ shard' = shard + 1
    /\ UNCHANGED <<signals, query, phase, late, page, kept, met, steady, readingVars, grown,
                   shrunk>>

(* applyFilter works on the copy, and the handler answers.  The copy and    *)
(* what was noted of the request end with it.                               *)
Answer ==
    /\ phase = "listing" /\ shard = ShardCount
    /\ \E found \in SUBSET late : \E s \in Sorted(matched \cup found, query) :
          page' = Cut(s, query)
    /\ phase' = "answered" /\ shard' = 0
    /\ matched' = {} /\ unmatched' = {} /\ late' = {} /\ kept' = {} /\ met' = {}
    /\ repeated' = repeated \cup (shown \cap ToSet(page'))
    /\ shown' = shown \cup ToSet(page')
    /\ UNCHANGED <<signals, query, steady, grown, shrunk>>

Next ==
    \/ \E n \in Names : PurgeExpired(n) \/ \E type \in SignalTypes : Upsert(n, type)
    \/ \E f \in Filters, s \in Sorts, o \in Orders, l \in Limits \cup {DefaultLimit} :
          Ask(f, s, o, l)
    \/ AskNext \/ Leave \/ Copy \/ Answer

Spec == Init /\ [][Next]_vars

-----------------------------------------------------------------------------
(* The state has its types; a page is never longer than a limit that is set,*)
(* nor a limit than the maximum.                                            *)
TypeOK ==
    /\ signals \in [Names -> SUBSET SignalTypes]
    /\ matched \subseteq Names /\ unmatched \subseteq Names /\ late \subseteq Names
    /\ query \in [filter : [names : SUBSET Names, type : SignalTypes \cup {AnyType}],
                  sort : Sorts, order : Orders, limit : 0 .. MaxLimit, offset : Nat]
    /\ phase \in {"idle", "listing", "answered"} /\ shard \in 0 .. ShardCount
    /\ ToSet(page) \subseteq Names /\ (query.limit > 0 => Len(page) <= query.limit)

(* List is no snapshot, yet exact in what can be asked of it: a name that   *)
(* matches the filters from the beginning of the request to its end is      *)
(* listed, whatever is added, purged and extended around it, and no name is *)
(* listed that did not match at some moment of the request.                 *)
WalkIsExact ==
    phase = "listing" =>
        /\ \A n \in kept : ShardOf[n] < shard => n \in matched
        /\ matched \cup late \subseteq met

(* Reading by name, page after page, is as good as the changes around it    *)
(* allow: as long as no match is purged, no name that matches all the time  *)
(* is missed, for one that comes to match moves the others to later pages   *)
(* only; as long as none comes to match -- a name is added, or an entry gets*)
(* the signal type asked for -- no name is shown twice.                     *)
PagesAgree ==
    query.sort = "name" =>
        /\ phase = "answered" /\ page = <<>> /\ ~shrunk => steady \subseteq shown
        /\ ~grown => repeated = {}
=============================================================================
