------------------------- MODULE MCRegistryCompare -------------------------
(* Instances of RegistryCompare for TLC.                                    *)
EXTENDS RegistryCompare

(* Three names in order; the second begins with the first ("http",          *)
(* "http.route", "peer.http").                                              *)
MCNames == 1 .. 3
MCNamespaceOf == [n \in Names |-> IF n < 3 THEN "http" ELSE "peer"]
MCLengthOf == [n \in Names |-> IF n = 1 THEN 4 ELSE 10 - n]

MCTerms == {"http", "route"}
MCEquals == [t \in Terms |-> IF t = "http" THEN {1} ELSE {}]
MCBegins == [t \in Terms |-> IF t = "http" THEN {1, 2} ELSE {}]
MCInName == [t \in Terms |-> IF t = "http" THEN {1, 2, 3} ELSE {2}]
MCInBrief == [t \in Terms |-> IF t = "http" THEN {} ELSE {"the route"}]

Mention(n, brief, type, stability, deprecated) ==
    [name |-> n, brief |-> brief, type |-> type, stability |-> stability,
     deprecated |-> deprecated, requirement |-> "recommended"]
Group(type, n, attributes) ==
    [type |-> type, name |-> n, brief |-> "the route", stability |-> "stable",
     deprecated |-> "", attributes |-> attributes]

(* A definition, a mention that only refers to it, one that deprecates it,  *)
(* one that gives it another type, and signals that carry them.             *)
MCGroups ==
    {Group("attribute_group", 1, <<Mention(2, "the route", "string[]", "stable", "")>>),
     Group("attribute_group", 1, <<Mention(2, "", "", "development", "renamed")>>),
     Group("attribute_group", 1, <<Mention(1, "", "", "", ""),
                                   Mention(2, "other", "boolean", "", "")>>),
     Group("metric", 1, <<Mention(1, "other", "enum of ints", "", "")>>),
     Group("span", 3, <<Mention(1, "the route", "enum of strings", "stable", "")>>)}

MCObservable ==
    [name : {1, 3}, type : {"string", "int"}] \cup [name : {2}, type : {"string", "bool"}]

Query(terms, types, stability, namespace, page, offset) ==
    [terms |-> terms, types |-> types, stability |-> stability, namespace |-> namespace,
     limit |-> page, offset |-> offset]
MCQueries ==
    {Query(terms, types, {}, "", page, offset) :
        terms \in {<<>>, <<"http">>, <<"route">>, <<"http", "route">>},
        types \in {{}, {"attribute"}}, page \in {-1, 1}, offset \in {0, 1, 5}}
    \cup {Query(<<>>, {}, {"stable"}, "", 0, -1), Query(<<"route">>, {}, {}, "http", 9, 0)}
MCFilters == {Names, {1, 3}}
MCLimits == {-1, 0, 1}
=============================================================================
