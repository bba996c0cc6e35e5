---------------------------- MODULE MCExtraction ----------------------------
EXTENDS Extraction

(* Two names; the text "1" of two types, another text, a map without text. *)
Attr(k, t, x) == [key |-> k, type |-> t, text |-> x]
One == Attr("a", "string", "1")
IntOne == Attr("a", "int", "1")
Two == Attr("a", "string", "2")
Tree == Attr("a", "map", "")
Other == Attr("b", "bool", "1")

Payload(signal, attrs, scope, items) ==
    [signal |-> signal,
     resources |-> <<[attrs |-> attrs,
                      scopes |-> <<[attrs |-> scope, items |-> items]>>]>>]
Metric(n, kind, points) == [name |-> n, kind |-> kind, points |-> points]
Record(attrs) == [points |-> <<attrs>>]

MCPayloads ==
    {Payload("metric", r, s, <<Metric(n, kind, <<p, <<Two>>>>)>>) :
        r \in {<< >>, <<Tree>>}, s \in {<<Other>>, <<IntOne>>},
        n \in {"a", "b"}, kind \in {"sum", "none"}, p \in {<<One>>, <<Other, Tree>>}}
    \union
    {Payload(signal, r, << >>, <<Record(x), Record(<<One>>)>>) :
        signal \in {"trace", "log"}, r \in {<< >>, <<IntOne>>},
        x \in {<<Two, Tree>>, <<One, Other>>}}
MCUnreadable == [signal |-> "unreadable", resources |-> << >>]
=============================================================================
