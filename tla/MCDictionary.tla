---------------------------- MODULE MCDictionary ----------------------------
(* Instances of Dictionary for TLC; the .cfg files give the other constants.*)
EXTENDS Dictionary

CONSTANTS a, b, c, t1, s1, s2

(* Two names share a shard, the third is alone: a sweep can be between them.*)
MCShardOf == [n \in Names |-> IF n = c THEN 1 ELSE 0]

OfSignal(n, signal, last, status) ==
    [name |-> n,
     entry |-> [type |-> t1, signals |-> {signal}, first |-> 0, last |-> last,
                status |-> status]]

(* A first start; two names for a budget of one, the first shown as stale  *)
(* though it is fresh; one name under two keys, the later one the older.   *)
MCStores ==
    {<<>>,
     <<OfSignal(a, s1, 1, "stale"), OfSignal(c, s1, 0, "active")>>,
     <<OfSignal(a, s1, 1, "active"), OfSignal(a, s2, 0, "stale")>>}
=============================================================================
