------------------------ MODULE MCDictionaryListing ------------------------
(* Instances of DictionaryListing for TLC.                                  *)
EXTENDS DictionaryListing

MCNames == 1 .. 3

(* The first and the last name share a shard: the order of the copy is not  *)
(* the order of names.                                                      *)
MCShardOf == [n \in Names |-> IF n = 2 THEN 0 ELSE 1]

(* What a pattern leaves, and what a signal type leaves.                    *)
MCFilters ==
    {[names |-> {1, 3}, type |-> AnyType], [names |-> Names, type |-> "metric"]}
MCLimits == {0, 1, 3}
=============================================================================
