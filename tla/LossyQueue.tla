----------------------------- MODULE LossyQueue -----------------------------
(***************************************************************************)
(* The promise of a bounded queue whose producers never wait: at most      *)
(* Limit items are held, an item put into a full queue costs exactly one   *)
(* item, and the cost is counted.  Evicts says which item pays: the oldest *)
(* one held (TRUE), or the one being put (FALSE).                          *)
(*                                                                         *)
(* components.md ("Overflow policy: drop oldest -- never blocks the        *)
(* forwarding path") promises the first kind.  RingBuffer instantiates     *)
(* this module twice: its ring keeps the promise with Evicts = TRUE, the   *)
(* channel the workers read from keeps it only with Evicts = FALSE.        *)
(***************************************************************************)
EXTENDS Naturals, Sequences

CONSTANTS
    Items,
    Limit,      \* a positive number
    Evicts      \* a Boolean: whose place a full queue gives up

VARIABLES queue, discarded

Init ==
    /\ queue = << >>
    /\ discarded = 0

Put(item) ==
    \/ /\ Len(queue) < Limit
       /\ queue' = Append(queue, item)
       /\ UNCHANGED discarded
    \/ /\ Len(queue) = Limit
       /\ queue' = IF Evicts THEN Append(Tail(queue), item) ELSE queue
       /\ discarded' = discarded + 1

Take ==
    /\ queue # << >>
    /\ queue' = Tail(queue)
    /\ UNCHANGED discarded

Next == (\E item \in Items : Put(item)) \/ Take

Spec == Init /\ [][Next]_<<queue, discarded>>
=============================================================================
