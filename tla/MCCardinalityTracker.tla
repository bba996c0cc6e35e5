------------------------ MODULE MCCardinalityTracker ------------------------
(* Instances of CardinalityTracker for TLC.                                *)
EXTENDS CardinalityTracker

CONSTANTS x, y, z

(* x and y collide in the first row, y and z in the second.                *)
MCHash ==
    [r \in 1 .. 2 |->
        [v \in Values |-> IF v = x \/ (r = 1 /\ v = y) THEN 0 ELSE 1]]
(* No two values share a register.                                         *)
MCRegister == [v \in Values |-> v]
=============================================================================
