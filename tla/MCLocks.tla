------------------------------ MODULE MCLocks ------------------------------
(***************************************************************************)
(* A follower that is a block behind dials the validator while clients of  *)
(* both submit and one watches the follower.                               *)
(***************************************************************************)
EXTENDS Locks

CONSTANTS n1, n2

OneBehind == [n \in {n1, n2} |-> IF n = n1 THEN 1 ELSE 0]

Submissions ==
    {[node |-> n1, role |-> "create"], [node |-> n1, role |-> "close"],
     [node |-> n2, role |-> "payment"]}
=============================================================================
