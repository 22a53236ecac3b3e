------------------------------ MODULE MCOrders ------------------------------
(* Instances of Orders for TLC: one variant that three orders compete for, *)
(* or two variants and two orders.                                         *)
EXTENDS Orders, TLC

CONSTANTS o1, o2, o3, s1, s2, va, vb

One   == [v \in Variants |-> 1]
Two   == [v \in Variants |-> 2]
OnlyA == [v \in Variants |-> IF v = va THEN 1 ELSE 0]

UpTo2     == {One, Two}
Partial   == {OnlyA, One}
Adjust    == {-1, 1}
Symmetric == Permutations(Orders) \cup Permutations(Sweepers)
=============================================================================
