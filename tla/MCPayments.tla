----------------------------- MODULE MCPayments -----------------------------
(* Small instances of Payments for TLC. *)
EXTENDS Payments, TLC

CONSTANTS o1, o2, s1, va, c1, c2, h1, h2, r1, r2, g1, g2

One     == [v \in Variants |-> 1]
OneEach  == {One}
WriteOff == {-1}
=============================================================================
