------------------------------- MODULE Totals -------------------------------
(***************************************************************************)
(* Sums of natural numbers, written so that a sum of any size can be       *)
(* reasoned about: it counts units, each one of something.                 *)
(***************************************************************************)
EXTENDS Integers, FiniteSets

Total(f) == Cardinality(UNION {{x} \X (1..f[x]) : x \in DOMAIN f})

=============================================================================
