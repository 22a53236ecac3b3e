---------------------------- MODULE MCAfterSales ----------------------------
(***************************************************************************)
(* Instances of AfterSales for TLC: an order of two units that goes out in *)
(* up to two boxes.                                                        *)
(***************************************************************************)
EXTENDS AfterSales, TLC

MCQuantity == 2
MCParcels  == {1, 2}
MCAmounts  == {1, 2}

Symmetry ==
  Permutations(Sessions) \cup Permutations(Shipments)
    \cup Permutations(Returns) \cup Permutations(Keys)

=============================================================================
