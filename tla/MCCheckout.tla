----------------------------- MODULE MCCheckout -----------------------------
(***************************************************************************)
(* An instance of Checkout for TLC: two keys of one customer and one of a  *)
(* guest, a coupon, a gift card.                                           *)
(***************************************************************************)
EXTENDS Checkout, TLC

CONSTANTS c1, k1, k2, k3

MCCustomerOf == k1 :> c1 @@ k2 :> c1 @@ k3 :> Guest

(* Everybody asks for credit; a guest has none to spend.                   *)
MCBodies == [coupon : BOOLEAN, credit : {TRUE}]

=============================================================================
