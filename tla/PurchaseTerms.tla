--------------------------- MODULE PurchaseTerms ----------------------------
(***************************************************************************)
(* What Purchases and Checkout are about: keys, baskets, one coupon, gift  *)
(* cards, and what a basket costs.                                         *)
(***************************************************************************)
EXTENDS Integers, FiniteSets

CONSTANTS
  Keys,           \* idempotency keys, one per attempt to buy
  Customers,      \* customers who are signed in
  Guest,          \* who buys without an account
  CustomerOf,     \* who sends each key
  Bodies,         \* what may be sent with it: [coupon, credit]
  Cards,          \* gift cards
  Face,           \* what a gift card is worth
  Deltas,         \* credit that staff grant; negative: take back
  Price,          \* what the goods cost
  Off,            \* what the coupon takes off
  MaxUses,        \* discounts.max_uses
  MaxPerCustomer  \* discounts.max_uses_per_customer

ASSUME PurchaseAssumption ==
  /\ IsFiniteSet(Keys)
  /\ Guest \notin Customers
  /\ CustomerOf \in [Keys -> Customers \cup {Guest}]
  /\ Bodies \subseteq [coupon : BOOLEAN, credit : BOOLEAN]
  /\ Face \in Nat \ {0}
  /\ Deltas \subseteq Int
  /\ Price \in Nat \ {0} /\ Off \in 1..Price
  /\ MaxUses \in Nat \ {0} /\ MaxPerCustomer \in Nat \ {0}

Grand(b) == IF b.coupon THEN Price - Off ELSE Price

(* apply_store_credit spends all there is and no more than the order.      *)
Applied(b, balance) ==
  IF balance <= 0 THEN 0
  ELSE IF balance < Grand(b) THEN balance ELSE Grand(b)

=============================================================================
