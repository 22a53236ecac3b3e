----------------------------- MODULE Purchases ------------------------------
(***************************************************************************)
(* What checkouts promise, one at a time and with no lock in sight: a key  *)
(* makes one order; a coupon is used no more often than it may be, in all  *)
(* and by each customer; an order spends credit the customer has; a gift   *)
(* card turns into credit once.  Checkout implements this specification.   *)
(***************************************************************************)
EXTENDS PurchaseTerms

VARIABLES
  orders,  \* the order of each key
  credit,  \* what each customer has to spend
  cards    \* gift cards that still hold money

vars == <<orders, credit, cards>>

NoOrder == [placed |-> FALSE]
Order   == [placed : {TRUE}, body : Bodies, applied : Nat]

TypeOK ==
  /\ orders \in [Keys -> Order \cup {NoOrder}]
  /\ credit \in [Customers -> Int]
  /\ cards \subseteq Cards

Init ==
  /\ orders = [k \in Keys |-> NoOrder]
  /\ credit = [c \in Customers |-> 0]
  /\ cards  = Cards

\* Orders that used the coupon.
Uses      == {k \in Keys : orders[k].placed /\ orders[k].body.coupon}
UsesOf(c) == {k \in Uses : CustomerOf[k] = c}

CouponLeft(c) ==
  /\ Cardinality(Uses) < MaxUses
  /\ c # Guest => Cardinality(UsesOf(c)) < MaxPerCustomer

\* What the order of c spends.
Spends(b, c) ==
  IF b.credit /\ c # Guest THEN Applied(b, credit[c]) ELSE 0

Placed(b, applied) == [placed |-> TRUE, body |-> b, applied |-> applied]

Place(k, b) ==
  LET c == CustomerOf[k]
  IN  /\ ~orders[k].placed
      /\ b.coupon => CouponLeft(c)
      /\ orders' = [orders EXCEPT ![k] = Placed(b, Spends(b, c))]
      /\ credit' = IF c = Guest THEN credit
                   ELSE [credit EXCEPT ![c] = @ - Spends(b, c)]
      /\ UNCHANGED cards

\* Staff give credit, or take back what the customer still has.
Grant(c, delta) ==
  /\ credit[c] + delta >= 0
  /\ credit' = [credit EXCEPT ![c] = @ + delta]
  /\ UNCHANGED <<orders, cards>>

Redeem(c, card) ==
  /\ card \in cards
  /\ cards'  = cards \ {card}
  /\ credit' = [credit EXCEPT ![c] = @ + Face]
  /\ UNCHANGED orders

Next ==
  \/ \E k \in Keys, b \in Bodies : Place(k, b)
  \/ \E c \in Customers, delta \in Deltas : Grant(c, delta)
  \/ \E c \in Customers, card \in Cards : Redeem(c, card)

Spec == Init /\ [][Next]_vars

(* The coupon keeps to its limits.                                         *)
CouponWithinLimits ==
  /\ Cardinality(Uses) <= MaxUses
  /\ \A c \in Customers : Cardinality(UsesOf(c)) <= MaxPerCustomer

(* Nobody spends credit they do not have.                                  *)
NeverOverdrawn == \A c \in Customers : credit[c] >= 0

=============================================================================
