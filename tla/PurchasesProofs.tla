-------------------------- MODULE PurchasesProofs ---------------------------
(***************************************************************************)
(* Proofs about Purchases, for every number of keys, customers and cards,  *)
(* whatever the coupon's limits and the price.                             *)
(***************************************************************************)
EXTENDS Purchases, FiniteSetTheorems, TLAPS

-----------------------------------------------------------------------------
(* Lemmas *)

(* An order spends no more than there is, and nothing if there is none.    *)
LEMMA AppliedBounded ==
  ASSUME NEW b \in Bodies, NEW balance \in Int
  PROVE  /\ Applied(b, balance) \in Nat
         /\ balance >= 0 => Applied(b, balance) <= balance
BY PurchaseAssumption DEF Applied, Grand

(* What c spends on an order leaves c with no less than nothing.           *)
LEMMA SpendsBounded ==
  ASSUME TypeOK, NEW b \in Bodies, NEW c \in Customers \cup {Guest}
  PROVE  /\ Spends(b, c) \in Nat
         /\ c \in Customers /\ credit[c] >= 0 => Spends(b, c) <= credit[c]
<1>1. CASE b.credit /\ c # Guest
  <2>1. credit[c] \in Int /\ Spends(b, c) = Applied(b, credit[c])
    BY <1>1 DEF Spends, TypeOK
  <2> QED
    BY <2>1, AppliedBounded
<1>2. CASE ~(b.credit /\ c # Guest)
  <2>1. Spends(b, c) = 0
    BY <1>2 DEF Spends
  <2>2. c \in Customers => credit[c] \in Int
    BY DEF TypeOK
  <2> QED
    BY <2>1, <2>2
<1> QED
  BY <1>1, <1>2

(* The sets that are counted are finite.                                   *)
LEMMA UsesFinite ==
  /\ IsFiniteSet(Uses) /\ Cardinality(Uses) \in Nat
  /\ \A c : IsFiniteSet(UsesOf(c)) /\ Cardinality(UsesOf(c)) \in Nat
<1>1. IsFiniteSet(Uses)
  BY PurchaseAssumption, FS_Subset DEF Uses
<1>2. ASSUME NEW c PROVE IsFiniteSet(UsesOf(c))
  BY <1>1, FS_Subset DEF UsesOf
<1> QED
  BY <1>1, <1>2, FS_CardinalityType

-----------------------------------------------------------------------------
(* Types *)

(* Orders, credit and cards keep their types: no order is half placed.     *)
THEOREM PurchaseTypes == Spec => []TypeOK
<1>1. Init => TypeOK
  BY DEF Init, TypeOK
<1>2. TypeOK /\ [Next]_vars => TypeOK'
  <2> SUFFICES ASSUME TypeOK, [Next]_vars PROVE TypeOK'
    OBVIOUS
  <2>1. ASSUME NEW k \in Keys, NEW b \in Bodies, Place(k, b) PROVE TypeOK'
    <3> DEFINE c == CustomerOf[k]
    <3>1. c \in Customers \cup {Guest}
      BY PurchaseAssumption
    <3>2. Spends(b, c) \in Nat
      BY <3>1, SpendsBounded
    <3>3. Placed(b, Spends(b, c)) \in Order
      BY <3>2 DEF Placed, Order
    <3>4. orders' \in [Keys -> Order \cup {NoOrder}]
      BY <2>1, <3>3 DEF Place, TypeOK
    <3>5. credit' \in [Customers -> Int]
      BY <2>1, <3>1, <3>2 DEF Place, TypeOK
    <3> QED
      BY <2>1, <3>4, <3>5 DEF Place, TypeOK
  <2>2. ASSUME NEW c \in Customers, NEW delta \in Deltas, Grant(c, delta)
        PROVE  TypeOK'
    BY <2>2, PurchaseAssumption DEF Grant, TypeOK
  <2>3. ASSUME NEW c \in Customers, NEW card \in Cards, Redeem(c, card)
        PROVE  TypeOK'
    BY <2>3, PurchaseAssumption DEF Redeem, TypeOK
  <2>4. CASE UNCHANGED vars
    BY <2>4 DEF vars, TypeOK
  <2> QED
    BY <2>1, <2>2, <2>3, <2>4 DEF Next
<1> QED
  BY <1>1, <1>2, PTL DEF Spec

-----------------------------------------------------------------------------
(* The limits *)

(* An order without the coupon uses it no more; one with it uses it once.  *)
LEMMA PlaceAddsOneUse ==
  ASSUME TypeOK, NEW k \in Keys, NEW b \in Bodies, Place(k, b)
  PROVE  /\ k \notin Uses
         /\ Uses' = IF b.coupon THEN Uses \cup {k} ELSE Uses
<1>1. ~orders[k].placed
  BY DEF Place
<1>2. orders'[k].placed = TRUE /\ orders'[k].body = b
  BY DEF Place, Placed, TypeOK
<1>3. \A j \in Keys \ {k} : orders'[j] = orders[j]
  BY DEF Place, TypeOK
<1>4. k \notin Uses
  BY <1>1 DEF Uses
<1>5. \A j \in Keys \ {k} : j \in Uses' <=> j \in Uses
  BY <1>3 DEF Uses
<1>6. k \in Uses' <=> b.coupon
  BY <1>2 DEF Uses
<1>7. Uses \subseteq Keys /\ Uses' \subseteq Keys
  BY DEF Uses
<1> QED
  BY <1>4, <1>5, <1>6, <1>7

(* Without an order no limit is reached.                                   *)
LEMMA NoUsesWithinLimits ==
  ASSUME Init
  PROVE  CouponWithinLimits
<1>1. Uses = {}
  BY DEF Init, Uses, NoOrder
<1>2. \A c : UsesOf(c) = {}
  BY <1>1 DEF UsesOf
<1> QED
  BY <1>1, <1>2, FS_EmptySet, PurchaseAssumption DEF CouponWithinLimits

(* The limits hold after a purchase if they held before it.                *)
LEMMA PlaceKeepsLimits ==
  ASSUME TypeOK, CouponWithinLimits, NEW k \in Keys, NEW b \in Bodies,
         Place(k, b)
  PROVE  CouponWithinLimits'
<1> DEFINE c == CustomerOf[k]
<1>1. CASE b.coupon
  <2>1. Uses' = Uses \cup {k} /\ k \notin Uses
    BY <1>1, PlaceAddsOneUse
  <2>2. CouponLeft(c)
    BY <1>1 DEF Place
  <2>3. Cardinality(Uses') = Cardinality(Uses) + 1
    BY <2>1, UsesFinite, FS_AddElement
  <2>4. Cardinality(Uses') <= MaxUses
    BY <2>2, <2>3, UsesFinite, PurchaseAssumption DEF CouponLeft
  <2>5. ASSUME NEW d \in Customers
        PROVE  Cardinality(UsesOf(d)') <= MaxPerCustomer
    <3>1. CASE d = c
      <4>1. UsesOf(d)' = UsesOf(d) \cup {k} /\ k \notin UsesOf(d)
        BY <2>1, <3>1 DEF UsesOf
      <4>2. Cardinality(UsesOf(d)') = Cardinality(UsesOf(d)) + 1
        BY <4>1, UsesFinite, FS_AddElement
      <4>3. Cardinality(UsesOf(d)) < MaxPerCustomer
        BY <2>2, <3>1, PurchaseAssumption DEF CouponLeft
      <4> QED
        BY <4>2, <4>3, UsesFinite, PurchaseAssumption
    <3>2. CASE d # c
      <4>1. UsesOf(d)' = UsesOf(d)
        BY <2>1, <3>2 DEF UsesOf
      <4> QED
        BY <4>1 DEF CouponWithinLimits
    <3> QED
      BY <3>1, <3>2
  <2> QED
    BY <2>4, <2>5 DEF CouponWithinLimits
<1>2. CASE ~b.coupon
  <2>1. Uses' = Uses
    BY <1>2, PlaceAddsOneUse
  <2> QED
    BY <2>1 DEF CouponWithinLimits, UsesOf
<1> QED
  BY <1>1, <1>2

(* The coupon keeps to max_uses and to max_uses_per_customer, however many *)
(* customers want the last use (enforce_discount_limits).                  *)
THEOREM CouponKeepsLimits == Spec => []CouponWithinLimits
<1>1. TypeOK /\ CouponWithinLimits /\ [Next]_vars => CouponWithinLimits'
  <2> SUFFICES ASSUME TypeOK, CouponWithinLimits, [Next]_vars
               PROVE  CouponWithinLimits'
    OBVIOUS
  <2>1. ASSUME UNCHANGED orders PROVE CouponWithinLimits'
    BY <2>1 DEF Uses, CouponWithinLimits, UsesOf
  <2> QED
    BY <2>1, PlaceKeepsLimits DEF Next, Grant, Redeem, vars
<1>2. Init => CouponWithinLimits
  BY NoUsesWithinLimits
<1> QED
  BY <1>1, <1>2, PurchaseTypes, PTL DEF Spec

(* Nobody spends credit they do not have (apply_store_credit), and staff   *)
(* take back no more than is there.                                        *)
THEOREM CreditNeverOverdrawn == Spec => []NeverOverdrawn
<1>1. Init => NeverOverdrawn
  BY DEF Init, NeverOverdrawn
<1>2. TypeOK /\ NeverOverdrawn /\ [Next]_vars => NeverOverdrawn'
  <2> SUFFICES ASSUME TypeOK, NeverOverdrawn, [Next]_vars,
                      NEW d \in Customers
               PROVE  credit'[d] >= 0
    BY DEF NeverOverdrawn
  <2> credit[d] \in Int /\ credit[d] >= 0
    BY DEF TypeOK, NeverOverdrawn
  <2>1. ASSUME NEW k \in Keys, NEW b \in Bodies, Place(k, b)
        PROVE  credit'[d] >= 0
    <3>1. CASE d = CustomerOf[k]
      <4>1. d # Guest
        BY PurchaseAssumption
      <4>2. credit'[d] = credit[d] - Spends(b, d)
        BY <2>1, <3>1, <4>1 DEF Place, TypeOK
      <4>3. Spends(b, d) \in Nat /\ Spends(b, d) <= credit[d]
        BY SpendsBounded
      <4> QED
        BY <4>2, <4>3
    <3>2. CASE d # CustomerOf[k]
      <4>1. credit'[d] = credit[d]
        BY <2>1, <3>2 DEF Place, TypeOK
      <4> QED
        BY <4>1
    <3> QED
      BY <3>1, <3>2
  <2>2. ASSUME NEW c \in Customers, NEW delta \in Deltas, Grant(c, delta)
        PROVE  credit'[d] >= 0
    BY <2>2 DEF Grant, TypeOK
  <2>3. ASSUME NEW c \in Customers, NEW card \in Cards, Redeem(c, card)
        PROVE  credit'[d] >= 0
    BY <2>3, PurchaseAssumption DEF Redeem, TypeOK
  <2>4. CASE UNCHANGED vars
    BY <2>4 DEF vars
  <2> QED
    BY <2>1, <2>2, <2>3, <2>4 DEF Next
<1> QED
  BY <1>1, <1>2, PurchaseTypes, PTL DEF Spec

=============================================================================
