---------------------------- MODULE OrdersProofs ----------------------------
(***************************************************************************)
(* Proofs about Orders, for every set of orders, variants and sweepers and *)
(* every value of the other constants.                                     *)
(***************************************************************************)
EXTENDS Orders, SharedLemmas

(* The movements of an order, by its status.  A hold is consumed by the    *)
(* step that leaves "pending" or by a sweep before it; a sale exists only  *)
(* once the order was paid; a return undoes a sale.                        *)
Shape(l, st) ==
  /\ st = "none" => l = NoMoves
  /\ st # "none" => l.reservation = 1
  /\ l.release \in {0, 1}
  /\ l.sale \in {0, 1}
  /\ l.return \in {0, 1}
  /\ l.return <= l.sale
  /\ st = "pending" => l.sale = 0
  /\ st \in {"paid", "shipped", "cancelled"} => l.release = 1
  /\ st = "paid" => l.return = 0
  /\ st = "cancelled" => l.return = l.sale

LedgerInv == \A o \in Orders : Shape(ledger[o], status[o])

-----------------------------------------------------------------------------
(* What the helpers on rows and movements return. *)

(* The rows a checkout opens are payment rows. *)
LEMMA OpenedType ==
  ASSUME NEW m \in Methods, NEW c \in Credits
  PROVE  Opened(m, c) \in [Providers -> Row]
BY OrdersAssumption DEF Opened, Row, NoRow

(* Capturing leaves payment rows. *)
LEMMA SettledType ==
  ASSUME NEW rows \in [Providers -> Row], NEW p \in Providers
  PROVE  Settled(rows, p) \in [Providers -> Row]
BY OrdersAssumption DEF Settled, Row

(* A failed attempt leaves payment rows. *)
LEMMA FailedType ==
  ASSUME NEW rows \in [Providers -> Row], NEW p \in Providers
  PROVE  Failed(rows, p) \in [Providers -> Row]
BY DEF Failed, Row

(* Releasing, selling, returning, capturing, cancelling count movements.   *)
LEMMA MovesType ==
  ASSUME NEW l \in Movements, NEW st \in Statuses
  PROVE  /\ Released(l) \in Movements
         /\ Sold(l) \in Movements
         /\ Returned(l) \in Movements
         /\ Converted(l) \in Movements
         /\ GivenBack(l, st) \in Movements
<1>1. \A k \in Movements : /\ Released(k) \in Movements
                            /\ Sold(k) \in Movements
                            /\ Returned(k) \in Movements
  BY DEF Movements, Released, Sold, Returned
<1>2. Converted(l) \in Movements
  BY <1>1 DEF Converted
<1>3. GivenBack(l, st) \in Movements
  BY <1>1 DEF GivenBack
<1> QED
  BY <1>1, <1>2, <1>3

(* Every column keeps its type. *)
THEOREM TypeCorrect == Spec => []TypeOK
<1>1. Init => TypeOK
  BY OrdersAssumption DEF Init, TypeOK, Nothing, NoMoves, NoRow, Movements,
     Row, Statuses
<1>2. TypeOK /\ [Next]_vars => TypeOK'
  <2> SUFFICES ASSUME TypeOK, [Next]_vars PROVE TypeOK'
    OBVIOUS
  <2> USE DEF TypeOK, Statuses
  <2>1. ASSUME NEW o \in Orders, NEW m \in Methods, NEW b \in Baskets,
               NEW c \in Credits, Checkout(o, m, b, c)
        PROVE  TypeOK'
    <3>1. [NoMoves EXCEPT !.reservation = 1] \in Movements
      BY DEF NoMoves, Movements
    <3>2. Opened(m, c) \in [Providers -> Row]
      BY OpenedType
    <3>3. Settled(Opened(m, c), "store_credit") \in [Providers -> Row]
      BY <3>2, SettledType DEF Providers
    <3>4. Converted([NoMoves EXCEPT !.reservation = 1]) \in Movements
      BY <3>1, MovesType
    <3>5. b \in [Variants -> Nat]
      BY OrdersAssumption
    <3>6. ledger' \in [Orders -> Movements]
      BY <2>1, <3>1, <3>4 DEF Checkout, Post
    <3>7. payments' \in [Orders -> [Providers -> Row]]
      BY <2>1, <3>2, <3>3 DEF Checkout
    <3>8. stock' \in [Variants -> Nat]
      BY <2>1 DEF Checkout, Post, ApplyMovement
    <3> QED
      BY <2>1, <3>5, <3>6, <3>7, <3>8 DEF Checkout
  <2>2. ASSUME NEW o \in Orders, NEW amount \in Captures,
               CapturePayment(o, amount)
        PROVE  TypeOK'
    <3>1. Converted(ledger[o]) \in Movements
      BY MovesType
    <3>2. Settled(payments[o], "razorpay") \in [Providers -> Row]
      BY SettledType DEF Providers
    <3>3. ledger' \in [Orders -> Movements] /\ stock' \in [Variants -> Nat]
      BY <2>2, <3>1 DEF CapturePayment, Post, ApplyMovement
    <3>4. payments' \in [Orders -> [Providers -> Row]]
      BY <2>2, <3>2 DEF CapturePayment
    <3>5. taken' \in [Orders -> Nat]
      BY <2>2, OrdersAssumption DEF CapturePayment
    <3> QED
      BY <2>2, <3>3, <3>4, <3>5 DEF CapturePayment
  <2>3. ASSUME NEW o \in Orders, FailPayment(o) PROVE TypeOK'
    <3>1. payments' \in [Orders -> [Providers -> Row]]
      BY <2>3, FailedType DEF FailPayment, Providers
    <3> QED
      BY <2>3, <3>1 DEF FailPayment
  <2>4. ASSUME NEW o \in Orders, AdminCaptureCod(o) PROVE TypeOK'
    <3>1. Settled(payments[o], "cod") \in [Providers -> Row]
      BY SettledType DEF Providers
    <3>2. Released(ledger[o]) \in Movements
      BY MovesType
    <3>4. Sold(Released(ledger[o])) \in Movements
      BY <3>2, MovesType
    <3>5. /\ ledger' \in [Orders -> Movements]
          /\ stock' \in [Variants -> Nat]
      BY <2>4, <3>4 DEF AdminCaptureCod, Post, ApplyMovement
    <3>3. payments' \in [Orders -> [Providers -> Row]]
      BY <2>4, <3>1 DEF AdminCaptureCod
    <3> QED
      BY <2>4, <3>5, <3>3 DEF AdminCaptureCod
  <2>5. ASSUME NEW o \in Orders, AdminCancelOrder(o) PROVE TypeOK'
    <3>1. GivenBack(ledger[o], status[o]) \in Movements
      BY MovesType
    <3> QED
      BY <2>5, <3>1 DEF AdminCancelOrder, Post, ApplyMovement
  <2>6. ASSUME NEW o \in Orders, CancelOwnOrder(o) PROVE TypeOK'
    <3>1. GivenBack(ledger[o], "pending") \in Movements
      BY MovesType
    <3> QED
      BY <2>6, <3>1 DEF CancelOwnOrder, Post, ApplyMovement
  <2>7. ASSUME NEW o \in Orders, NEW box \in Baskets, AdminShipOrder(o, box)
        PROVE  TypeOK'
    <3>1. box \in [Variants -> Nat]
      BY OrdersAssumption
    <3> QED
      BY <2>7, <3>1 DEF AdminShipOrder
  <2>8. ASSUME NEW o \in Orders, Lapse(o) PROVE TypeOK'
    BY <2>8 DEF Lapse
  <2>9. ASSUME NEW v \in Variants, NEW q \in Adjustments,
               RecordStockMovement(v, q)
        PROVE  TypeOK'
    BY <2>9, OrdersAssumption DEF RecordStockMovement, ApplyMovement
  <2>10. ASSUME NEW s \in Sweepers, SweepRead(s) PROVE TypeOK'
    BY <2>10 DEF SweepRead, Expired
  <2>11. ASSUME NEW s \in Sweepers, SweepWrite(s) PROVE TypeOK'
    <3>1. \A o \in Orders : Released(ledger[o]) \in Movements
      BY MovesType
    <3>2. ledger' \in [Orders -> Movements]
      BY <2>11, <3>1 DEF SweepWrite
    <3> QED
      BY <2>11, <3>2 DEF SweepWrite, ApplyMovement
  <2>12. ASSUME NEW s \in Sweepers, SweepConflict(s) \/ SweepCrash(s)
         PROVE  TypeOK'
    BY <2>12 DEF SweepConflict, SweepCrash
  <2>13. CASE UNCHANGED vars
    BY <2>13 DEF vars
  <2> QED
    BY <2>1, <2>2, <2>3, <2>4, <2>5, <2>6, <2>7, <2>8, <2>9, <2>10, <2>11,
       <2>12, <2>13 DEF Next, OrderStep, SweepStep
<1> QED
  BY <1>1, <1>2, PTL DEF Spec

-----------------------------------------------------------------------------
(* How the movements of one order evolve. *)

(* capture_payment turns the ledger of a pending order into one of a paid   *)
(* order, sold exactly once.                                               *)
LEMMA ConvertedShape ==
  ASSUME NEW l \in Movements, Shape(l, "pending")
  PROVE  Shape(Converted(l), "paid") /\ Converted(l).sale = 1
BY DEF Shape, Converted, Live, Sold, Released, Movements

(* So does admin_capture_cod, but it may leave the order unsold. *)
LEMMA CodShape ==
  ASSUME NEW l \in Movements, Shape(l, "pending")
  PROVE  Shape(IF Live(l) THEN Sold(Released(l)) ELSE l, "paid")
BY DEF Shape, Live, Sold, Released, Movements

(* Cancelling leaves the ledger of a cancelled order: nothing is out. *)
LEMMA GivenBackShape ==
  ASSUME NEW l \in Movements, NEW st \in {"pending", "paid"}, Shape(l, st)
  PROVE  Shape(GivenBack(l, st), "cancelled")
<1>1. CASE st = "pending"
  BY <1>1 DEF Shape, GivenBack, Live, Released, Movements
<1>2. CASE st = "paid"
  BY <1>2 DEF Shape, GivenBack, Live, Released, Returned, Movements
<1> QED
  BY <1>1, <1>2

(* Only a pending order has a hold, and without it the order may stay so. *)
LEMMA ReleasedShape ==
  ASSUME NEW l \in Movements, NEW st \in Statuses, Shape(l, st), Live(l)
  PROVE  st = "pending" /\ Shape(Released(l), "pending")
BY DEF Shape, Live, Released, Movements, Statuses, NoMoves

(* The invariant behind the properties of the ledger: every handler and    *)
(* every sweep moves the ledger along Shape, whatever their order.         *)
THEOREM LedgerInvariant == Spec => []LedgerInv
<1>1. Init => LedgerInv
  BY DEF Init, LedgerInv, Shape, NoMoves
<1>2. TypeOK /\ LedgerInv /\ [Next]_vars => LedgerInv'
  <2> SUFFICES ASSUME TypeOK, LedgerInv, [Next]_vars PROVE LedgerInv'
    OBVIOUS
  <2>0. \A o \in Orders : ledger[o] \in Movements /\ status[o] \in Statuses
    BY DEF TypeOK
  <2>1. ASSUME NEW o \in Orders, NEW m \in Methods, NEW b \in Baskets,
               NEW c \in Credits, Checkout(o, m, b, c)
        PROVE  LedgerInv'
    <3> DEFINE held == [NoMoves EXCEPT !.reservation = 1]
    <3>1. held \in Movements /\ Shape(held, "pending")
      BY DEF NoMoves, Movements, Shape
    <3>2. Shape(Converted(held), "paid")
      BY <3>1, ConvertedShape
    <3>3. Shape(ledger'[o], status'[o])
      BY <2>1, <3>1, <3>2 DEF Checkout, Post, TypeOK
    <3>4. \A x \in Orders \ {o} :
            ledger'[x] = ledger[x] /\ status'[x] = status[x]
      BY <2>1 DEF Checkout, Post, TypeOK
    <3> QED
      BY <3>3, <3>4 DEF LedgerInv
  <2>2. ASSUME NEW o \in Orders, NEW amount \in Captures,
               CapturePayment(o, amount)
        PROVE  LedgerInv'
    <3>1. Shape(Converted(ledger[o]), "paid")
      BY <2>0, <2>2, ConvertedShape DEF CapturePayment, LedgerInv
    <3>2. Shape(ledger'[o], status'[o])
      BY <2>2, <3>1 DEF CapturePayment, Post, TypeOK
    <3>3. \A x \in Orders \ {o} :
            ledger'[x] = ledger[x] /\ status'[x] = status[x]
      BY <2>2 DEF CapturePayment, Post, TypeOK
    <3> QED
      BY <3>2, <3>3 DEF LedgerInv
  <2>3. ASSUME NEW o \in Orders, AdminCaptureCod(o) PROVE LedgerInv'
    <3> DEFINE after == IF Live(ledger[o]) THEN Sold(Released(ledger[o]))
                                           ELSE ledger[o]
    <3>1. Shape(after, "paid")
      BY <2>0, <2>3, CodShape DEF AdminCaptureCod, LedgerInv
    <3>2. Shape(ledger'[o], status'[o])
      BY <2>3, <3>1 DEF AdminCaptureCod, Post, TypeOK
    <3>3. \A x \in Orders \ {o} :
            ledger'[x] = ledger[x] /\ status'[x] = status[x]
      BY <2>3 DEF AdminCaptureCod, Post, TypeOK
    <3> QED
      BY <3>2, <3>3 DEF LedgerInv
  <2>4. ASSUME NEW o \in Orders, AdminCancelOrder(o) \/ CancelOwnOrder(o)
        PROVE  LedgerInv'
    <3>1. /\ status[o] \in {"pending", "paid"}
          /\ Shape(GivenBack(ledger[o], status[o]), "cancelled")
      BY <2>0, <2>4, GivenBackShape
         DEF AdminCancelOrder, CancelOwnOrder, LedgerInv
    <3>2. /\ ledger' = [ledger EXCEPT ![o] = GivenBack(ledger[o], status[o])]
          /\ status' = [status EXCEPT ![o] = "cancelled"]
      BY <2>4 DEF AdminCancelOrder, CancelOwnOrder, Post
    <3>3. Shape(ledger'[o], status'[o])
      BY <3>1, <3>2 DEF TypeOK
    <3>4. \A x \in Orders \ {o} :
            ledger'[x] = ledger[x] /\ status'[x] = status[x]
      BY <3>2 DEF TypeOK
    <3> QED
      BY <3>3, <3>4 DEF LedgerInv
  <2>5. ASSUME NEW o \in Orders, NEW box \in Baskets, AdminShipOrder(o, box)
        PROVE  LedgerInv'
    <3>1. status[o] \in {"paid", "shipped", "cancelled"}
      BY <2>0, <2>5 DEF AdminShipOrder, Statuses
    <3>2. Shape(ledger[o], "shipped")
      BY <3>1 DEF LedgerInv, Shape
    <3>3. ledger' = ledger /\ status' = [status EXCEPT ![o] = "shipped"]
      BY <2>5 DEF AdminShipOrder
    <3> QED
      BY <3>2, <3>3 DEF LedgerInv, TypeOK
  <2>6. ASSUME NEW s \in Sweepers, SweepWrite(s) PROVE LedgerInv'
    <3>1. status' = status
      BY <2>6 DEF SweepWrite
    <3>2. ASSUME NEW o \in Orders PROVE Shape(ledger'[o], status'[o])
      <4>1. CASE o \in sweep[s]
        <5>1. Live(ledger[o]) /\ ledger'[o] = Released(ledger[o])
          BY <2>6, <4>1 DEF SweepWrite, Unconsumed
        <5> QED
          BY <2>0, <3>1, <5>1, ReleasedShape DEF LedgerInv
      <4>2. CASE o \notin sweep[s]
        BY <2>6, <3>1, <4>2 DEF SweepWrite, LedgerInv
      <4> QED
        BY <4>1, <4>2
    <3> QED
      BY <3>2 DEF LedgerInv
  <2>7. ASSUME UNCHANGED <<ledger, status>> PROVE LedgerInv'
    BY <2>7 DEF LedgerInv
  <2>8. ASSUME NEW o \in Orders, FailPayment(o) \/ Lapse(o)
        PROVE  UNCHANGED <<ledger, status>>
    BY <2>8 DEF FailPayment, Lapse
  <2>9. ASSUME NEW v \in Variants, NEW q \in Adjustments,
               RecordStockMovement(v, q)
        PROVE  UNCHANGED <<ledger, status>>
    BY <2>9 DEF RecordStockMovement
  <2>10. ASSUME NEW s \in Sweepers,
                SweepRead(s) \/ SweepConflict(s) \/ SweepCrash(s)
         PROVE  UNCHANGED <<ledger, status>>
    BY <2>10 DEF SweepRead, SweepConflict, SweepCrash
  <2>11. CASE UNCHANGED vars
    BY <2>7, <2>11 DEF vars
  <2> QED
    BY <2>1, <2>2, <2>3, <2>4, <2>5, <2>6, <2>7, <2>8, <2>9, <2>10, <2>11
       DEF Next, OrderStep, SweepStep
<1> QED
  BY <1>1, <1>2, TypeCorrect, PTL DEF Spec

(* The ledger of an order agrees with its status in every reachable state: *)
(* a hold is consumed at most once by whoever races for it.                *)
THEOREM LedgerAgrees == Spec => []LedgerMatchesStatus
<1>1. TypeOK /\ LedgerInv => LedgerMatchesStatus
  <2> SUFFICES ASSUME TypeOK, LedgerInv, NEW o \in Orders
      PROVE  /\ ledger[o].release <= 1
             /\ Live(ledger[o]) => status[o] = "pending"
             /\ Out(ledger[o]) \in {0, 1}
             /\ status[o] = "pending" => ledger[o].sale = 0
             /\ status[o] = "cancelled" => Out(ledger[o]) = 0
    BY DEF LedgerMatchesStatus
  <2>1. /\ ledger[o] \in Movements
        /\ status[o] \in Statuses
        /\ Shape(ledger[o], status[o])
    BY DEF TypeOK, LedgerInv
  <2> QED
    BY <2>1 DEF Shape, Live, Out, Movements, Statuses, NoMoves
<1> QED
  BY <1>1, TypeCorrect, LedgerInvariant, PTL

(* Once settled, an order's ledger changes only by a cancellation: above   *)
(* all, a sweep that read its hold earlier never touches it.               *)
THEOREM SettledFrozen == Spec => SettledLedgerIsFrozen
<1>1. TypeOK /\ LedgerInv /\ [Next]_vars => [\A o \in Orders : Frozen(o)]_vars
  <2> SUFFICES ASSUME TypeOK, LedgerInv, Next, NEW x \in Orders
      PROVE  Frozen(x)
    OBVIOUS
  <2> USE DEF Frozen
  <2>1. ASSUME NEW o \in Orders,
               \/ \E m \in Methods, b \in Baskets, c \in Credits :
                    Checkout(o, m, b, c)
               \/ \E amount \in Captures : CapturePayment(o, amount)
               \/ AdminCaptureCod(o)
               \/ CancelOwnOrder(o)
        PROVE  Frozen(x)
    <3>1. /\ status[o] \in {"none", "pending"}
          /\ \A y \in Orders \ {o} : ledger'[y] = ledger[y]
      BY <2>1 DEF Checkout, CapturePayment, AdminCaptureCod, CancelOwnOrder,
         Post, TypeOK
    <3> QED
      BY <3>1
  <2>2. ASSUME NEW o \in Orders, AdminCancelOrder(o) PROVE Frozen(x)
    <3>1. /\ status[o] \in {"pending", "paid"}
          /\ status'[o] = "cancelled"
          /\ \A y \in Orders \ {o} : ledger'[y] = ledger[y]
      BY <2>2 DEF AdminCancelOrder, Post, TypeOK
    <3> QED
      BY <3>1
  <2>3. ASSUME NEW s \in Sweepers, SweepWrite(s) PROVE Frozen(x)
    <3>1. CASE x \in sweep[s]
      <4>1. Live(ledger[x])
        BY <2>3, <3>1 DEF SweepWrite, Unconsumed
      <4>2. status[x] = "pending"
        BY <4>1, ReleasedShape DEF TypeOK, LedgerInv
      <4> QED
        BY <4>2
    <3>2. CASE x \notin sweep[s]
      BY <2>3, <3>2 DEF SweepWrite
    <3> QED
      BY <3>1, <3>2
  <2>4. ASSUME ledger' = ledger PROVE Frozen(x)
    BY <2>4
  <2>5. ASSUME NEW o \in Orders,
               FailPayment(o) \/ Lapse(o)
               \/ \E box \in Baskets : AdminShipOrder(o, box)
        PROVE  ledger' = ledger
    BY <2>5 DEF FailPayment, Lapse, AdminShipOrder
  <2>6. ASSUME NEW v \in Variants, NEW q \in Adjustments,
               RecordStockMovement(v, q)
        PROVE  ledger' = ledger
    BY <2>6 DEF RecordStockMovement
  <2>7. ASSUME NEW s \in Sweepers,
               SweepRead(s) \/ SweepConflict(s) \/ SweepCrash(s)
        PROVE  ledger' = ledger
    BY <2>7 DEF SweepRead, SweepConflict, SweepCrash
  <2> QED
    BY <2>1, <2>2, <2>3, <2>4, <2>5, <2>6, <2>7
       DEF Next, OrderStep, SweepStep
<1>2. QED
  BY <1>1, TypeCorrect, LedgerInvariant, PTL DEF Spec, SettledLedgerIsFrozen

(* The strengthening: a paid order has exactly one sale. *)
SaleInv == \A o \in Orders : status[o] = "paid" => ledger[o].sale = 1

(* For every store that captures no COD order, a paid order has taken its  *)
(* units exactly once, also when its hold had lapsed.                      *)
THEOREM PaidTakesStock ==
  ASSUME CodPressedFor = {}
  PROVE  Spec => []PaidTookStock
<1>1. Init => SaleInv
  BY DEF Init, SaleInv
<1>2. TypeOK /\ LedgerInv /\ SaleInv /\ [Next]_vars => SaleInv'
  <2> SUFFICES ASSUME TypeOK, LedgerInv, SaleInv, [Next]_vars,
                      NEW x \in Orders, status'[x] = "paid"
      PROVE  ledger'[x].sale = 1
    BY DEF SaleInv
  <2>1. ASSUME NEW o \in Orders, NEW m \in Methods, NEW b \in Baskets,
               NEW c \in Credits, Checkout(o, m, b, c)
        PROVE  ledger'[x].sale = 1
    <3> DEFINE held == [NoMoves EXCEPT !.reservation = 1]
    <3>1. Converted(held).sale = 1
      BY ConvertedShape DEF NoMoves, Movements, Shape
    <3>2. CASE x = o
      <4>1. ledger'[o] = Converted(held)
        BY <2>1, <3>2 DEF Checkout, Post, TypeOK
      <4> QED
        BY <3>1, <3>2, <4>1
    <3>3. CASE x # o
      BY <2>1, <3>3 DEF Checkout, Post, TypeOK, SaleInv
    <3> QED
      BY <3>2, <3>3
  <2>2. ASSUME NEW o \in Orders, NEW amount \in Captures,
               CapturePayment(o, amount)
        PROVE  ledger'[x].sale = 1
    <3>1. Converted(ledger[o]).sale = 1
      BY <2>2, ConvertedShape DEF CapturePayment, LedgerInv, TypeOK
    <3>2. CASE x = o
      BY <2>2, <3>1, <3>2 DEF CapturePayment, Post, TypeOK
    <3>3. CASE x # o
      BY <2>2, <3>3 DEF CapturePayment, Post, TypeOK, SaleInv
    <3> QED
      BY <3>2, <3>3
  <2>3. ASSUME NEW o \in Orders, AdminCaptureCod(o) PROVE FALSE
    BY <2>3, CodPressedFor = {} DEF AdminCaptureCod
  <2>4. ASSUME NEW o \in Orders, AdminCancelOrder(o) \/ CancelOwnOrder(o)
        PROVE  ledger'[x].sale = 1
    <3>1. x # o
      BY <2>4 DEF AdminCancelOrder, CancelOwnOrder, TypeOK
    <3>2. ledger'[x] = ledger[x] /\ status'[x] = status[x]
      BY <2>4, <3>1 DEF AdminCancelOrder, CancelOwnOrder, Post, TypeOK
    <3> QED
      BY <3>2 DEF SaleInv
  <2>5. ASSUME NEW o \in Orders, NEW box \in Baskets, AdminShipOrder(o, box)
        PROVE  ledger'[x].sale = 1
    BY <2>5 DEF AdminShipOrder, TypeOK, SaleInv
  <2>6. ASSUME NEW s \in Sweepers, SweepWrite(s) PROVE ledger'[x].sale = 1
    <3>1. status'[x] = status[x] /\ ledger[x] \in Movements
      BY <2>6 DEF SweepWrite, TypeOK
    <3>2. ledger'[x].sale = ledger[x].sale
      BY <2>6, <3>1 DEF SweepWrite, Released, Movements
    <3> QED
      BY <3>1, <3>2 DEF SaleInv
  <2>7. ASSUME UNCHANGED <<ledger, status>> PROVE ledger'[x].sale = 1
    BY <2>7 DEF SaleInv
  <2>8. ASSUME NEW o \in Orders, FailPayment(o) \/ Lapse(o)
        PROVE  UNCHANGED <<ledger, status>>
    BY <2>8 DEF FailPayment, Lapse
  <2>9. ASSUME NEW v \in Variants, NEW q \in Adjustments,
               RecordStockMovement(v, q)
        PROVE  UNCHANGED <<ledger, status>>
    BY <2>9 DEF RecordStockMovement
  <2>10. ASSUME NEW s \in Sweepers,
                SweepRead(s) \/ SweepConflict(s) \/ SweepCrash(s)
         PROVE  UNCHANGED <<ledger, status>>
    BY <2>10 DEF SweepRead, SweepConflict, SweepCrash
  <2>11. CASE UNCHANGED vars
    BY <2>7, <2>11 DEF vars
  <2> QED
    BY <2>1, <2>2, <2>3, <2>4, <2>5, <2>6, <2>7, <2>8, <2>9, <2>10, <2>11
       DEF Next, OrderStep, SweepStep
<1>3. TypeOK /\ LedgerInv /\ SaleInv => PaidTookStock
  <2> SUFFICES ASSUME TypeOK, LedgerInv, SaleInv, NEW o \in Orders,
                      status[o] = "paid"
      PROVE  Out(ledger[o]) = 1
    BY DEF PaidTookStock
  <2>1. /\ ledger[o] \in Movements
        /\ Shape(ledger[o], "paid")
        /\ ledger[o].sale = 1
    BY DEF TypeOK, LedgerInv, SaleInv
  <2> QED
    BY <2>1 DEF Shape, Out, Movements
<1> QED
  BY <1>1, <1>2, <1>3, TypeCorrect, LedgerInvariant, PTL DEF Spec

-----------------------------------------------------------------------------
(* The money. *)

(* No row of an order that is not settled is captured; a COD order waiting *)
(* for its money has a row for what credit left over; a paid order is paid *)
(* in full.                                                                *)
RowsInv ==
  \A o \in Orders :
    /\ status[o] \in {"none", "pending"} =>
         \A p \in Providers : payments[o][p].status # "captured"
    /\ status[o] = "pending" /\ method[o] = "cod" =>
         /\ payments[o]["cod"].status # "none"
         /\ payments[o]["cod"].amount + payments[o]["store_credit"].amount
              >= GrandTotal

(* The rows of a new order add up to its total, and only store credit for  *)
(* the whole of it is captured.                                            *)
LEMMA OpenedRows ==
  ASSUME NEW m \in Methods, NEW c \in Credits
  PROVE  /\ \A p \in Providers : Opened(m, c)[p].status # "captured"
         /\ m = "cod" /\ c # GrandTotal =>
              /\ Opened(m, c)["cod"].status # "none"
              /\ Opened(m, c)["cod"].amount
                   + Opened(m, c)["store_credit"].amount
                   >= GrandTotal
         /\ c = GrandTotal =>
              Settled(Opened(m, c), "store_credit")["store_credit"].amount
                = GrandTotal
<1>1. \A p \in Providers : Opened(m, c)[p].status # "captured"
  BY DEF Opened, NoRow
<1>2. ASSUME m = "cod", c # GrandTotal
      PROVE  /\ Opened(m, c)["cod"].status # "none"
             /\ Opened(m, c)["cod"].amount + Opened(m, c)["store_credit"].amount
                  >= GrandTotal
  <2>1. c \in Nat /\ c < GrandTotal /\ GrandTotal \in Nat
    BY <1>2, OrdersAssumption
  <2>2. Opened(m, c)["cod"]
          = [status |-> "created", amount |-> GrandTotal - c]
    BY <1>2, <2>1 DEF Opened, Providers
  <2>3. Opened(m, c)["store_credit"].amount = c
    BY <1>2, <2>1 DEF Opened, Providers, NoRow
  <2> QED
    BY <2>1, <2>2, <2>3
<1>3. ASSUME c = GrandTotal
      PROVE  Settled(Opened(m, c), "store_credit")["store_credit"].amount
               = GrandTotal
  <2>1. Opened(m, c)["store_credit"]
          = [status |-> "created", amount |-> GrandTotal]
    BY <1>3, OrdersAssumption DEF Opened, Providers
  <2>2. Opened(m, c) \in [Providers -> Row]
    BY OpenedType
  <2> QED
    BY <2>1, <2>2 DEF Settled, Providers, Row
<1> QED
  BY <1>1, <1>2, <1>3

(* The payment rows of an order agree with its status, whichever of the    *)
(* capture, the failure and the cancellation comes first.                  *)
THEOREM RowsInvariant == Spec => []RowsInv
<1>1. Init => RowsInv
  BY DEF Init, RowsInv, NoRow
<1>2. TypeOK /\ RowsInv /\ [Next]_vars => RowsInv'
  <2> SUFFICES ASSUME TypeOK, RowsInv, [Next]_vars PROVE RowsInv'
    OBVIOUS
  <2>1. ASSUME NEW o \in Orders, NEW m \in Methods, NEW b \in Baskets,
               NEW c \in Credits, Checkout(o, m, b, c)
        PROVE  RowsInv'
    <3>1. /\ method'[o] = m
          /\ c = GrandTotal => status'[o] = "paid"
          /\ c # GrandTotal => payments'[o] = Opened(m, c)
      BY <2>1 DEF Checkout, TypeOK
    <3>2. \A x \in Orders \ {o} : /\ status'[x] = status[x]
                                  /\ method'[x] = method[x]
                                  /\ payments'[x] = payments[x]
      BY <2>1 DEF Checkout, TypeOK
    <3> QED
      BY <3>1, <3>2, OpenedRows DEF RowsInv
  <2>2. ASSUME NEW o \in Orders, FailPayment(o) PROVE RowsInv'
    <3>1. status' = status /\ method' = method
      BY <2>2 DEF FailPayment
    <3>2. \A x \in Orders \ {o} : payments'[x] = payments[x]
      BY <2>2 DEF FailPayment, TypeOK
    <3>3. /\ \A p \in Providers \ {"razorpay"} :
               payments'[o][p] = payments[o][p]
          /\ payments'[o]["razorpay"].status = "failed"
      BY <2>2 DEF FailPayment, Failed, TypeOK, Providers, Row
    <3> QED
      BY <3>1, <3>2, <3>3 DEF RowsInv, Providers
  <2>3. ASSUME NEW o \in Orders,
               /\ status'[o] \notin {"none", "pending"}
               /\ method' = method
               /\ \A x \in Orders \ {o} : /\ status'[x] = status[x]
                                          /\ payments'[x] = payments[x]
        PROVE  RowsInv'
    BY <2>3 DEF RowsInv
  <2>4. ASSUME NEW o \in Orders,
               \/ \E amount \in Captures : CapturePayment(o, amount)
               \/ AdminCaptureCod(o)
               \/ AdminCancelOrder(o)
               \/ CancelOwnOrder(o)
               \/ \E box \in Baskets : AdminShipOrder(o, box)
        PROVE  RowsInv'
    <3>1. /\ status'[o] \notin {"none", "pending"}
          /\ method' = method
          /\ \A x \in Orders \ {o} : /\ status'[x] = status[x]
                                     /\ payments'[x] = payments[x]
      BY <2>4 DEF CapturePayment, AdminCaptureCod, AdminCancelOrder,
         CancelOwnOrder, AdminShipOrder, TypeOK
    <3> QED
      BY <2>3, <3>1
  <2>5. ASSUME UNCHANGED <<status, method, payments>> PROVE RowsInv'
    BY <2>5 DEF RowsInv
  <2>6. ASSUME NEW o \in Orders, Lapse(o)
        PROVE  UNCHANGED <<status, method, payments>>
    BY <2>6 DEF Lapse
  <2>7. ASSUME NEW v \in Variants, NEW q \in Adjustments,
               RecordStockMovement(v, q)
        PROVE  UNCHANGED <<status, method, payments>>
    BY <2>7 DEF RecordStockMovement
  <2>8. ASSUME NEW s \in Sweepers, SweepStep(s)
        PROVE  UNCHANGED <<status, method, payments>>
    BY <2>8 DEF SweepStep, SweepRead, SweepWrite, SweepConflict, SweepCrash
  <2>9. CASE UNCHANGED vars
    BY <2>5, <2>9 DEF vars
  <2> QED
    BY <2>1, <2>2, <2>4, <2>5, <2>6, <2>7, <2>8, <2>9 DEF Next, OrderStep
<1> QED
  BY <1>1, <1>2, TypeCorrect, PTL DEF Spec

(* When staff capture COD only on COD orders, a paid order is paid in      *)
(* full: by the gateway for what was due, in cash, or by store credit.     *)
THEOREM PaidIsPaidInFull ==
  ASSUME CodPressedFor \subseteq {"cod"}
  PROVE  Spec => []PaidInFull
<1>1. Init => PaidInFull
  BY DEF Init, PaidInFull
<1>2. TypeOK /\ RowsInv /\ PaidInFull /\ [Next]_vars => PaidInFull'
  <2> SUFFICES ASSUME TypeOK, RowsInv, PaidInFull, [Next]_vars,
                      NEW x \in Orders, status'[x] = "paid"
      PROVE  MoneyIn(x)' >= GrandTotal
    BY DEF PaidInFull
  <2>0. GrandTotal \in Nat
    BY OrdersAssumption
  <2>1. ASSUME NEW o \in Orders, NEW m \in Methods, NEW b \in Baskets,
               NEW c \in Credits, Checkout(o, m, b, c), x = o
        PROVE  MoneyIn(x)' >= GrandTotal
    <3>1. c = GrandTotal /\ taken'[o] \in Nat
      BY <2>1 DEF Checkout, TypeOK
    <3>2. payments'[o] = Settled(Opened(m, c), "store_credit")
      BY <2>1, <3>1 DEF Checkout, TypeOK
    <3>3. payments'[o]["store_credit"].amount = GrandTotal
      BY <3>1, <3>2, OpenedRows
    <3>4. payments'[o] \in [Providers -> Row]
      BY <3>2, OpenedType, SettledType DEF Providers
    <3>5. Amount(payments'[o], "cod") \in Nat
      BY <3>4 DEF Amount, Providers, Row
    <3> QED
      BY <2>0, <2>1, <3>1, <3>3, <3>5 DEF MoneyIn
  <2>2. ASSUME NEW o \in Orders, NEW amount \in Captures,
               CapturePayment(o, amount), x = o
        PROVE  MoneyIn(x)' >= GrandTotal
    <3>1. \A p \in Providers : payments[o][p].status # "captured"
      BY <2>2 DEF CapturePayment, RowsInv
    <3>2. Due(payments[o]) = GrandTotal
      BY <2>0, <3>1 DEF Due, Amount, Providers
    <3>3. taken'[o] = taken[o] + GrandTotal
      BY <2>2, <3>2 DEF CapturePayment, AmountAccepted, TypeOK
    <3>4. payments'[o] \in [Providers -> Row]
      BY <2>2, SettledType DEF CapturePayment, TypeOK, Providers
    <3>5. /\ Amount(payments'[o], "cod") \in Nat
          /\ payments'[o]["store_credit"].amount \in Nat
      BY <3>4 DEF Amount, Providers, Row
    <3> QED
      BY <2>0, <2>2, <3>3, <3>5 DEF MoneyIn, TypeOK
  <2>3. ASSUME NEW o \in Orders, AdminCaptureCod(o), x = o
        PROVE  MoneyIn(x)' >= GrandTotal
    <3>1. method[o] = "cod" /\ status[o] = "pending"
      BY <2>3, CodPressedFor \subseteq {"cod"} DEF AdminCaptureCod
    <3>2. /\ payments[o]["cod"].status # "none"
          /\ payments[o]["cod"].amount + payments[o]["store_credit"].amount
               >= GrandTotal
      BY <3>1 DEF RowsInv
    <3>3. payments'[o] = [payments[o] EXCEPT !["cod"].status = "captured"]
      BY <2>3, <3>2 DEF AdminCaptureCod, Settled, TypeOK
    <3>4. payments[o] \in [Providers -> Row] /\ taken[o] \in Nat
      BY DEF TypeOK
    <3>5. /\ payments'[o]["cod"].status = "captured"
          /\ payments'[o]["cod"].amount = payments[o]["cod"].amount
          /\ payments'[o]["store_credit"] = payments[o]["store_credit"]
      BY <3>3, <3>4 DEF Providers, Row
    <3>6. /\ payments[o]["cod"].amount \in Nat
          /\ payments[o]["store_credit"].amount \in Nat
          /\ taken'[o] = taken[o]
      BY <2>3, <3>4 DEF Providers, Row, AdminCaptureCod
    <3> QED
      BY <2>0, <2>3, <3>2, <3>4, <3>5, <3>6 DEF MoneyIn, Amount
  <2>4. ASSUME /\ status'[x] = status[x]
               /\ payments'[x] = payments[x]
               /\ taken'[x] = taken[x]
        PROVE  MoneyIn(x)' >= GrandTotal
    <3>1. MoneyIn(x)' = MoneyIn(x)
      BY <2>4 DEF MoneyIn, Amount
    <3> QED
      BY <2>4, <3>1 DEF PaidInFull
  <2>5. ASSUME NEW o \in Orders, x # o,
               \/ \E m \in Methods, b \in Baskets, c \in Credits :
                    Checkout(o, m, b, c)
               \/ \E amount \in Captures : CapturePayment(o, amount)
               \/ AdminCaptureCod(o)
        PROVE  /\ status'[x] = status[x]
               /\ payments'[x] = payments[x]
               /\ taken'[x] = taken[x]
    BY <2>5 DEF Checkout, CapturePayment, AdminCaptureCod, TypeOK
  <2>6. ASSUME NEW o \in Orders,
               \/ FailPayment(o)
               \/ AdminCancelOrder(o)
               \/ CancelOwnOrder(o)
               \/ \E box \in Baskets : AdminShipOrder(o, box)
        PROVE  /\ status'[x] = status[x]
               /\ payments'[x] = payments[x]
               /\ taken'[x] = taken[x]
    BY <2>6 DEF FailPayment, AdminCancelOrder, CancelOwnOrder, AdminShipOrder,
       TypeOK
  <2>7. ASSUME \/ \E o \in Orders : Lapse(o)
               \/ \E v \in Variants, q \in Adjustments :
                    RecordStockMovement(v, q)
               \/ \E s \in Sweepers : SweepStep(s)
               \/ UNCHANGED vars
        PROVE  /\ status'[x] = status[x]
               /\ payments'[x] = payments[x]
               /\ taken'[x] = taken[x]
    BY <2>7 DEF Lapse, RecordStockMovement, SweepStep, SweepRead, SweepWrite,
       SweepConflict, SweepCrash, vars
  <2> QED
    BY <2>1, <2>2, <2>3, <2>4, <2>5, <2>6, <2>7 DEF Next, OrderStep
<1> QED
  BY <1>1, <1>2, TypeCorrect, RowsInvariant, PTL DEF Spec

(* A captured row is final: nothing that can still write the row of an     *)
(* order runs once the order is settled.                                   *)
THEOREM CapturedRowsAreFinal == Spec => CapturedRowsStay
<1>1. TypeOK /\ RowsInv /\ [Next]_vars
        => [\A o \in Orders, p \in Providers : RowStays(o, p)]_vars
  <2> SUFFICES ASSUME TypeOK, RowsInv, Next, NEW x \in Orders,
                      NEW p \in Providers, payments[x][p].status = "captured"
      PROVE  payments'[x] = payments[x]
    BY DEF RowStays
  <2>1. status[x] \notin {"none", "pending"}
    BY DEF RowsInv
  <2>2. ASSUME NEW o \in Orders,
               \/ \E m \in Methods, b \in Baskets, c \in Credits :
                    Checkout(o, m, b, c)
               \/ \E amount \in Captures : CapturePayment(o, amount)
               \/ FailPayment(o)
               \/ AdminCaptureCod(o)
        PROVE  payments'[x] = payments[x]
    <3>1. x # o
      BY <2>1, <2>2
         DEF Checkout, CapturePayment, FailPayment, AdminCaptureCod
    <3> QED
      BY <2>2, <3>1
         DEF Checkout, CapturePayment, FailPayment, AdminCaptureCod, TypeOK
  <2>3. ASSUME \/ \E o \in Orders :
                    \/ AdminCancelOrder(o) \/ CancelOwnOrder(o)
                    \/ Lapse(o)
                    \/ \E box \in Baskets : AdminShipOrder(o, box)
               \/ \E v \in Variants, q \in Adjustments :
                    RecordStockMovement(v, q)
               \/ \E s \in Sweepers : SweepStep(s)
        PROVE  payments'[x] = payments[x]
    BY <2>3 DEF AdminCancelOrder, CancelOwnOrder, Lapse, AdminShipOrder,
       RecordStockMovement, SweepStep, SweepRead, SweepWrite, SweepConflict,
       SweepCrash
  <2> QED
    BY <2>2, <2>3 DEF Next, OrderStep
<1> QED
  BY <1>1, TypeCorrect, RowsInvariant, PTL DEF Spec, CapturedRowsStay

-----------------------------------------------------------------------------
(* Refinement: the ledger keeps the promise of StockClaims. *)

(* What each change of the movements is as a change of the claim.          *)
Claimed(l) ==
  IF l.reservation = 0 THEN "none"
  ELSE IF Live(l) THEN "held"
  ELSE IF Out(l) = 1 THEN "sold"
  ELSE IF l.return > 0 THEN "returned"
  ELSE "lapsed"

(* The claim of a pending order, and what capturing or releasing does.     *)
LEMMA PendingClaim ==
  ASSUME NEW l \in Movements, Shape(l, "pending")
  PROVE  /\ Live(l) => Claimed(l) = "held" /\ Out(l) = 1
         /\ ~Live(l) => Claimed(l) = "lapsed" /\ Out(l) = 0
         /\ Claimed(Converted(l)) = "sold" /\ Out(Converted(l)) = 1
         /\ Live(l) => /\ Claimed(Sold(Released(l))) = "sold"
                       /\ Out(Sold(Released(l))) = 1
                       /\ Claimed(Released(l)) = "lapsed"
                       /\ Out(Released(l)) = 0
BY DEF Shape, Claimed, Live, Out, Converted, Sold, Released, Movements

(* The claim of a paid order, and what a return makes of it. *)
LEMMA PaidClaim ==
  ASSUME NEW l \in Movements, Shape(l, "paid")
  PROVE  /\ GivenBack(l, "paid") = Returned(l)
         /\ l.sale = 1 => /\ Claimed(l) = "sold" /\ Out(l) = 1
                          /\ Claimed(Returned(l)) = "returned"
                          /\ Out(Returned(l)) = 0
         /\ l.sale # 1 => Returned(l) = l
<1>1. GivenBack(l, "paid") = Returned(l)
  BY DEF Shape, Live, GivenBack, Movements
<1>2. l.sale = 1 => /\ Claimed(l) = "sold" /\ Out(l) = 1
                    /\ Claimed(Returned(l)) = "returned"
                    /\ Out(Returned(l)) = 0
  BY DEF Shape, Claimed, Live, Out, Returned, Movements
<1>3. l.sale # 1 => Returned(l) = l
  BY DEF Shape, Returned, Movements
<1> QED
  BY <1>1, <1>2, <1>3

(* Orders implements StockClaims: whatever the interleaving of payments,   *)
(* cancellations and sweeps, every movement of stock is one claim made,    *)
(* converted, let go or given back.                                        *)
THEOREM OrdersKeepClaims == Spec => ClaimsKept
<1> DEFINE map == [o \in Orders |-> ClaimOf(o)]
<1>1. Init => Promise!Init
  BY DEF Init, Promise!Init, ClaimOf, NoMoves, Nothing
<1>2. TypeOK /\ LedgerInv /\ [Next]_vars => [Promise!Next]_(Promise!vars)
  <2> SUFFICES ASSUME TypeOK, LedgerInv, [Next]_vars
      PROVE  Promise!Next \/ UNCHANGED Promise!vars
    OBVIOUS
  <2>0. \A o \in Orders : /\ ledger[o] \in Movements
                          /\ status[o] \in Statuses
                          /\ Shape(ledger[o], status[o])
                          /\ ClaimOf(o) = Claimed(ledger[o])
                          /\ ClaimOf(o)' = Claimed(ledger'[o])
    BY DEF TypeOK, LedgerInv, ClaimOf, Claimed
  <2>1. ASSUME NEW o \in Orders, NEW after \in Movements, NEW ln,
               Post(o, ln, after)
        PROVE  /\ stock' \in [Variants -> Nat]
               /\ stock' = [v \in Variants |->
                     stock[v] - (Out(after) - Out(ledger[o])) * ln[v]]
               /\ map' = [map EXCEPT ![o] = Claimed(after)]
    <3>1. /\ ledger' = [ledger EXCEPT ![o] = after]
          /\ ledger \in [Orders -> Movements]
      BY <2>1 DEF Post, TypeOK
    <3>2. ledger'[o] = after /\ \A x \in Orders \ {o} : ledger'[x] = ledger[x]
      BY <3>1
    <3>3. \A x \in Orders : ClaimOf(x)' = IF x = o THEN Claimed(after)
                                                   ELSE ClaimOf(x)
      BY <2>0, <3>2
    <3> QED
      BY <2>1, <3>3 DEF Post, ApplyMovement
  <2>2. ASSUME NEW o \in Orders, NEW m \in Methods, NEW b \in Baskets,
               NEW c \in Credits, Checkout(o, m, b, c)
        PROVE  Promise!Next
    <3> DEFINE held == [NoMoves EXCEPT !.reservation = 1]
               l    == IF c = GrandTotal THEN Converted(held) ELSE held
    <3>1. held \in Movements /\ Shape(held, "pending") /\ Live(held)
      BY DEF NoMoves, Movements, Shape, Live
    <3>2. /\ Out(l) = 1
          /\ Claimed(l) = IF c = GrandTotal THEN "sold" ELSE "held"
          /\ l \in Movements
      <4> HIDE DEF held
      <4> QED
        BY <3>1, PendingClaim, MovesType DEF Statuses
    <3>3. ledger[o] = NoMoves /\ Out(ledger[o]) = 0 /\ ClaimOf(o) = "none"
      BY <2>0, <2>2 DEF Checkout, Shape, Out, NoMoves, Claimed
    <3>4. Post(o, b, l)
      BY <2>2 DEF Checkout
    <3> HIDE DEF l
    <3>5. /\ stock' \in [Variants -> Nat]
          /\ stock' = [v \in Variants |->
                stock[v] - (Out(l) - Out(ledger[o])) * b[v]]
          /\ map' = [map EXCEPT ![o] = Claimed(l)]
      BY <2>1, <3>2, <3>4
    <3>6. b \in [Variants -> Nat] /\ stock \in [Variants -> Nat]
      BY OrdersAssumption DEF TypeOK
    <3>7. stock' = [v \in Variants |-> stock[v] - b[v]]
      BY <3>2, <3>3, <3>5, <3>6
    <3>8. Promise!Claim(o, b, Claimed(l))
      BY <2>2, <3>3, <3>5, <3>7
         DEF Promise!Claim, Promise!Shelf, Checkout
    <3> QED
      BY <3>2, <3>8 DEF Promise!Next
  <2>3. ASSUME NEW o \in Orders, NEW l \in Movements, status[o] = "pending",
               Live(ledger[o]), Claimed(l) = "sold", Out(l) = 1,
               Post(o, lines[o], l), lines' = lines
        PROVE  Promise!Keep(o)
    <3>1. ClaimOf(o) = "held" /\ Out(ledger[o]) = 1
      BY <2>0, <2>3, PendingClaim
    <3>2. /\ stock' = [v \in Variants |-> stock[v] - (1 - 1) * lines[o][v]]
          /\ map' = [map EXCEPT ![o] = "sold"]
      BY <2>1, <2>3, <3>1
    <3>3. stock \in [Variants -> Nat] /\ lines[o] \in [Variants -> Nat]
      BY DEF TypeOK
    <3>4. stock' = stock
      BY <3>2, <3>3
    <3> QED
      BY <2>3, <3>1, <3>2, <3>4 DEF Promise!Keep
  <2>4. ASSUME NEW o \in Orders, NEW amount \in Captures,
               CapturePayment(o, amount)
        PROVE  Promise!Next
    <3>1. /\ status[o] = "pending" /\ lines' = lines
          /\ Post(o, lines[o], Converted(ledger[o]))
          /\ Converted(ledger[o]) \in Movements
          /\ Claimed(Converted(ledger[o])) = "sold"
          /\ Out(Converted(ledger[o])) = 1
      BY <2>0, <2>4, PendingClaim, MovesType DEF CapturePayment
    <3>2. CASE Live(ledger[o])
      <4>1. Promise!Keep(o)
        BY <2>3, <3>1, <3>2
      <4> QED
        BY <4>1 DEF Promise!Next
    <3>3. CASE ~Live(ledger[o])
      <4>1. ClaimOf(o) = "lapsed" /\ Out(ledger[o]) = 0
        BY <2>0, <3>1, <3>3, PendingClaim
      <4>2. /\ stock' = [v \in Variants |-> stock[v] - (1 - 0) * lines[o][v]]
            /\ stock' \in [Variants -> Nat]
            /\ map' = [map EXCEPT ![o] = "sold"]
        BY <2>1, <3>1, <4>1
      <4>3. stock \in [Variants -> Nat] /\ lines[o] \in [Variants -> Nat]
        BY DEF TypeOK
      <4>4. stock' = [v \in Variants |-> stock[v] - lines[o][v]]
        BY <4>2, <4>3
      <4>5. Promise!Reclaim(o)
        BY <3>1, <4>1, <4>2, <4>4 DEF Promise!Reclaim, Promise!Shelf
      <4> QED
        BY <4>5 DEF Promise!Next
    <3> QED
      BY <3>2, <3>3
  <2>5. ASSUME NEW o \in Orders, AdminCaptureCod(o)
        PROVE  Promise!Next \/ UNCHANGED Promise!vars
    <3>1. status[o] = "pending" /\ lines' = lines
      BY <2>5 DEF AdminCaptureCod
    <3>2. CASE Live(ledger[o])
      <4>1. /\ Post(o, lines[o], Sold(Released(ledger[o])))
            /\ Sold(Released(ledger[o])) \in Movements
            /\ Claimed(Sold(Released(ledger[o]))) = "sold"
            /\ Out(Sold(Released(ledger[o]))) = 1
        BY <2>0, <2>5, <3>1, <3>2, PendingClaim, MovesType
           DEF AdminCaptureCod
      <4>2. Promise!Keep(o)
        BY <2>3, <3>1, <3>2, <4>1
      <4> QED
        BY <4>2 DEF Promise!Next
    <3>3. CASE ~Live(ledger[o])
      <4>1. Post(o, lines[o], ledger[o])
        BY <2>5, <3>3 DEF AdminCaptureCod
      <4>2. ledger' = ledger
        BY <4>1 DEF Post, TypeOK
      <4>3. Out(ledger[o]) = 0
        BY <2>0, <3>1, <3>3, PendingClaim
      <4>4. stock' = [v \in Variants |-> stock[v] - (0 - 0) * lines[o][v]]
        BY <4>1, <4>3 DEF Post, ApplyMovement
      <4>5. stock' = stock
        BY <4>4 DEF TypeOK
      <4> QED
        BY <3>1, <4>2, <4>5 DEF Promise!vars, ClaimOf
    <3> QED
      BY <3>2, <3>3
  <2>6. ASSUME NEW o \in Orders, NEW l \in Movements,
               ClaimOf(o) \in {"held", "sold"}, Out(ledger[o]) = 1, Out(l) = 0,
               Post(o, lines[o], l), lines' = lines
        PROVE  /\ Promise!Shelf([v \in Variants |-> stock[v] + lines[o][v]])
               /\ map' = [map EXCEPT ![o] = Claimed(l)]
    <3>1. /\ stock' = [v \in Variants |-> stock[v] - (0 - 1) * lines[o][v]]
          /\ stock' \in [Variants -> Nat]
          /\ map' = [map EXCEPT ![o] = Claimed(l)]
      BY <2>1, <2>6
    <3>2. stock \in [Variants -> Nat] /\ lines[o] \in [Variants -> Nat]
      BY DEF TypeOK
    <3>3. stock' = [v \in Variants |-> stock[v] + lines[o][v]]
      BY <3>1, <3>2
    <3> QED
      BY <3>1, <3>3 DEF Promise!Shelf
  <2>7. ASSUME NEW o \in Orders, NEW l \in Movements, l = ledger[o],
               Post(o, lines[o], l), lines' = lines
        PROVE  UNCHANGED Promise!vars
    <3>1. ledger' = ledger
      BY <2>7 DEF Post, TypeOK
    <3>2. Out(l) - Out(ledger[o]) = 0
      BY <2>0, <2>7 DEF Out, Movements
    <3>3. stock' = [v \in Variants |-> stock[v] - 0 * lines[o][v]]
      BY <2>7, <3>2 DEF Post, ApplyMovement
    <3>4. stock' = stock
      BY <3>3 DEF TypeOK
    <3> QED
      BY <2>7, <3>1, <3>4 DEF Promise!vars, ClaimOf
  <2>8. ASSUME NEW o \in Orders, AdminCancelOrder(o) \/ CancelOwnOrder(o)
        PROVE  Promise!Next \/ UNCHANGED Promise!vars
    <3>1. /\ status[o] \in {"pending", "paid"}
          /\ Post(o, lines[o], GivenBack(ledger[o], status[o]))
          /\ GivenBack(ledger[o], status[o]) \in Movements
          /\ lines' = lines
      BY <2>0, <2>8, MovesType DEF AdminCancelOrder, CancelOwnOrder
    <3>2. CASE status[o] = "pending" /\ Live(ledger[o])
      <4>1. GivenBack(ledger[o], status[o]) = Released(ledger[o])
        BY <3>2 DEF GivenBack
      <4>2. /\ ClaimOf(o) = "held" /\ Out(ledger[o]) = 1
            /\ Claimed(Released(ledger[o])) = "lapsed"
            /\ Out(Released(ledger[o])) = 0
        BY <2>0, <3>2, PendingClaim
      <4>3. Promise!Release(o)
        BY <2>6, <3>1, <4>1, <4>2 DEF Promise!Release
      <4> QED
        BY <4>3 DEF Promise!Next
    <3>3. CASE status[o] = "pending" /\ ~Live(ledger[o])
      <4>1. GivenBack(ledger[o], status[o]) = ledger[o]
        BY <3>3 DEF GivenBack
      <4> QED
        BY <2>7, <3>1, <4>1
    <3>4. CASE status[o] = "paid" /\ ledger[o].sale = 1
      <4>1. /\ ClaimOf(o) = "sold" /\ Out(ledger[o]) = 1
            /\ GivenBack(ledger[o], status[o]) = Returned(ledger[o])
            /\ Claimed(Returned(ledger[o])) = "returned"
            /\ Out(Returned(ledger[o])) = 0
        BY <2>0, <3>4, PaidClaim
      <4>2. Promise!GiveBack(o)
        BY <2>6, <3>1, <4>1 DEF Promise!GiveBack
      <4> QED
        BY <4>2 DEF Promise!Next
    <3>5. CASE status[o] = "paid" /\ ledger[o].sale # 1
      <4>1. GivenBack(ledger[o], status[o]) = ledger[o]
        BY <2>0, <3>5, PaidClaim
      <4> QED
        BY <2>7, <3>1, <4>1
    <3> QED
      BY <3>1, <3>2, <3>3, <3>4, <3>5
  <2>9. ASSUME NEW v \in Variants, NEW q \in Adjustments,
               RecordStockMovement(v, q)
        PROVE  Promise!Next
    <3>1. Promise!Restock(v, q)
      BY <2>9 DEF RecordStockMovement, ApplyMovement, Promise!Restock,
         Promise!Shelf, ClaimOf
    <3> QED
      BY <3>1 DEF Promise!Next
  <2>10. ASSUME NEW s \in Sweepers, SweepWrite(s) PROVE Promise!Next
    <3>1. sweep[s] \in SUBSET Orders /\ lines' = lines
      BY <2>10 DEF SweepWrite, TypeOK
    <3>2. ASSUME NEW o \in sweep[s]
          PROVE  ClaimOf(o) = "held" /\ ClaimOf(o)' = "lapsed"
      <4>1. /\ o \in Orders
            /\ Live(ledger[o])
            /\ ledger'[o] = Released(ledger[o])
        BY <2>10, <3>1, <3>2 DEF SweepWrite, Unconsumed
      <4>2. Shape(ledger[o], "pending")
        BY <2>0, <4>1, ReleasedShape
      <4> QED
        BY <2>0, <4>1, <4>2, PendingClaim
    <3>3. \A o \in Orders \ sweep[s] : ClaimOf(o)' = ClaimOf(o)
      BY <2>0, <2>10 DEF SweepWrite
    <3>4. map' = [o \in Orders |->
                    IF o \in sweep[s] THEN "lapsed" ELSE map[o]]
      BY <3>1, <3>2, <3>3
    <3>5. \A o \in sweep[s] : map[o] = "held"
      BY <3>1, <3>2
    <3>6. Promise!Shelf([v \in Variants |->
             stock[v] + Promise!Total([o \in sweep[s] |-> lines[o][v]])])
      BY <2>10 DEF SweepWrite, ApplyMovement, Promise!Shelf, Total,
         Promise!Total, Cardinality, Promise!Cardinality
    <3>7. Promise!LetGo(sweep[s])
      BY <3>1, <3>4, <3>5, <3>6 DEF Promise!LetGo
    <3> QED
      BY <3>1, <3>7 DEF Promise!Next
  <2>11. ASSUME UNCHANGED <<stock, ledger, lines>>
         PROVE  UNCHANGED Promise!vars
    BY <2>11 DEF Promise!vars, ClaimOf
  <2>12. ASSUME NEW o \in Orders,
                \/ FailPayment(o)
                \/ Lapse(o)
                \/ \E box \in Baskets : AdminShipOrder(o, box)
         PROVE  UNCHANGED <<stock, ledger, lines>>
    BY <2>12 DEF FailPayment, Lapse, AdminShipOrder
  <2>13. ASSUME NEW s \in Sweepers,
                SweepRead(s) \/ SweepConflict(s) \/ SweepCrash(s)
         PROVE  UNCHANGED <<stock, ledger, lines>>
    BY <2>13 DEF SweepRead, SweepConflict, SweepCrash
  <2>14. CASE UNCHANGED vars
    BY <2>11, <2>14 DEF vars
  <2> QED
    BY <2>2, <2>4, <2>5, <2>8, <2>9, <2>10, <2>11, <2>12, <2>13, <2>14
       DEF Next, OrderStep, SweepStep
<1> QED
  BY <1>1, <1>2, TypeCorrect, LedgerInvariant, PTL
     DEF Spec, ClaimsKept, Promise!Spec


-----------------------------------------------------------------------------
(* The shelf. *)

(* The units of v that the ledger says the order o has out of stock.       *)
Committed(o, v) == IF Out(ledger[o]) = 1 THEN lines[o][v] ELSE 0

(* The counter product_variants.stock is what came in less what is out.    *)
ShelfInv ==
  \A v \in Variants :
    stock[v] + Total([o \in Orders |-> Committed(o, v)])
      = Opening[v] + adjusted[v]

(* What is out for an order is a number, and zero or one times its lines.  *)
LEMMA CommittedType ==
  ASSUME TypeOK, LedgerInv, NEW o \in Orders, NEW v \in Variants
  PROVE  /\ lines[o][v] \in Nat
         /\ Committed(o, v) \in Nat
         /\ Out(ledger[o]) \in {0, 1}
<1>1. /\ ledger[o] \in Movements /\ status[o] \in Statuses
      /\ Shape(ledger[o], status[o])
  BY DEF TypeOK, LedgerInv
<1>2. Out(ledger[o]) \in {0, 1}
  BY <1>1 DEF Shape, Out, Movements, Statuses, NoMoves
<1>3. lines[o][v] \in Nat
  BY DEF TypeOK
<1> QED
  BY <1>2, <1>3 DEF Committed

(* The movements of one order change stock and what is out for the order   *)
(* by the same amount.                                                     *)
LEMMA PostKeepsShelf ==
  ASSUME TypeOK, LedgerInv, ShelfInv, NEW o \in Orders,
         NEW ln \in [Variants -> Nat], NEW after \in Movements,
         Out(after) \in {0, 1}, ln = lines[o] \/ Out(ledger[o]) = 0,
         Post(o, ln, after), lines' = [lines EXCEPT ![o] = ln],
         adjusted' = adjusted
  PROVE  ShelfInv'
<1> SUFFICES ASSUME NEW v \in Variants
    PROVE  stock'[v] + Total([x \in Orders |-> Committed(x, v)'])
             = Opening[v] + adjusted'[v]
  BY DEF ShelfInv
<1> DEFINE old == [x \in Orders |-> Committed(x, v)]
           new == [x \in Orders |-> Committed(x, v)']
<1>1. /\ ledger' = [ledger EXCEPT ![o] = after]
      /\ stock'[v] = stock[v] - (Out(after) - Out(ledger[o])) * ln[v]
  BY DEF Post, ApplyMovement
<1>2. ledger'[o] = after /\ lines'[o] = ln
  BY <1>1 DEF TypeOK
<1>3. \A x \in Orders : x # o =>
        ledger'[x] = ledger[x] /\ lines'[x] = lines[x]
  BY <1>1 DEF TypeOK
<1>4. new[o] = IF Out(after) = 1 THEN ln[v] ELSE 0
  BY <1>2 DEF Committed
<1>5. \A x \in Orders : x # o => new[x] = old[x]
  BY <1>3 DEF Committed
<1>6. old[o] = IF Out(ledger[o]) = 1 THEN lines[o][v] ELSE 0
  BY DEF Committed
<1>7. ln[v] \in Nat /\ Out(ledger[o]) \in {0, 1} /\ stock[v] \in Nat
  BY CommittedType DEF TypeOK
<1>8. old \in [Orders -> Nat]
  BY CommittedType
<1>9. new \in [Orders -> Nat]
  BY <1>4, <1>5, <1>7, <1>8
<1>10. Total(new) + old[o] = Total(old) + new[o]
  BY <1>5, <1>8, <1>9, TotalChange, OrdersAssumption
<1>11. Total(old) \in Nat /\ Total(new) \in Nat
  BY <1>8, <1>9, TotalIsNat, OrdersAssumption
<1>12. /\ stock[v] + Total(old) = Opening[v] + adjusted[v]
       /\ adjusted'[v] = adjusted[v]
  BY DEF ShelfInv
<1> HIDE DEF old, new
<1>13. stock'[v] = stock[v] - (new[o] - old[o])
  <2>1. CASE Out(after) = 1 /\ Out(ledger[o]) = 1
    BY <1>1, <1>4, <1>6, <1>7, <2>1
  <2>2. CASE Out(after) = 1 /\ Out(ledger[o]) = 0
    BY <1>1, <1>4, <1>6, <1>7, <2>2
  <2>3. CASE Out(after) = 0 /\ Out(ledger[o]) = 1
    BY <1>1, <1>4, <1>6, <1>7, <2>3
  <2>4. CASE Out(after) = 0 /\ Out(ledger[o]) = 0
    BY <1>1, <1>4, <1>6, <1>7, <2>4
  <2> QED
    BY <1>7, <2>1, <2>2, <2>3, <2>4
<1>14. new[o] \in Nat /\ old[o] \in Nat
  BY <1>8, <1>9
<1>15. stock'[v] + Total(new) = stock[v] + Total(old)
  BY <1>7, <1>10, <1>11, <1>13, <1>14
<1> QED
  BY <1>12, <1>15 DEF new

(* What is on the shelf is always what came in less what the ledger says   *)
(* is out: no race between payments, cancellations and sweeps makes units  *)
(* appear or disappear (trg_apply_movement).                               *)
THEOREM StockIsLedger == Spec => []ShelfInv
<1>1. Init => ShelfInv
  <2> SUFFICES ASSUME Init, NEW v \in Variants
      PROVE  stock[v] + Total([o \in Orders |-> Committed(o, v)])
               = Opening[v] + adjusted[v]
    BY DEF ShelfInv
  <2>1. \A o \in Orders : Committed(o, v) = 0
    BY DEF Init, Committed, Out, NoMoves, Nothing
  <2>2. Total([o \in Orders |-> Committed(o, v)]) = 0
    BY <2>1, TotalOfNothing
  <2>3. stock[v] = Opening[v] /\ adjusted[v] = 0 /\ Opening[v] \in Nat
    BY OrdersAssumption DEF Init
  <2> QED
    BY <2>2, <2>3
<1>2. TypeOK /\ LedgerInv /\ ShelfInv /\ [Next]_vars => ShelfInv'
  <2> SUFFICES ASSUME TypeOK, LedgerInv, ShelfInv, [Next]_vars
      PROVE  ShelfInv'
    OBVIOUS
  <2>0. \A o \in Orders : /\ ledger[o] \in Movements
                          /\ status[o] \in Statuses
                          /\ lines[o] \in [Variants -> Nat]
                          /\ lines = [lines EXCEPT ![o] = lines[o]]
                          /\ Shape(ledger[o], status[o])
    BY DEF TypeOK, LedgerInv
  <2>1. ASSUME NEW o \in Orders, NEW m \in Methods, NEW b \in Baskets,
               NEW c \in Credits, Checkout(o, m, b, c)
        PROVE  ShelfInv'
    <3> DEFINE held == [NoMoves EXCEPT !.reservation = 1]
               l    == IF c = GrandTotal THEN Converted(held) ELSE held
    <3>1. held \in Movements /\ Shape(held, "pending") /\ Live(held)
      BY DEF NoMoves, Movements, Shape, Live
    <3>2. Out(l) = 1 /\ l \in Movements
      <4> HIDE DEF held
      <4> QED
        BY <3>1, PendingClaim, MovesType DEF Statuses
    <3>3. Out(ledger[o]) = 0
      BY <2>0, <2>1 DEF Checkout, Shape, Out, NoMoves
    <3>4. /\ Post(o, b, l) /\ lines' = [lines EXCEPT ![o] = b]
          /\ adjusted' = adjusted
      BY <2>1 DEF Checkout
    <3>5. b \in [Variants -> Nat]
      BY OrdersAssumption
    <3> HIDE DEF l
    <3> QED
      BY <3>2, <3>3, <3>4, <3>5, PostKeepsShelf
  <2>2. ASSUME NEW o \in Orders, NEW after \in Movements,
               Out(after) \in {0, 1}, Post(o, lines[o], after),
               lines' = lines, adjusted' = adjusted
        PROVE  ShelfInv'
    BY <2>0, <2>2, PostKeepsShelf
  <2>3. ASSUME NEW o \in Orders, NEW amount \in Captures,
               CapturePayment(o, amount)
        PROVE  ShelfInv'
    <3>1. /\ status[o] = "pending" /\ lines' = lines /\ adjusted' = adjusted
          /\ Post(o, lines[o], Converted(ledger[o]))
      BY <2>3 DEF CapturePayment
    <3>2. /\ Out(Converted(ledger[o])) = 1
          /\ Converted(ledger[o]) \in Movements
      BY <2>0, <3>1, PendingClaim, MovesType
    <3> QED
      BY <2>2, <3>1, <3>2
  <2>4. ASSUME NEW o \in Orders, AdminCaptureCod(o) PROVE ShelfInv'
    <3> DEFINE after == IF Live(ledger[o]) THEN Sold(Released(ledger[o]))
                                           ELSE ledger[o]
    <3>1. /\ status[o] = "pending" /\ lines' = lines /\ adjusted' = adjusted
          /\ Post(o, lines[o], after)
      BY <2>4 DEF AdminCaptureCod
    <3>2. Out(after) \in {0, 1} /\ after \in Movements
      BY <2>0, <3>1, PendingClaim, MovesType
    <3> HIDE DEF after
    <3> QED
      BY <2>2, <3>1, <3>2
  <2>5. ASSUME NEW o \in Orders, AdminCancelOrder(o) \/ CancelOwnOrder(o)
        PROVE  ShelfInv'
    <3>1. /\ status[o] \in {"pending", "paid"}
          /\ lines' = lines /\ adjusted' = adjusted
          /\ Post(o, lines[o], GivenBack(ledger[o], status[o]))
      BY <2>5 DEF AdminCancelOrder, CancelOwnOrder
    <3>2. /\ GivenBack(ledger[o], status[o]) \in Movements
          /\ Shape(GivenBack(ledger[o], status[o]), "cancelled")
      BY <2>0, <3>1, GivenBackShape, MovesType
    <3>3. Out(GivenBack(ledger[o], status[o])) = 0
      BY <3>2 DEF Shape, Out, Movements
    <3> QED
      BY <2>2, <3>1, <3>2, <3>3
  <2>6. ASSUME NEW w \in Variants, NEW q \in Adjustments,
               RecordStockMovement(w, q)
        PROVE  ShelfInv'
    <3> SUFFICES ASSUME NEW v \in Variants
        PROVE  stock'[v] + Total([o \in Orders |-> Committed(o, v)'])
                 = Opening[v] + adjusted'[v]
      BY DEF ShelfInv
    <3>1. /\ ledger' = ledger /\ lines' = lines
          /\ stock' = [stock EXCEPT ![w] = stock[w] + q]
          /\ adjusted' = [adjusted EXCEPT ![w] = adjusted[w] + q]
      BY <2>6 DEF RecordStockMovement, ApplyMovement
    <3>2. \A o \in Orders : Committed(o, v)' = Committed(o, v)
      BY <3>1 DEF Committed
    <3>3. [o \in Orders |-> Committed(o, v)'] =
            [o \in Orders |-> Committed(o, v)]
      BY <3>2
    <3>4. stock[v] + Total([o \in Orders |-> Committed(o, v)])
            = Opening[v] + adjusted[v]
      BY DEF ShelfInv
    <3>5. /\ stock[v] \in Nat /\ adjusted[v] \in Int /\ q \in Int
          /\ Opening[v] \in Nat
      BY OrdersAssumption DEF TypeOK
    <3>6. Total([o \in Orders |-> Committed(o, v)]) \in Nat
      <4>1. [o \in Orders |-> Committed(o, v)] \in [Orders -> Nat]
        BY CommittedType
      <4> QED
        BY <4>1, TotalIsNat, OrdersAssumption
    <3>7. CASE v = w
      <4>1. stock'[v] = stock[v] + q /\ adjusted'[v] = adjusted[v] + q
        BY <3>1, <3>7 DEF TypeOK
      <4> QED
        BY <3>3, <3>4, <3>5, <3>6, <4>1
    <3>8. CASE v # w
      <4>1. stock'[v] = stock[v] /\ adjusted'[v] = adjusted[v]
        BY <3>1, <3>8 DEF TypeOK
      <4> QED
        BY <3>3, <3>4, <4>1
    <3> QED
      BY <3>7, <3>8
  <2>7. ASSUME NEW s \in Sweepers, SweepWrite(s) PROVE ShelfInv'
    <3> SUFFICES ASSUME NEW v \in Variants
        PROVE  stock'[v] + Total([o \in Orders |-> Committed(o, v)'])
                 = Opening[v] + adjusted'[v]
      BY DEF ShelfInv
    <3> DEFINE old   == [o \in Orders |-> Committed(o, v)]
               new   == [o \in Orders |-> Committed(o, v)']
               freed == [o \in sweep[s] |-> lines[o][v]]
    <3>1. /\ sweep[s] \subseteq Orders /\ lines' = lines
          /\ adjusted' = adjusted
          /\ stock'[v] = stock[v] + Total(freed)
      BY <2>7 DEF SweepWrite, ApplyMovement, TypeOK
    <3>2. ASSUME NEW o \in sweep[s]
          PROVE  Out(ledger[o]) = 1 /\ Out(ledger'[o]) = 0
      <4>1. /\ o \in Orders /\ Live(ledger[o])
            /\ ledger'[o] = Released(ledger[o])
        BY <2>7, <3>1, <3>2 DEF SweepWrite, Unconsumed
      <4>2. Shape(ledger[o], "pending")
        BY <2>0, <4>1, ReleasedShape
      <4> QED
        BY <2>0, <4>1, <4>2, PendingClaim
    <3>3. \A o \in Orders \ sweep[s] : ledger'[o] = ledger[o]
      BY <2>7 DEF SweepWrite
    <3>4. \A o \in sweep[s] : old[o] = freed[o] /\ new[o] = 0
      BY <3>1, <3>2 DEF Committed
    <3>5. \A o \in Orders \ sweep[s] : new[o] = old[o]
      BY <3>1, <3>3 DEF Committed
    <3>6. old \in [Orders -> Nat] /\ freed \in [sweep[s] -> Nat]
      BY <3>1, CommittedType
    <3>7. new \in [Orders -> Nat]
      <4>1. \A o \in Orders : new[o] \in Nat
        <5>1. \A o \in Orders : old[o] \in Nat
          BY <3>6
        <5> HIDE DEF new, old, freed
        <5>2. ASSUME NEW o \in Orders PROVE new[o] \in Nat
          <6>1. CASE o \in sweep[s]
            BY <3>4, <6>1
          <6>2. CASE o \notin sweep[s]
            BY <3>5, <5>1, <6>2
          <6> QED
            BY <6>1, <6>2
        <5> QED
          BY <5>2
      <4>2. \A o \in Orders : Committed(o, v)' \in Nat
        BY <4>1
      <4> QED
        BY <4>2
    <3>8. /\ stock[v] \in Nat /\ adjusted'[v] = adjusted[v]
          /\ stock[v] + Total(old) = Opening[v] + adjusted[v]
      BY <3>1 DEF TypeOK, ShelfInv
    <3> HIDE DEF old, new, freed
    <3>9. Total(old) = Total(new) + Total(freed)
      <4>1. IsFiniteSet(Orders) /\ sweep[s] \subseteq Orders
        BY <3>1, OrdersAssumption
      <4>2. \A o \in sweep[s] : freed[o] = old[o] /\ new[o] = 0
        BY <3>4
      <4> QED
        BY <3>5, <3>6, <3>7, <4>1, <4>2, TotalSplit
    <3>10. IsFiniteSet(sweep[s])
      BY <3>1, FS_Subset, OrdersAssumption
    <3>11. Total(new) \in Nat /\ Total(freed) \in Nat
      BY <3>6, <3>7, <3>10, TotalIsNat, OrdersAssumption
    <3>12. stock'[v] + Total(new) = stock[v] + Total(old)
      BY <3>1, <3>8, <3>9, <3>11
    <3> QED
      BY <3>8, <3>12 DEF new
  <2>8. ASSUME UNCHANGED <<stock, adjusted, ledger, lines>> PROVE ShelfInv'
    BY <2>8 DEF ShelfInv, Committed
  <2>9. ASSUME NEW o \in Orders,
               \/ FailPayment(o)
               \/ Lapse(o)
               \/ \E box \in Baskets : AdminShipOrder(o, box)
        PROVE  UNCHANGED <<stock, adjusted, ledger, lines>>
    BY <2>9 DEF FailPayment, Lapse, AdminShipOrder
  <2>10. ASSUME NEW s \in Sweepers,
                SweepRead(s) \/ SweepConflict(s) \/ SweepCrash(s)
         PROVE  UNCHANGED <<stock, adjusted, ledger, lines>>
    BY <2>10 DEF SweepRead, SweepConflict, SweepCrash
  <2>11. CASE UNCHANGED vars
    BY <2>8, <2>11 DEF vars
  <2> QED
    BY <2>1, <2>3, <2>4, <2>5, <2>6, <2>7, <2>8, <2>9, <2>10, <2>11
       DEF Next, OrderStep, SweepStep
<1> QED
  BY <1>1, <1>2, TypeCorrect, LedgerInvariant, PTL DEF Spec

(* An order that is paid or shipped has its units out once, and at most    *)
(* its lines have left; nothing has left for any other order.              *)
StandsInv ==
  \A o \in Orders :
    /\ status[o] \in {"paid", "shipped"} =>
         ledger[o].sale = 1 /\ ledger[o].return = 0
    /\ \A v \in Variants : /\ shipped[o][v] <= lines[o][v]
                           /\ status[o] # "shipped" => shipped[o][v] = 0

(* In a store that captures no COD order and ships only paid orders, what  *)
(* came in less what was dispatched covers every live hold and every paid  *)
(* order: nothing is oversold.                                             *)
THEOREM ShelfCovers ==
  ASSUME CodPressedFor = {}, ShipFrom \subseteq {"paid", "shipped"}
  PROVE  Spec => []ShelfCoversOrders
<1>1. Init => StandsInv
  BY DEF Init, StandsInv, Nothing
<1>2. TypeOK /\ LedgerInv /\ StandsInv /\ [Next]_vars => StandsInv'
  <2> SUFFICES ASSUME TypeOK, LedgerInv, StandsInv, [Next]_vars
      PROVE  StandsInv'
    OBVIOUS
  <2> DEFINE Stands(l, st, ln, gone) ==
               /\ st \in {"paid", "shipped"} => l.sale = 1 /\ l.return = 0
               /\ \A v \in Variants : /\ gone[v] <= ln[v]
                                      /\ st # "shipped" => gone[v] = 0
  <2>0. \A o \in Orders : /\ ledger[o] \in Movements
                          /\ status[o] \in Statuses
                          /\ lines[o] \in [Variants -> Nat]
                          /\ shipped[o] \in [Variants -> Nat]
                          /\ Shape(ledger[o], status[o])
                          /\ Stands(ledger[o], status[o], lines[o], shipped[o])
    BY DEF TypeOK, LedgerInv, StandsInv
  <2>1. ASSUME NEW o \in Orders,
               Stands(ledger'[o], status'[o], lines'[o], shipped'[o]),
               \A x \in Orders \ {o} :
                 UNCHANGED <<ledger[x], status[x], lines[x], shipped[x]>>
        PROVE  StandsInv'
    BY <2>0, <2>1 DEF StandsInv
  <2>2. ASSUME NEW o \in Orders, NEW m \in Methods, NEW b \in Baskets,
               NEW c \in Credits, Checkout(o, m, b, c)
        PROVE  StandsInv'
    <3> DEFINE held == [NoMoves EXCEPT !.reservation = 1]
    <3>1. /\ Shape(Converted(held), "paid")
          /\ Converted(held).sale = 1
      BY ConvertedShape DEF NoMoves, Movements, Shape
    <3>2. Converted(held).return = 0
      BY <3>1 DEF Shape
    <3>3. /\ ledger'[o] = IF c = GrandTotal THEN Converted(held) ELSE held
          /\ status'[o] = IF c = GrandTotal THEN "paid" ELSE "pending"
          /\ lines'[o] = b
          /\ shipped'[o] = shipped[o]
          /\ b \in [Variants -> Nat]
          /\ status[o] = "none"
      BY <2>2, OrdersAssumption DEF Checkout, Post, TypeOK
    <3>4. \A v \in Variants : shipped'[o][v] = 0 /\ b[v] \in Nat
      BY <2>0, <3>3
    <3> HIDE DEF held
    <3>5. Stands(ledger'[o], status'[o], lines'[o], shipped'[o])
      BY <3>1, <3>2, <3>3, <3>4
    <3>6. \A x \in Orders \ {o} :
            UNCHANGED <<ledger[x], status[x], lines[x], shipped[x]>>
      BY <2>2 DEF Checkout, Post, TypeOK
    <3> QED
      BY <2>1, <3>5, <3>6
  <2>3. ASSUME NEW o \in Orders, NEW amount \in Captures,
               CapturePayment(o, amount)
        PROVE  StandsInv'
    <3>1. /\ Shape(Converted(ledger[o]), "paid")
          /\ Converted(ledger[o]).sale = 1
          /\ status[o] = "pending"
      BY <2>0, <2>3, ConvertedShape DEF CapturePayment
    <3>2. Converted(ledger[o]).return = 0
      BY <3>1 DEF Shape
    <3>3. /\ ledger'[o] = Converted(ledger[o]) /\ status'[o] = "paid"
          /\ lines' = lines /\ shipped' = shipped
      BY <2>3 DEF CapturePayment, Post, TypeOK
    <3>4. Stands(ledger'[o], status'[o], lines'[o], shipped'[o])
      BY <2>0, <3>1, <3>2, <3>3
    <3>5. \A x \in Orders \ {o} :
            UNCHANGED <<ledger[x], status[x], lines[x], shipped[x]>>
      BY <2>3 DEF CapturePayment, Post, TypeOK
    <3> QED
      BY <2>1, <3>4, <3>5
  <2>4. ASSUME NEW o \in Orders, AdminCaptureCod(o) PROVE FALSE
    BY <2>4, CodPressedFor = {} DEF AdminCaptureCod
  <2>5. ASSUME NEW o \in Orders, AdminCancelOrder(o) \/ CancelOwnOrder(o)
        PROVE  StandsInv'
    <3>1. /\ status[o] \in {"pending", "paid"} /\ status'[o] = "cancelled"
          /\ lines' = lines /\ shipped' = shipped
      BY <2>5 DEF AdminCancelOrder, CancelOwnOrder, TypeOK
    <3>2. Stands(ledger'[o], status'[o], lines'[o], shipped'[o])
      BY <2>0, <3>1
    <3>3. \A x \in Orders \ {o} :
            UNCHANGED <<ledger[x], status[x], lines[x], shipped[x]>>
      BY <2>5 DEF AdminCancelOrder, CancelOwnOrder, Post, TypeOK
    <3> QED
      BY <2>1, <3>2, <3>3
  <2>6. ASSUME NEW o \in Orders, NEW box \in Baskets, AdminShipOrder(o, box)
        PROVE  StandsInv'
    <3>1. /\ status[o] \in {"paid", "shipped"} /\ status'[o] = "shipped"
          /\ ledger' = ledger /\ lines' = lines
          /\ shipped'[o] = [v \in Variants |-> shipped[o][v] + box[v]]
          /\ \A v \in Variants : shipped[o][v] + box[v] <= lines[o][v]
      BY <2>6, ShipFrom \subseteq {"paid", "shipped"} DEF AdminShipOrder, TypeOK
    <3>2. Stands(ledger'[o], status'[o], lines'[o], shipped'[o])
      BY <2>0, <3>1
    <3>3. \A x \in Orders \ {o} :
            UNCHANGED <<ledger[x], status[x], lines[x], shipped[x]>>
      BY <2>6 DEF AdminShipOrder, TypeOK
    <3> QED
      BY <2>1, <3>2, <3>3
  <2>7. ASSUME NEW s \in Sweepers, SweepWrite(s) PROVE StandsInv'
    <3>1. UNCHANGED <<status, lines, shipped>>
      BY <2>7 DEF SweepWrite
    <3>2. \A o \in Orders : /\ ledger'[o].sale = ledger[o].sale
                            /\ ledger'[o].return = ledger[o].return
      BY <2>0, <2>7 DEF SweepWrite, Released, Movements
    <3> QED
      BY <3>1, <3>2 DEF StandsInv
  <2>8. ASSUME UNCHANGED <<ledger, status, lines, shipped>> PROVE StandsInv'
    BY <2>8 DEF StandsInv
  <2>9. ASSUME NEW o \in Orders, FailPayment(o) \/ Lapse(o)
        PROVE  UNCHANGED <<ledger, status, lines, shipped>>
    BY <2>9 DEF FailPayment, Lapse
  <2>10. ASSUME NEW w \in Variants, NEW q \in Adjustments,
                RecordStockMovement(w, q)
         PROVE  UNCHANGED <<ledger, status, lines, shipped>>
    BY <2>10 DEF RecordStockMovement
  <2>11. ASSUME NEW s \in Sweepers,
                SweepRead(s) \/ SweepConflict(s) \/ SweepCrash(s)
         PROVE  UNCHANGED <<ledger, status, lines, shipped>>
    BY <2>11 DEF SweepRead, SweepConflict, SweepCrash
  <2>12. CASE UNCHANGED vars
    BY <2>8, <2>12 DEF vars
  <2> QED
    BY <2>2, <2>3, <2>4, <2>5, <2>6, <2>7, <2>8, <2>9, <2>10, <2>11, <2>12
       DEF Next, OrderStep, SweepStep
<1>3. TypeOK /\ LedgerInv /\ ShelfInv /\ StandsInv => ShelfCoversOrders
  <2> SUFFICES ASSUME TypeOK, LedgerInv, ShelfInv, StandsInv,
                      NEW v \in Variants
      PROVE  Total([o \in Orders |-> Owed(o, v) + shipped[o][v]])
               <= Opening[v] + adjusted[v]
    BY DEF ShelfCoversOrders
  <2> DEFINE due == [o \in Orders |-> Owed(o, v) + shipped[o][v]]
             out == [o \in Orders |-> Committed(o, v)]
  <2>1. ASSUME NEW o \in Orders
        PROVE  due[o] \in Nat /\ due[o] <= out[o]
    <3>1. /\ ledger[o] \in Movements /\ status[o] \in Statuses
          /\ Shape(ledger[o], status[o])
      BY DEF TypeOK, LedgerInv
    <3>2. /\ lines[o][v] \in Nat /\ Committed(o, v) \in Nat
          /\ shipped[o][v] \in Nat
          /\ shipped[o][v] <= lines[o][v]
          /\ status[o] # "shipped" => shipped[o][v] = 0
      BY CommittedType DEF TypeOK, StandsInv
    <3>3. CASE status[o] = "pending" /\ Live(ledger[o])
      <4>1. Out(ledger[o]) = 1
        BY <3>1, <3>3, PendingClaim
      <4> QED
        BY <3>2, <3>3, <4>1 DEF Owed, Committed
    <3>4. CASE status[o] \in {"paid", "shipped"}
      <4>1. ledger[o].sale = 1 /\ ledger[o].return = 0
        BY <3>4 DEF StandsInv
      <4>2. Out(ledger[o]) = 1
        BY <3>1, <3>4, <4>1 DEF Shape, Out, Movements
      <4> QED
        BY <3>2, <3>4, <4>2 DEF Owed, Committed
    <3>5. CASE /\ ~(status[o] = "pending" /\ Live(ledger[o]))
               /\ status[o] \notin {"paid", "shipped"}
      BY <3>2, <3>5 DEF Owed
    <3> QED
      BY <3>3, <3>4, <3>5
  <2>2. due \in [Orders -> Nat] /\ out \in [Orders -> Nat]
    BY <2>1, CommittedType
  <2>3. stock[v] \in Nat /\ stock[v] + Total(out) = Opening[v] + adjusted[v]
    BY DEF TypeOK, ShelfInv
  <2> HIDE DEF due, out
  <2>4. Total(due) <= Total(out) /\ Total(due) \in Nat /\ Total(out) \in Nat
    BY <2>1, <2>2, TotalMonotone, TotalIsNat, OrdersAssumption
  <2>5. Total(due) <= stock[v] + Total(out)
    BY <2>3, <2>4
  <2> QED
    BY <2>3, <2>5 DEF due
<1> QED
  BY <1>1, <1>2, <1>3, TypeCorrect, LedgerInvariant, StockIsLedger, PTL
     DEF Spec

=============================================================================
