------------------------------- MODULE Orders -------------------------------
(***************************************************************************)
(* Orders, the stock ledger and the payment rows: the plpgsql functions    *)
(* that place, pay, cancel, ship and expire an order, over the tables      *)
(* product_variants, orders, order_items, inventory_movements, payments    *)
(* and shipment_items of the baseline migration.                           *)
(*                                                                         *)
(* Every function is one database transaction.  All but the sweeper first  *)
(* lock the order's row FOR UPDATE, so one action stands for one call that *)
(* commits; a call that raises changes nothing and is not an action.  The  *)
(* sweeper locks nothing: its one INSERT ... SELECT reads the expired      *)
(* holds in a snapshot and inserts later, so it is two actions, and what   *)
(* it inserts meets the unique index on reservation_id.                    *)
(*                                                                         *)
(* The movements an order writes always cover all of its lines: its holds  *)
(* share one expires_at and are consumed by one statement or one           *)
(* transaction.  ledger[o] therefore counts, per reason, how many times    *)
(* the order's lines have been written with that reason.                   *)
(***************************************************************************)
EXTENDS Integers, FiniteSets, Totals

CONSTANTS
  Orders,        \* order ids
  Variants,      \* product variants
  Sweepers,      \* sessions that may run the sweeper (pg_cron, the job loop)
  Methods,       \* payment methods customers choose: "razorpay", "cod"
  Baskets,       \* quantities per variant a customer orders or staff pack
  Credits,       \* store credit a checkout may find to spend
  GrandTotal,    \* what an order costs
  Captures,      \* amounts the gateway may report as captured
  Opening,       \* stock on the shelf at the start
  Adjustments,   \* quantities staff write as manual movements
  AdjustBound,   \* bound: manual movements sum to -AdjustBound..AdjustBound
  CodPressedFor, \* methods of the orders staff press "capture COD" on
  ShipFrom       \* statuses of the orders staff press "ship" on

ASSUME OrdersAssumption ==
  /\ IsFiniteSet(Orders)
  /\ Methods \subseteq {"razorpay", "cod"}
  /\ Baskets \subseteq [Variants -> Nat]
  /\ GrandTotal \in Nat \ {0}
  /\ Credits \subseteq 0..GrandTotal
  /\ Captures \subseteq Nat
  /\ Opening \in [Variants -> Nat]
  /\ Adjustments \subseteq Int
  /\ AdjustBound \in Nat

VARIABLES
  stock,     \* product_variants.stock
  adjusted,  \* sum of the movements that belong to no order
  status,    \* orders.status; "none" before checkout
  method,    \* the payment method given at checkout
  lines,     \* order_items: quantity per variant
  ledger,    \* inventory_movements of the order, counted per reason
  lapsed,    \* the order's holds have expires_at < now()
  shipped,   \* shipment_items: units dispatched per variant
  payments,  \* the payments row of each provider
  taken,     \* observer: what the gateway has captured in accepted captures
  sweep      \* orders whose expired holds a running sweeper has read

vars == <<stock, adjusted, status, method, lines, ledger, lapsed, shipped,
          payments, taken, sweep>>

-----------------------------------------------------------------------------
(* Types *)

Statuses  == {"none", "pending", "paid", "shipped", "cancelled"}
Providers == {"razorpay", "cod", "store_credit"}
Row       == [status : {"none", "created", "failed", "captured"}, amount : Nat]
Movements == [reservation : Nat, release : Nat, sale : Nat, return : Nat]

NoRow   == [status |-> "none", amount |-> 0]
NoMoves == [reservation |-> 0, release |-> 0, sale |-> 0, return |-> 0]
Nothing == [v \in Variants |-> 0]

TypeOK ==
  /\ stock    \in [Variants -> Nat]
  /\ adjusted \in [Variants -> Int]
  /\ status   \in [Orders -> Statuses]
  /\ method   \in [Orders -> Methods \cup {"none"}]
  /\ lines    \in [Orders -> [Variants -> Nat]]
  /\ ledger   \in [Orders -> Movements]
  /\ lapsed   \in [Orders -> BOOLEAN]
  /\ shipped  \in [Orders -> [Variants -> Nat]]
  /\ payments \in [Orders -> [Providers -> Row]]
  /\ taken    \in [Orders -> Nat]
  /\ sweep    \in [Sweepers -> SUBSET Orders]

-----------------------------------------------------------------------------
(* The ledger *)

(* A hold no row refers to: not released and not converted.  Only release  *)
(* rows carry a reservation_id.                                            *)
Live(l) == l.reservation > l.release

(* How many times the order's lines are out of stock by the ledger.        *)
Out(l) == l.reservation + l.sale - l.release - l.return

Released(l) == [l EXCEPT !.release = @ + 1]
Sold(l)     == [l EXCEPT !.sale = @ + 1]

(* (mutant of Returned: one return per cancelled order, sold or not.)      *)
ReturnedUnsold(l) == [l EXCEPT !.return = @ + 1]

(* A return row negates the sum of the order's sale rows.                  *)
Returned(l) == [l EXCEPT !.return = @ + l.sale]

(* (mutant of ApplyMovement: a column without the CHECK.)                  *)
ApplyUnchecked(next) ==
  /\ next \in [Variants -> Int]
  /\ stock' = next

(* trg_apply_movement with CHECK (stock >= 0): a statement that would take *)
(* a variant below zero fails with its transaction.                        *)
ApplyMovement(next) ==
  /\ next \in [Variants -> Nat]
  /\ stock' = next

(* The order o with lines ln writes the movements that lead to `after`.    *)
Post(o, ln, after) ==
  /\ ApplyMovement([v \in Variants |->
        stock[v] - (Out(after) - Out(ledger[o])) * ln[v]])
  /\ ledger' = [ledger EXCEPT ![o] = after]

(* (mutant of Converted: without the loop for a hold that lapsed.)         *)
ConvertedHoldOnly(l) == IF Live(l) THEN Sold(Released(l)) ELSE l

(* What capturing does to the ledger: the hold becomes a sale; with no     *)
(* hold left the stock is taken now.                                       *)
Converted(l) == IF Live(l) THEN Sold(Released(l)) ELSE Sold(l)

(* (mutant of GivenBack: the holds are not filtered by consumer.)          *)
GivenBackBlindly(l, st) ==
  IF st = "pending" THEN Released(l) ELSE Returned(l)

(* What cancelling does to the ledger of an order in status st.            *)
GivenBack(l, st) ==
  LET freed == IF Live(l) THEN Released(l) ELSE l
  IN  IF st = "pending" THEN freed ELSE Returned(freed)

-----------------------------------------------------------------------------
(* The payment rows *)

Amount(rows, p) == IF rows[p].status = "captured" THEN rows[p].amount ELSE 0

(* What is still outstanding by the rows captured so far.                  *)
Due(rows) ==
  GrandTotal
    - (Amount(rows, "razorpay") + Amount(rows, "cod")
       + Amount(rows, "store_credit"))

(* (mutant of AmountAccepted: no amount_mismatch.)                         *)
AnyAmount(rows, amount) == TRUE

(* The amount the gateway reports is compared with what is outstanding.    *)
AmountAccepted(rows, amount) == amount = Due(rows)

(* The rows a checkout opens: store credit first, the rest to the method.  *)
Opened(m, c) ==
  [p \in Providers |->
     IF p = "store_credit" /\ c > 0
       THEN [status |-> "created", amount |-> c]
     ELSE IF p = m /\ c < GrandTotal
       THEN [status |-> "created", amount |-> GrandTotal - c]
     ELSE NoRow]

(* The provider's row becomes captured; a provider without one gets a row  *)
(* for the whole total.                                                    *)
Settled(rows, p) ==
  IF rows[p].status = "none"
    THEN [rows EXCEPT ![p] = [status |-> "captured", amount |-> GrandTotal]]
    ELSE [rows EXCEPT ![p].status = "captured"]

(* A failed attempt leaves the row to be tried again.                      *)
Failed(rows, p) == [rows EXCEPT ![p].status = "failed"]

-----------------------------------------------------------------------------
Init ==
  /\ stock    = Opening
  /\ adjusted = [v \in Variants |-> 0]
  /\ status   = [o \in Orders |-> "none"]
  /\ method   = [o \in Orders |-> "none"]
  /\ lines    = [o \in Orders |-> Nothing]
  /\ ledger   = [o \in Orders |-> NoMoves]
  /\ lapsed   = [o \in Orders |-> FALSE]
  /\ shipped  = [o \in Orders |-> Nothing]
  /\ payments = [o \in Orders |-> [p \in Providers |-> NoRow]]
  /\ taken    = [o \in Orders |-> 0]
  /\ sweep    = [s \in Sweepers |-> {}]

(* checkout: the order, its lines, its holds, the store credit row and the *)
(* gateway row in one transaction; credit for the whole total captures at  *)
(* once.                                                                   *)
Checkout(o, m, b, c) ==
  LET held  == [NoMoves EXCEPT !.reservation = 1]
      whole == c = GrandTotal
      rows  == Opened(m, c)
  IN  /\ status[o] = "none"
      /\ Post(o, b, IF whole THEN Converted(held) ELSE held)
      /\ status'   = [status EXCEPT ![o] = IF whole THEN "paid" ELSE "pending"]
      /\ method'   = [method EXCEPT ![o] = m]
      /\ lines'    = [lines EXCEPT ![o] = b]
      /\ payments' = [payments EXCEPT ![o] =
                        IF whole THEN Settled(rows, "store_credit") ELSE rows]
      /\ UNCHANGED <<adjusted, lapsed, shipped, taken, sweep>>

(* capture_payment as the webhook calls it: the order is found through its *)
(* razorpay row, and an amount other than what is due raises.              *)
CapturePayment(o, amount) ==
  /\ payments[o]["razorpay"].status # "none"
  /\ status[o] = "pending"
  /\ AmountAccepted(payments[o], amount)
  /\ Post(o, lines[o], Converted(ledger[o]))
  /\ payments' = [payments EXCEPT ![o] = Settled(@, "razorpay")]
  /\ status'   = [status EXCEPT ![o] = "paid"]
  /\ taken'    = [taken EXCEPT ![o] = @ + amount]
  /\ UNCHANGED <<adjusted, method, lines, lapsed, shipped, sweep>>

(* (mutant of FailPayment: the status is not looked at.)                   *)
FailPaymentLate(o) ==
  /\ payments[o]["razorpay"].status # "none"
  /\ payments' = [payments EXCEPT ![o] = Failed(@, "razorpay")]
  /\ UNCHANGED <<stock, adjusted, status, method, lines, ledger, lapsed,
                 shipped, taken, sweep>>

(* fail_payment: the row is marked, the hold and the order stay.           *)
FailPayment(o) ==
  /\ status[o] = "pending"
  /\ payments[o]["razorpay"].status = "created"
  /\ payments' = [payments EXCEPT ![o] = Failed(@, "razorpay")]
  /\ UNCHANGED <<stock, adjusted, status, method, lines, ledger, lapsed,
                 shipped, taken, sweep>>

(* admin_capture_cod: converts the holds that are left, and nothing else   *)
(* when there are none; captures a COD row if the order has one.           *)
AdminCaptureCod(o) ==
  /\ method[o] \in CodPressedFor
  /\ status[o] = "pending"
  /\ Post(o, lines[o], IF Live(ledger[o]) THEN Sold(Released(ledger[o]))
                                          ELSE ledger[o])
  /\ payments' = IF payments[o]["cod"].status = "none" THEN payments
                 ELSE [payments EXCEPT ![o] = Settled(@, "cod")]
  /\ status'   = [status EXCEPT ![o] = "paid"]
  /\ UNCHANGED <<adjusted, method, lines, lapsed, shipped, taken, sweep>>

(* admin_cancel_order: also a paid order, whose sold units come back.      *)
AdminCancelOrder(o) ==
  /\ status[o] \in {"pending", "paid"}
  /\ Post(o, lines[o], GivenBack(ledger[o], status[o]))
  /\ status' = [status EXCEPT ![o] = "cancelled"]
  /\ UNCHANGED <<adjusted, method, lines, lapsed, shipped, payments, taken,
                 sweep>>

(* cancel_own_order: the customer, and only an unpaid order.               *)
CancelOwnOrder(o) ==
  /\ status[o] = "pending"
  /\ Post(o, lines[o], GivenBack(ledger[o], "pending"))
  /\ status' = [status EXCEPT ![o] = "cancelled"]
  /\ UNCHANGED <<adjusted, method, lines, lapsed, shipped, payments, taken,
                 sweep>>

(* admin_ship_order with trg_shipment_quantity: one more box, refused only *)
(* for a pending order or when the boxes would exceed the lines.           *)
AdminShipOrder(o, box) ==
  /\ status[o] \in ShipFrom
  /\ status[o] \notin {"none", "pending"}
  /\ \E v \in Variants : box[v] > 0
  /\ \A v \in Variants : shipped[o][v] + box[v] <= lines[o][v]
  /\ shipped' = [shipped EXCEPT ![o] = [v \in Variants |-> @[v] + box[v]]]
  /\ status'  = [status EXCEPT ![o] = "shipped"]
  /\ UNCHANGED <<stock, adjusted, method, lines, ledger, lapsed, payments,
                 taken, sweep>>

(* record_stock_movement: goods in, a correction or a write-off.           *)
RecordStockMovement(v, q) ==
  /\ q # 0
  /\ adjusted[v] + q \in -AdjustBound..AdjustBound
  /\ ApplyMovement([stock EXCEPT ![v] = @ + q])
  /\ adjusted' = [adjusted EXCEPT ![v] = @ + q]
  /\ UNCHANGED <<status, method, lines, ledger, lapsed, shipped, payments,
                 taken, sweep>>

(* The hold minutes pass.                                                  *)
Lapse(o) ==
  /\ Live(ledger[o])
  /\ ~lapsed[o]
  /\ lapsed' = [lapsed EXCEPT ![o] = TRUE]
  /\ UNCHANGED <<stock, adjusted, status, method, lines, ledger, shipped,
                 payments, taken, sweep>>

(* (mutant of Expired: only what a gateway could still pay for.)           *)
ExpiredCards == {o \in Orders :
  Live(ledger[o]) /\ lapsed[o] /\ method[o] = "razorpay"}

(* The holds past expires_at that no row consumes.                         *)
Expired == {o \in Orders : Live(ledger[o]) /\ lapsed[o]}

(* release_expired_reservations reads the holds it is going to release.    *)
SweepRead(s) ==
  /\ sweep[s] = {}
  /\ Expired # {}
  /\ sweep' = [sweep EXCEPT ![s] = Expired]
  /\ UNCHANGED <<stock, adjusted, status, method, lines, ledger, lapsed,
                 shipped, payments, taken>>

(* (mutant of Unconsumed: no unique index.)                                *)
NoUniqueIndex(s) == TRUE

(* uniq_reservation_consumed accepts all the releases this sweeper writes. *)
Unconsumed(s) == \A o \in sweep[s] : Live(ledger[o])

(* It inserts one release per hold it read, and commits.                   *)
SweepWrite(s) ==
  /\ sweep[s] # {}
  /\ Unconsumed(s)
  /\ ApplyMovement([v \in Variants |->
        stock[v] + Total([o \in sweep[s] |-> lines[o][v]])])
  /\ ledger' = [o \in Orders |->
        IF o \in sweep[s] THEN Released(ledger[o]) ELSE ledger[o]]
  /\ sweep' = [sweep EXCEPT ![s] = {}]
  /\ UNCHANGED <<adjusted, status, method, lines, lapsed, shipped, payments,
                 taken>>

(* Somebody consumed one of the holds first: the statement fails whole.    *)
SweepConflict(s) ==
  /\ ~Unconsumed(s)
  /\ sweep' = [sweep EXCEPT ![s] = {}]
  /\ UNCHANGED <<stock, adjusted, status, method, lines, ledger, lapsed,
                 shipped, payments, taken>>

(* The session dies, or loses a deadlock, before it commits.               *)
SweepCrash(s) ==
  /\ sweep[s] # {}
  /\ sweep' = [sweep EXCEPT ![s] = {}]
  /\ UNCHANGED <<stock, adjusted, status, method, lines, ledger, lapsed,
                 shipped, payments, taken>>

OrderStep(o) ==
  \/ \E m \in Methods, b \in Baskets, c \in Credits : Checkout(o, m, b, c)
  \/ \E amount \in Captures : CapturePayment(o, amount)
  \/ FailPayment(o)
  \/ AdminCaptureCod(o)
  \/ AdminCancelOrder(o)
  \/ CancelOwnOrder(o)
  \/ \E box \in Baskets : AdminShipOrder(o, box)
  \/ Lapse(o)

SweepStep(s) ==
  \/ SweepRead(s)
  \/ SweepWrite(s)
  \/ SweepConflict(s)
  \/ SweepCrash(s)

Next ==
  \/ \E o \in Orders : OrderStep(o)
  \/ \E v \in Variants, q \in Adjustments : RecordStockMovement(v, q)
  \/ \E s \in Sweepers : SweepStep(s)

Spec == Init /\ [][Next]_vars

(* Time passes, and the sweeper is scheduled every few minutes: each run   *)
(* ends one way or another, and a crash does not strike every run.         *)
Fairness ==
  /\ \A o \in Orders : WF_vars(Lapse(o))
  /\ \A s \in Sweepers :
       /\ WF_vars(SweepRead(s))
       /\ WF_vars(SweepConflict(s))
       /\ SF_vars(SweepWrite(s))

FairSpec == Spec /\ Fairness

-----------------------------------------------------------------------------
(* Properties of the ledger *)

(* The ledger of an order agrees with its status, whoever got to its holds *)
(* first: a hold is consumed at most once, only a pending order still has  *)
(* one, nothing is taken twice, and a cancelled order has given everything *)
(* back.  (capture_payment, admin_capture_cod, admin_cancel_order,         *)
(* cancel_own_order and release_expired_reservations racing.)              *)
LedgerMatchesStatus ==
  \A o \in Orders :
    /\ ledger[o].release <= 1
    /\ Live(ledger[o]) => status[o] = "pending"
    /\ Out(ledger[o]) \in {0, 1}
    /\ status[o] = "pending" => ledger[o].sale = 0
    /\ status[o] = "cancelled" => Out(ledger[o]) = 0

(* A paid order has its units off the stock exactly once, also when its    *)
(* hold lapsed before the money landed (the second loop of                 *)
(* capture_payment).                                                       *)
PaidTookStock ==
  \A o \in Orders : status[o] = "paid" => Out(ledger[o]) = 1

(* What the order o still needs from the shelf.                            *)
Owed(o, v) ==
  IF status[o] = "pending" /\ Live(ledger[o]) THEN lines[o][v]
  ELSE IF status[o] \in {"paid", "shipped"} THEN lines[o][v] - shipped[o][v]
  ELSE 0

(* No oversell: the units that are really on the shelf, everything that    *)
(* came in less everything dispatched, cover every live hold and every     *)
(* paid order not dispatched yet.  (CHECK (stock >= 0) under all the       *)
(* functions that move stock.)                                             *)
ShelfCoversOrders ==
  \A v \in Variants :
    Total([o \in Orders |-> Owed(o, v) + shipped[o][v]])
      <= Opening[v] + adjusted[v]

(* A step that leaves the ledger of a settled order alone, or cancels it.  *)
Frozen(o) ==
  /\ status[o] \in {"paid", "shipped", "cancelled"}
  /\ status[o] = "cancelled" \/ status'[o] # "cancelled"
  => ledger'[o] = ledger[o]

(* Once an order is paid, shipped or cancelled only a cancellation moves   *)
(* its stock again: a sweep that read the hold while it was live has no    *)
(* effect on it (uniq_reservation_consumed).                               *)
SettledLedgerIsFrozen == [][\A o \in Orders : Frozen(o)]_vars

(* Every hold is consumed in the end: the sweeper frees what no payment    *)
(* and no cancellation did (release_expired_reservations).                 *)
HoldsDoNotStrand ==
  \A o \in Orders : Live(ledger[o]) ~> ~Live(ledger[o])

(* The claim an order has on its units, by the ledger.                     *)
ClaimOf(o) ==
  IF ledger[o].reservation = 0 THEN "none"
  ELSE IF Live(ledger[o]) THEN "held"
  ELSE IF Out(ledger[o]) = 1 THEN "sold"
  ELSE IF ledger[o].return > 0 THEN "returned"
  ELSE "lapsed"

Promise == INSTANCE StockClaims WITH
  shelf <- stock,
  claim <- [o \in Orders |-> ClaimOf(o)],
  wants <- lines

(* The whole ledger, races included, keeps the promise of StockClaims:     *)
(* every movement of stock is one claim made, kept, let go or given back.  *)
ClaimsKept == Promise!Spec

-----------------------------------------------------------------------------
(* Properties of the money *)

(* What the store has been given for the order o: what the gateway took,   *)
(* the cash of a captured COD row, and the store credit debited for it.    *)
MoneyIn(o) ==
  taken[o] + Amount(payments[o], "cod") + payments[o]["store_credit"].amount

(* A paid order was paid in full (the amount check of capture_payment).    *)
PaidInFull ==
  \A o \in Orders : status[o] = "paid" => MoneyIn(o) >= GrandTotal

(* The customer is not charged for what store credit already covers:       *)
(* "the gateway is owed whatever credit does not cover" (checkout, 9b).    *)
ChargedOnce ==
  \A o \in Orders : MoneyIn(o) <= GrandTotal

(* A step that leaves the row alone, if it is captured.                    *)
RowStays(o, p) ==
  payments[o][p].status = "captured" => payments'[o][p] = payments[o][p]

(* A captured payment row is final: no late or repeated payment.failed and *)
(* no cancellation takes it back.                                          *)
CapturedRowsStay == [][\A o \in Orders, p \in Providers : RowStays(o, p)]_vars

(* Only paid goods leave: "order is unpaid" is refused (admin_ship_order). *)
NothingUnpaidLeaves ==
  \A o \in Orders, v \in Variants :
    shipped[o][v] > 0 => MoneyIn(o) >= GrandTotal
=============================================================================
