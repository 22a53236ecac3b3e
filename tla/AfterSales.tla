----------------------------- MODULE AfterSales -----------------------------
(***************************************************************************)
(* What happens to an order once it is paid: shipments, returns, refunds.  *)
(*                                                                         *)
(* Each plpgsql function is one transaction, seen here lock by lock: it    *)
(* locks rows, decides on what it reads, locks what its writes refer to    *)
(* (a foreign key locks the row it points at FOR KEY SHARE) and commits.   *)
(* Its writes show at the commit.  A refund is more than a transaction:    *)
(* the route claims its Idempotency-Key, records the refund, asks the      *)
(* gateway, settles the refund and stores its answer, and a process may    *)
(* die or an answer get lost at any of these steps.                        *)
(*                                                                         *)
(* One order with one line; a unit of it costs one unit of money.          *)
(***************************************************************************)
EXTENDS Integers, Sequences, FiniteSets, RowLocks, Totals

CONSTANTS
  Sessions,    \* requests that run at the same time
  Shipments,   \* boxes the order may go out in
  Returns,     \* return requests the customer may make
  Keys,        \* idempotency keys of refund requests, one per click
  None,        \* no row
  Quantity,    \* order_items.quantity, and orders.grand_total
  Parcels,     \* units staff put in a box
  Asks,        \* units the customer asks to return
  Amounts,     \* amounts staff refund
  Tracks,      \* shipment statuses couriers report
  Decisions,   \* decisions on a return
  AskTogether, \* whether the customer may ask for two returns at once
  MishapBound  \* bound: crashes, lost answers, failed calls

ASSUME AfterSalesAssumption ==
  /\ None \notin Shipments \cup Returns \cup Keys
  /\ Quantity \in Nat \ {0}
  /\ Parcels \cup Asks \cup Amounts \subseteq Nat \ {0}
  /\ Tracks \subseteq {"label_created", "picked_up", "in_transit",
                       "out_for_delivery", "delivered", "rto", "lost"}
  /\ Decisions \subseteq {"approved", "rejected", "pickup_scheduled"}
  /\ AskTogether \in BOOLEAN
  /\ MishapBound \in Nat
  /\ IsFiniteSet(Shipments) /\ IsFiniteSet(Returns) /\ IsFiniteSet(Keys)

VARIABLES
  order,      \* orders.status
  ships,      \* shipments and their shipment_items
  rets,       \* return_requests and their return_items
  refunds,    \* refunds, by the key of the request that made them
  keys,       \* idempotency_keys
  session,    \* the call of each session and how far it is
  returned,   \* observer: units received back from the customer
  paid,       \* observer: money the gateway or a human gave back, by key
  mishaps     \* mishaps so far

rowVars == <<order, ships, rets, refunds, returned>>
vars    == <<rowVars, keys, session, paid, mishaps>>

-----------------------------------------------------------------------------
(* Types *)

DbFunctions == {"admin_ship_order", "admin_update_shipment",
               "admin_cancel_order", "request_return", "admin_review_return",
               "admin_receive_return", "admin_refund", "settle_refund"}

(* route: the key of the refund request the session serves, or None.       *)
Call    == [fn : DbFunctions \cup {"none"}, route : Keys \cup {None},
            row : Shipments \cup Returns \cup Keys \cup {None},
            ret : Returns \cup {None}, n : Nat,
            to : {"none", "processed", "failed"} \cup Tracks \cup Decisions]
Stages  == {"idle", "run", "gateway", "store", "release"}
Session == [stage : Stages, call : Call, locks : Nat,
            go : {"undecided", "apply", "last"}]

NoCall == [fn |-> "none", route |-> None, row |-> None, ret |-> None,
           n |-> 0, to |-> "none"]
Idle   == [stage |-> "idle", call |-> NoCall, locks |-> 0,
           go |-> "undecided"]

TypeOK ==
  /\ order \in {"paid", "shipped", "delivered", "cancelled", "refunded"}
  /\ ships \in [Shipments -> [status : {"none", "label_created"} \cup Tracks,
                              n : 0..Quantity]]
  /\ rets  \in [Returns -> [status : {"none", "requested", "received",
                                      "refunded"} \cup Decisions,
                            n : 0..Quantity]]
  /\ refunds \in [Keys -> [status : {"none", "initiated", "processed",
                                     "failed"},
                           n : Nat, ret : Returns \cup {None}]]
  /\ keys      \in [Keys -> {"free", "in_flight", "completed"}]
  /\ session   \in [Sessions -> Session]
  /\ returned  \in Nat
  /\ paid      \in [Keys -> 0..Quantity]
  /\ mishaps   \in 0..MishapBound

Init ==
  /\ order     = "paid"
  /\ ships     = [s \in Shipments |-> [status |-> "none", n |-> 0]]
  /\ rets      = [r \in Returns |-> [status |-> "none", n |-> 0]]
  /\ refunds   = [k \in Keys |-> [status |-> "none", n |-> 0, ret |-> None]]
  /\ keys      = [k \in Keys |-> "free"]
  /\ session   = [s \in Sessions |-> Idle]
  /\ returned  = 0
  /\ paid      = [k \in Keys |-> 0]
  /\ mishaps   = 0

-----------------------------------------------------------------------------
(* Sums *)

InBoxes == Total([s \in Shipments |-> ships[s].n])
Asked   == Total([r \in Returns |-> rets[r].n])

RefundedIn(statuses) ==
  Total([k \in Keys |-> IF refunds[k].status \in statuses
                          THEN refunds[k].n ELSE 0])

(* (mutant of Already: only what has been settled counts.)                 *)
AlreadySettled == RefundedIn({"processed"})

(* What admin_refund counts as refunded already.                           *)
Already == RefundedIn({"initiated", "processed"})

-----------------------------------------------------------------------------
(* Row locks *)

(* (mutant of Reads: only the row a call names is locked.)                 *)
ReadsRowOnly(c) ==
  IF c.fn \in {"admin_update_shipment", "settle_refund"}
    THEN <<Update(c.row)>> ELSE <<>>

(* What a function locks before it decides.  request_return writes its     *)
(* row first, which shares the order, and then adds up the returns of the  *)
(* line; a refund that is not 'initiated' any more, or did not go through, *)
(* lets the order alone.                                                   *)
Reads(c) ==
  CASE c.fn \in {"admin_ship_order", "admin_cancel_order", "admin_refund"} ->
         <<Update("order")>>
    [] c.fn = "admin_update_shipment" -> <<Update(c.row), Update("order")>>
    [] c.fn \in {"admin_review_return", "admin_receive_return"} ->
         <<Update(c.row)>>
    [] c.fn = "settle_refund" ->
         IF refunds[c.row].status = "initiated" /\ c.to = "processed"
           THEN <<Update(c.row), Update("order")>> ELSE <<Update(c.row)>>
    [] c.fn = "request_return" -> <<KeyShare("order")>>
    [] c.fn = "none" -> <<>>

(* (mutant of Writes: shipping touches the boxes there are, nothing else   *)
(* is locked.)                                                             *)
WritesBoxes(c) ==
  LET boxes == {s \in Shipments : ships[s].status # "none"}
  IN  IF c.fn = "admin_ship_order" /\ boxes # {}
        THEN <<NoKey(CHOOSE s \in boxes : TRUE)>> ELSE <<>>

(* What its writes lock: the rows their foreign keys name, the return that *)
(* a refund closes.                                                        *)
Writes(c) ==
  CASE c.fn = "admin_refund" -> KeyShareIf(c.ret # None, c.ret)
    [] c.fn \in {"admin_review_return", "admin_receive_return"} ->
         <<KeyShare("order")>>
    [] c.fn = "settle_refund" ->
         LET r    == refunds[c.row].ret
             open == r # None /\ rets[r].status # "refunded"
         IN  IF c.to = "processed" /\ open THEN <<NoKey(r)>> ELSE <<>>
    [] OTHER -> <<>>

Locks(c, go) ==
  IF go = "undecided" THEN Reads(c) ELSE Reads(c) \o Writes(c)

(* What s holds: the first locks of its call.                              *)
Held(s) ==
  LET c == session[s].call
  IN  FirstLocks(Reads(c) \o Writes(c), session[s].locks)

(* s asks for a lock it does not hold yet.                                 *)
Asking(s) ==
  /\ session[s].stage = "run"
  /\ session[s].locks < Len(Locks(session[s].call, session[s].go))

Wanted(s) == Locks(session[s].call, session[s].go)[session[s].locks + 1]

WaitsFor(s, t) ==
  /\ s # t
  /\ Asking(s)
  /\ \E held \in Held(t) : Conflict(Wanted(s), held)

-----------------------------------------------------------------------------
(* Decisions *)

(* settle_refund counts the row it has just updated.                       *)
PaidBack(c) == RefundedIn({"processed"}) + refunds[c.row].n

Settled == {"received", "refunded"}

(* (mutant of NotReceivable: not asked whether it was received.)           *)
OnlyRejected(r) == rets[r].status = "rejected"

NotReceivable(r) == rets[r].status \in Settled \cup {"rejected"}

(* The checks after which a function raises, or returns without a write.   *)
Refused(c) ==
  \/ /\ c.fn = "admin_ship_order"
     /\ InBoxes + c.n > Quantity
  \/ /\ c.fn = "admin_update_shipment"
     /\ order \in {"cancelled", "refunded"} \/ ships[c.row].status = c.to
  \/ /\ c.fn = "admin_cancel_order"
     /\ order \in {"shipped", "delivered", "refunded", "cancelled"}
  \/ /\ c.fn = "request_return"
     /\ Asked + c.n > Quantity
  \/ /\ c.fn = "admin_review_return"
     /\ \/ rets[c.row].status \in Settled
        \/ rets[c.row].status = "rejected" /\ c.to # "approved"
  \/ /\ c.fn = "admin_receive_return"
     /\ NotReceivable(c.row)
  \/ /\ c.fn = "admin_refund"
     /\ Already + c.n > Quantity
  \/ /\ c.fn = "settle_refund"
     /\ refunds[c.row].status # "initiated"

(* The last parcel to arrive delivers the order, the last refund refunds   *)
(* it.                                                                     *)
Last(c) ==
  \/ /\ c.fn = "admin_update_shipment" /\ c.to = "delivered"
     /\ \A s \in Shipments \ {c.row} :
          ships[s].status \in {"none", "delivered", "rto", "lost"}
  \/ /\ c.fn = "settle_refund" /\ c.to = "processed"
     /\ PaidBack(c) >= Quantity /\ order # "refunded"

-----------------------------------------------------------------------------
(* Transactions *)

Running(s, c, locks) ==
  session' = [session EXCEPT ![s] = [Idle EXCEPT
                !.stage = "run", !.call = c, !.locks = locks]]

(* A call is seen from its first lock on: before it, it has done nothing.  *)
Starts(s, c) ==
  LET first == FirstLocks(Reads(c), 1)
  IN  /\ session[s] = Idle
      /\ \A t \in Sessions \ {s} : \A held \in Held(t) :
           \A lock \in first : ~Conflict(lock, held)
      /\ Running(s, c, Cardinality(first))

Acquire(s) ==
  /\ Asking(s)
  /\ \A t \in Sessions : ~WaitsFor(s, t)
  /\ session' = [session EXCEPT ![s].locks = @ + 1]
  /\ UNCHANGED <<rowVars, keys, paid, mishaps>>

(* What the route does when its transaction is over, committed or not; the *)
(* other calls end there.                                                  *)
Over(s, committed) ==
  LET c    == session[s].call
      then == IF c.route = None THEN "idle"
              ELSE IF c.fn = "settle_refund" THEN "store"
              ELSE IF committed THEN "gateway" ELSE "release"
  IN  session' = [session EXCEPT ![s] =
        IF then = "idle" THEN Idle
        ELSE [Idle EXCEPT !.stage = then,
                          !.call  = [NoCall EXCEPT !.route = c.route]]]

(* It has what it reads and makes up its mind; a refusal ends it.          *)
Decide(s) ==
  LET c == session[s].call
  IN  /\ session[s].stage = "run"
      /\ session[s].go = "undecided"
      /\ ~Asking(s)
      /\ IF Refused(c)
           THEN Over(s, FALSE)
           ELSE session' = [session EXCEPT ![s].go =
                              IF Last(c) THEN "last" ELSE "apply"]
      /\ UNCHANGED <<rowVars, keys, paid, mishaps>>

(* The call of s commits.                                                  *)
Commits(s, fn) ==
  /\ session[s].go \in {"apply", "last"}
  /\ ~Asking(s)
  /\ session[s].call.fn = fn
  /\ Over(s, TRUE)
  /\ UNCHANGED <<keys, paid, mishaps>>

CommitShip(s) ==
  LET c == session[s].call
  IN  /\ Commits(s, "admin_ship_order")
      /\ ships' = [ships EXCEPT ![c.row] =
                     [status |-> "label_created", n |-> c.n]]
      /\ order' = "shipped"
      /\ UNCHANGED <<rets, refunds, returned>>

CommitTrack(s) ==
  LET c == session[s].call
  IN  /\ Commits(s, "admin_update_shipment")
      /\ ships' = [ships EXCEPT ![c.row].status = c.to]
      /\ order' = IF session[s].go = "last" THEN "delivered" ELSE order
      /\ UNCHANGED <<rets, refunds, returned>>

(* The units it sold go back to the shelf: see Orders.                     *)
CommitCancel(s) ==
  /\ Commits(s, "admin_cancel_order")
  /\ order' = "cancelled"
  /\ UNCHANGED <<ships, rets, refunds, returned>>

CommitRequest(s) ==
  LET c == session[s].call
  IN  /\ Commits(s, "request_return")
      /\ rets' = [rets EXCEPT ![c.row] = [status |-> "requested", n |-> c.n]]
      /\ UNCHANGED <<order, ships, refunds, returned>>

CommitReview(s) ==
  LET c == session[s].call
  IN  /\ Commits(s, "admin_review_return")
      /\ rets' = [rets EXCEPT ![c.row].status = c.to]
      /\ UNCHANGED <<order, ships, refunds, returned>>

(* Staff count the units of the return, fit to be sold again.              *)
CommitReceive(s) ==
  LET c == session[s].call
  IN  /\ Commits(s, "admin_receive_return")
      /\ rets'     = [rets EXCEPT ![c.row].status = "received"]
      /\ returned' = returned + rets[c.row].n
      /\ UNCHANGED <<order, ships, refunds>>

CommitRefund(s) ==
  LET c == session[s].call
  IN  /\ Commits(s, "admin_refund")
      /\ refunds' = [refunds EXCEPT ![c.route] =
                       [status |-> "initiated", n |-> c.n, ret |-> c.ret]]
      /\ UNCHANGED <<order, ships, rets, returned>>

CommitSettle(s) ==
  LET c == session[s].call
      r == refunds[c.row].ret
  IN  /\ Commits(s, "settle_refund")
      /\ refunds' = [refunds EXCEPT ![c.row].status = c.to]
      /\ order'   = IF session[s].go = "last" THEN "refunded" ELSE order
      /\ rets'    = IF c.to = "processed" /\ r # None
                      THEN [rets EXCEPT ![r].status = "refunded"] ELSE rets
      /\ UNCHANGED <<ships, returned>>

(* PostgreSQL ends one of two transactions that wait for each other.       *)
DeadlockAbort(s) ==
  /\ \E t \in Sessions : WaitsFor(s, t) /\ WaitsFor(t, s)
  /\ Over(s, FALSE)
  /\ UNCHANGED <<rowVars, keys, paid, mishaps>>

-----------------------------------------------------------------------------
(* Calls *)

Undisturbed == UNCHANGED <<rowVars, keys, paid, mishaps>>

Ship(s, b, n) ==
  /\ ships[b].status = "none"
  /\ \A t \in Sessions : session[t].call.row # b
  /\ Starts(s, [NoCall EXCEPT !.fn = "admin_ship_order", !.row = b, !.n = n])
  /\ Undisturbed

Track(s, b, to) ==
  /\ ships[b].status # "none"
  /\ Starts(s, [NoCall EXCEPT !.fn = "admin_update_shipment", !.row = b,
                               !.to = to])
  /\ Undisturbed

Cancel(s) ==
  /\ Starts(s, [NoCall EXCEPT !.fn = "admin_cancel_order"])
  /\ Undisturbed

Ask(s, r, n) ==
  /\ rets[r].status = "none"
  /\ \A t \in Sessions :
       /\ session[t].call.row # r
       /\ session[t].call.fn = "request_return" => AskTogether
  /\ Starts(s, [NoCall EXCEPT !.fn = "request_return", !.row = r, !.n = n])
  /\ Undisturbed

Review(s, r, to) ==
  /\ rets[r].status # "none"
  /\ Starts(s, [NoCall EXCEPT !.fn = "admin_review_return", !.row = r,
                               !.to = to])
  /\ Undisturbed

Receive(s, r) ==
  /\ rets[r].status # "none"
  /\ Starts(s, [NoCall EXCEPT !.fn = "admin_receive_return", !.row = r])
  /\ Undisturbed

(* (mutant of Free: only a stored answer stops a second request.)          *)
FreeUnlessCompleted(k) == keys[k] # "completed"

(* idempotent("refund"): the insert of the key; a request whose key is in  *)
(* flight or completed is answered without the handler.                    *)
Free(k) == keys[k] = "free"

Refund(s, k, n, r) ==
  /\ Free(k)
  /\ r # None => rets[r].status # "none"
  /\ session[s] = Idle
  /\ Running(s, [NoCall EXCEPT !.fn = "admin_refund", !.route = k, !.row = k,
                               !.ret = r, !.n = n], 0)
  /\ keys' = [keys EXCEPT ![k] = "in_flight"]
  /\ UNCHANGED <<rowVars, paid, mishaps>>

(* Staff settle what a request left 'initiated': they look at the gateway, *)
(* move the money if it did not move, and say so, or give the refund up.   *)
SettleByHand(s, k, to) ==
  /\ refunds[k].status = "initiated"
  /\ \A t \in Sessions : session[t].call.route # k /\ session[t].call.row # k
  /\ to = "failed" => paid[k] = 0
  /\ Starts(s, [NoCall EXCEPT !.fn = "settle_refund", !.row = k, !.to = to])
  /\ paid' = IF to = "processed" /\ paid[k] = 0
               THEN [paid EXCEPT ![k] = refunds[k].n] ELSE paid
  /\ UNCHANGED <<rowVars, keys, mishaps>>

-----------------------------------------------------------------------------
(* The refund route *)

Stage(s, stage) == session[s].stage = stage

Goes(s, stage) == session' = [session EXCEPT ![s].stage = stage]

Mishap ==
  /\ mishaps < MishapBound
  /\ mishaps' = mishaps + 1

MoneyMoves(k) == paid' = [paid EXCEPT ![k] = @ + refunds[k].n]

(* refundPayment answers: the refund is settled next.                      *)
GatewayRefunds(s) ==
  LET k == session[s].call.route
  IN  /\ Stage(s, "gateway")
      /\ MoneyMoves(k)
      /\ Running(s, [NoCall EXCEPT !.fn = "settle_refund", !.route = k,
                                   !.row = k, !.to = "processed"], 0)
      /\ UNCHANGED <<rowVars, keys, mishaps>>

(* It refuses, or is not asked at all: a refund of cash, no keys.          *)
GatewayRefuses(s) ==
  /\ Stage(s, "gateway")
  /\ Goes(s, "store")
  /\ Undisturbed

(* It refunds and the answer is lost.                                      *)
GatewayAnswerLost(s) ==
  /\ Stage(s, "gateway")
  /\ Mishap
  /\ MoneyMoves(session[s].call.route)
  /\ Goes(s, "store")
  /\ UNCHANGED <<rowVars, keys>>

(* The answer is kept with the key, a success in each case ...             *)
StoreAnswer(s) ==
  /\ Stage(s, "store")
  /\ keys'    = [keys EXCEPT ![session[s].call.route] = "completed"]
  /\ session' = [session EXCEPT ![s] = Idle]
  /\ UNCHANGED <<rowVars, paid, mishaps>>

(* ... and an error releases the key.                                      *)
ReleaseKey(s) ==
  /\ Stage(s, "release")
  /\ keys'    = [keys EXCEPT ![session[s].call.route] = "free"]
  /\ session' = [session EXCEPT ![s] = Idle]
  /\ UNCHANGED <<rowVars, paid, mishaps>>

(* The process dies and its transaction rolls back, of which nothing       *)
(* stays; a request that holds a key leaves it in flight.                  *)
Crash(s) ==
  /\ session[s] # Idle
  /\ session' = [session EXCEPT ![s] = Idle]
  /\ IF session[s].call.route = None THEN UNCHANGED mishaps ELSE Mishap
  /\ UNCHANGED <<rowVars, keys, paid>>

-----------------------------------------------------------------------------
Begin(s) ==
  \/ \E b \in Shipments, n \in Parcels : Ship(s, b, n)
  \/ \E b \in Shipments, to \in Tracks : Track(s, b, to)
  \/ Cancel(s)
  \/ \E r \in Returns, n \in Asks : Ask(s, r, n)
  \/ \E r \in Returns, to \in Decisions : Review(s, r, to)
  \/ \E r \in Returns : Receive(s, r)
  \/ \E k \in Keys, n \in Amounts, r \in Returns \cup {None} :
       Refund(s, k, n, r)
  \/ \E k \in Keys, to \in {"processed", "failed"} : SettleByHand(s, k, to)

(* What a call does by itself, once it has begun.                          *)
Proceed(s) ==
  \/ Acquire(s) \/ Decide(s)
  \/ CommitShip(s) \/ CommitTrack(s) \/ CommitCancel(s)
  \/ CommitRequest(s) \/ CommitReview(s) \/ CommitReceive(s)
  \/ CommitRefund(s) \/ CommitSettle(s)
  \/ DeadlockAbort(s)
  \/ GatewayRefunds(s) \/ GatewayRefuses(s) \/ GatewayAnswerLost(s)
  \/ StoreAnswer(s) \/ ReleaseKey(s)

Next == \E s \in Sessions : Begin(s) \/ Proceed(s) \/ Crash(s)

Spec == Init /\ [][Next]_vars

-----------------------------------------------------------------------------
(* Properties *)

(* The boxes of an order hold no more than was ordered, although each call *)
(* counts the boxes before it wrote its own: enforce_shipment_quantity.    *)
ShippedWithinOrder == InBoxes <= Quantity

(* The customer sends back no more than was ordered, and no return is      *)
(* received twice: enforce_return_quantity and admin_receive_return.       *)
ReturnedWithinOrder == returned <= Quantity

(* Once the goods are back, or the money has gone, the decision is made: a *)
(* rejection that was under way meanwhile cannot undo it.                  *)
ReturnFinal ==
  [][\A r \in Returns :
       /\ rets[r].status = "received" =>
            rets'[r].status \in {"received", "refunded"}
       /\ rets[r].status = "refunded" => rets'[r].status = "refunded"]_vars

(* Whatever requests, retries, lost answers and dead processes did, no     *)
(* refund moves its money twice, and all of them together move no more     *)
(* than the order took.                                                    *)
MoneyOnce ==
  /\ Total(paid) <= Quantity
  /\ \A k \in Keys : paid[k] <= refunds[k].n

(* The settlement that makes the refunds full says so on the order, and no *)
(* other does: of two that run together one counts both.                   *)
FullyRefunded ==
  [][LET full == RefundedIn({"processed"}) >= Quantity
     IN  /\ ~full /\ full' => order' = "refunded"
         /\ order' = "refunded" => full']_vars

(* Staff who ship, track and cancel one order never deadlock against each  *)
(* other, as admin_update_shipment says of its locks.                      *)
StaffNeverDeadlock ==
  LET staff == {s \in Sessions : session[s].call.fn \in
                 {"admin_ship_order", "admin_update_shipment",
                  "admin_cancel_order"}}
  IN  \A s, t \in staff : ~(WaitsFor(s, t) /\ WaitsFor(t, s))

=============================================================================
