------------------------------ MODULE Checkout ------------------------------
(***************************************************************************)
(* Concurrent checkouts: the idempotency key, the coupon and the store     *)
(* credit of an order, with the grants and gift cards that fill the        *)
(* ledger.                                                                 *)
(*                                                                         *)
(* checkout() is one transaction.  It claims its key, locks the coupon,    *)
(* writes the order and its redemption, locks the customer and spends what *)
(* the ledger holds, lock by lock; what it writes shows at the commit.     *)
(* A process may die, and the client may send a key again at any time, its *)
(* answer lost or not yet there, with the same body or another.  The units *)
(* of the basket and the payment that follows are in Orders and Payments.  *)
(***************************************************************************)
EXTENDS PurchaseTerms, Sequences, RowLocks

CONSTANTS
  Sessions,  \* requests that run at the same time
  None,      \* no row
  MaxCredit  \* bound: staff grant no further than that

ASSUME CheckoutAssumption ==
  /\ None \notin Keys \cup Cards
  /\ MaxCredit \in Nat

VARIABLES
  orders,   \* orders with their redemptions, by the key that made them
  credit,   \* sum of the credit_ledger of each customer
  cards,    \* gift cards still 'active'
  session,  \* the call of each session and how far it is
  told      \* observer: orders clients were told they placed

rowVars == <<orders, credit, cards>>
vars    == <<rowVars, session, told>>

-----------------------------------------------------------------------------
(* Types *)

Order == [placed : {TRUE}, body : Bodies, applied : Nat]

NoBody == [coupon |-> FALSE, credit |-> FALSE]

DbFunctions == {"checkout", "admin_grant_credit", "redeem_gift_card"}

(* n: the credit a checkout spends, or a grant gives.                      *)
Session == [fn : DbFunctions \cup {"none"}, row : Keys \cup Cards \cup {None},
            who : Customers \cup {Guest}, body : Bodies \cup {NoBody},
            n : Int, locks : Nat, decided : BOOLEAN]

Idle == [fn |-> "none", row |-> None, who |-> Guest, body |-> NoBody,
         n |-> 0, locks |-> 0, decided |-> FALSE]

TypeOK ==
  /\ orders \in [Keys -> Seq(Order)]
  /\ credit \in [Customers -> Nat]
  /\ cards \subseteq Cards
  /\ session \in [Sessions -> Session]
  /\ told \subseteq Keys \X Bodies

Init ==
  /\ orders  = [k \in Keys |-> <<>>]
  /\ credit  = [c \in Customers |-> 0]
  /\ cards   = Cards
  /\ session = [s \in Sessions |-> Idle]
  /\ told    = {}

-----------------------------------------------------------------------------
(* Locks *)

(* The row of the key is there for good once its checkout committed.       *)
Recorded(k) == orders[k] # <<>>

(* (mutant of KeyLock: the key is only looked up.)                         *)
KeyLookup(k) == <<>>

(* insert into idempotency_keys ... on conflict do nothing waits for the   *)
(* transaction that inserts the same key.                                  *)
KeyLock(k) == <<Update(k)>>

(* (mutant of CouponLock: the coupon is read without a lock.)              *)
CouponRead(b) == <<>>

CouponLock(b) == IF b.coupon THEN <<Update("coupon")>> ELSE <<>>

(* (mutant of CreditLock: the balance is read without a lock.)             *)
CreditRead(b, c) == <<>>

CreditLock(b, c) == IF b.credit /\ c # Guest THEN <<Update(c)>> ELSE <<>>

(* The key, the order and the redemption share the customer they name; a   *)
(* request whose key is recorded is answered from the record.              *)
Locks(call) ==
  LET c     == call.who
      share == KeyShareIf(c # Guest, c)
  IN  CASE call.fn = "none" -> <<>>
        [] call.fn = "checkout" ->
             IF Recorded(call.row) THEN <<>>
             ELSE KeyLock(call.row) \o share \o CouponLock(call.body)
                    \o CreditLock(call.body, c)
        [] call.fn = "admin_grant_credit" -> share
        [] call.fn = "redeem_gift_card"   -> <<Update(call.row)>> \o share

Held(s) == FirstLocks(Locks(session[s]), session[s].locks)

Asking(s) == session[s].locks < Len(Locks(session[s]))

WaitsFor(s, t) ==
  /\ s # t
  /\ Asking(s)
  /\ LET wanted == Locks(session[s])[session[s].locks + 1]
     IN  \E held \in Held(t) : Conflict(wanted, held)

Acquire(s) ==
  /\ Asking(s)
  /\ \A t \in Sessions : ~WaitsFor(s, t)
  /\ session' = [session EXCEPT ![s].locks = @ + 1]
  /\ UNCHANGED <<rowVars, told>>

(* (mutant of Deadlocked: only an order of locks would help.)              *)
NeverDetected(s) == FALSE

(* PostgreSQL finds two transactions that wait for each other.             *)
Deadlocked(s) == \E t \in Sessions : WaitsFor(s, t) /\ WaitsFor(t, s)

-----------------------------------------------------------------------------
(* The calls *)

Over(s) == session' = [session EXCEPT ![s] = Idle]

(* It ends without a write.                                                *)
Refused(s) ==
  /\ Over(s)
  /\ UNCHANGED <<rowVars, told>>

Begins(s, call) ==
  /\ session[s] = Idle
  /\ session' = [session EXCEPT ![s] = call]
  /\ UNCHANGED <<rowVars, told>>

Runs(s, fn, decided) ==
  /\ session[s].fn = fn
  /\ session[s].decided = decided
  /\ ~Asking(s)

(* The client sends the key, for the first time or once more.              *)
Request(s, k, b) ==
  Begins(s, [Idle EXCEPT !.fn = "checkout", !.row = k, !.who = CustomerOf[k],
                         !.body = b])

(* (mutant of SameBody: any body gets the recorded answer.)                *)
AnyBody(k, b) == TRUE

(* request_hash                                                            *)
SameBody(k, b) == orders[k][1].body = b

(* The recorded answer is given again.                                     *)
Replay(s) ==
  LET call == session[s]
  IN  /\ Runs(s, "checkout", FALSE)
      /\ Recorded(call.row)
      /\ SameBody(call.row, call.body)
      /\ Over(s)
      /\ told' = told \cup {<<call.row, call.body>>}
      /\ UNCHANGED rowVars

KeyConflict(s) ==
  /\ Runs(s, "checkout", FALSE)
  /\ Recorded(session[s].row)
  /\ ~SameBody(session[s].row, session[s].body)
  /\ Refused(s)

(* Redemptions of the coupon, in all and by one customer.                  *)
UsesBy(S) ==
  LET coupons(k) == {i \in DOMAIN orders[k] : orders[k][i].body.coupon}
  IN  Cardinality(UNION {{k} \X coupons(k) : k \in S})

(* enforce_discount_limits; a guest has no limit of their own.             *)
CouponLeft(c) ==
  /\ UsesBy(Keys) < MaxUses
  /\ c # Guest =>
       UsesBy({k \in Keys : CustomerOf[k] = c}) < MaxPerCustomer

(* The order, its redemption and what it spends are settled.               *)
Decide(s) ==
  LET call  == session[s]
      spent == IF call.body.credit /\ call.who # Guest
                 THEN Applied(call.body, credit[call.who]) ELSE 0
  IN  /\ Runs(s, "checkout", FALSE)
      /\ ~Recorded(call.row)
      /\ call.body.coupon => CouponLeft(call.who)
      /\ session' = [session EXCEPT ![s].decided = TRUE, ![s].n = spent]
      /\ UNCHANGED <<rowVars, told>>

CouponSpent(s) ==
  /\ Runs(s, "checkout", FALSE)
  /\ ~Recorded(session[s].row)
  /\ session[s].body.coupon /\ ~CouponLeft(session[s].who)
  /\ Refused(s)

(* The order is there, and the answer recorded with it.                    *)
Commit(s) ==
  LET call == session[s]
      c    == call.who
  IN  /\ Runs(s, "checkout", TRUE)
      /\ orders' = [orders EXCEPT ![call.row] = Append(@,
            [placed |-> TRUE, body |-> call.body, applied |-> call.n])]
      /\ credit' = IF c = Guest THEN credit
                   ELSE [credit EXCEPT ![c] = @ - call.n]
      /\ told' = told \cup {<<call.row, call.body>>}
      /\ Over(s)
      /\ UNCHANGED cards

(* admin_grant_credit reads the balance first, without a lock.             *)
Grant(s, c, delta) ==
  /\ credit[c] + delta \in 0..MaxCredit
  /\ Begins(s, [Idle EXCEPT !.fn = "admin_grant_credit", !.who = c,
                            !.n = delta, !.decided = TRUE])

CommitGrant(s) ==
  /\ Runs(s, "admin_grant_credit", TRUE)
  /\ credit' = [credit EXCEPT ![session[s].who] = @ + session[s].n]
  /\ Over(s)
  /\ UNCHANGED <<orders, cards, told>>

Redeem(s, c, card) ==
  Begins(s, [Idle EXCEPT !.fn = "redeem_gift_card", !.row = card, !.who = c])

(* The card is read under its lock; it was 'active'.                       *)
CommitRedeem(s) ==
  LET call == session[s]
  IN  /\ Runs(s, "redeem_gift_card", FALSE)
      /\ call.row \in cards
      /\ cards'  = cards \ {call.row}
      /\ credit' = [credit EXCEPT ![call.who] = @ + Face]
      /\ Over(s)
      /\ UNCHANGED <<orders, told>>

CardSpent(s) ==
  /\ Runs(s, "redeem_gift_card", FALSE)
  /\ session[s].row \notin cards
  /\ Refused(s)

DeadlockAbort(s) ==
  /\ Deadlocked(s)
  /\ Refused(s)

(* The connection or the process dies: the transaction rolls back.         *)
Crash(s) ==
  /\ session[s] # Idle
  /\ Refused(s)

-----------------------------------------------------------------------------
Begin(s) ==
  \/ \E k \in Keys, b \in Bodies : Request(s, k, b)
  \/ \E c \in Customers, delta \in Deltas : Grant(s, c, delta)
  \/ \E c \in Customers, card \in Cards : Redeem(s, c, card)

Proceed(s) ==
  \/ Replay(s)
  \/ KeyConflict(s)
  \/ Decide(s)
  \/ CouponSpent(s)
  \/ Commit(s)
  \/ CommitGrant(s)
  \/ CommitRedeem(s)
  \/ CardSpent(s)
  \/ DeadlockAbort(s)

Next == \E s \in Sessions : Begin(s) \/ Acquire(s) \/ Proceed(s) \/ Crash(s)

Spec == Init /\ [][Next]_vars

(* A transaction that waits for nobody goes on, and PostgreSQL gives a     *)
(* lock to those who ask for it again and again.                           *)
Fairness == \A s \in Sessions : SF_vars(Acquire(s)) /\ WF_vars(Proceed(s))

FairSpec == Spec /\ Fairness

-----------------------------------------------------------------------------
(* Properties *)

(* However often a key is sent, at once or again after a lost answer, it   *)
(* makes one order.                                                        *)
OneOrderPerKey == \A k \in Keys : Len(orders[k]) <= 1

(* A client that is told of an order sent the basket that was ordered.     *)
AnswersMatch ==
  \A answer \in told :
    \E i \in DOMAIN orders[answer[1]] : orders[answer[1]][i].body = answer[2]

AsPurchases ==
  INSTANCE Purchases WITH
    orders <- [k \in Keys |-> IF Recorded(k) THEN orders[k][Len(orders[k])]
                              ELSE [placed |-> FALSE]]

(* Any interleaving of these transactions, with its deadlocks, retries and *)
(* crashes, is one where they happen one at a time: each order spends the  *)
(* credit and the coupon that the orders before it left.                   *)
OneAtATime == AsPurchases!Spec

(* No call waits forever: not for a key in flight, not for each other.     *)
CallsEnd ==
  \A s \in Sessions : session[s] # Idle ~> session[s] = Idle

=============================================================================
