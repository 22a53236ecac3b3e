--------------------------- MODULE CheckoutProofs ---------------------------
(***************************************************************************)
(* Proofs about Checkout, for every set of keys, customers, cards and      *)
(* sessions.                                                               *)
(***************************************************************************)
EXTENDS Checkout, SharedLemmas

(* admin_grant_credit reads the balance before it locks anything, so a     *)
(* take-back can leave less than nothing of what was spent meanwhile.      *)
NoTakeBacks == Deltas \subseteq Nat

-----------------------------------------------------------------------------
(* The inductive invariant *)

(* What the request of a session says, by the function it calls.           *)
IsCheckout(call) ==
  /\ call.fn = "checkout"
  /\ call.row \in Keys /\ call.who = CustomerOf[call.row]
  /\ call.body \in Bodies

IsGrant(call) ==
  /\ call.fn = "admin_grant_credit"
  /\ call.who \in Customers /\ call.n \in Deltas

IsRedeem(call) ==
  /\ call.fn = "redeem_gift_card"
  /\ call.row \in Cards /\ call.who \in Customers

IsCall(call) ==
  /\ call \in Session
  /\ call = Idle \/ IsCheckout(call) \/ IsGrant(call) \/ IsRedeem(call)

(* No order or one.                                                        *)
OneOrNone(k) == orders[k] = <<>> \/ \E order \in Order : orders[k] = <<order>>

Rows ==
  /\ orders \in [Keys -> Seq(Order)] /\ \A k \in Keys : OneOrNone(k)
  /\ credit \in [Customers -> Int]
  /\ NoTakeBacks => \A c \in Customers : credit[c] >= 0
  /\ cards \subseteq Cards
  /\ told \subseteq Keys \X Bodies
  /\ session \in [Sessions -> Session] /\ \A s \in Sessions : IsCall(session[s])

(* Locks that conflict are not both held.                                  *)
Exclusive ==
  \A s, t \in Sessions : s # t =>
    \A a \in Held(s), b \in Held(t) : ~Conflict(a, b)

(* What an order may spend of the balance there is now.                    *)
Spent(call) ==
  IF call.body.credit /\ call.who # Guest
    THEN Applied(call.body, credit[call.who]) ELSE 0

(* What a checkout decided is still right when it commits.                 *)
Ready(s) ==
  /\ ~Asking(s)
  /\ ~Recorded(session[s].row)
  /\ session[s].n = Spent(session[s])
  /\ session[s].body.coupon => CouponLeft(session[s].who)

Decided(s) == session[s].fn = "checkout" /\ session[s].decided

IInv ==
  /\ Rows
  /\ Exclusive
  /\ \A s \in Sessions : Decided(s) => Ready(s)
  /\ AnswersMatch

-----------------------------------------------------------------------------
(* Locks *)

LockedRows == Keys \cup Cards \cup Customers \cup {"coupon"}

CheckoutLocks ==
  {Update(row) : row \in LockedRows} \cup {KeyShare(row) : row \in LockedRows}

(* What the assumptions say of each constant.                              *)
LEMMA Constants ==
  /\ Guest \notin Customers
  /\ \A k \in Keys : CustomerOf[k] \in Customers \cup {Guest}
  /\ \A b \in Bodies : b.coupon \in BOOLEAN /\ b.credit \in BOOLEAN
  /\ Face \in Nat /\ Price \in Nat /\ Off \in Nat /\ Off <= Price
  /\ MaxUses \in Nat /\ MaxPerCustomer \in Nat
  /\ None \notin Keys /\ None \notin Cards
<1>1. \A b \in Bodies : b \in [coupon : BOOLEAN, credit : BOOLEAN]
  BY PurchaseAssumption
<1>2. Off \in 1..Price /\ Price \in Nat
  BY PurchaseAssumption
<1> QED
  BY <1>1, <1>2, PurchaseAssumption, CheckoutAssumption

(* A checkout that is to place an order locks its key, shares its customer *)
(* and locks what it will spend from.                                      *)
LEMMA CheckoutTakes ==
  ASSUME NEW call, IsCheckout(call), ~Recorded(call.row)
  PROVE  /\ Locks(call) \in Seq(CheckoutLocks)
         /\ Has(Locks(call), Update(call.row))
         /\ call.who # Guest => Has(Locks(call), KeyShare(call.who))
         /\ call.body.coupon => Has(Locks(call), Update("coupon"))
         /\ call.body.credit /\ call.who # Guest =>
              Has(Locks(call), Update(call.who))
<1> DEFINE k     == KeyLock(call.row)
           share == KeyShareIf(call.who # Guest, call.who)
           coup  == CouponLock(call.body)
           cred  == CreditLock(call.body, call.who)
<1>1. Locks(call) = ((k \o share) \o coup) \o cred
  BY DEF Locks, IsCheckout
<1>2. /\ call.row \in Keys
      /\ call.who # Guest => call.who \in Customers
      /\ call.body.coupon \in BOOLEAN /\ call.body.credit \in BOOLEAN
  BY Constants DEF IsCheckout
<1>3. k \in Seq(CheckoutLocks) /\ Has(k, Update(call.row))
  BY <1>2 DEF KeyLock, Has, CheckoutLocks, LockedRows
<1>4. /\ share \in Seq(CheckoutLocks)
      /\ call.who # Guest => Has(share, KeyShare(call.who))
  BY <1>2, KeyShareIfLocks DEF CheckoutLocks, LockedRows
<1>5. /\ coup \in Seq(CheckoutLocks)
      /\ call.body.coupon => Has(coup, Update("coupon"))
  BY <1>2, LockIf DEF CouponLock, CheckoutLocks, LockedRows
<1>6. /\ cred \in Seq(CheckoutLocks)
      /\ call.body.credit /\ call.who # Guest => Has(cred, Update(call.who))
  BY <1>2, LockIf DEF CreditLock, CheckoutLocks, LockedRows
<1> HIDE DEF k, share, coup, cred
<1>7. /\ k \o share \in Seq(CheckoutLocks)
      /\ \A lock : Has(k, lock) \/ Has(share, lock) => Has(k \o share, lock)
  BY <1>3, <1>4, HasConcat
<1> DEFINE ks == k \o share
<1> HIDE DEF ks
<1>8. /\ ks \o coup \in Seq(CheckoutLocks)
      /\ \A lock : Has(ks, lock) \/ Has(coup, lock) => Has(ks \o coup, lock)
  BY <1>7, <1>5, HasConcat DEF ks
<1> DEFINE ksc == ks \o coup
<1> HIDE DEF ksc
<1>9. /\ ksc \o cred \in Seq(CheckoutLocks)
      /\ \A lock : Has(ksc, lock) \/ Has(cred, lock) => Has(ksc \o cred, lock)
  BY <1>8, <1>6, HasConcat DEF ksc
<1>10. Locks(call) = ksc \o cred
  BY <1>1 DEF ksc, ks
<1>11. \A lock : Has(k, lock) \/ Has(share, lock) \/ Has(coup, lock)
                   \/ Has(cred, lock) => Has(Locks(call), lock)
  BY <1>7, <1>8, <1>9, <1>10 DEF ks, ksc
<1> QED
  BY <1>3, <1>4, <1>5, <1>6, <1>9, <1>10, <1>11

(* A grant shares the customer; a card is locked before it is read.        *)
LEMMA CreditTakes ==
  ASSUME NEW call, IsGrant(call) \/ IsRedeem(call)
  PROVE  /\ Locks(call) \in Seq(CheckoutLocks)
         /\ Has(Locks(call), KeyShare(call.who))
         /\ IsRedeem(call) => Has(Locks(call), Update(call.row))
<1> DEFINE share == KeyShareIf(call.who # Guest, call.who)
<1>1. call.who \in Customers /\ call.who # Guest
  BY Constants DEF IsGrant, IsRedeem
<1>2. share \in Seq(CheckoutLocks) /\ Has(share, KeyShare(call.who))
  BY <1>1, KeyShareIfLocks DEF CheckoutLocks, LockedRows
<1>3. CASE IsGrant(call)
  BY <1>2, <1>3 DEF Locks, IsGrant, IsRedeem
<1>4. CASE IsRedeem(call)
  <2> DEFINE card == <<Update(call.row)>>
  <2>1. card \in Seq(CheckoutLocks) /\ Has(card, Update(call.row))
    BY <1>4 DEF IsRedeem, Has, CheckoutLocks, LockedRows
  <2>2. Locks(call) = card \o share
    BY <1>4 DEF Locks, IsRedeem
  <2> HIDE DEF card, share
  <2> QED
    BY <1>2, <2>1, <2>2, HasConcat
<1> QED
  BY <1>3, <1>4

(* Whatever a session does, its locks are a sequence.                      *)
LEMMA LocksType ==
  ASSUME NEW call, IsCall(call)
  PROVE  Locks(call) \in Seq(CheckoutLocks)
<1>1. CASE call = Idle
  BY <1>1 DEF Locks, Idle
<1>2. CASE IsCheckout(call) /\ Recorded(call.row)
  BY <1>2 DEF Locks, IsCheckout
<1>3. CASE IsCheckout(call) /\ ~Recorded(call.row)
  BY <1>3, CheckoutTakes
<1>4. CASE IsGrant(call) \/ IsRedeem(call)
  BY <1>4, CreditTakes
<1> QED
  BY <1>1, <1>2, <1>3, <1>4 DEF IsCall

(* Who asks for nothing more holds all it wants.                           *)
LEMMA HoldsAll ==
  ASSUME NEW s \in Sessions, session[s] \in Session, IsCall(session[s]),
         ~Asking(s)
  PROVE  \A lock : Has(Locks(session[s]), lock) => lock \in Held(s)
<1>1. Locks(session[s]) \in Seq(CheckoutLocks) /\ session[s].locks \in Nat
  BY LocksType DEF Session
<1> QED
  BY <1>1, AllLocks DEF Asking, Held

(* The locks of a call rest on its function, its row, who calls and what.  *)
LEMMA SameLocks ==
  ASSUME NEW s \in Sessions,
         session'[s].fn = session[s].fn, session'[s].row = session[s].row,
         session'[s].who = session[s].who, session'[s].body = session[s].body,
         session[s].fn = "checkout" =>
           (Recorded(session[s].row)' <=> Recorded(session[s].row))
  PROVE  Locks(session[s])' = Locks(session[s])
BY DEF Locks, KeyLock, CouponLock, CreditLock

(* Who goes on to the next lock holds that one more.                       *)
LEMMA AcquireHolds ==
  ASSUME Rows, NEW s \in Sessions, Acquire(s)
  PROVE  Held(s)' = Held(s) \cup {Locks(session[s])[session[s].locks + 1]}
<1>1. /\ session[s] \in Session /\ session[s].locks \in Nat
      /\ Locks(session[s]) \in Seq(CheckoutLocks)
  BY LocksType DEF Rows, Session
<1>2. /\ session[s].locks < Len(Locks(session[s]))
      /\ session'[s] = [session[s] EXCEPT !.locks = @ + 1]
      /\ orders' = orders
  BY DEF Acquire, Asking, Rows, rowVars
<1>3. Locks(session[s])' = Locks(session[s])
  BY <1>1, <1>2, SameLocks DEF Recorded, Session
<1>4. session'[s].locks = session[s].locks + 1
  BY <1>1, <1>2 DEF Session
<1> QED
  BY <1>1, <1>2, <1>3, <1>4, NextLock DEF Held

(* A call that begins, or is over, holds nothing.                          *)
LEMMA NothingHeld ==
  ASSUME NEW s \in Sessions, session'[s].locks = 0
  PROVE  Held(s)' = {}
BY NoLocks DEF Held

(* What the others do takes nothing from a session and gives it nothing,   *)
(* but that a recorded key needs no more locks.                            *)
LEMMA OthersHold ==
  ASSUME NEW t \in Sessions, IsCall(session[t]), session'[t] = session[t],
         \A k \in Keys : Recorded(k) => Recorded(k)'
  PROVE  Held(t)' \subseteq Held(t)
<1> DEFINE call == session[t]
<1>1. CASE call.fn = "checkout" => (Recorded(call.row)' <=> Recorded(call.row))
  BY <1>1, SameLocks DEF Held
<1>2. CASE /\ call.fn = "checkout"
           /\ ~(Recorded(call.row)' <=> Recorded(call.row))
  <2>1. call.row \in Keys
    BY <1>2 DEF IsCall, Idle, IsCheckout, IsGrant, IsRedeem
  <2>2. Recorded(call.row)'
    BY <1>2, <2>1 DEF Recorded
  <2>3. Locks(call)' = <<>>
    BY <1>2, <2>2 DEF Locks
  <2>4. Held(t)' = {}
    BY <2>3 DEF Held, FirstLocks
  <2> QED
    BY <2>4
<1> QED
  BY <1>1, <1>2

(* The ways of a step, and what a call that begins looks like.             *)
Begun(call) ==
  /\ IsCall(call) /\ call.locks = 0
  /\ call.fn = "checkout" => ~call.decided

Writes(s) == Commit(s) \/ CommitGrant(s) \/ CommitRedeem(s)

StepOf(s) ==
  \/ Acquire(s) \/ Replay(s) \/ Decide(s) \/ Refused(s) \/ Writes(s)
  \/ \E call : Begun(call) /\ Begins(s, call)

(* A step is one of these.                                                 *)
LEMMA Steps ==
  ASSUME Next
  PROVE  \E s \in Sessions : StepOf(s)
<1>0. Idle \in Session
  BY DEF Idle, Session
<1>1. PICK s \in Sessions : Begin(s) \/ Acquire(s) \/ Proceed(s) \/ Crash(s)
  BY DEF Next
<1>2. ASSUME NEW k \in Keys, NEW b \in Bodies, Request(s, k, b)
      PROVE  StepOf(s)
  <2> DEFINE call == [Idle EXCEPT !.fn = "checkout", !.row = k,
                                  !.who = CustomerOf[k], !.body = b]
  <2>1. CustomerOf[k] \in Customers \cup {Guest}
    BY Constants
  <2>2. call \in Session
    BY <1>0, <2>1 DEF Session, DbFunctions
  <2>3. /\ call.fn = "checkout" /\ call.row = k /\ call.who = CustomerOf[k]
        /\ call.body = b /\ call.locks = 0 /\ ~call.decided
    BY DEF Idle
  <2>4. Begins(s, call)
    BY <1>2 DEF Request
  <2> HIDE DEF call
  <2>5. Begun(call)
    BY <2>2, <2>3 DEF Begun, IsCall, IsCheckout
  <2> QED
    BY <2>4, <2>5 DEF StepOf
<1>3. ASSUME NEW c \in Customers, NEW delta \in Deltas, Grant(s, c, delta)
      PROVE  StepOf(s)
  <2> DEFINE call == [Idle EXCEPT !.fn = "admin_grant_credit", !.who = c,
                                  !.n = delta, !.decided = TRUE]
  <2>1. delta \in Int
    BY PurchaseAssumption
  <2>2. Begun(call)
    BY <2>1 DEF Begun, IsCall, IsGrant, Session, Idle, DbFunctions
  <2>3. Begins(s, call)
    BY <1>3 DEF Grant
  <2> QED
    BY <2>2, <2>3 DEF StepOf
<1>4. ASSUME NEW c \in Customers, NEW card \in Cards, Redeem(s, c, card)
      PROVE  StepOf(s)
  <2> DEFINE call == [Idle EXCEPT !.fn = "redeem_gift_card", !.row = card,
                                  !.who = c]
  <2>1. call \in Session
    BY <1>0 DEF Session, DbFunctions
  <2>2. /\ call.fn = "redeem_gift_card" /\ call.row = card /\ call.who = c
        /\ call.locks = 0
    BY DEF Idle
  <2>3. Begins(s, call)
    BY <1>4 DEF Redeem
  <2> HIDE DEF call
  <2>4. Begun(call)
    BY <2>1, <2>2 DEF Begun, IsCall, IsRedeem
  <2> QED
    BY <2>3, <2>4 DEF StepOf
<1>5. CASE Proceed(s) \/ Crash(s) \/ Acquire(s)
  BY <1>5 DEF Proceed, Crash, KeyConflict, CouponSpent, CardSpent,
     DeadlockAbort, StepOf, Writes
<1> QED
  BY <1>1, <1>2, <1>3, <1>4, <1>5 DEF Begin

-----------------------------------------------------------------------------
(* Rows *)

(* A checkout spends no more than there is, and nothing of a debt.         *)
LEMMA SpentBounded ==
  ASSUME Rows, NEW call, IsCheckout(call)
  PROVE  /\ Spent(call) \in Nat
         /\ call.who # Guest =>
              /\ call.who \in Customers
              /\ credit[call.who] >= 0 => Spent(call) <= credit[call.who]
<1>1. Grand(call.body) \in Nat
  BY Constants DEF IsCheckout, Grand
<1>2. call.who # Guest => call.who \in Customers /\ credit[call.who] \in Int
  BY Constants DEF IsCheckout, Rows
<1> QED
  BY <1>1, <1>2 DEF Spent, Applied

OrderOf(call) ==
  [placed |-> TRUE, body |-> call.body, applied |-> call.n]

(* At its commit a checkout is the first for its key, and spends of the    *)
(* balance what it should.                                                 *)
LEMMA CommitWrites ==
  ASSUME Rows, NEW s \in Sessions, Decided(s) => Ready(s), Commit(s)
  PROVE  /\ IsCheckout(session[s]) /\ ~Recorded(session[s].row)
         /\ orders[session[s].row] = <<>>
         /\ session[s].n = Spent(session[s])
         /\ OrderOf(session[s]) \in Order
         /\ orders' = [orders EXCEPT ![session[s].row] = <<OrderOf(session[s])>>]
<1>1. Decided(s) /\ Ready(s)
  BY DEF Commit, Runs, Decided
<1>2. IsCheckout(session[s])
  BY <1>1 DEF Decided, Rows, IsCall, Idle, IsGrant, IsRedeem
<1>3. /\ ~Recorded(session[s].row) /\ session[s].n = Spent(session[s])
      /\ orders[session[s].row] = <<>>
  BY <1>1 DEF Ready, Recorded
<1>4. session[s].n \in Nat
  BY <1>2, <1>3, SpentBounded
<1>5. OrderOf(session[s]) \in Order
  BY <1>2, <1>4 DEF OrderOf, Order, IsCheckout
<1>6. Append(<<>>, OrderOf(session[s])) = <<OrderOf(session[s])>>
  OBVIOUS
<1>7. orders' = [orders EXCEPT ![session[s].row] =
                   Append(@, OrderOf(session[s]))]
  BY DEF Commit, OrderOf
<1>8. orders' = [orders EXCEPT ![session[s].row] = <<OrderOf(session[s])>>]
  BY <1>2, <1>3, <1>6, <1>7 DEF Rows, IsCheckout
<1> QED
  BY <1>2, <1>3, <1>5, <1>8

(* A call that goes on or ends is still a call.                            *)
LEMMA CallsStay ==
  ASSUME Rows, NEW s \in Sessions, StepOf(s)
  PROVE  /\ session' \in [Sessions -> Session]
         /\ \A t \in Sessions : IsCall(session'[t])
         /\ \A t \in Sessions \ {s} : session'[t] = session[t]
<1>1. PICK now : session' = [session EXCEPT ![s] = now]
  BY DEF StepOf, Acquire, Replay, Decide, Refused, Writes, Commit, CommitGrant,
     CommitRedeem, Begins, Over
<1>2. \A t \in Sessions \ {s} : session'[t] = session[t]
  BY <1>1 DEF Rows
<1>3. IsCall(session'[s])
  <2>0. session[s] \in Session /\ IsCall(session[s]) /\ session \in [Sessions -> Session]
    BY DEF Rows
  <2>1. CASE Replay(s) \/ Refused(s) \/ Writes(s)
    <3>1. session'[s] = Idle
      BY <2>0, <2>1 DEF Replay, Refused, Writes, Commit, CommitGrant,
         CommitRedeem, Over
    <3>2. Idle \in Session
      BY DEF Idle, Session
    <3> QED
      BY <3>1, <3>2 DEF IsCall
  <2>2. CASE \E c : Begun(c) /\ Begins(s, c)
    BY <2>0, <2>2 DEF Begun, Begins
  <2>3. CASE Acquire(s)
    <3> DEFINE next == [session[s] EXCEPT !.locks = @ + 1]
    <3>1. session'[s] = next
      BY <2>0, <2>3 DEF Acquire
    <3>2. next \in Session
      BY <2>0 DEF Session
    <3>3. /\ next.fn = session[s].fn /\ next.row = session[s].row
          /\ next.who = session[s].who /\ next.body = session[s].body
          /\ next.n = session[s].n
      BY <2>0 DEF Session
    <3>4. session[s] # Idle
      BY <2>3 DEF Acquire, Asking, Locks, Idle
    <3> HIDE DEF next
    <3> QED
      BY <2>0, <3>1, <3>2, <3>3, <3>4 DEF IsCall, IsCheckout, IsGrant, IsRedeem
  <2>4. CASE Decide(s)
    <3> DEFINE call == session[s]
               next == [call EXCEPT !.decided = TRUE, !.n = Spent(call)]
    <3>1. session'[s] = next /\ call.fn = "checkout"
      BY <2>0, <2>4 DEF Decide, Runs, Spent
    <3>2. IsCheckout(call)
      BY <2>0, <3>1 DEF IsCall, Idle, IsGrant, IsRedeem
    <3>3. Spent(call) \in Int
      BY <3>2, SpentBounded
    <3>4. next \in Session
      BY <2>0, <3>3 DEF Session
    <3>5. /\ next.fn = call.fn /\ next.row = call.row
          /\ next.who = call.who /\ next.body = call.body
      BY <2>0 DEF Session
    <3> HIDE DEF next
    <3> QED
      BY <3>1, <3>2, <3>4, <3>5 DEF IsCall, IsCheckout
  <2> QED
    BY <2>1, <2>2, <2>3, <2>4 DEF StepOf
<1> QED
  BY <1>1, <1>2, <1>3 DEF Rows, IsCall

LEMMA RowsNext ==
  ASSUME Rows, NEW s \in Sessions, Decided(s) => Ready(s), StepOf(s)
  PROVE  Rows'
<1>0. /\ session' \in [Sessions -> Session]
      /\ \A t \in Sessions : IsCall(session[t])'
  BY CallsStay DEF IsCall, IsCheckout, IsGrant, IsRedeem
<1>1. CASE Commit(s)
  <2> DEFINE call == session[s]
  <2>1. /\ IsCheckout(call) /\ call.n = Spent(call) /\ OrderOf(call) \in Order
        /\ orders' = [orders EXCEPT ![call.row] = <<OrderOf(call)>>]
    BY <1>1, CommitWrites
  <2>2. orders' \in [Keys -> Seq(Order)] /\ \A k \in Keys : OneOrNone(k)'
    <3> DEFINE one == <<OrderOf(call)>>
    <3>1. one \in Seq(Order) /\ \E order \in Order : one = <<order>>
      BY <2>1
    <3> HIDE DEF one
    <3>2. orders' = [orders EXCEPT ![call.row] = one]
      BY <2>1 DEF one
    <3> QED
      BY <3>1, <3>2 DEF Rows, OneOrNone
  <2>3. /\ credit' \in [Customers -> Int]
        /\ NoTakeBacks => \A c \in Customers : credit'[c] >= 0
    <3>1. call.n \in Nat
      BY <2>1, SpentBounded
    <3>2. CASE call.who = Guest
      BY <1>1, <3>2 DEF Commit, Rows
    <3>3. CASE call.who # Guest
      <4>1. /\ call.who \in Customers /\ credit[call.who] \in Int
            /\ credit[call.who] >= 0 => call.n <= credit[call.who]
        BY <2>1, <3>3, SpentBounded DEF Rows
      <4>2. /\ credit[call.who] - call.n \in Int
            /\ credit[call.who] >= 0 => credit[call.who] - call.n >= 0
        BY <3>1, <4>1
      <4> QED
        BY <1>1, <3>3, <4>1, <4>2 DEF Commit, Rows
    <3> QED
      BY <3>2, <3>3
  <2>4. told' \subseteq Keys \X Bodies
    BY <1>1, <2>1 DEF Commit, Rows, IsCheckout
  <2>5. cards' \subseteq Cards
    BY <1>1 DEF Commit, Rows
  <2> QED
    BY <1>0, <2>2, <2>3, <2>4, <2>5 DEF Rows
<1>2. CASE CommitGrant(s)
  <2>1. IsGrant(session[s])
    BY <1>2 DEF CommitGrant, Runs, Rows, IsCall, Idle, IsCheckout, IsRedeem
  <2>2. /\ session[s].n \in Int /\ session[s].who \in Customers
        /\ NoTakeBacks => session[s].n >= 0
    <3>1. session[s].n \in Deltas /\ session[s].who \in Customers
      BY <2>1 DEF IsGrant
    <3>2. Deltas \subseteq Int
      BY PurchaseAssumption
    <3>3. session[s].n \in Int
      BY <3>1, <3>2
    <3>4. ASSUME NoTakeBacks PROVE session[s].n >= 0
      <4>1. session[s].n \in Nat
        BY <3>1, <3>4 DEF NoTakeBacks
      <4> QED
        BY <4>1
    <3> QED
      BY <3>1, <3>3, <3>4
  <2>3. /\ credit' \in [Customers -> Int]
        /\ NoTakeBacks => \A c \in Customers : credit'[c] >= 0
    BY <1>2, <2>2 DEF CommitGrant, Rows
  <2> QED
    BY <1>0, <1>2, <2>3 DEF CommitGrant, Rows, OneOrNone
<1>3. CASE CommitRedeem(s)
  <2>1. IsRedeem(session[s])
    BY <1>3 DEF CommitRedeem, Runs, Rows, IsCall, Idle, IsCheckout, IsGrant
  <2>2. /\ credit' \in [Customers -> Int]
        /\ NoTakeBacks => \A c \in Customers : credit'[c] >= 0
    BY <1>3, <2>1, Constants DEF CommitRedeem, Rows, IsRedeem
  <2>3. cards' \subseteq Cards
    BY <1>3 DEF CommitRedeem, Rows
  <2> QED
    BY <1>0, <1>3, <2>2, <2>3 DEF CommitRedeem, Rows, OneOrNone
<1>4. CASE Replay(s)
  <2>1. IsCheckout(session[s])
    BY <1>4 DEF Replay, Runs, Rows, IsCall, Idle, IsRedeem, IsGrant
  <2>2. told' \subseteq Keys \X Bodies
    BY <1>4, <2>1, Constants DEF Replay, Rows, IsCheckout
  <2> QED
    BY <1>0, <1>4, <2>2 DEF Replay, Rows, OneOrNone, rowVars
<1>5. CASE UNCHANGED <<rowVars, told>>
  BY <1>0, <1>5 DEF Rows, OneOrNone, rowVars
<1>6. \/ Writes(s) \/ Replay(s) \/ UNCHANGED <<rowVars, told>>
  BY DEF StepOf, Acquire, Decide, Refused, Begins
<1> QED
  BY <1>1, <1>2, <1>3, <1>4, <1>5, <1>6 DEF Writes

-----------------------------------------------------------------------------
(* Locks exclude *)

(* A key that is recorded stays recorded.                                  *)
LEMMA RecordedStays ==
  ASSUME Rows, NEW s \in Sessions, Decided(s) => Ready(s), StepOf(s)
  PROVE  \A k \in Keys : Recorded(k) => orders'[k] = orders[k]
<1>1. CASE Commit(s)
  BY <1>1, CommitWrites DEF Recorded, Rows
<1>2. CASE ~Commit(s)
  BY <1>2 DEF StepOf, Acquire, Replay, Decide, Refused, Writes, CommitGrant,
     CommitRedeem, Begins, rowVars
<1> QED
  BY <1>1, <1>2

(* Only the one who goes on gets a lock.                                   *)
LEMMA HeldShrinks ==
  ASSUME Rows, NEW s \in Sessions, Decided(s) => Ready(s), StepOf(s),
         NEW t \in Sessions, ~(t = s /\ Acquire(s))
  PROVE  Held(t)' \subseteq Held(t)
<1>1. CASE t # s
  <2>1. \A k \in Keys : Recorded(k) => Recorded(k)'
    BY RecordedStays DEF Recorded
  <2> QED
    BY <1>1, <2>1, CallsStay, OthersHold DEF Rows
<1>2. CASE t = s /\ Decide(s)
  <2>1. /\ session[s] \in Session
        /\ session'[s].fn = session[s].fn /\ session'[s].row = session[s].row
        /\ session'[s].who = session[s].who
        /\ session'[s].body = session[s].body
        /\ session'[s].locks = session[s].locks
        /\ orders' = orders
    BY <1>2 DEF Decide, Rows, Session, rowVars
  <2>2. Recorded(session[s].row)' <=> Recorded(session[s].row)
    BY <2>1 DEF Recorded
  <2>3. Locks(session[s])' = Locks(session[s])
    BY <2>1, <2>2, SameLocks
  <2> QED
    BY <1>2, <2>1, <2>3 DEF Held
<1>3. CASE t = s /\ ~Decide(s)
  <2>1. CASE \E call : Begun(call) /\ Begins(s, call)
    <3>1. session'[s].locks = 0
      BY <2>1 DEF Begins, Begun, Rows
    <3> QED
      BY <1>3, <3>1, NothingHeld
  <2>2. CASE Replay(s) \/ Refused(s) \/ Writes(s)
    <3>1. session'[s] = Idle
      BY <2>2 DEF Replay, Refused, Writes, Commit, CommitGrant,
         CommitRedeem, Over, Rows
    <3>2. session'[s].locks = 0
      BY <3>1 DEF Idle
    <3> QED
      BY <1>3, <3>2, NothingHeld
  <2> QED
    BY <1>3, <2>1, <2>2 DEF StepOf
<1> QED
  BY <1>1, <1>2, <1>3

LEMMA ExclusiveNext ==
  ASSUME Rows, Exclusive, NEW s \in Sessions, Decided(s) => Ready(s), StepOf(s)
  PROVE  Exclusive'
<1> SUFFICES ASSUME NEW t \in Sessions, NEW u \in Sessions, t # u,
                    NEW a \in Held(t)', NEW b \in Held(u)'
             PROVE  ~Conflict(a, b)
  BY DEF Exclusive
<1>1. CASE ~Acquire(s)
  <2>1. a \in Held(t) /\ b \in Held(u)
    BY <1>1, HeldShrinks
  <2> QED
    BY <2>1 DEF Exclusive
<1>2. CASE Acquire(s)
  <2> DEFINE wanted == Locks(session[s])[session[s].locks + 1]
  <2>1. Held(s)' = Held(s) \cup {wanted}
    BY <1>2, AcquireHolds
  <2>2. \A v \in Sessions \ {s} : Held(v)' \subseteq Held(v)
    BY HeldShrinks
  <2>3. \A v \in Sessions \ {s} : \A held \in Held(v) :
          ~Conflict(wanted, held) /\ ~Conflict(held, wanted)
    BY <1>2, ConflictSymmetric DEF Acquire, WaitsFor
  <2> HIDE DEF wanted
  <2>4. CASE t = s
    BY <2>1, <2>2, <2>3, <2>4 DEF Exclusive
  <2>5. CASE u = s
    BY <2>1, <2>2, <2>3, <2>5 DEF Exclusive
  <2>6. CASE t # s /\ u # s
    BY <2>2, <2>6 DEF Exclusive
  <2> QED
    BY <2>4, <2>5, <2>6
<1> QED
  BY <1>1, <1>2

(* Two checkouts that hold all they want are not for the same key, nor     *)
(* both with the coupon, nor does one spend what the other, a grant or a   *)
(* gift card is about to change.                                           *)
LEMMA ReadyApart ==
  ASSUME Rows, Exclusive, NEW s \in Sessions, Decided(s), Ready(s),
         NEW t \in Sessions, t # s, ~Asking(t)
  PROVE  LET call  == session[s]
             other == session[t]
         IN  /\ IsCheckout(other) /\ ~Recorded(other.row) =>
                  /\ other.row # call.row
                  /\ ~(call.body.coupon /\ other.body.coupon)
             /\ \/ IsCheckout(other) /\ ~Recorded(other.row)
                \/ IsGrant(other)
                \/ IsRedeem(other)
                => ~(call.body.credit /\ call.who # Guest /\ other.who = call.who)
<1> DEFINE call  == session[s]
           other == session[t]
<1>1. IsCheckout(call) /\ ~Recorded(call.row)
  BY DEF Decided, Ready, Rows, IsCall, Idle, IsGrant, IsRedeem
<1>2. \A lock : Has(Locks(call), lock) => lock \in Held(s)
  BY HoldsAll DEF Ready, Rows
<1>3. \A lock : Has(Locks(other), lock) => lock \in Held(t)
  BY HoldsAll DEF Rows
<1>4. \A a \in Held(s), b \in Held(t) : ~Conflict(a, b)
  BY DEF Exclusive
<1>5. \A row : \A lock \in {Update(row), KeyShare(row)} :
        ~(Has(Locks(call), Update(row)) /\ Has(Locks(other), lock))
  BY <1>2, <1>3, <1>4, UpdateExcludes
<1>6. ASSUME IsCheckout(other), ~Recorded(other.row)
      PROVE  /\ other.row # call.row
             /\ ~(call.body.coupon /\ other.body.coupon)
             /\ ~(call.body.credit /\ call.who # Guest /\ other.who = call.who)
  BY <1>1, <1>5, <1>6, CheckoutTakes
<1>7. ASSUME IsGrant(other) \/ IsRedeem(other)
      PROVE  ~(call.body.credit /\ call.who # Guest /\ other.who = call.who)
  BY <1>1, <1>5, <1>7, CheckoutTakes, CreditTakes
<1> QED
  BY <1>6, <1>7

-----------------------------------------------------------------------------
(* What was decided stays right *)

(* An order without the coupon leaves the uses as they are.                *)
LEMMA CouponLeftStays ==
  ASSUME Rows, NEW s \in Sessions, Decided(s) => Ready(s), Commit(s),
         ~session[s].body.coupon, NEW c
  PROVE  CouponLeft(c)' <=> CouponLeft(c)
<1> DEFINE coupons(k) == {i \in DOMAIN orders[k] : orders[k][i].body.coupon}
           used(S) == UNION {{k} \X coupons(k) : k \in S}
<1>1. ASSUME NEW k \in Keys PROVE coupons(k)' = coupons(k)
  <2>1. CASE k = session[s].row
    <3>1. orders'[k] = <<OrderOf(session[s])>> /\ orders[k] = <<>>
      BY <2>1, CommitWrites DEF Rows
    <3>2. orders'[k][1].body = session[s].body
      BY <3>1 DEF OrderOf
    <3> QED
      BY <3>1, <3>2
  <2>2. CASE k # session[s].row
    <3>1. orders'[k] = orders[k]
      BY <2>2, CommitWrites DEF Rows
    <3> QED
      BY <3>1
  <2> QED
    BY <2>1, <2>2
<1>2. ASSUME NEW S, S \subseteq Keys PROVE used(S)' = used(S)
  <2>1. \A k \in S : {k} \X coupons(k)' = {k} \X coupons(k)
    BY <1>1, <1>2
  <2> HIDE DEF coupons
  <2> QED
    BY <2>1
<1>3. \A S : UsesBy(S) = Cardinality(used(S))
  BY DEF UsesBy
<1>4. \A S : UsesBy(S)' = Cardinality(used(S)')
  BY DEF UsesBy
<1>5. ASSUME NEW S, S \subseteq Keys PROVE UsesBy(S)' = UsesBy(S)
  <2> HIDE DEF used
  <2> QED
    BY <1>2, <1>3, <1>4, <1>5
<1>6. UsesBy(Keys)' = UsesBy(Keys)
  BY <1>5
<1>7. UsesBy({k \in Keys : CustomerOf[k] = c})'
        = UsesBy({k \in Keys : CustomerOf[k] = c})
  BY <1>5
<1> QED
  BY <1>6, <1>7 DEF CouponLeft

(* Whoever commits meanwhile, a decided checkout still is right.           *)
LEMMA OthersKeepReady ==
  ASSUME Rows, Exclusive, NEW s \in Sessions, Decided(s), Ready(s),
         NEW t \in Sessions, t # s, Decided(t) => Ready(t), StepOf(t)
  PROVE  Ready(s)'
<1> DEFINE call  == session[s]
           other == session[t]
<1>1. /\ session'[s] = call /\ call \in Session
      /\ IsCheckout(call) /\ call.row \in Keys
  BY CallsStay DEF Rows, Decided, IsCall, Idle, IsGrant, IsRedeem, IsCheckout
<1>2. /\ call.n = Spent(call) /\ ~Asking(s) /\ ~Recorded(call.row)
      /\ call.body.coupon => CouponLeft(call.who)
  BY DEF Ready
<1>3. SUFFICES /\ ~Recorded(call.row)'
               /\ Spent(call)' = Spent(call)
               /\ call.body.coupon => (CouponLeft(call.who)' <=> CouponLeft(call.who))
  <2>1. Locks(session[s])' = Locks(session[s])
    BY <1>1, <1>2, <1>3, SameLocks
  <2>2. ~Asking(s)'
    BY <1>1, <1>2, <2>1 DEF Asking
  <2> QED
    BY <1>1, <1>2, <1>3, <2>2 DEF Ready
<1>4. CASE Commit(t)
  <2>1. /\ IsCheckout(other) /\ ~Recorded(other.row)
        /\ orders' = [orders EXCEPT ![other.row] = <<OrderOf(other)>>]
        /\ ~Asking(t)
    BY <1>4, CommitWrites DEF Commit, Runs
  <2>2. /\ other.row # call.row
        /\ ~(call.body.coupon /\ other.body.coupon)
        /\ ~(call.body.credit /\ call.who # Guest /\ other.who = call.who)
    BY <2>1, ReadyApart
  <2>3. ~Recorded(call.row)'
    BY <1>1, <1>2, <2>1, <2>2 DEF Recorded, Rows
  <2>4. Spent(call)' = Spent(call)
    <3>1. CASE call.body.credit /\ call.who # Guest
      <4>1. credit'[call.who] = credit[call.who]
        BY <1>4, <2>2, <3>1 DEF Commit, Rows
      <4> QED
        BY <1>1, <4>1 DEF Spent
    <3>2. CASE ~(call.body.credit /\ call.who # Guest)
      BY <1>1, <3>2 DEF Spent
    <3> QED
      BY <3>1, <3>2
  <2>5. call.body.coupon => (CouponLeft(call.who)' <=> CouponLeft(call.who))
    BY <1>1, <1>4, <2>2, CouponLeftStays
  <2> QED
    BY <2>3, <2>4, <2>5
<1>5. CASE CommitGrant(t) \/ CommitRedeem(t)
  <2>1. ~Asking(t) /\ (IsGrant(other) \/ IsRedeem(other))
    BY <1>5 DEF CommitGrant, CommitRedeem, Runs, Rows, IsCall, Idle, IsCheckout
  <2>2. ~(call.body.credit /\ call.who # Guest /\ other.who = call.who)
    BY <2>1, ReadyApart
  <2>3. orders' = orders
    BY <1>5 DEF CommitGrant, CommitRedeem
  <2>4. Spent(call)' = Spent(call)
    <3>1. CASE call.body.credit /\ call.who # Guest
      <4>1. credit'[call.who] = credit[call.who]
        <5>1. PICK sum : credit' = [credit EXCEPT ![other.who] = sum]
          BY <1>5 DEF CommitGrant, CommitRedeem
        <5> QED
          BY <2>2, <3>1, <5>1 DEF Rows
      <4> QED
        BY <1>1, <4>1 DEF Spent
    <3>2. CASE ~(call.body.credit /\ call.who # Guest)
      BY <1>1, <3>2 DEF Spent
    <3> QED
      BY <3>1, <3>2
  <2> QED
    BY <1>1, <1>2, <2>3, <2>4 DEF Recorded, CouponLeft, UsesBy
<1>6. CASE UNCHANGED rowVars
  BY <1>1, <1>2, <1>6 DEF rowVars, Recorded, CouponLeft, UsesBy, Spent
<1> QED
  BY <1>4, <1>5, <1>6 DEF StepOf, Acquire, Replay, Decide, Refused, Writes,
     Begins

(* A checkout is ready when it decides, and only the commit ends that.     *)
LEMMA ReadyNext ==
  ASSUME Rows, Exclusive, \A s \in Sessions : Decided(s) => Ready(s),
         NEW t \in Sessions, StepOf(t), NEW s \in Sessions, Decided(s)'
  PROVE  Ready(s)'
<1>1. CASE s # t
  <2>1. Decided(s)
    BY <1>1, CallsStay DEF Decided
  <2> QED
    BY <1>1, <2>1, OthersKeepReady
<1>2. CASE s = t /\ Decide(s)
  <2> DEFINE call == session[s]
  <2>1. /\ session'[s].fn = call.fn /\ session'[s].row = call.row
        /\ session'[s].who = call.who /\ session'[s].body = call.body
        /\ session'[s].locks = call.locks /\ session'[s].n = Spent(call)
    <3>1. call \in Session /\ session \in [Sessions -> Session]
      BY DEF Rows
    <3>2. session'[s] = [call EXCEPT !.decided = TRUE, !.n = Spent(call)]
      BY <1>2, <3>1 DEF Decide, Spent
    <3> QED
      BY <3>1, <3>2 DEF Session
  <2>2. /\ ~Asking(s) /\ ~Recorded(call.row) /\ UNCHANGED rowVars
        /\ call.body.coupon => CouponLeft(call.who)
    BY <1>2 DEF Decide, Runs
  <2>3. ~Recorded(session[s].row)'
    BY <2>1, <2>2 DEF Recorded, rowVars
  <2>4. Locks(session[s])' = Locks(session[s])
    BY <2>1, <2>2, <2>3, SameLocks
  <2>5. ~Asking(s)'
    BY <2>1, <2>2, <2>4 DEF Asking
  <2>6. (session[s].n = Spent(session[s]))'
    BY <2>1, <2>2 DEF Spent, rowVars
  <2>7. (session[s].body.coupon => CouponLeft(session[s].who))'
    BY <2>1, <2>2 DEF CouponLeft, UsesBy, rowVars
  <2> QED
    BY <2>3, <2>5, <2>6, <2>7 DEF Ready
<1>3. CASE s = t /\ ~Decide(s)
  <2>1. ~Acquire(s)
    <3> SUFFICES ASSUME Acquire(s) PROVE FALSE
      OBVIOUS
    <3>1. Decided(s)
      BY DEF Decided, Acquire, Rows, Session
    <3> QED
      BY <3>1 DEF Ready, Acquire
  <2>2. session'[s] = Idle \/ Begun(session'[s])
    BY <1>3, <2>1 DEF StepOf, Replay, Refused, Writes, Commit, CommitGrant,
       CommitRedeem, Over, Begins, Rows
  <2> QED
    BY <2>2 DEF Decided, Idle, Begun
<1> QED
  BY <1>1, <1>2, <1>3

-----------------------------------------------------------------------------
(* The invariant *)

LEMMA AnswersNext ==
  ASSUME Rows, AnswersMatch, NEW s \in Sessions, Decided(s) => Ready(s),
         StepOf(s)
  PROVE  AnswersMatch'
<1> DEFINE call == session[s]
           Given(k, b) == \E i \in DOMAIN orders'[k] : orders'[k][i].body = b
<1>0. SUFFICES \A answer \in told' : Given(answer[1], answer[2])
  BY DEF AnswersMatch
<1>1. ASSUME NEW answer \in told PROVE Given(answer[1], answer[2])
  <2>1. PICK i \in DOMAIN orders[answer[1]] :
           orders[answer[1]][i].body = answer[2]
    BY <1>1 DEF AnswersMatch
  <2>2. answer[1] \in Keys /\ orders[answer[1]] # <<>>
    BY <1>1, <2>1 DEF Rows
  <2>3. orders'[answer[1]] = orders[answer[1]]
    BY <2>2, RecordedStays DEF Recorded
  <2> QED
    BY <2>1, <2>3
<1>2. CASE Commit(s)
  <2>1. orders'[call.row] = <<OrderOf(call)>>
    BY <1>2, CommitWrites DEF Rows, IsCheckout
  <2>2. orders'[call.row][1].body = call.body /\ 1 \in DOMAIN orders'[call.row]
    BY <2>1 DEF OrderOf
  <2>3. Given(call.row, call.body)
    BY <2>2
  <2>4. told' = told \cup {<<call.row, call.body>>}
    BY <1>2 DEF Commit
  <2> HIDE DEF Given
  <2> QED
    BY <1>1, <2>3, <2>4
<1>3. CASE Replay(s)
  <2>1. /\ orders' = orders /\ Recorded(call.row) /\ call.row \in Keys
        /\ orders[call.row][1].body = call.body
        /\ told' = told \cup {<<call.row, call.body>>}
    BY <1>3 DEF Replay, Runs, SameBody, Rows, IsCall, Idle, IsCheckout,
       IsGrant, IsRedeem, rowVars
  <2>2. 1 \in DOMAIN orders[call.row]
    BY <2>1 DEF Rows, OneOrNone, Recorded
  <2>3. Given(call.row, call.body)
    BY <2>1, <2>2
  <2> HIDE DEF Given
  <2> QED
    BY <1>1, <2>1, <2>3
<1>4. CASE told' = told
  BY <1>1, <1>4
<1> QED
  BY <1>2, <1>3, <1>4 DEF StepOf, Acquire, Decide, Refused, Writes, CommitGrant,
     CommitRedeem, Begins

(* Exclusive locks, and what is decided behind them, at every step.        *)
THEOREM CheckoutInvariant == Spec => []IInv
<1>1. Init => IInv
  <2> SUFFICES ASSUME Init PROVE IInv
    OBVIOUS
  <2>1. Idle \in Session
    BY DEF Idle, Session
  <2>2. Rows
    BY <2>1 DEF Init, Rows, OneOrNone, IsCall
  <2>3. \A s \in Sessions : session[s].locks = 0
    BY DEF Init, Idle
  <2>4. \A s \in Sessions : Held(s) = {}
    BY <2>3, NoLocks DEF Held
  <2>5. \A s \in Sessions : ~Decided(s)
    BY DEF Init, Idle, Decided
  <2> QED
    BY <2>2, <2>4, <2>5 DEF IInv, Exclusive, AnswersMatch, Init
<1>2. IInv /\ [Next]_vars => IInv'
  <2> SUFFICES ASSUME IInv, [Next]_vars PROVE IInv'
    OBVIOUS
  <2>1. CASE Next
    <3>1. PICK s \in Sessions : StepOf(s)
      BY <2>1, Steps
    <3>2. Rows'
      BY <3>1, RowsNext DEF IInv
    <3>3. Exclusive'
      BY <3>1, ExclusiveNext DEF IInv
    <3>4. \A t \in Sessions : Decided(t)' => Ready(t)'
      BY <3>1, ReadyNext DEF IInv
    <3>5. AnswersMatch'
      BY <3>1, AnswersNext DEF IInv
    <3> QED
      BY <3>2, <3>3, <3>4, <3>5 DEF IInv
  <2>2. CASE UNCHANGED vars
    <3>1. UNCHANGED <<orders, credit, cards, session, told>>
      BY <2>2 DEF vars, rowVars
    <3>2. Rows'
      BY <3>1 DEF IInv, Rows, OneOrNone
    <3>3. \A s : Held(s)' = Held(s) /\ Locks(session[s])' = Locks(session[s])
      BY <3>1 DEF Held, Locks, Recorded
    <3>4. Exclusive'
      BY <3>3 DEF IInv, Exclusive
    <3>5. \A s : (Decided(s)' <=> Decided(s)) /\ (Ready(s)' <=> Ready(s))
      BY <3>1, <3>3 DEF Decided, Ready, Asking, Recorded, Spent, CouponLeft, UsesBy
    <3>6. AnswersMatch'
      BY <3>1 DEF IInv, AnswersMatch
    <3> QED
      BY <3>2, <3>4, <3>5, <3>6 DEF IInv
  <2> QED
    BY <2>1, <2>2
<1> QED
  BY <1>1, <1>2, PTL DEF Spec

(* Balances stay at zero or above, and every row keeps its type.           *)
THEOREM CheckoutTypes ==
  ASSUME NoTakeBacks
  PROVE  Spec => []TypeOK
<1>1. IInv => TypeOK
  <2> SUFFICES ASSUME Rows PROVE TypeOK
    BY DEF IInv
  <2>1. \A c \in Customers : credit[c] \in Nat
    BY DEF Rows
  <2>2. credit \in [Customers -> Nat]
    BY <2>1 DEF Rows
  <2> QED
    BY <2>2 DEF Rows, TypeOK
<1> QED
  BY <1>1, CheckoutInvariant, PTL

(* A key sent again, while it runs or after, places no second order        *)
(* (idempotency_keys).                                                     *)
THEOREM KeyPlacesOneOrder == Spec => []OneOrderPerKey
<1>1. IInv => OneOrderPerKey
  <2> SUFFICES ASSUME IInv, NEW k \in Keys PROVE Len(orders[k]) <= 1
    BY DEF OneOrderPerKey
  <2>1. orders[k] = <<>> \/ \E order \in Order : orders[k] = <<order>>
    BY DEF IInv, Rows, OneOrNone
  <2>2. Len(<<>>) = 0 /\ \A order : Len(<<order>>) = 1
    OBVIOUS
  <2>3. CASE Len(orders[k]) = 0
    BY <2>3
  <2>4. CASE Len(orders[k]) = 1
    BY <2>4
  <2> QED
    BY <2>1, <2>2, <2>3, <2>4
<1> QED
  BY <1>1, CheckoutInvariant, PTL

(* No client is told of an order for a basket it did not send              *)
(* (request_hash).                                                         *)
THEOREM AnswersMatchOrders == Spec => []AnswersMatch
<1>1. IInv => AnswersMatch
  BY DEF IInv
<1> QED
  BY <1>1, CheckoutInvariant, PTL

-----------------------------------------------------------------------------
(* One at a time *)

OrderFor(k) ==
  IF Recorded(k) THEN orders[k][Len(orders[k])] ELSE [placed |-> FALSE]

Using(k) == orders[k] # <<>> /\ orders[k][1].body.coupon

(* The order a key shows is the one it has.                                *)
LEMMA OrderShown ==
  ASSUME Rows, NEW k \in Keys
  PROVE  /\ \A order : orders[k] = <<order>> => OrderFor(k) = order
         /\ OrderFor(k).placed \in BOOLEAN
         /\ OrderFor(k).placed <=> Recorded(k)
         /\ OrderFor(k).placed /\ OrderFor(k).body.coupon <=> Using(k)
<1>1. CASE orders[k] = <<>>
  BY <1>1 DEF OrderFor, Recorded, Using
<1>2. CASE \E order \in Order : orders[k] = <<order>>
  <2>1. PICK order \in Order : orders[k] = <<order>>
    BY <1>2
  <2>2. Len(<<order>>) = 1 /\ <<order>>[1] = order /\ <<order>> # <<>>
    OBVIOUS
  <2>3. OrderFor(k) = order /\ Recorded(k)
    BY <2>1, <2>2 DEF OrderFor, Recorded
  <2>4. order.placed = TRUE
    BY DEF Order
  <2>5. \A other : orders[k] = <<other>> => OrderFor(k) = other
    BY <2>1, <2>3
  <2>6. OrderFor(k).placed /\ Recorded(k)
    BY <2>3, <2>4
  <2>7. OrderFor(k).body.coupon <=> Using(k)
    BY <2>1, <2>2, <2>3 DEF Using
  <2> QED
    BY <2>3, <2>4, <2>5, <2>6, <2>7
<1> QED
  BY <1>1, <1>2 DEF Rows, OneOrNone

(* The redemptions are as many as the orders that used the coupon.         *)
LEMMA UsesCounted ==
  ASSUME Rows, NEW S, S \subseteq Keys
  PROVE  UsesBy(S) = Cardinality({k \in S : Using(k)})
<1> DEFINE coupons(k) == {i \in DOMAIN orders[k] : orders[k][i].body.coupon}
           U == {k \in S : Using(k)}
           rows == UNION {{k} \X coupons(k) : k \in S}
<1>1. \A k \in S : coupons(k) = IF Using(k) THEN {1} ELSE {}
  <2> SUFFICES ASSUME NEW k \in S
               PROVE  coupons(k) = IF Using(k) THEN {1} ELSE {}
    OBVIOUS
  <2>1. OneOrNone(k)
    BY DEF Rows
  <2>2. CASE orders[k] = <<>>
    BY <2>2 DEF Using
  <2>3. CASE \E order \in Order : orders[k] = <<order>>
    <3>1. PICK order \in Order : orders[k] = <<order>>
      BY <2>3
    <3>2. DOMAIN <<order>> = {1} /\ <<order>>[1] = order /\ <<order>> # <<>>
      OBVIOUS
    <3> QED
      BY <3>1, <3>2 DEF Using
  <2> QED
    BY <2>1, <2>2, <2>3 DEF OneOrNone
<1>2. rows = U \X {1}
  <2> HIDE DEF coupons
  <2>1. \A k \in S : {k} \X coupons(k) = IF k \in U THEN {<<k, 1>>} ELSE {}
    BY <1>1
  <2>2. \A x : x \in rows <=> \E k \in U : x = <<k, 1>>
    BY <2>1
  <2>3. \A x : x \in U \X {1} <=> \E k \in U : x = <<k, 1>>
    OBVIOUS
  <2> HIDE DEF rows, U
  <2> QED
    BY <2>2, <2>3
<1>3. IsFiniteSet(U)
  BY PurchaseAssumption, FS_Subset
<1>4. IsFiniteSet({1}) /\ Cardinality({1}) = 1
  BY FS_Singleton
<1>5. UsesBy(S) = Cardinality(rows)
  BY DEF UsesBy
<1> HIDE DEF rows, U
<1>6. Cardinality(U \X {1}) = Cardinality(U) * 1
  BY <1>3, <1>4, FS_Product
<1>7. Cardinality(U) * 1 = Cardinality(U)
  BY <1>3, FS_CardinalityType
<1>8. UsesBy(S) = Cardinality(U)
  BY <1>2, <1>5, <1>6, <1>7
<1> QED
  BY <1>8 DEF U

(* So the coupon is left where it would be left one at a time.             *)
LEMMA CouponLeftInBoth ==
  ASSUME Rows, NEW c
  PROVE  CouponLeft(c) <=> AsPurchases!CouponLeft(c)
<1>1. \A k \in Keys : OrderFor(k).placed /\ OrderFor(k).body.coupon <=> Using(k)
  BY OrderShown
<1>2. AsPurchases!Uses = {k \in Keys : Using(k)}
  <2>1. AsPurchases!Uses =
          {k \in Keys : OrderFor(k).placed /\ OrderFor(k).body.coupon}
    BY DEF AsPurchases!Uses, OrderFor
  <2> QED
    BY <1>1, <2>1
<1>3. AsPurchases!UsesOf(c) = {k \in {j \in Keys : CustomerOf[j] = c} : Using(k)}
  BY <1>2 DEF AsPurchases!UsesOf
<1>4. UsesBy(Keys) = Cardinality(AsPurchases!Uses)
  BY <1>2, UsesCounted
<1>5. UsesBy({k \in Keys : CustomerOf[k] = c})
        = Cardinality(AsPurchases!UsesOf(c))
  BY <1>3, UsesCounted
<1>6. AsPurchases!CouponLeft(c) <=>
        /\ Cardinality(AsPurchases!Uses) < MaxUses
        /\ c # Guest => Cardinality(AsPurchases!UsesOf(c)) < MaxPerCustomer
  BY DEF AsPurchases!CouponLeft, AsPurchases!Cardinality, Cardinality
<1>7. CouponLeft(c) <=>
        /\ UsesBy(Keys) < MaxUses
        /\ c # Guest =>
             UsesBy({k \in Keys : CustomerOf[k] = c}) < MaxPerCustomer
  BY DEF CouponLeft
<1> QED
  BY <1>4, <1>5, <1>6, <1>7

(* A checkout that commits is a purchase of its customer.                  *)
LEMMA CommitIsPlace ==
  ASSUME Rows, NEW s \in Sessions, Decided(s) => Ready(s), Commit(s)
  PROVE  \E k \in Keys, b \in Bodies : AsPurchases!Place(k, b)
<1> DEFINE call == session[s]
           map  == [k \in Keys |-> OrderFor(k)]
<1>1. /\ IsCheckout(call) /\ ~Recorded(call.row)
      /\ orders' = [orders EXCEPT ![call.row] = <<OrderOf(call)>>]
      /\ call.n = Spent(call)
  BY CommitWrites
<1>2. call.body.coupon => CouponLeft(call.who)
  BY DEF Ready, Decided, Commit, Runs
<1>3. ~OrderFor(call.row).placed
  BY <1>1, OrderShown DEF IsCheckout
<1>4. call.n = AsPurchases!Spends(call.body, call.who)
  BY <1>1 DEF Spent, AsPurchases!Spends, Applied, AsPurchases!Applied, Grand,
     AsPurchases!Grand
<1>5. OrderOf(call)
        = AsPurchases!Placed(call.body, AsPurchases!Spends(call.body, call.who))
  BY <1>4 DEF OrderOf, AsPurchases!Placed
<1>6. map' = [map EXCEPT ![call.row] = OrderOf(call)]
  <2>1. call.row \in Keys /\ orders'[call.row] = <<OrderOf(call)>>
    BY <1>1 DEF IsCheckout, Rows
  <2>2. Len(<<OrderOf(call)>>) = 1 /\ <<OrderOf(call)>> # <<>>
        /\ <<OrderOf(call)>>[1] = OrderOf(call)
    OBVIOUS
  <2>3. map'[call.row] = OrderOf(call)
    BY <2>1, <2>2 DEF OrderFor, Recorded
  <2>4. \A k \in Keys \ {call.row} : OrderFor(k)' = OrderFor(k)
    BY <1>1 DEF OrderFor, Recorded, Rows
  <2> QED
    BY <2>1, <2>3, <2>4
<1>7. PICK k \in Keys, b \in Bodies : k = call.row /\ b = call.body
  BY <1>1 DEF IsCheckout
<1>8. AsPurchases!Place(k, b)
  BY <1>1, <1>2, <1>3, <1>4, <1>5, <1>6, <1>7, CouponLeftInBoth
     DEF AsPurchases!Place, IsCheckout, OrderFor, Commit
<1> QED
  BY <1>8

(* A commit is a purchase, a grant or a gift card; nothing else shows.     *)
LEMMA StepIsPurchase ==
  ASSUME NoTakeBacks, Rows, NEW s \in Sessions, Decided(s) => Ready(s),
         StepOf(s), Rows'
  PROVE  AsPurchases!Next \/ UNCHANGED AsPurchases!vars
<1> DEFINE call == session[s]
<1>1. CASE Commit(s)
  BY <1>1, CommitIsPlace DEF AsPurchases!Next
<1>2. CASE CommitGrant(s)
  <2>1. call.who \in Customers /\ call.n \in Deltas
    BY <1>2 DEF CommitGrant, Runs, Rows, IsCall, IsGrant, IsCheckout, IsRedeem,
       Idle
  <2>2. credit'[call.who] = credit[call.who] + call.n
    BY <1>2, <2>1 DEF CommitGrant, Rows
  <2>3. credit[call.who] + call.n >= 0
    <3>1. \A c \in Customers : credit'[c] >= 0
      BY DEF Rows
    <3> QED
      BY <2>1, <2>2, <3>1
  <2>4. AsPurchases!Grant(call.who, call.n)
    BY <1>2, <2>3 DEF CommitGrant, AsPurchases!Grant, Recorded
  <2> HIDE DEF call
  <2> QED
    BY <2>1, <2>4 DEF AsPurchases!Next
<1>3. CASE CommitRedeem(s)
  <2>1. call.who \in Customers /\ call.row \in Cards
    BY <1>3 DEF CommitRedeem, Runs, Rows, IsCall, IsGrant, IsCheckout, IsRedeem,
       Idle
  <2>2. AsPurchases!Redeem(call.who, call.row)
    BY <1>3 DEF CommitRedeem, AsPurchases!Redeem, Recorded
  <2> HIDE DEF call
  <2> QED
    BY <2>1, <2>2 DEF AsPurchases!Next
<1>4. CASE UNCHANGED rowVars
  BY <1>4 DEF rowVars, AsPurchases!vars, Recorded
<1> QED
  BY <1>1, <1>2, <1>3, <1>4 DEF StepOf, Acquire, Replay, Decide, Refused,
     Writes, Begins

(* Any interleaving of checkouts, grants and gift cards, with its          *)
(* deadlocks, retries and crashes, is one where they happen one at a time. *)
THEOREM PurchasesOneAtATime ==
  ASSUME NoTakeBacks
  PROVE  Spec => OneAtATime
<1>1. Init => AsPurchases!Init
  BY DEF Init, AsPurchases!Init, AsPurchases!NoOrder, Recorded
<1>2. IInv /\ IInv' /\ [Next]_vars => [AsPurchases!Next]_(AsPurchases!vars)
  <2> SUFFICES ASSUME IInv, IInv', [Next]_vars
               PROVE  AsPurchases!Next \/ UNCHANGED AsPurchases!vars
    OBVIOUS
  <2>1. CASE Next
    BY <2>1, Steps, StepIsPurchase DEF IInv
  <2>2. CASE UNCHANGED vars
    BY <2>2 DEF vars, rowVars, AsPurchases!vars, Recorded
  <2> QED
    BY <2>1, <2>2
<1> QED
  BY <1>1, <1>2, CheckoutInvariant, PTL
     DEF Spec, OneAtATime, AsPurchases!Spec

-----------------------------------------------------------------------------
(* What holds one at a time holds here *)

Kept ==
  INSTANCE PurchasesProofs WITH
    orders <- [k \in Keys |-> IF Recorded(k) THEN orders[k][Len(orders[k])]
                              ELSE [placed |-> FALSE]]

(* The coupon is redeemed no more often than it may be.                    *)
CouponWithinLimits ==
  /\ UsesBy(Keys) <= MaxUses
  /\ \A c \in Customers :
       UsesBy({k \in Keys : CustomerOf[k] = c}) <= MaxPerCustomer

(* The uses are those of the orders that happen one at a time.             *)
LEMMA UsesInBoth ==
  ASSUME Rows, Kept!CouponWithinLimits
  PROVE  CouponWithinLimits
<1>1. Kept!Uses = {k \in Keys : Using(k)}
  <2>1. Kept!Uses =
          {k \in Keys : OrderFor(k).placed /\ OrderFor(k).body.coupon}
    BY DEF Kept!Uses, OrderFor
  <2> QED
    BY <2>1, OrderShown
<1>2. \A c : Kept!UsesOf(c) = {k \in {j \in Keys : CustomerOf[j] = c} : Using(k)}
  BY <1>1 DEF Kept!UsesOf
<1>3. UsesBy(Keys) = Cardinality(Kept!Uses)
  BY <1>1, UsesCounted
<1>4. \A c : UsesBy({k \in Keys : CustomerOf[k] = c})
               = Cardinality(Kept!UsesOf(c))
  BY <1>2, UsesCounted
<1>5. /\ Cardinality(Kept!Uses) <= MaxUses
      /\ \A c \in Customers : Cardinality(Kept!UsesOf(c)) <= MaxPerCustomer
  BY DEF Kept!CouponWithinLimits, Kept!Cardinality, Cardinality
<1> QED
  BY <1>3, <1>4, <1>5 DEF CouponWithinLimits

(* A purchase here is one of the theorems' module.                         *)
LEMMA PlaceInBoth ==
  ASSUME NEW k \in Keys, NEW b \in Bodies, AsPurchases!Place(k, b)
  PROVE  Kept!Place(k, b)
BY DEF AsPurchases!Place, Kept!Place, AsPurchases!CouponLeft, Kept!CouponLeft,
   AsPurchases!Uses, Kept!Uses, AsPurchases!UsesOf, Kept!UsesOf,
   AsPurchases!Spends, Kept!Spends, AsPurchases!Placed, Kept!Placed,
   AsPurchases!Applied, Kept!Applied, AsPurchases!Grand, Kept!Grand,
   AsPurchases!Cardinality, Kept!Cardinality

(* The rows are as the abstract specification has them.                    *)
LEMMA KeptTypes ==
  ASSUME Rows
  PROVE  Kept!TypeOK
<1>1. ASSUME NEW k \in Keys
      PROVE  OrderFor(k) \in Kept!Order \cup {Kept!NoOrder}
  <2>1. CASE orders[k] = <<>>
    BY <2>1 DEF OrderFor, Recorded, Kept!NoOrder
  <2>2. CASE orders[k] # <<>>
    <3>1. PICK order \in Order : orders[k] = <<order>>
      BY <2>2 DEF Rows, OneOrNone
    <3>2. OrderFor(k) = order
      BY <3>1, OrderShown
    <3> QED
      BY <3>2 DEF Order, Kept!Order
  <2> QED
    BY <2>1, <2>2
<1> QED
  BY <1>1 DEF Kept!TypeOK, Rows, OrderFor

(* The coupon keeps to its limits however many checkouts race for its last *)
(* use (enforce_discount_limits under the lock of the coupon), also where  *)
(* staff take credit back.                                                 *)
THEOREM CouponNeverOverused == Spec => []CouponWithinLimits
<1>1. Init => Kept!CouponWithinLimits
  <2>1. Init => Kept!Init
    BY DEF Init, Kept!Init, Kept!NoOrder, Recorded
  <2>2. Kept!Init => Kept!CouponWithinLimits
    BY Kept!NoUsesWithinLimits, PurchaseAssumption
       DEF Kept!IsFiniteSet, IsFiniteSet
  <2> QED
    BY <2>1, <2>2
<1>2. IInv /\ Kept!CouponWithinLimits /\ [Next]_vars
        => Kept!CouponWithinLimits'
  <2> SUFFICES ASSUME IInv, Kept!CouponWithinLimits, [Next]_vars
               PROVE  Kept!CouponWithinLimits'
    OBVIOUS
  <2>1. ASSUME NEW s \in Sessions, Commit(s)
        PROVE  Kept!CouponWithinLimits'
    <3>1. PICK k \in Keys, b \in Bodies : Kept!Place(k, b)
      BY <2>1, CommitIsPlace, PlaceInBoth DEF IInv
    <3>2. Kept!TypeOK
      BY KeptTypes DEF IInv
    <3> QED
      BY <3>1, <3>2, Kept!PlaceKeepsLimits, PurchaseAssumption
         DEF Kept!IsFiniteSet, IsFiniteSet
  <2>2. ASSUME orders' = orders PROVE Kept!CouponWithinLimits'
    <3>1. Kept!Uses' = Kept!Uses
      BY <2>2 DEF Kept!Uses, Recorded
    <3>2. \A c : Kept!UsesOf(c)' = Kept!UsesOf(c)
      BY <3>1 DEF Kept!UsesOf
    <3> QED
      BY <3>1, <3>2 DEF Kept!CouponWithinLimits, Kept!Cardinality
  <2>3. CASE Next
    <3>1. PICK s \in Sessions : StepOf(s)
      BY <2>3, Steps
    <3>2. Commit(s) \/ orders' = orders
      BY <3>1 DEF StepOf, Acquire, Replay, Decide, Refused, Writes, Begins,
         CommitGrant, CommitRedeem, rowVars
    <3> QED
      BY <2>1, <2>2, <3>2
  <2>4. CASE UNCHANGED vars
    BY <2>2, <2>4 DEF vars, rowVars
  <2> QED
    BY <2>3, <2>4
<1>3. IInv /\ Kept!CouponWithinLimits => CouponWithinLimits
  BY UsesInBoth DEF IInv
<1> QED
  BY <1>1, <1>2, <1>3, CheckoutInvariant, PTL DEF Spec

=============================================================================
