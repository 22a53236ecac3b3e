-------------------------- MODULE AfterSalesProofs --------------------------
(***************************************************************************)
(* Proofs about AfterSales, for every set of sessions, boxes, returns and  *)
(* refund requests, and every quantity.                                    *)
(***************************************************************************)
EXTENDS AfterSales, SharedLemmas

-----------------------------------------------------------------------------
(* The inductive invariant *)

(* What a running call names, by its function; only a refund has a route.  *)
IsRun(c) ==
  /\ \/ c.fn = "admin_ship_order" /\ c.row \in Shipments
     \/ c.fn = "admin_update_shipment" /\ c.row \in Shipments /\ c.to \in Tracks
     \/ c.fn = "admin_cancel_order"
     \/ c.fn = "request_return" /\ c.row \in Returns
     \/ c.fn = "admin_review_return" /\ c.row \in Returns /\ c.to \in Decisions
     \/ c.fn = "admin_receive_return" /\ c.row \in Returns
     \/ c.fn = "admin_refund" /\ c.row \in Keys /\ c.route = c.row
     \/ /\ c.fn = "settle_refund" /\ c.row \in Keys
        /\ c.route \in {None, c.row} /\ c.to \in {"processed", "failed"}
  /\ c.fn \notin {"admin_refund", "settle_refund"} => c.route = None

(* Between two transactions a refund request holds nothing but its key.    *)
IsSession(x) ==
  /\ x \in Session
  /\ x.stage = "idle" => x = Idle
  /\ x.stage = "run" => IsRun(x.call)
  /\ x.stage \in {"gateway", "store", "release"} =>
       /\ x.call.fn = "none" /\ x.call.route \in Keys
       /\ x.locks = 0 /\ x.go = "undecided"

(* TypeOK but for the bound on what was paid, with the calls in more       *)
(* detail.                                                                 *)
Types ==
  /\ order \in {"paid", "shipped", "delivered", "cancelled", "refunded"}
  /\ ships \in [Shipments -> [status : {"none", "label_created"} \cup Tracks,
                              n : 0..Quantity]]
  /\ rets  \in [Returns -> [status : {"none", "requested", "received",
                                      "refunded"} \cup Decisions,
                            n : 0..Quantity]]
  /\ refunds \in [Keys -> [status : {"none", "initiated", "processed",
                                     "failed"},
                           n : Nat, ret : Returns \cup {None}]]
  /\ keys      \in [Keys -> {"free", "in_flight", "completed"}]
  /\ session   \in [Sessions -> Session]
  /\ \A s \in Sessions : IsSession(session[s])
  /\ returned  \in Nat
  /\ paid      \in [Keys -> Nat]
  /\ mishaps   \in 0..MishapBound

Runs(s, fn) == session[s].stage = "run" /\ session[s].call.fn = fn

Decided(s) == session[s].stage = "run" /\ session[s].go # "undecided"

(* The session works on refund k.                                          *)
About(s, k) ==
  \/ session[s].call.route = k
  \/ /\ Runs(s, "admin_refund") \/ Runs(s, "settle_refund")
     /\ session[s].call.row = k

(* What a refund says of its key and its money.                            *)
RefundInv(k) ==
  /\ keys[k] = "free" => refunds[k].status = "none"
  /\ refunds[k].status \in {"none", "failed"} => paid[k] = 0
  /\ paid[k] \in {0, refunds[k].n}
  /\ refunds[k].ret # None => rets[refunds[k].ret].status # "none"

(* How far the refund is that the session works on.                        *)
RefundStep(s) ==
  LET c == session[s].call
  IN  /\ c.route # None => keys[c.route] = "in_flight"
      /\ Runs(s, "admin_refund") \/ session[s].stage = "release" =>
           refunds[c.route].status = "none"
      /\ session[s].stage = "gateway" =>
           refunds[c.route].status = "initiated" /\ paid[c.route] = 0
      /\ Runs(s, "settle_refund") =>
           /\ refunds[c.row].status = "initiated"
           /\ paid[c.row] = IF c.to = "processed" THEN refunds[c.row].n ELSE 0

(* The return a session works on is there, and is not when it is made.     *)
ReturnStep(s) ==
  LET c == session[s].call
  IN  /\ Runs(s, "admin_review_return") \/ Runs(s, "admin_receive_return") =>
           rets[c.row].status # "none"
      /\ Runs(s, "admin_refund") /\ c.ret # None => rets[c.ret].status # "none"
      /\ Runs(s, "request_return") => rets[c.row].status = "none"

(* No two sessions work on one refund, or make one return.                 *)
Apart ==
  \A s, t \in Sessions : s # t =>
    /\ \A k \in Keys : ~(About(s, k) /\ About(t, k))
    /\ Runs(s, "request_return") /\ Runs(t, "request_return") =>
         AskTogether /\ session[s].call.row # session[t].call.row

Rows ==
  /\ \A k \in Keys : RefundInv(k)
  /\ \A s \in Sessions : RefundStep(s) /\ ReturnStep(s)
  /\ Apart

(* Locks that conflict are not both held.                                  *)
Exclusive ==
  \A s, t \in Sessions : s # t =>
    \A a \in Held(s), b \in Held(t) : ~Conflict(a, b)

(* What was decided behind the locks is still right when it commits; two   *)
(* returns asked for at once can both be right and exceed the order.       *)
Ready(s) ==
  LET c == session[s].call
  IN  /\ session[s].locks >= Len(Reads(c))
      /\ c.fn \in {"admin_ship_order", "admin_review_return",
                   "admin_receive_return", "admin_refund"} => ~Refused(c)
      /\ c.fn = "request_return" =>
           c.n <= Quantity /\ (~AskTogether => ~Refused(c))
      /\ c.fn = "settle_refund" => (session[s].go = "last" <=> Last(c))

(* Units that came back.                                                   *)
Back == Total([r \in Returns |-> IF rets[r].status \in Settled
                                   THEN rets[r].n ELSE 0])

Bounds ==
  /\ InBoxes <= Quantity
  /\ Already <= Quantity
  /\ ~AskTogether => Asked <= Quantity /\ returned <= Back
  /\ order = "refunded" => RefundedIn({"processed"}) >= Quantity

(* Whoever ships, tracks or cancels has its first lock.                    *)
StaffHold ==
  \A s \in Sessions :
    session[s].call.fn \in {"admin_ship_order", "admin_update_shipment",
                            "admin_cancel_order"} => session[s].locks >= 1

IInv ==
  /\ Types
  /\ Rows
  /\ Exclusive
  /\ \A s \in Sessions : Decided(s) => Ready(s)
  /\ Bounds
  /\ StaffHold

-----------------------------------------------------------------------------
(* Locks *)

LockedRows == Shipments \cup Returns \cup Keys \cup {"order"}

SaleLocks == {Update(row) : row \in LockedRows}
               \cup {NoKey(row) : row \in LockedRows}
               \cup {KeyShare(row) : row \in LockedRows}

(* What the assumptions say of each constant.                              *)
LEMMA Constants ==
  /\ None \notin Shipments /\ None \notin Returns /\ None \notin Keys
  /\ Quantity \in Nat /\ Quantity > 0 /\ MishapBound \in Nat
  /\ Parcels \subseteq Nat /\ Asks \subseteq Nat /\ Amounts \subseteq Nat
  /\ "none" \notin Tracks
  /\ Decisions \cap {"none", "received", "refunded", "requested"} = {}
  /\ IsFiniteSet(Shipments) /\ IsFiniteSet(Returns) /\ IsFiniteSet(Keys)
<1>1. Parcels \cup Asks \cup Amounts \subseteq Nat
  BY AfterSalesAssumption
<1> QED
  BY <1>1, AfterSalesAssumption

OrderFirst == {"admin_ship_order", "admin_cancel_order", "admin_refund"}

(* What a function locks before it decides.                                *)
LEMMA ReadsTake ==
  ASSUME NEW c, IsRun(c)
  PROVE  /\ Reads(c) \in Seq(SaleLocks) /\ Len(Reads(c)) >= 1
         /\ c.fn \in OrderFirst \cup {"admin_update_shipment"} =>
              Has(Reads(c), Update("order"))
         /\ c.fn \in {"admin_review_return", "admin_receive_return",
                       "settle_refund"} => Has(Reads(c), Update(c.row))
         /\ /\ c.fn = "settle_refund" /\ c.to = "processed"
            /\ refunds[c.row].status = "initiated"
            => Has(Reads(c), Update("order"))
<1>1. CASE c.fn \in OrderFirst
  <2>1. Reads(c) = <<Update("order")>>
    BY <1>1 DEF Reads, OrderFirst
  <2> QED
    BY <1>1, <2>1 DEF OrderFirst, Has, SaleLocks, LockedRows
<1>2. CASE c.fn = "admin_update_shipment"
  <2>1. Reads(c) = <<Update(c.row), Update("order")>> /\ c.row \in Shipments
    BY <1>2 DEF Reads, IsRun
  <2> QED
    BY <1>2, <2>1 DEF OrderFirst, Has, SaleLocks, LockedRows
<1>3. CASE c.fn \in {"admin_review_return", "admin_receive_return"}
  <2>1. Reads(c) = <<Update(c.row)>> /\ c.row \in Returns
    BY <1>3 DEF Reads, IsRun
  <2> QED
    BY <1>3, <2>1 DEF OrderFirst, Has, SaleLocks, LockedRows
<1>4. CASE c.fn = "settle_refund"
  <2>1. c.row \in Keys
    BY <1>4 DEF IsRun
  <2>2. CASE refunds[c.row].status = "initiated" /\ c.to = "processed"
    <3>1. Reads(c) = <<Update(c.row), Update("order")>>
      BY <1>4, <2>2 DEF Reads
    <3> QED
      BY <1>4, <2>1, <3>1 DEF OrderFirst, Has, SaleLocks, LockedRows
  <2>3. CASE ~(refunds[c.row].status = "initiated" /\ c.to = "processed")
    <3>1. Reads(c) = <<Update(c.row)>>
      BY <1>4, <2>3 DEF Reads
    <3> QED
      BY <1>4, <2>1, <2>3, <3>1 DEF OrderFirst, Has, SaleLocks, LockedRows
  <2> QED
    BY <2>2, <2>3
<1>5. CASE c.fn = "request_return"
  <2>1. Reads(c) = <<KeyShare("order")>>
    BY <1>5 DEF Reads
  <2> QED
    BY <1>5, <2>1 DEF OrderFirst, SaleLocks, LockedRows
<1> QED
  BY <1>1, <1>2, <1>3, <1>4, <1>5 DEF IsRun, OrderFirst

(* What its writes lock; a refund that is settled closes its return.       *)
LEMMA WritesTake ==
  ASSUME Types, NEW c \in Call, IsRun(c)
  PROVE  /\ Writes(c) \in Seq(SaleLocks)
         /\ LET r == refunds[c.row].ret
            IN  /\ c.fn = "settle_refund" /\ c.to = "processed"
                /\ r # None /\ rets[r].status # "refunded"
                => Has(Writes(c), NoKey(r))
<1>1. CASE c.fn = "admin_refund"
  <2>1. c.ret \in Returns \cup {None}
    BY DEF Call
  <2>2. KeyShareIf(c.ret # None, c.ret) \in Seq(SaleLocks)
    BY <2>1, KeyShareIfLocks DEF SaleLocks, LockedRows
  <2> QED
    BY <1>1, <2>2 DEF Writes
<1>2. CASE c.fn \in {"admin_review_return", "admin_receive_return"}
  <2>1. Writes(c) = <<KeyShare("order")>>
    BY <1>2 DEF Writes
  <2> QED
    BY <1>2, <2>1 DEF SaleLocks, LockedRows
<1>3. CASE c.fn = "settle_refund"
  <2> DEFINE r == refunds[c.row].ret
  <2>1. r \in Returns \cup {None}
    BY <1>3 DEF IsRun, Types
  <2>2. CASE c.to = "processed" /\ r # None /\ rets[r].status # "refunded"
    <3>1. Writes(c) = <<NoKey(r)>>
      BY <1>3, <2>2 DEF Writes
    <3> QED
      BY <2>1, <2>2, <3>1 DEF Has, SaleLocks, LockedRows
  <2>3. CASE ~(c.to = "processed" /\ r # None /\ rets[r].status # "refunded")
    <3>1. Writes(c) = <<>>
      BY <1>3, <2>3 DEF Writes
    <3> QED
      BY <2>3, <3>1
  <2> QED
    BY <2>2, <2>3
<1>4. CASE c.fn \notin {"admin_refund", "admin_review_return",
                        "admin_receive_return", "settle_refund"}
  BY <1>4 DEF Writes
<1> QED
  BY <1>1, <1>2, <1>3, <1>4

(* A call that decided holds all it read.                                  *)
LEMMA ReadsHeld ==
  ASSUME Types, NEW s \in Sessions, Runs(s, session[s].call.fn),
         session[s].locks >= Len(Reads(session[s].call))
  PROVE  \A lock : Has(Reads(session[s].call), lock) => lock \in Held(s)
<1> DEFINE c == session[s].call
<1>1. /\ c \in Call /\ IsRun(c) /\ session[s].locks \in Nat
  BY DEF Types, IsSession, Session, Runs
<1>2. Reads(c) \in Seq(SaleLocks) /\ Writes(c) \in Seq(SaleLocks)
  BY <1>1, ReadsTake, WritesTake
<1>3. SUFFICES ASSUME NEW lock, Has(Reads(c), lock)
               PROVE  lock \in FirstLocks(Reads(c) \o Writes(c), session[s].locks)
  BY DEF Held
<1>4. PICK i \in DOMAIN Reads(c) : Reads(c)[i] = lock
  BY <1>3 DEF Has
<1> HIDE DEF c
<1>5. /\ i \in DOMAIN (Reads(c) \o Writes(c)) /\ i \in 1..session[s].locks
      /\ (Reads(c) \o Writes(c))[i] = lock
  BY <1>1, <1>2, <1>4 DEF c
<1> QED
  BY <1>5 DEF FirstLocks

(* A call that commits holds what it writes, too.                          *)
LEMMA WritesHeld ==
  ASSUME Types, NEW s \in Sessions, Decided(s), ~Asking(s)
  PROVE  \A lock : Has(Writes(session[s].call), lock) => lock \in Held(s)
<1> DEFINE c == session[s].call
<1>1. c \in Call /\ IsRun(c) /\ session[s].locks \in Nat
  BY DEF Types, IsSession, Session, Decided
<1>2. Reads(c) \in Seq(SaleLocks) /\ Writes(c) \in Seq(SaleLocks)
  BY <1>1, ReadsTake, WritesTake
<1>3. Locks(c, session[s].go) = Reads(c) \o Writes(c)
  BY DEF Locks, Decided
<1>4. ~(session[s].locks < Len(Reads(c) \o Writes(c)))
  BY <1>3 DEF Asking, Decided
<1> HIDE DEF c
<1>5. /\ Reads(c) \o Writes(c) \in Seq(SaleLocks)
      /\ \A lock : Has(Writes(c), lock) => Has(Reads(c) \o Writes(c), lock)
  BY <1>2, HasConcat
<1> QED
  BY <1>1, <1>4, <1>5, AllLocks DEF Held, c

-----------------------------------------------------------------------------
(* Sessions *)

LEMMA IdleIsSession ==
  /\ NoCall \in Call /\ Idle \in Session /\ IsSession(Idle)
  /\ Idle.stage = "idle" /\ Idle.call = NoCall /\ Idle.locks = 0
  /\ Idle.go = "undecided"
  /\ NoCall.fn = "none" /\ NoCall.route = None
<1>1. NoCall \in Call /\ NoCall.fn = "none" /\ NoCall.route = None
  BY DEF NoCall, Call
<1>2. /\ Idle.stage = "idle" /\ Idle.call = NoCall /\ Idle.locks = 0
      /\ Idle.go = "undecided"
  BY DEF Idle
<1>3. Idle \in Session
  BY <1>1 DEF Idle, Session, Stages
<1> QED
  BY <1>1, <1>2, <1>3 DEF IsSession

(* A session that becomes x, the others being left alone.                  *)
Becomes(s, x) ==
  /\ session' \in [Sessions -> Session]
  /\ \A t \in Sessions : IsSession(session'[t])
  /\ session'[s] = x
  /\ \A t \in Sessions \ {s} : session'[t] = session[t]

LEMMA BecomesIt ==
  ASSUME Types, NEW s \in Sessions, NEW x, IsSession(x),
         session' = [session EXCEPT ![s] = x]
  PROVE  Becomes(s, x)
BY DEF Types, Becomes, IsSession

(* A call that begins to run.                                              *)
LEMMA RunningBecomes ==
  ASSUME Types, NEW s \in Sessions, NEW c \in Call, IsRun(c),
         NEW l \in Nat, Running(s, c, l)
  PROVE  /\ Becomes(s, session'[s])
         /\ session'[s].stage = "run" /\ session'[s].call = c
         /\ session'[s].locks = l /\ session'[s].go = "undecided"
<1> DEFINE x == [Idle EXCEPT !.stage = "run", !.call = c, !.locks = l]
<1>1. session' = [session EXCEPT ![s] = x]
  BY DEF Running
<1>2. /\ x.stage = "run" /\ x.call = c /\ x.locks = l /\ x.go = "undecided"
      /\ x \in Session
  BY IdleIsSession DEF Session, Stages
<1> HIDE DEF x
<1>3. IsSession(x)
  BY <1>2 DEF IsSession
<1> QED
  BY <1>1, <1>2, <1>3, BecomesIt DEF Becomes

(* A call whose transaction is over: idle, or a request with its key.      *)
LEMMA OverBecomes ==
  ASSUME Types, NEW s \in Sessions, session[s].stage = "run",
         NEW committed \in BOOLEAN, Over(s, committed)
  PROVE  LET c == session[s].call
             x == session'[s]
         IN  /\ Becomes(s, x) /\ x.stage # "run"
             /\ x.call.fn = "none" /\ x.call.route = c.route
             /\ x.locks = 0 /\ x.go = "undecided"
             /\ c.fn \notin {"admin_refund", "settle_refund"} => x = Idle
             /\ x.stage = "gateway" => c.fn = "admin_refund" /\ committed
             /\ x.stage = "release" => c.fn = "admin_refund" /\ ~committed
<1> DEFINE c == session[s].call
           then == IF c.route = None THEN "idle"
                   ELSE IF c.fn = "settle_refund" THEN "store"
                   ELSE IF committed THEN "gateway" ELSE "release"
           call == [NoCall EXCEPT !.route = c.route]
           x    == IF then = "idle" THEN Idle
                   ELSE [Idle EXCEPT !.stage = then, !.call = call]
<1>1. session' = [session EXCEPT ![s] = x]
  BY DEF Over
<1>2. c \in Call /\ IsRun(c) /\ c.route \in Keys \cup {None}
  BY DEF Types, IsSession, Session, Call
<1>3. call \in Call /\ call.fn = "none" /\ call.route = c.route
  BY <1>2, IdleIsSession DEF Call
<1> HIDE DEF call
<1>4. CASE c.route = None
  <2>1. x = Idle /\ Idle.call.route = c.route
    BY <1>4, IdleIsSession
  <2> QED
    BY <1>1, <2>1, BecomesIt, IdleIsSession DEF Becomes
<1>5. CASE c.route # None
  <2>1. then \in {"store", "gateway", "release"}
    BY <1>5
  <2>2. c.fn \in {"admin_refund", "settle_refund"}
    BY <1>2, <1>5 DEF IsRun
  <2>3. x = [Idle EXCEPT !.stage = then, !.call = call]
    BY <2>1
  <2>4. then = "gateway" => c.fn = "admin_refund" /\ committed
    BY <2>2
  <2>5. then = "release" => c.fn = "admin_refund" /\ ~committed
    BY <2>2
  <2> HIDE DEF then
  <2>6. /\ x.stage = then /\ x.call = call /\ x.locks = 0
        /\ x.go = "undecided" /\ x \in Session
    BY <1>3, <2>1, <2>3, IdleIsSession DEF Session, Stages
  <2> HIDE DEF x
  <2>7. IsSession(x)
    BY <1>2, <1>3, <1>5, <2>1, <2>6 DEF IsSession
  <2>8. Becomes(s, x)
    BY <1>1, <2>7, BecomesIt
  <2> QED
    BY <1>3, <2>1, <2>2, <2>4, <2>5, <2>6, <2>8 DEF Becomes
<1> QED
  BY <1>4, <1>5

(* One more lock, or the decision.                                         *)
LEMMA GoesOnBecomes ==
  ASSUME Types, NEW s \in Sessions, session[s].stage = "run",
         NEW l \in Nat, NEW go \in {"undecided", "apply", "last"},
         \/ session' = [session EXCEPT ![s].locks = l] /\ go = session[s].go
         \/ session' = [session EXCEPT ![s].go = go] /\ l = session[s].locks
  PROVE  /\ Becomes(s, session'[s])
         /\ session'[s].stage = "run" /\ session'[s].call = session[s].call
         /\ session'[s].locks = l /\ session'[s].go = go
<1>1. session \in [Sessions -> Session] /\ session[s] \in Session
  BY DEF Types
<1>2. PICK x : /\ session' = [session EXCEPT ![s] = x] /\ x \in Session
               /\ x.stage = "run" /\ x.call = session[s].call
               /\ x.locks = l /\ x.go = go
  <2>1. CASE session' = [session EXCEPT ![s].locks = l] /\ go = session[s].go
    <3> DEFINE x == [session[s] EXCEPT !.locks = l]
    <3>1. session' = [session EXCEPT ![s] = x]
      BY <1>1, <2>1
    <3>2. /\ x \in Session /\ x.stage = "run" /\ x.call = session[s].call
          /\ x.locks = l /\ x.go = go
      BY <1>1, <2>1 DEF Session
    <3> HIDE DEF x
    <3> QED
      BY <3>1, <3>2
  <2>2. CASE session' = [session EXCEPT ![s].go = go] /\ l = session[s].locks
    <3> DEFINE x == [session[s] EXCEPT !.go = go]
    <3>1. session' = [session EXCEPT ![s] = x]
      BY <1>1, <2>2
    <3>2. /\ x \in Session /\ x.stage = "run" /\ x.call = session[s].call
          /\ x.locks = l /\ x.go = go
      BY <1>1, <2>2 DEF Session
    <3> HIDE DEF x
    <3> QED
      BY <3>1, <3>2
  <2> QED
    BY <2>1, <2>2
<1>3. IsSession(x)
  BY <1>2 DEF IsSession, Types
<1> QED
  BY <1>2, <1>3, BecomesIt DEF Becomes

(* A request on the way to its answer, or the end of it.                   *)
LEMMA StoresBecomes ==
  ASSUME Types, NEW s \in Sessions, session[s].stage = "gateway", Goes(s, "store")
  PROVE  /\ Becomes(s, session'[s]) /\ session'[s].stage = "store"
         /\ session'[s].call = session[s].call /\ session'[s].locks = 0
         /\ session'[s].go = "undecided"
<1>1. session \in [Sessions -> Session] /\ session[s] \in Session
  BY DEF Types
<1> DEFINE x == [session[s] EXCEPT !.stage = "store"]
<1>2. session' = [session EXCEPT ![s] = x]
  BY <1>1 DEF Goes
<1>3. /\ x \in Session /\ x.stage = "store" /\ x.call = session[s].call
      /\ x.locks = session[s].locks /\ x.go = session[s].go
  BY <1>1 DEF Session, Stages
<1> HIDE DEF x
<1>4. IsSession(x) /\ x.locks = 0 /\ x.go = "undecided"
  BY <1>3 DEF IsSession, Types
<1> QED
  BY <1>2, <1>3, <1>4, BecomesIt DEF Becomes

LEMMA EndsBecomes ==
  ASSUME Types, NEW s \in Sessions, session' = [session EXCEPT ![s] = Idle]
  PROVE  Becomes(s, Idle)
BY BecomesIt, IdleIsSession

-----------------------------------------------------------------------------
(* Steps *)

(* A call that starts has its first lock, which nobody's locks exclude.    *)
LEMMA StartsWithOne ==
  ASSUME NEW s \in Sessions, NEW c, IsRun(c), Starts(s, c)
  PROVE  /\ session[s] = Idle /\ Running(s, c, 1)
         /\ FirstLocks(Reads(c), 1) = {Reads(c)[1]}
         /\ \A t \in Sessions \ {s} : \A held \in Held(t) :
              ~Conflict(Reads(c)[1], held)
<1>1. Reads(c) \in Seq(SaleLocks) /\ Len(Reads(c)) >= 1
  BY ReadsTake
<1>2. DOMAIN Reads(c) \cap 1..1 = {1}
  BY <1>1
<1>3. FirstLocks(Reads(c), 1) = {Reads(c)[1]}
  BY <1>2 DEF FirstLocks
<1>4. Cardinality(FirstLocks(Reads(c), 1)) = 1
  BY <1>3, FS_Singleton
<1> QED
  BY <1>3, <1>4 DEF Starts

(* The calls of the shop and its customers, but for refunds.               *)
BeginsSale(s, c) ==
  /\ IsRun(c) /\ c.fn \notin {"admin_refund", "settle_refund"}
  /\ Starts(s, c) /\ Undisturbed
  /\ c.fn \in {"admin_review_return", "admin_receive_return"} =>
       rets[c.row].status # "none"
  /\ c.fn = "request_return" =>
       /\ rets[c.row].status = "none"
       /\ \A t \in Sessions :
            /\ session[t].call.row # c.row
            /\ session[t].call.fn = "request_return" => AskTogether

BeginsRefund(s, c) ==
  /\ IsRun(c) /\ c.fn = "admin_refund"
  /\ session[s] = Idle /\ Running(s, c, 0)
  /\ keys[c.route] = "free"
  /\ keys' = [keys EXCEPT ![c.route] = "in_flight"]
  /\ c.ret # None => rets[c.ret].status # "none"
  /\ UNCHANGED <<rowVars, paid, mishaps>>

BeginsSettle(s, c) ==
  /\ IsRun(c) /\ c.fn = "settle_refund" /\ c.route = None
  /\ Starts(s, c)
  /\ refunds[c.row].status = "initiated"
  /\ \A t \in Sessions :
       session[t].call.route # c.row /\ session[t].call.row # c.row
  /\ c.to = "failed" => paid[c.row] = 0
  /\ paid' = IF c.to = "processed" /\ paid[c.row] = 0
               THEN [paid EXCEPT ![c.row] = refunds[c.row].n] ELSE paid
  /\ UNCHANGED <<rowVars, keys, mishaps>>

MakesUpItsMind(s) ==
  LET c == session[s].call
  IN  /\ session[s].stage = "run" /\ session[s].go = "undecided" /\ ~Asking(s)
      /\ ~Refused(c)
      /\ session' = [session EXCEPT ![s].go = IF Last(c) THEN "last" ELSE "apply"]
      /\ Undisturbed

GivesUp(s) ==
  /\ session[s].stage = "run" /\ Over(s, FALSE) /\ Undisturbed

StoresNext(s) == GatewayRefuses(s) \/ GatewayAnswerLost(s)

Ends(s) == StoreAnswer(s) \/ ReleaseKey(s) \/ Crash(s)

Commit(s) ==
  \/ CommitShip(s) \/ CommitTrack(s) \/ CommitCancel(s)
  \/ CommitRequest(s) \/ CommitReview(s) \/ CommitReceive(s)
  \/ CommitRefund(s) \/ CommitSettle(s)

StepOf(s) ==
  \/ \E c \in Call : BeginsSale(s, c) \/ BeginsRefund(s, c) \/ BeginsSettle(s, c)
  \/ Acquire(s) \/ MakesUpItsMind(s) \/ GivesUp(s) \/ Commit(s)
  \/ GatewayRefunds(s) \/ StoresNext(s) \/ Ends(s)

(* A step is one of these.                                                 *)
LEMMA Steps ==
  ASSUME Types, Next
  PROVE  \E s \in Sessions : StepOf(s)
<1>1. PICK s \in Sessions : Begin(s) \/ Proceed(s) \/ Crash(s)
  BY DEF Next
<1>2. NoCall \in Call /\ NoCall.route = None
  BY IdleIsSession
<1>3. ASSUME NEW b \in Shipments, NEW n \in Parcels, Ship(s, b, n)
      PROVE  StepOf(s)
  <2> DEFINE c == [NoCall EXCEPT !.fn = "admin_ship_order", !.row = b, !.n = n]
  <2>1. /\ c \in Call /\ c.fn = "admin_ship_order" /\ c.row = b
        /\ c.route = None
    BY <1>2, Constants DEF Call, DbFunctions
  <2>2. Starts(s, c) /\ Undisturbed
    BY <1>3 DEF Ship
  <2> HIDE DEF c
  <2>3. BeginsSale(s, c)
    BY <2>1, <2>2 DEF BeginsSale, IsRun
  <2> QED
    BY <2>1, <2>3 DEF StepOf
<1>4. ASSUME NEW b \in Shipments, NEW to \in Tracks, Track(s, b, to)
      PROVE  StepOf(s)
  <2> DEFINE c == [NoCall EXCEPT !.fn = "admin_update_shipment", !.row = b,
                                 !.to = to]
  <2>1. /\ c \in Call /\ c.fn = "admin_update_shipment" /\ c.row = b
        /\ c.to = to /\ c.route = None
    BY <1>2 DEF Call, DbFunctions
  <2>2. Starts(s, c) /\ Undisturbed
    BY <1>4 DEF Track
  <2> HIDE DEF c
  <2>3. BeginsSale(s, c)
    BY <2>1, <2>2 DEF BeginsSale, IsRun
  <2> QED
    BY <2>1, <2>3 DEF StepOf
<1>5. ASSUME Cancel(s) PROVE StepOf(s)
  <2> DEFINE c == [NoCall EXCEPT !.fn = "admin_cancel_order"]
  <2>1. c \in Call /\ c.fn = "admin_cancel_order" /\ c.route = None
    BY <1>2 DEF Call, DbFunctions
  <2>2. Starts(s, c) /\ Undisturbed
    BY <1>5 DEF Cancel
  <2> HIDE DEF c
  <2>3. BeginsSale(s, c)
    BY <2>1, <2>2 DEF BeginsSale, IsRun
  <2> QED
    BY <2>1, <2>3 DEF StepOf
<1>6. ASSUME NEW r \in Returns, NEW n \in Asks, Ask(s, r, n)
      PROVE  StepOf(s)
  <2> DEFINE c == [NoCall EXCEPT !.fn = "request_return", !.row = r, !.n = n]
  <2>1. /\ c \in Call /\ c.fn = "request_return" /\ c.row = r
        /\ c.route = None
    BY <1>2, Constants DEF Call, DbFunctions
  <2>2. Starts(s, c) /\ Undisturbed
    BY <1>6 DEF Ask
  <2> HIDE DEF c
  <2>3. BeginsSale(s, c)
    BY <1>6, <2>1, <2>2 DEF BeginsSale, IsRun, Ask
  <2> QED
    BY <2>1, <2>3 DEF StepOf
<1>7. ASSUME NEW r \in Returns, NEW to \in Decisions, Review(s, r, to)
      PROVE  StepOf(s)
  <2> DEFINE c == [NoCall EXCEPT !.fn = "admin_review_return", !.row = r,
                                 !.to = to]
  <2>1. /\ c \in Call /\ c.fn = "admin_review_return" /\ c.row = r
        /\ c.to = to /\ c.route = None
    BY <1>2 DEF Call, DbFunctions
  <2>2. Starts(s, c) /\ Undisturbed
    BY <1>7 DEF Review
  <2> HIDE DEF c
  <2>3. BeginsSale(s, c)
    BY <1>7, <2>1, <2>2 DEF BeginsSale, IsRun, Review
  <2> QED
    BY <2>1, <2>3 DEF StepOf
<1>8. ASSUME NEW r \in Returns, Receive(s, r) PROVE StepOf(s)
  <2> DEFINE c == [NoCall EXCEPT !.fn = "admin_receive_return", !.row = r]
  <2>1. /\ c \in Call /\ c.fn = "admin_receive_return" /\ c.row = r
        /\ c.route = None
    BY <1>2 DEF Call, DbFunctions
  <2>2. Starts(s, c) /\ Undisturbed
    BY <1>8 DEF Receive
  <2> HIDE DEF c
  <2>3. BeginsSale(s, c)
    BY <1>8, <2>1, <2>2 DEF BeginsSale, IsRun, Receive
  <2> QED
    BY <2>1, <2>3 DEF StepOf
<1>9. ASSUME NEW k \in Keys, NEW n \in Amounts, NEW r \in Returns \cup {None},
             Refund(s, k, n, r)
      PROVE  StepOf(s)
  <2> DEFINE c == [NoCall EXCEPT !.fn = "admin_refund", !.route = k, !.row = k,
                                 !.ret = r, !.n = n]
  <2>1. /\ c \in Call /\ c.fn = "admin_refund" /\ c.row = k
        /\ c.route = k /\ c.ret = r
    BY <1>2, Constants DEF Call, DbFunctions
  <2>2. Running(s, c, 0)
    BY <1>9 DEF Refund
  <2> HIDE DEF c
  <2>3. BeginsRefund(s, c)
    BY <1>9, <2>1, <2>2 DEF BeginsRefund, IsRun, Refund, Free
  <2> QED
    BY <2>1, <2>3 DEF StepOf
<1>10. ASSUME NEW k \in Keys, NEW to \in {"processed", "failed"},
              SettleByHand(s, k, to)
       PROVE  StepOf(s)
  <2> DEFINE c == [NoCall EXCEPT !.fn = "settle_refund", !.row = k, !.to = to]
  <2>1. /\ c \in Call /\ c.fn = "settle_refund" /\ c.row = k
        /\ c.to = to /\ c.route = None
    BY <1>2 DEF Call, DbFunctions
  <2>2. Starts(s, c)
    BY <1>10 DEF SettleByHand
  <2> HIDE DEF c
  <2>3. BeginsSettle(s, c)
    BY <1>10, <2>1, <2>2 DEF BeginsSettle, IsRun, SettleByHand
  <2> QED
    BY <2>1, <2>3 DEF StepOf
<1>11. ASSUME Decide(s) PROVE StepOf(s)
  BY <1>11 DEF Decide, MakesUpItsMind, GivesUp, StepOf, Undisturbed
<1>12. ASSUME DeadlockAbort(s) PROVE StepOf(s)
  BY <1>12 DEF DeadlockAbort, WaitsFor, Asking, GivesUp, StepOf, Undisturbed
<1>13. ASSUME \/ Acquire(s) \/ Commit(s) \/ GatewayRefunds(s) \/ StoresNext(s)
              \/ Ends(s)
       PROVE  StepOf(s)
  BY <1>13 DEF StepOf
<1> QED
  BY <1>1, <1>3, <1>4, <1>5, <1>6, <1>7, <1>8, <1>9, <1>10, <1>11, <1>12, <1>13
     DEF Begin, Proceed, Commit, StoresNext, Ends

(* Who commits has decided, and its transaction is over.                   *)
LEMMA CommitsFacts ==
  ASSUME Types, NEW s \in Sessions, NEW fn, Commits(s, fn)
  PROVE  /\ Decided(s) /\ Runs(s, fn) /\ ~Asking(s) /\ Over(s, TRUE)
         /\ session[s].call \in Call /\ IsRun(session[s].call)
<1>1. session[s].go # "undecided" /\ session[s].call.fn = fn
  BY DEF Commits
<1>2. session[s] \in Session /\ IsSession(session[s])
  BY DEF Types
<1>3. session[s].stage = "run"
  BY <1>1, <1>2, IdleIsSession DEF IsSession, Session, Stages
<1> QED
  BY <1>1, <1>2, <1>3 DEF Commits, Decided, Runs, IsSession, Session

LEMMA CommitFacts ==
  ASSUME Types, NEW s \in Sessions, Commit(s)
  PROVE  /\ Decided(s) /\ ~Asking(s) /\ Over(s, TRUE)
         /\ session[s].call \in Call /\ IsRun(session[s].call)
         /\ UNCHANGED <<keys, paid, mishaps>>
<1>1. PICK fn : Commits(s, fn)
  BY DEF Commit, CommitShip, CommitTrack, CommitCancel, CommitRequest,
     CommitReview, CommitReceive, CommitRefund, CommitSettle
<1> QED
  BY <1>1, CommitsFacts DEF Commits

(* A step is of one session; the others are where they were.               *)
LEMMA SessionNext ==
  ASSUME Types, NEW s \in Sessions, StepOf(s)
  PROVE  Becomes(s, session'[s])
<1>1. ASSUME NEW c \in Call, BeginsSale(s, c) \/ BeginsSettle(s, c)
      PROVE  Becomes(s, session'[s])
  <2>1. IsRun(c) /\ Running(s, c, 1)
    BY <1>1, StartsWithOne DEF BeginsSale, BeginsSettle
  <2> QED
    BY <2>1, RunningBecomes
<1>2. ASSUME NEW c \in Call, BeginsRefund(s, c) PROVE Becomes(s, session'[s])
  BY <1>2, RunningBecomes DEF BeginsRefund
<1>3. CASE Acquire(s)
  <2>1. session[s].stage = "run" /\ session[s].locks + 1 \in Nat
    BY <1>3 DEF Acquire, Asking, Types, Session
  <2>2. session' = [session EXCEPT ![s].locks = session[s].locks + 1]
    BY <1>3 DEF Acquire
  <2>3. session[s].go \in {"undecided", "apply", "last"}
    BY DEF Types, Session
  <2> QED
    BY <2>1, <2>2, <2>3, GoesOnBecomes
<1>4. CASE MakesUpItsMind(s)
  <2> DEFINE go == IF Last(session[s].call) THEN "last" ELSE "apply"
  <2>1. /\ session[s].stage = "run" /\ session[s].locks \in Nat
        /\ go \in {"undecided", "apply", "last"}
        /\ session' = [session EXCEPT ![s].go = go]
    BY <1>4 DEF MakesUpItsMind, Types, Session
  <2> HIDE DEF go
  <2> QED
    BY <2>1, GoesOnBecomes
<1>5. CASE GivesUp(s)
  BY <1>5, OverBecomes DEF GivesUp
<1>6. CASE Commit(s)
  BY <1>6, CommitFacts, OverBecomes DEF Decided
<1>7. CASE GatewayRefunds(s)
  <2> DEFINE k == session[s].call.route
             c == [NoCall EXCEPT !.fn = "settle_refund", !.route = k, !.row = k,
                                 !.to = "processed"]
  <2>1. k \in Keys
    BY <1>7 DEF GatewayRefunds, Stage, Types, IsSession
  <2>2. /\ c \in Call /\ c.fn = "settle_refund" /\ c.row = k /\ c.route = k
        /\ c.to = "processed"
    BY <2>1, IdleIsSession DEF Call, DbFunctions
  <2>3. Running(s, c, 0)
    BY <1>7 DEF GatewayRefunds
  <2> HIDE DEF c
  <2>4. IsRun(c)
    BY <2>1, <2>2 DEF IsRun
  <2> QED
    BY <2>2, <2>3, <2>4, RunningBecomes
<1>8. CASE StoresNext(s)
  BY <1>8, StoresBecomes DEF StoresNext, GatewayRefuses, GatewayAnswerLost, Stage
<1>9. CASE Ends(s)
  BY <1>9, EndsBecomes DEF Ends, StoreAnswer, ReleaseKey, Crash, Becomes
<1> QED
  BY <1>1, <1>2, <1>3, <1>4, <1>5, <1>6, <1>7, <1>8, <1>9 DEF StepOf

(* The sums of the model, as functions of numbers.                         *)
LEMMA SumTypes ==
  ASSUME Types
  PROVE  /\ [b \in Shipments |-> ships[b].n] \in [Shipments -> Nat]
         /\ [r \in Returns |-> rets[r].n] \in [Returns -> Nat]
         /\ [r \in Returns |-> IF rets[r].status \in Settled
                                  THEN rets[r].n ELSE 0] \in [Returns -> Nat]
         /\ \A statuses :
              [k \in Keys |-> IF refunds[k].status \in statuses
                                THEN refunds[k].n ELSE 0] \in [Keys -> Nat]
         /\ InBoxes \in Nat /\ Asked \in Nat /\ Back \in Nat /\ Already \in Nat
         /\ \A statuses : RefundedIn(statuses) \in Nat
<1>1. /\ \A b \in Shipments : ships[b].n \in Nat
      /\ \A r \in Returns : rets[r].n \in Nat
      /\ \A k \in Keys : refunds[k].n \in Nat
  BY Constants DEF Types
<1>2. [b \in Shipments |-> ships[b].n] \in [Shipments -> Nat]
  BY <1>1
<1>3. [r \in Returns |-> rets[r].n] \in [Returns -> Nat]
  BY <1>1
<1>4. [r \in Returns |-> IF rets[r].status \in Settled
                           THEN rets[r].n ELSE 0] \in [Returns -> Nat]
  BY <1>1
<1>5. ASSUME NEW statuses
      PROVE  [k \in Keys |-> IF refunds[k].status \in statuses
                               THEN refunds[k].n ELSE 0] \in [Keys -> Nat]
  BY <1>1
<1>6. InBoxes \in Nat /\ Asked \in Nat /\ Back \in Nat
  BY <1>2, <1>3, <1>4, Constants, TotalIsNat DEF InBoxes, Asked, Back
<1>7. \A statuses : RefundedIn(statuses) \in Nat
  BY <1>5, Constants, TotalIsNat DEF RefundedIn
<1> QED
  BY <1>2, <1>3, <1>4, <1>5, <1>6, <1>7 DEF Already

(* Rows keep their types.                                                  *)
LEMMA TypesNext ==
  ASSUME Types, NEW s \in Sessions, Decided(s) => Ready(s), StepOf(s)
  PROVE  Types'
<1> DEFINE c == session[s].call
<1>1. session' \in [Sessions -> Session] /\ \A t \in Sessions : IsSession(session[t])'
  BY SessionNext DEF Becomes, IsSession, IsRun
<1>2. CASE Commit(s)
  <2>1. /\ Ready(s) /\ c \in Call /\ IsRun(c)
        /\ UNCHANGED <<keys, paid, mishaps>>
    BY <1>2, CommitFacts
  <2>2. CASE CommitShip(s)
    <3>1. c.fn = "admin_ship_order" /\ c.row \in Shipments /\ c.n \in Nat
      BY <2>1, <2>2 DEF CommitShip, Commits, IsRun, Call
    <3>2. InBoxes + c.n <= Quantity
      <4>1. ~Refused(c)
        BY <2>1, <3>1 DEF Ready
      <4>2. ~(InBoxes + c.n > Quantity)
        BY <3>1, <4>1 DEF Refused
      <4> QED
        BY <3>1, <4>2, SumTypes, Constants
    <3>3. c.n \in 0..Quantity
      BY <3>1, <3>2, SumTypes, Constants
    <3> QED
      BY <1>1, <2>1, <2>2, <3>1, <3>3 DEF CommitShip, Types
  <2>3. CASE CommitTrack(s)
    <3>1. c.row \in Shipments /\ c.to \in Tracks
      BY <2>1, <2>3 DEF CommitTrack, Commits, IsRun
    <3> QED
      BY <1>1, <2>1, <2>3, <3>1 DEF CommitTrack, Types
  <2>4. CASE CommitCancel(s)
    BY <1>1, <2>1, <2>4 DEF CommitCancel, Types
  <2>5. CASE CommitRequest(s)
    <3>1. c.row \in Returns /\ c.n \in 0..Quantity
      BY <2>1, <2>5, Constants DEF CommitRequest, Commits, IsRun, Ready, Call
    <3> QED
      BY <1>1, <2>1, <2>5, <3>1 DEF CommitRequest, Types
  <2>6. CASE CommitReview(s)
    <3>1. c.row \in Returns /\ c.to \in Decisions
      BY <2>1, <2>6 DEF CommitReview, Commits, IsRun
    <3> QED
      BY <1>1, <2>1, <2>6, <3>1 DEF CommitReview, Types
  <2>7. CASE CommitReceive(s)
    <3>1. c.row \in Returns
      BY <2>1, <2>7 DEF CommitReceive, Commits, IsRun
    <3>2. rets[c.row].n \in Nat
      BY <3>1, Constants DEF Types
    <3>3. returned' \in Nat
      BY <2>7, <3>2 DEF CommitReceive, Types
    <3>4. rets' \in [Returns -> [status : {"none", "requested", "received",
                                         "refunded"} \cup Decisions,
                                n : 0..Quantity]]
      BY <2>7, <3>1 DEF CommitReceive, Types
    <3> QED
      BY <1>1, <2>1, <2>7, <3>3, <3>4 DEF CommitReceive, Types
  <2>8. CASE CommitRefund(s)
    <3>1. c.route \in Keys /\ c.n \in Nat /\ c.ret \in Returns \cup {None}
      BY <2>1, <2>8 DEF CommitRefund, Commits, IsRun, Call
    <3> QED
      BY <1>1, <2>1, <2>8, <3>1 DEF CommitRefund, Types
  <2>9. CASE CommitSettle(s)
    <3>1. c.row \in Keys /\ c.to \in {"processed", "failed"}
      BY <2>1, <2>9 DEF CommitSettle, Commits, IsRun
    <3>2. refunds[c.row].ret \in Returns \cup {None}
      BY <3>1 DEF Types
    <3>3. refunds' \in [Keys -> [status : {"none", "initiated", "processed",
                                          "failed"},
                                n : Nat, ret : Returns \cup {None}]]
      BY <2>9, <3>1 DEF CommitSettle, Types
    <3>4. rets' \in [Returns -> [status : {"none", "requested", "received",
                                         "refunded"} \cup Decisions,
                                n : 0..Quantity]]
      BY <2>9, <3>2 DEF CommitSettle, Types
    <3> QED
      BY <1>1, <2>1, <2>9, <3>3, <3>4 DEF CommitSettle, Types
  <2> QED
    BY <1>2, <2>2, <2>3, <2>4, <2>5, <2>6, <2>7, <2>8, <2>9 DEF Commit
<1>3. CASE \E d \in Call : BeginsRefund(s, d)
  <2>1. PICK d \in Call : BeginsRefund(s, d)
    BY <1>3
  <2> QED
    BY <1>1, <2>1 DEF BeginsRefund, Types, rowVars, IsRun
<1>4. CASE \E d \in Call : BeginsSettle(s, d)
  <2>1. PICK d \in Call : BeginsSettle(s, d)
    BY <1>4
  <2>2. d.row \in Keys
    BY <2>1 DEF BeginsSettle, IsRun
  <2>3. paid' \in [Keys -> Nat]
    BY <2>1, <2>2 DEF BeginsSettle, Types
  <2> QED
    BY <1>1, <2>1, <2>3 DEF BeginsSettle, Types, rowVars
<1>5. CASE GatewayRefunds(s) \/ StoresNext(s)
  <2>1. c.route \in Keys
    BY <1>5 DEF GatewayRefunds, StoresNext, GatewayRefuses, GatewayAnswerLost,
       Stage, Types, IsSession
  <2>2. paid' \in [Keys -> Nat]
    <3>1. CASE MoneyMoves(c.route)
      BY <2>1, <3>1 DEF MoneyMoves, Types
    <3>2. CASE paid' = paid
      BY <3>2 DEF Types
    <3> QED
      BY <1>5, <3>1, <3>2 DEF GatewayRefunds, StoresNext, GatewayRefuses,
         GatewayAnswerLost, Undisturbed
  <2>3. mishaps' \in 0..MishapBound
    <3>1. CASE Mishap
      BY <3>1, Constants DEF Mishap, Types
    <3>2. CASE mishaps' = mishaps
      BY <3>2 DEF Types
    <3> QED
      BY <1>5, <3>1, <3>2 DEF GatewayRefunds, StoresNext, GatewayRefuses,
         GatewayAnswerLost, Undisturbed
  <2> QED
    BY <1>1, <1>5, <2>2, <2>3 DEF GatewayRefunds, StoresNext, GatewayRefuses,
       GatewayAnswerLost, Undisturbed, rowVars, Types
<1>6. CASE Ends(s)
  <2>1. keys' \in [Keys -> {"free", "in_flight", "completed"}]
    BY <1>6 DEF Ends, StoreAnswer, ReleaseKey, Crash, Types
  <2>2. mishaps' \in 0..MishapBound
    <3>1. CASE Mishap
      BY <3>1, Constants DEF Mishap, Types
    <3>2. CASE mishaps' = mishaps
      BY <3>2 DEF Types
    <3> QED
      BY <1>6, <3>1, <3>2 DEF Ends, StoreAnswer, ReleaseKey, Crash
  <2> QED
    BY <1>1, <1>6, <2>1, <2>2 DEF Ends, StoreAnswer, ReleaseKey, Crash, rowVars,
       Types
<1>7. CASE Undisturbed
  BY <1>1, <1>7 DEF Undisturbed, rowVars, Types
<1> QED
  BY <1>2, <1>3, <1>4, <1>5, <1>6, <1>7 DEF StepOf, BeginsSale, MakesUpItsMind,
     GivesUp, Acquire, Undisturbed

-----------------------------------------------------------------------------
(* Who works on what *)

(* A session takes up a refund that nobody works on.                       *)
LEMMA AboutNext ==
  ASSUME Types, Rows, NEW s \in Sessions, StepOf(s), NEW k \in Keys, About(s, k)'
  PROVE  About(s, k) \/ \A t \in Sessions : ~About(t, k)
<1>1. ASSUME NEW c \in Call, BeginsSale(s, c) PROVE FALSE
  <2>1. IsRun(c) /\ Running(s, c, 1)
    BY <1>1, StartsWithOne DEF BeginsSale
  <2>2. session'[s].stage = "run" /\ session'[s].call = c
    BY <2>1, RunningBecomes
  <2>3. c.route = None /\ c.fn \notin {"admin_refund", "settle_refund"}
    BY <1>1 DEF BeginsSale, IsRun
  <2> QED
    BY <2>2, <2>3, Constants DEF About, Runs
<1>2. ASSUME NEW c \in Call, BeginsRefund(s, c)
      PROVE  \A t \in Sessions : ~About(t, k)
  <2>1. session'[s].stage = "run" /\ session'[s].call = c
    BY <1>2, RunningBecomes DEF BeginsRefund
  <2>2. c.fn = "admin_refund" /\ c.route = c.row /\ keys[c.route] = "free"
    BY <1>2 DEF BeginsRefund, IsRun
  <2>3. keys[k] = "free" /\ refunds[k].status = "none"
    BY <2>1, <2>2 DEF About, Runs, Rows, RefundInv
  <2> SUFFICES ASSUME NEW t \in Sessions, About(t, k) PROVE FALSE
    OBVIOUS
  <2>4. session[t].call.route # k
    BY <2>3, Constants DEF Rows, RefundStep
  <2>5. Runs(t, "admin_refund") => session[t].call.route = session[t].call.row
    BY DEF Runs, Types, IsSession, IsRun
  <2>6. Runs(t, "settle_refund") => session[t].call.row # k
    BY <2>3 DEF Rows, RefundStep
  <2> QED
    BY <2>4, <2>5, <2>6 DEF About
<1>3. ASSUME NEW c \in Call, BeginsSettle(s, c)
      PROVE  \A t \in Sessions : ~About(t, k)
  <2>1. IsRun(c) /\ Running(s, c, 1)
    BY <1>3, StartsWithOne DEF BeginsSettle
  <2>2. session'[s].stage = "run" /\ session'[s].call = c
    BY <2>1, RunningBecomes
  <2>3. c.route = None
    BY <1>3 DEF BeginsSettle
  <2>4. k = c.row
    BY <2>2, <2>3, Constants DEF About
  <2> QED
    BY <1>3, <2>4 DEF BeginsSettle, About
<1>4. CASE Acquire(s) \/ MakesUpItsMind(s)
  <2>1. /\ session'[s].call = session[s].call
        /\ session'[s].stage = session[s].stage
    BY <1>4 DEF Acquire, MakesUpItsMind, Types, Session
  <2> QED
    BY <2>1 DEF About, Runs
<1>5. CASE GivesUp(s) \/ Commit(s)
  <2>1. PICK committed \in BOOLEAN : Over(s, committed)
    BY <1>5, CommitFacts DEF GivesUp
  <2>2. session[s].stage = "run"
    BY <1>5, CommitFacts DEF GivesUp, Decided
  <2>3. session'[s].stage # "run" /\ session'[s].call.route = session[s].call.route
    BY <2>1, <2>2, OverBecomes
  <2> QED
    BY <2>3 DEF About, Runs
<1>6. CASE GatewayRefunds(s)
  <2> DEFINE c == [NoCall EXCEPT !.fn = "settle_refund",
                     !.route = session[s].call.route,
                     !.row = session[s].call.route, !.to = "processed"]
  <2>1. session[s].call.route \in Keys
    BY <1>6 DEF GatewayRefunds, Stage, Types, IsSession
  <2>2. /\ c \in Call /\ IsRun(c) /\ c.row = session[s].call.route
        /\ c.route = session[s].call.route
    BY <2>1, IdleIsSession DEF Call, DbFunctions, IsRun
  <2>3. Running(s, c, 0)
    BY <1>6 DEF GatewayRefunds
  <2> HIDE DEF c
  <2>4. session'[s].call = c
    BY <2>2, <2>3, RunningBecomes
  <2> QED
    BY <2>2, <2>4 DEF About
<1>7. CASE StoresNext(s)
  <2>1. session'[s].stage = "store" /\ session'[s].call = session[s].call
    BY <1>7, StoresBecomes DEF StoresNext, GatewayRefuses, GatewayAnswerLost,
       Stage
  <2> QED
    BY <2>1 DEF About, Runs
<1>8. CASE Ends(s)
  <2>1. session'[s] = Idle
    BY <1>8, EndsBecomes DEF Ends, StoreAnswer, ReleaseKey, Crash, Becomes
  <2> QED
    BY <2>1, IdleIsSession, Constants DEF About, Runs
<1> QED
  BY <1>1, <1>2, <1>3, <1>4, <1>5, <1>6, <1>7, <1>8 DEF StepOf

(* What a session asks for a return with, nobody else does.                *)
LEMMA AsksNext ==
  ASSUME Types, NEW s \in Sessions, StepOf(s), Runs(s, "request_return")'
  PROVE  \/ /\ Runs(s, "request_return")
            /\ session'[s].call = session[s].call
         \/ /\ \A t \in Sessions :
                 /\ session[t].call.row # session'[s].call.row
                 /\ session[t].call.fn = "request_return" => AskTogether
            /\ rets[session'[s].call.row].status = "none"
            /\ UNCHANGED rowVars
<1>1. ASSUME NEW c \in Call, BeginsSale(s, c)
      PROVE  /\ \A t \in Sessions :
                 /\ session[t].call.row # session'[s].call.row
                 /\ session[t].call.fn = "request_return" => AskTogether
             /\ rets[session'[s].call.row].status = "none"
             /\ UNCHANGED rowVars
  <2>1. IsRun(c) /\ Running(s, c, 1)
    BY <1>1, StartsWithOne DEF BeginsSale
  <2>2. session'[s].stage = "run" /\ session'[s].call = c
    BY <2>1, RunningBecomes
  <2>3. c.fn = "request_return"
    BY <2>2 DEF Runs
  <2> QED
    BY <1>1, <2>2, <2>3 DEF BeginsSale, Undisturbed
<1>2. ASSUME NEW c \in Call, BeginsRefund(s, c) PROVE FALSE
  <2>1. session'[s].call = c /\ c.fn = "admin_refund"
    BY <1>2, RunningBecomes DEF BeginsRefund
  <2> QED
    BY <2>1 DEF Runs
<1>3. ASSUME NEW c \in Call, BeginsSettle(s, c) PROVE FALSE
  <2>1. IsRun(c) /\ Running(s, c, 1) /\ c.fn = "settle_refund"
    BY <1>3, StartsWithOne DEF BeginsSettle
  <2>2. session'[s].call = c
    BY <2>1, RunningBecomes
  <2> QED
    BY <2>1, <2>2 DEF Runs
<1>4. CASE Acquire(s) \/ MakesUpItsMind(s)
  <2>1. /\ session'[s].call = session[s].call
        /\ session'[s].stage = session[s].stage
    BY <1>4 DEF Acquire, MakesUpItsMind, Types, Session
  <2> QED
    BY <2>1 DEF Runs
<1>5. CASE GivesUp(s) \/ Commit(s)
  <2>1. PICK committed \in BOOLEAN : Over(s, committed)
    BY <1>5, CommitFacts DEF GivesUp
  <2>2. session[s].stage = "run"
    BY <1>5, CommitFacts DEF GivesUp, Decided
  <2>3. session'[s].stage # "run"
    BY <2>1, <2>2, OverBecomes
  <2> QED
    BY <2>3 DEF Runs
<1>6. CASE GatewayRefunds(s)
  <2>1. session'[s].call.fn = "settle_refund"
    BY <1>6, IdleIsSession DEF GatewayRefunds, Running, Types, Session, Idle, NoCall
  <2> QED
    BY <2>1 DEF Runs
<1>7. CASE StoresNext(s)
  <2>1. session'[s].stage = "store"
    BY <1>7, StoresBecomes DEF StoresNext, GatewayRefuses, GatewayAnswerLost,
       Stage
  <2> QED
    BY <2>1 DEF Runs
<1>8. CASE Ends(s)
  <2>1. session'[s] = Idle
    BY <1>8, EndsBecomes DEF Ends, StoreAnswer, ReleaseKey, Crash, Becomes
  <2> QED
    BY <2>1, IdleIsSession DEF Runs
<1> QED
  BY <1>1, <1>2, <1>3, <1>4, <1>5, <1>6, <1>7, <1>8 DEF StepOf

(* No two sessions come to work on one refund or return.                   *)
LEMMA ApartNext ==
  ASSUME Types, Rows, NEW s \in Sessions, StepOf(s)
  PROVE  Apart'
<1>1. \A t \in Sessions \ {s} : session'[t] = session[t]
  BY SessionNext DEF Becomes
<1>2. ASSUME NEW t \in Sessions, t # s, NEW k \in Keys
      PROVE  ~(About(s, k)' /\ About(t, k)')
  <2>1. About(t, k)' <=> About(t, k)
    BY <1>1, <1>2 DEF About, Runs
  <2> QED
    BY <1>2, <2>1, AboutNext DEF Rows, Apart
<1>3. ASSUME NEW t \in Sessions, t # s, Runs(s, "request_return")',
             Runs(t, "request_return")'
      PROVE  AskTogether /\ session'[s].call.row # session'[t].call.row
  <2>1. Runs(t, "request_return") /\ session'[t].call = session[t].call
    BY <1>1, <1>3 DEF Runs
  <2> QED
    BY <1>3, <2>1, AsksNext DEF Rows, Apart, Runs
<1>4. ASSUME NEW t \in Sessions, NEW u \in Sessions, t # u, t # s, u # s
      PROVE  /\ \A k \in Keys : ~(About(t, k)' /\ About(u, k)')
             /\ Runs(t, "request_return")' /\ Runs(u, "request_return")' =>
                  AskTogether /\ session'[t].call.row # session'[u].call.row
  <2>1. session'[t] = session[t] /\ session'[u] = session[u]
    BY <1>1, <1>4
  <2> QED
    BY <1>4, <2>1 DEF Rows, Apart, About, Runs
<1> QED
  BY <1>2, <1>3, <1>4 DEF Apart

-----------------------------------------------------------------------------
(* What a step does to refunds and returns *)

SameRefund(k) ==
  refunds'[k] = refunds[k] /\ paid'[k] = paid[k] /\ keys'[k] = keys[k]

(* Only who works on a refund changes it.                                  *)
LEMMA RefundStays ==
  ASSUME Types, Rows, NEW s \in Sessions, StepOf(s), NEW k \in Keys,
         ~About(s, k), ~About(s, k)'
  PROVE  SameRefund(k)
<1> DEFINE c == session[s].call
<1>1. /\ refunds \in [Keys -> [status : {"none", "initiated", "processed",
                                        "failed"},
                              n : Nat, ret : Returns \cup {None}]]
      /\ paid \in [Keys -> Nat]
      /\ keys \in [Keys -> {"free", "in_flight", "completed"}]
  BY DEF Types
<1>2. c.route # k
  BY DEF About
<1>3. ASSUME NEW d \in Call, BeginsRefund(s, d) PROVE SameRefund(k)
  <2>1. session'[s].call = d
    BY <1>3, RunningBecomes DEF BeginsRefund
  <2>2. d.route # k
    BY <2>1 DEF About
  <2> QED
    BY <1>1, <1>3, <2>2 DEF BeginsRefund, SameRefund, rowVars
<1>4. ASSUME NEW d \in Call, BeginsSettle(s, d) PROVE SameRefund(k)
  <2>1. IsRun(d) /\ Running(s, d, 1) /\ d.fn = "settle_refund"
    BY <1>4, StartsWithOne DEF BeginsSettle
  <2>2. session'[s].stage = "run" /\ session'[s].call = d
    BY <2>1, RunningBecomes
  <2>3. d.row # k
    BY <2>1, <2>2 DEF About, Runs
  <2>4. paid'[k] = paid[k]
    BY <1>1, <1>4, <2>3 DEF BeginsSettle
  <2> QED
    BY <1>4, <2>4 DEF BeginsSettle, SameRefund, rowVars
<1>5. CASE Commit(s)
  <2>1. UNCHANGED <<keys, paid>>
    BY <1>5, CommitFacts
  <2>2. CASE CommitRefund(s)
    BY <1>1, <1>2, <2>1, <2>2 DEF CommitRefund, SameRefund
  <2>3. CASE CommitSettle(s)
    <3>1. Runs(s, "settle_refund")
      BY <2>3, CommitsFacts DEF CommitSettle
    <3>2. c.row # k
      BY <3>1 DEF About
    <3> QED
      BY <1>1, <2>1, <2>3, <3>2 DEF CommitSettle, SameRefund
  <2>4. CASE refunds' = refunds
    BY <2>1, <2>4 DEF SameRefund
  <2> QED
    BY <1>5, <2>2, <2>3, <2>4 DEF Commit, CommitShip, CommitTrack, CommitCancel,
       CommitRequest, CommitReview, CommitReceive
<1>6. CASE GatewayRefunds(s) \/ StoresNext(s)
  <2>1. UNCHANGED <<rowVars, keys>> /\ (paid' = paid \/ MoneyMoves(c.route))
    BY <1>6 DEF GatewayRefunds, StoresNext, GatewayRefuses, GatewayAnswerLost,
       Undisturbed
  <2>2. paid'[k] = paid[k]
    BY <1>1, <1>2, <2>1 DEF MoneyMoves
  <2> QED
    BY <2>1, <2>2 DEF SameRefund, rowVars
<1>7. CASE Ends(s)
  <2>1. UNCHANGED <<rowVars, paid>>
    BY <1>7 DEF Ends, StoreAnswer, ReleaseKey, Crash
  <2>2. keys'[k] = keys[k]
    BY <1>1, <1>2, <1>7 DEF Ends, StoreAnswer, ReleaseKey, Crash
  <2> QED
    BY <2>1, <2>2 DEF SameRefund, rowVars
<1>8. CASE Undisturbed
  BY <1>8 DEF Undisturbed, SameRefund, rowVars
<1> QED
  BY <1>3, <1>4, <1>5, <1>6, <1>7, <1>8 DEF StepOf, BeginsSale, MakesUpItsMind,
     GivesUp, Acquire, Undisturbed

(* Who changes a return, and to what.                                      *)
Requests(s, r) ==
  /\ CommitRequest(s) /\ session[s].call.row = r
  /\ rets[r].status = "none"
  /\ rets'[r].status = "requested" /\ rets'[r].n = session[s].call.n

Reviews(s, r) ==
  /\ CommitReview(s) /\ session[s].call.row = r
  /\ rets[r].status # "none"
  /\ rets'[r].status \in Decisions /\ rets'[r].n = rets[r].n

Receives(s, r) ==
  /\ CommitReceive(s) /\ session[s].call.row = r
  /\ rets[r].status # "none"
  /\ rets'[r].status = "received" /\ rets'[r].n = rets[r].n

Closes(s, r) ==
  /\ CommitSettle(s) /\ session[s].call.to = "processed"
  /\ refunds[session[s].call.row].ret = r
  /\ rets[r].status # "none"
  /\ rets'[r].status = "refunded" /\ rets'[r].n = rets[r].n

LEMMA ReturnChanges ==
  ASSUME Types, Rows, NEW s \in Sessions, StepOf(s), NEW r \in Returns
  PROVE  \/ rets'[r] = rets[r]
         \/ Requests(s, r) \/ Reviews(s, r) \/ Receives(s, r) \/ Closes(s, r)
<1> DEFINE c == session[s].call
<1>1. rets \in [Returns -> [status : {"none", "requested", "received",
                                     "refunded"} \cup Decisions,
                           n : 0..Quantity]]
  BY DEF Types
<1>2. CASE CommitRequest(s)
  <2>1. Runs(s, "request_return")
    BY <1>2, CommitsFacts DEF CommitRequest
  <2>2. c.row = r => rets[r].status = "none"
    BY <2>1 DEF Rows, ReturnStep
  <2> QED
    BY <1>1, <1>2, <2>2 DEF CommitRequest, Requests
<1>3. CASE CommitReview(s)
  <2>1. Runs(s, "admin_review_return") /\ IsRun(c)
    BY <1>3, CommitsFacts DEF CommitReview
  <2>2. c.row = r => rets[r].status # "none"
    BY <2>1 DEF Rows, ReturnStep
  <2>3. c.to \in Decisions
    BY <2>1 DEF IsRun, Runs
  <2> QED
    BY <1>1, <1>3, <2>2, <2>3 DEF CommitReview, Reviews
<1>4. CASE CommitReceive(s)
  <2>1. Runs(s, "admin_receive_return")
    BY <1>4, CommitsFacts DEF CommitReceive
  <2>2. c.row = r => rets[r].status # "none"
    BY <2>1 DEF Rows, ReturnStep
  <2> QED
    BY <1>1, <1>4, <2>2 DEF CommitReceive, Receives
<1>5. CASE CommitSettle(s)
  <2>1. Runs(s, "settle_refund") /\ IsRun(c)
    BY <1>5, CommitsFacts DEF CommitSettle
  <2>2. c.row \in Keys
    BY <2>1 DEF IsRun, Runs
  <2>3. refunds[c.row].ret = r => rets[r].status # "none"
    BY <2>2, Constants DEF Rows, RefundInv
  <2> QED
    BY <1>1, <1>5, <2>3 DEF CommitSettle, Closes
<1>6. CASE rets' = rets
  BY <1>6
<1> QED
  BY <1>2, <1>3, <1>4, <1>5, <1>6 DEF StepOf, BeginsSale, BeginsRefund,
     BeginsSettle, Acquire, MakesUpItsMind, GivesUp, Commit, GatewayRefunds,
     StoresNext, GatewayRefuses, GatewayAnswerLost, Ends, StoreAnswer,
     ReleaseKey, Crash, Undisturbed, rowVars, CommitShip, CommitTrack,
     CommitCancel, CommitRefund

(* A return is made once, by the request for it.                           *)
LEMMA ReturnStays ==
  ASSUME Types, Rows, NEW s \in Sessions, StepOf(s), NEW r \in Returns
  PROVE  /\ rets[r].status # "none" => rets'[r].status # "none"
         /\ rets[r].status = "none" /\ rets'[r].status # "none" =>
              Runs(s, "request_return") /\ session[s].call.row = r
<1>1. Requests(s, r) => Runs(s, "request_return") /\ session[s].call.row = r
  BY CommitsFacts DEF Requests, CommitRequest
<1> QED
  BY <1>1, ReturnChanges, Constants DEF Requests, Reviews, Receives, Closes

(* The sessions that do not move are as far as they were.                  *)
LEMMA OthersRows ==
  ASSUME Types, Rows, NEW s \in Sessions, StepOf(s), NEW t \in Sessions, t # s
  PROVE  RefundStep(t)' /\ ReturnStep(t)'
<1> DEFINE c == session[t].call
<1>1. /\ session'[t] = session[t] /\ IsSession(session[t]) /\ c \in Call
  BY SessionNext DEF Becomes, Types, IsSession, Session
<1>2. ASSUME NEW k \in Keys, About(t, k) PROVE SameRefund(k)
  <2>1. About(t, k)'
    BY <1>1, <1>2 DEF About, Runs
  <2>2. ~About(s, k) /\ ~About(s, k)'
    BY <1>2, <2>1, ApartNext DEF Rows, Apart
  <2> QED
    BY <2>2, RefundStays
<1>3. c.route # None => c.route \in Keys /\ SameRefund(c.route)
  BY <1>1, <1>2 DEF Call, About
<1>4. Runs(t, "settle_refund") => c.row \in Keys /\ SameRefund(c.row)
  BY <1>1, <1>2 DEF IsSession, IsRun, Runs, About
<1>5. Runs(t, "admin_refund") => c.route \in Keys
  BY <1>1 DEF IsSession, IsRun, Runs
<1>6. session[t].stage \in {"gateway", "release"} => c.route \in Keys
  BY <1>1 DEF IsSession
<1>7. RefundStep(t)'
  BY <1>1, <1>3, <1>4, <1>5, <1>6, Constants
     DEF Rows, RefundStep, Runs, SameRefund
<1>8. ReturnStep(t)'
  <2>1. Runs(t, "admin_review_return") \/ Runs(t, "admin_receive_return")
          => c.row \in Returns
    BY <1>1 DEF IsSession, IsRun, Runs
  <2>2. c.ret # None => c.ret \in Returns
    BY <1>1 DEF Call
  <2>3. Runs(t, "request_return") =>
          c.row \in Returns /\ rets'[c.row].status = "none"
    <3> SUFFICES ASSUME Runs(t, "request_return")
                 PROVE  c.row \in Returns /\ rets'[c.row].status = "none"
      OBVIOUS
    <3>1. c.row \in Returns /\ rets[c.row].status = "none"
      BY <1>1 DEF IsSession, IsRun, Runs, Rows, ReturnStep
    <3>2. ~(Runs(s, "request_return") /\ session[s].call.row = c.row)
      BY DEF Rows, Apart
    <3> QED
      BY <3>1, <3>2, ReturnStays
  <2> QED
    BY <1>1, <2>1, <2>2, <2>3, ReturnStays DEF Rows, ReturnStep, Runs
<1> QED
  BY <1>7, <1>8

(* The refund the moving session works on is where the route says.         *)
LEMMA RefundStepNext ==
  ASSUME Types, Rows, NEW s \in Sessions, StepOf(s)
  PROVE  RefundStep(s)'
<1> DEFINE c == session[s].call
<1>1. /\ refunds \in [Keys -> [status : {"none", "initiated", "processed",
                                        "failed"},
                              n : Nat, ret : Returns \cup {None}]]
      /\ paid \in [Keys -> Nat]
      /\ keys \in [Keys -> {"free", "in_flight", "completed"}]
      /\ IsSession(session[s]) /\ session[s] \in Session /\ c \in Call
  BY DEF Types, Session
<1>2. ASSUME NEW d \in Call, BeginsSale(s, d) PROVE RefundStep(s)'
  <2>1. IsRun(d) /\ Running(s, d, 1)
    BY <1>2, StartsWithOne DEF BeginsSale
  <2>2. session'[s].stage = "run" /\ session'[s].call = d
    BY <2>1, RunningBecomes
  <2>3. d.route = None /\ d.fn \notin {"admin_refund", "settle_refund"}
    BY <1>2 DEF BeginsSale, IsRun
  <2> QED
    BY <2>2, <2>3 DEF RefundStep, Runs
<1>3. ASSUME NEW d \in Call, BeginsRefund(s, d) PROVE RefundStep(s)'
  <2>1. session'[s].stage = "run" /\ session'[s].call = d
    BY <1>3, RunningBecomes DEF BeginsRefund
  <2>2. d.fn = "admin_refund" /\ d.route \in Keys /\ keys[d.route] = "free"
    BY <1>3 DEF BeginsRefund, IsRun
  <2>3. refunds[d.route].status = "none"
    BY <2>2 DEF Rows, RefundInv
  <2>4. refunds' = refunds /\ keys'[d.route] = "in_flight"
    BY <1>1, <1>3, <2>2 DEF BeginsRefund, rowVars
  <2> QED
    BY <2>1, <2>2, <2>3, <2>4 DEF RefundStep, Runs
<1>4. ASSUME NEW d \in Call, BeginsSettle(s, d) PROVE RefundStep(s)'
  <2>1. IsRun(d) /\ Running(s, d, 1)
    BY <1>4, StartsWithOne DEF BeginsSettle
  <2>2. session'[s].stage = "run" /\ session'[s].call = d
    BY <2>1, RunningBecomes
  <2>3. /\ d.fn = "settle_refund" /\ d.route = None /\ d.row \in Keys
        /\ d.to \in {"processed", "failed"}
        /\ refunds[d.row].status = "initiated" /\ refunds' = refunds
        /\ d.to = "failed" => paid[d.row] = 0
    BY <1>4 DEF BeginsSettle, IsRun, rowVars
  <2>4. paid[d.row] \in {0, refunds[d.row].n}
    BY <2>3 DEF Rows, RefundInv
  <2>5. paid'[d.row] = IF d.to = "processed" THEN refunds[d.row].n ELSE 0
    BY <1>1, <1>4, <2>3, <2>4 DEF BeginsSettle
  <2> QED
    BY <2>2, <2>3, <2>5 DEF RefundStep, Runs
<1>5. CASE Acquire(s) \/ MakesUpItsMind(s)
  <2>1. /\ session'[s].call = session[s].call
        /\ session'[s].stage = session[s].stage
        /\ UNCHANGED <<rowVars, keys, paid>>
    BY <1>5 DEF Acquire, MakesUpItsMind, Types, Session, Undisturbed
  <2> QED
    BY <2>1 DEF Rows, RefundStep, Runs, rowVars
<1>6. CASE GivesUp(s)
  <2>1. /\ session[s].stage = "run" /\ UNCHANGED <<rowVars, keys, paid>>
    BY <1>6 DEF GivesUp, Undisturbed
  <2>2. /\ session'[s].stage # "run" /\ session'[s].call.route = c.route
        /\ session'[s].stage # "gateway"
        /\ session'[s].stage = "release" => c.fn = "admin_refund"
    BY <1>6, <2>1, OverBecomes DEF GivesUp
  <2> QED
    BY <2>1, <2>2 DEF Rows, RefundStep, Runs, rowVars
<1>7. CASE Commit(s)
  <2>1. /\ session[s].stage = "run" /\ Over(s, TRUE) /\ UNCHANGED <<keys, paid>>
    BY <1>7, CommitFacts DEF Decided
  <2>2. /\ session'[s].stage # "run" /\ session'[s].call.route = c.route
        /\ session'[s].stage # "release"
        /\ session'[s].stage = "gateway" => c.fn = "admin_refund"
    BY <2>1, OverBecomes
  <2>3. c.fn = "admin_refund" =>
          refunds'[c.route].status = "initiated" /\ paid[c.route] = 0
    <3> SUFFICES ASSUME c.fn = "admin_refund"
                 PROVE  refunds'[c.route].status = "initiated" /\ paid[c.route] = 0
      OBVIOUS
    <3>1. CommitRefund(s)
      BY <1>7 DEF Commit, Commits, CommitShip, CommitTrack, CommitCancel,
         CommitRequest, CommitReview, CommitReceive, CommitSettle
    <3>2. Runs(s, "admin_refund") /\ c.route \in Keys
      BY <1>1, <2>1 DEF Runs, IsSession, IsRun
    <3>3. refunds[c.route].status = "none"
      BY <3>2 DEF Rows, RefundStep
    <3>4. paid[c.route] = 0
      BY <3>2, <3>3 DEF Rows, RefundInv
    <3> QED
      BY <1>1, <3>1, <3>2, <3>4 DEF CommitRefund
  <2> QED
    BY <2>1, <2>2, <2>3 DEF Rows, RefundStep, Runs
<1>8. CASE GatewayRefunds(s)
  <2> DEFINE k == c.route
             d == [NoCall EXCEPT !.fn = "settle_refund", !.route = k, !.row = k,
                                 !.to = "processed"]
  <2>1. /\ k \in Keys /\ refunds[k].status = "initiated" /\ paid[k] = 0
        /\ keys[k] = "in_flight"
    BY <1>1, <1>8, Constants
       DEF GatewayRefunds, Stage, IsSession, Rows, RefundStep
  <2>2. /\ d \in Call /\ d.fn = "settle_refund" /\ d.row = k /\ d.route = k
        /\ d.to = "processed"
    BY <2>1, IdleIsSession DEF Call, DbFunctions
  <2>3. Running(s, d, 0)
    BY <1>8 DEF GatewayRefunds
  <2>4. paid'[k] = refunds[k].n /\ UNCHANGED <<rowVars, keys>>
    <3>1. refunds[k].n \in Nat
      BY <1>1, <2>1
    <3>2. paid'[k] = paid[k] + refunds[k].n /\ UNCHANGED <<rowVars, keys>>
      BY <1>1, <1>8, <2>1 DEF GatewayRefunds, MoneyMoves
    <3> QED
      BY <2>1, <3>1, <3>2
  <2> HIDE DEF d
  <2>5. IsRun(d)
    BY <2>1, <2>2 DEF IsRun
  <2>6. session'[s].stage = "run" /\ session'[s].call = d
    BY <2>2, <2>3, <2>5, RunningBecomes
  <2> QED
    BY <2>1, <2>2, <2>4, <2>6 DEF RefundStep, Runs, rowVars
<1>9. CASE StoresNext(s)
  <2>1. session'[s].stage = "store" /\ session'[s].call = c /\ keys' = keys
    BY <1>9, StoresBecomes DEF StoresNext, GatewayRefuses, GatewayAnswerLost,
       Stage, Undisturbed
  <2> QED
    BY <2>1 DEF Rows, RefundStep, Runs
<1>10. CASE Ends(s)
  <2>1. session'[s] = Idle
    BY <1>10, EndsBecomes DEF Ends, StoreAnswer, ReleaseKey, Crash, Becomes
  <2> QED
    BY <2>1, IdleIsSession DEF RefundStep, Runs
<1> QED
  BY <1>2, <1>3, <1>4, <1>5, <1>6, <1>7, <1>8, <1>9, <1>10 DEF StepOf

(* So is the return.                                                       *)
LEMMA ReturnStepNext ==
  ASSUME Types, Rows, NEW s \in Sessions, StepOf(s)
  PROVE  ReturnStep(s)'
<1> DEFINE c == session[s].call
<1>1. ASSUME NEW d \in Call, BeginsSale(s, d) PROVE ReturnStep(s)'
  <2>1. IsRun(d) /\ Running(s, d, 1)
    BY <1>1, StartsWithOne DEF BeginsSale
  <2>2. session'[s].stage = "run" /\ session'[s].call = d
    BY <2>1, RunningBecomes
  <2> QED
    BY <1>1, <2>2 DEF BeginsSale, ReturnStep, Runs, Undisturbed, rowVars
<1>2. ASSUME NEW d \in Call, BeginsRefund(s, d) PROVE ReturnStep(s)'
  <2>1. session'[s].stage = "run" /\ session'[s].call = d
    BY <1>2, RunningBecomes DEF BeginsRefund
  <2> QED
    BY <1>2, <2>1 DEF BeginsRefund, ReturnStep, Runs, rowVars
<1>3. ASSUME NEW d \in Call, BeginsSettle(s, d) PROVE ReturnStep(s)'
  <2>1. IsRun(d) /\ Running(s, d, 1) /\ d.fn = "settle_refund"
    BY <1>3, StartsWithOne DEF BeginsSettle
  <2>2. session'[s].call = d
    BY <2>1, RunningBecomes
  <2> QED
    BY <2>1, <2>2 DEF ReturnStep, Runs
<1>4. CASE Acquire(s) \/ MakesUpItsMind(s)
  <2>1. /\ session'[s].call = session[s].call
        /\ session'[s].stage = session[s].stage
        /\ rets' = rets
    BY <1>4 DEF Acquire, MakesUpItsMind, Types, Session, Undisturbed, rowVars
  <2> QED
    BY <2>1 DEF Rows, ReturnStep, Runs
<1>5. CASE GivesUp(s) \/ Commit(s)
  <2>1. PICK committed \in BOOLEAN : Over(s, committed)
    BY <1>5, CommitFacts DEF GivesUp
  <2>2. session[s].stage = "run"
    BY <1>5, CommitFacts DEF GivesUp, Decided
  <2>3. session'[s].stage # "run"
    BY <2>1, <2>2, OverBecomes
  <2> QED
    BY <2>3 DEF ReturnStep, Runs
<1>6. CASE GatewayRefunds(s)
  <2>1. session'[s].call.fn = "settle_refund"
    BY <1>6, IdleIsSession DEF GatewayRefunds, Running, Types, Session, Idle, NoCall
  <2> QED
    BY <2>1 DEF ReturnStep, Runs
<1>7. CASE StoresNext(s)
  <2>1. session'[s].stage = "store"
    BY <1>7, StoresBecomes DEF StoresNext, GatewayRefuses, GatewayAnswerLost,
       Stage
  <2> QED
    BY <2>1 DEF ReturnStep, Runs
<1>8. CASE Ends(s)
  <2>1. session'[s] = Idle
    BY <1>8, EndsBecomes DEF Ends, StoreAnswer, ReleaseKey, Crash, Becomes
  <2> QED
    BY <2>1, IdleIsSession DEF ReturnStep, Runs
<1> QED
  BY <1>1, <1>2, <1>3, <1>4, <1>5, <1>6, <1>7, <1>8 DEF StepOf

(* A refund agrees with its key and its money after each step.             *)
LEMMA RefundInvNext ==
  ASSUME Types, Rows, NEW s \in Sessions, StepOf(s), NEW k \in Keys
  PROVE  RefundInv(k)'
<1> DEFINE c == session[s].call
<1>1. /\ refunds \in [Keys -> [status : {"none", "initiated", "processed",
                                        "failed"},
                              n : Nat, ret : Returns \cup {None}]]
      /\ paid \in [Keys -> Nat]
      /\ keys \in [Keys -> {"free", "in_flight", "completed"}]
      /\ IsSession(session[s]) /\ session[s] \in Session /\ c \in Call
  BY DEF Types, Session
<1>2. /\ RefundInv(k) /\ RefundStep(s) /\ ReturnStep(s)
      /\ refunds[k].ret # None => refunds[k].ret \in Returns
  BY <1>1 DEF Rows
<1>3. \A r \in Returns : rets[r].status # "none" => rets'[r].status # "none"
  BY ReturnStays
<1>4. CASE SameRefund(k)
  BY <1>2, <1>3, <1>4 DEF RefundInv, SameRefund
<1>5. ASSUME NEW d \in Call, BeginsRefund(s, d) PROVE RefundInv(k)'
  <2>1. UNCHANGED <<rowVars, paid>> /\ (keys'[k] = "free" => keys[k] = "free")
    BY <1>1, <1>5 DEF BeginsRefund
  <2> QED
    BY <1>2, <2>1 DEF RefundInv, rowVars
<1>6. ASSUME NEW d \in Call, BeginsSettle(s, d) PROVE RefundInv(k)'
  <2>1. UNCHANGED <<rowVars, keys>> /\ d.row \in Keys
    BY <1>6 DEF BeginsSettle, IsRun
  <2>2. CASE k = d.row
    <3>1. refunds[k].status = "initiated" /\ paid'[k] \in {paid[k], refunds[k].n}
      BY <1>1, <1>6, <2>2 DEF BeginsSettle
    <3> QED
      BY <1>2, <2>1, <3>1 DEF RefundInv, rowVars
  <2>3. CASE k # d.row
    <3>1. paid'[k] = paid[k]
      BY <1>1, <1>6, <2>3 DEF BeginsSettle
    <3> QED
      BY <1>2, <2>1, <3>1 DEF RefundInv, rowVars
  <2> QED
    BY <2>2, <2>3
<1>7. CASE CommitRefund(s)
  <2>1. Runs(s, "admin_refund") /\ IsRun(c)
    BY <1>7, CommitsFacts DEF CommitRefund
  <2>2. c.route \in Keys /\ keys[c.route] = "in_flight"
    BY <1>2, <2>1, Constants DEF RefundStep, IsRun, Runs
  <2>3. /\ refunds[c.route].status = "none"
        /\ c.ret # None => c.ret \in Returns /\ rets[c.ret].status # "none"
    BY <1>1, <1>2, <2>1 DEF RefundStep, ReturnStep, Call
  <2>4. UNCHANGED <<keys, paid, rets>>
    BY <1>7 DEF CommitRefund, Commits
  <2>5. CASE k = c.route
    <3>1. /\ refunds'[k].status = "initiated" /\ refunds'[k].ret = c.ret
          /\ paid[k] = 0 /\ keys[k] # "free"
      BY <1>1, <1>2, <1>7, <2>2, <2>3, <2>5 DEF CommitRefund, RefundInv
    <3> QED
      BY <2>3, <2>4, <3>1 DEF RefundInv
  <2>6. CASE k # c.route
    <3>1. refunds'[k] = refunds[k]
      BY <1>1, <1>7, <2>6 DEF CommitRefund
    <3> QED
      BY <1>4, <2>4, <3>1 DEF SameRefund
  <2> QED
    BY <2>5, <2>6
<1>8. CASE CommitSettle(s)
  <2>1. Runs(s, "settle_refund") /\ IsRun(c)
    BY <1>8, CommitsFacts DEF CommitSettle
  <2>2. /\ c.row \in Keys /\ c.to \in {"processed", "failed"}
        /\ refunds[c.row].status = "initiated"
        /\ paid[c.row] = IF c.to = "processed" THEN refunds[c.row].n ELSE 0
    BY <1>2, <2>1 DEF RefundStep, IsRun, Runs
  <2>3. UNCHANGED <<keys, paid>>
    BY <1>8 DEF CommitSettle, Commits
  <2>4. CASE k = c.row
    <3>1. /\ refunds'[k].status = c.to /\ refunds'[k].ret = refunds[k].ret
          /\ refunds'[k].n = refunds[k].n
      BY <1>1, <1>8, <2>4 DEF CommitSettle
    <3>2. keys[k] # "free"
      BY <1>2, <2>2, <2>4 DEF RefundInv
    <3>3. c.to \in {"none", "failed"} => paid[k] = 0
      BY <2>2, <2>4
    <3> QED
      BY <1>2, <1>3, <2>3, <3>1, <3>2, <3>3 DEF RefundInv
  <2>5. CASE k # c.row
    <3>1. refunds'[k] = refunds[k]
      BY <1>1, <1>8, <2>5 DEF CommitSettle
    <3> QED
      BY <1>4, <2>3, <3>1 DEF SameRefund
  <2> QED
    BY <2>4, <2>5
<1>9. CASE GatewayRefunds(s) \/ StoresNext(s)
  <2>1. /\ c.route \in Keys /\ refunds[c.route].status = "initiated"
        /\ paid[c.route] = 0
    BY <1>1, <1>2, <1>9 DEF GatewayRefunds, StoresNext, GatewayRefuses,
       GatewayAnswerLost, Stage, IsSession, RefundStep
  <2>2. UNCHANGED <<rowVars, keys>> /\ (paid' = paid \/ MoneyMoves(c.route))
    BY <1>9 DEF GatewayRefunds, StoresNext, GatewayRefuses, GatewayAnswerLost,
       Undisturbed
  <2>3. CASE MoneyMoves(c.route) /\ k = c.route
    <3>1. refunds[k].n \in Nat
      BY <1>1
    <3>2. paid'[k] = paid[k] + refunds[k].n
      BY <1>1, <2>3 DEF MoneyMoves
    <3>3. paid'[k] = refunds[k].n
      BY <2>1, <2>3, <3>1, <3>2
    <3> QED
      BY <1>2, <2>1, <2>2, <2>3, <3>3 DEF RefundInv, rowVars
  <2>4. CASE ~(MoneyMoves(c.route) /\ k = c.route)
    <3>1. paid'[k] = paid[k]
      BY <1>1, <2>2, <2>4 DEF MoneyMoves
    <3> QED
      BY <1>4, <2>2, <3>1 DEF SameRefund, rowVars
  <2> QED
    BY <2>3, <2>4
<1>10. CASE Ends(s)
  <2>1. UNCHANGED <<rowVars, paid>>
    BY <1>10 DEF Ends, StoreAnswer, ReleaseKey, Crash
  <2>2. keys'[k] = "free" => keys[k] = "free" \/ refunds[k].status = "none"
    BY <1>1, <1>2, <1>10 DEF Ends, StoreAnswer, ReleaseKey, Crash, Stage,
       RefundStep
  <2> QED
    BY <1>2, <2>1, <2>2 DEF RefundInv, rowVars
<1>11. CASE UNCHANGED <<refunds, keys, paid>>
  BY <1>4, <1>11 DEF SameRefund
<1> QED
  BY <1>5, <1>6, <1>7, <1>8, <1>9, <1>10, <1>11 DEF StepOf, BeginsSale,
     MakesUpItsMind, GivesUp, Acquire, Undisturbed, rowVars, Commit, CommitShip,
     CommitTrack, CommitCancel, CommitRequest, CommitReview, CommitReceive,
     Commits

LEMMA RowsNext ==
  ASSUME Types, Rows, NEW s \in Sessions, StepOf(s)
  PROVE  Rows'
<1>1. \A t \in Sessions : RefundStep(t)' /\ ReturnStep(t)'
  BY OthersRows, RefundStepNext, ReturnStepNext
<1> QED
  BY <1>1, ApartNext, RefundInvNext DEF Rows

(* What is received or refunded stays so, since it was read behind a lock. *)
LEMMA ClosedStays ==
  ASSUME Types, Rows, NEW s \in Sessions, Decided(s) => Ready(s), StepOf(s),
         NEW r \in Returns
  PROVE  /\ rets[r].status = "received" =>
              rets'[r].status \in {"received", "refunded"}
         /\ rets[r].status = "refunded" => rets'[r].status = "refunded"
<1> DEFINE c == session[s].call
<1>1. ASSUME Reviews(s, r) PROVE rets[r].status \notin Settled
  <2>1. Ready(s) /\ c.fn = "admin_review_return" /\ c.row = r
    BY <1>1, CommitsFacts DEF Reviews, CommitReview, Runs
  <2>2. ~Refused(c)
    BY <2>1 DEF Ready
  <2> QED
    BY <2>1, <2>2 DEF Refused
<1>2. ASSUME Receives(s, r) PROVE rets[r].status \notin Settled
  <2>1. Ready(s) /\ c.fn = "admin_receive_return" /\ c.row = r
    BY <1>2, CommitsFacts DEF Receives, CommitReceive, Runs
  <2>2. ~Refused(c)
    BY <2>1 DEF Ready
  <2> QED
    BY <2>1, <2>2 DEF Refused, NotReceivable
<1> QED
  BY <1>1, <1>2, ReturnChanges DEF Requests, Closes, Settled

-----------------------------------------------------------------------------
(* Locks exclude *)

(* Nobody gets a lock by what another does.                                *)
LEMMA OthersHold ==
  ASSUME Types, Rows, NEW s \in Sessions, Decided(s) => Ready(s), StepOf(s),
         NEW t \in Sessions, t # s
  PROVE  Held(t)' \subseteq Held(t)
<1> DEFINE c == session[t].call
<1>1. /\ session'[t] = session[t] /\ IsSession(session[t]) /\ c \in Call
      /\ session[t].locks \in Nat
  BY SessionNext DEF Becomes, Types, IsSession, Session
<1>2. CASE c.fn # "settle_refund"
  <2>1. Reads(c) = Reads(session[t].call)' /\ Writes(c) = Writes(session[t].call)'
    BY <1>1, <1>2 DEF Reads, Writes
  <2> QED
    BY <1>1, <2>1 DEF Held
<1>3. CASE c.fn = "settle_refund"
  <2>1. Runs(t, "settle_refund") /\ IsRun(c) /\ c.row \in Keys
    BY <1>1, <1>3, IdleIsSession DEF IsSession, Session, Stages, Runs, IsRun
  <2>2. PICK k \in Keys : k = c.row
    BY <2>1
  <2>3. About(t, k) /\ About(t, k)'
    BY <1>1, <2>1, <2>2 DEF About, Runs
  <2>4. refunds'[c.row] = refunds[c.row]
    <3>1. ~About(s, k) /\ ~About(s, k)'
      BY <2>3, ApartNext DEF Rows, Apart
    <3> QED
      BY <2>2, <3>1, RefundStays DEF SameRefund
  <2>5. Reads(session[t].call)' = Reads(c)
    BY <1>1, <1>3, <2>4 DEF Reads
  <2> DEFINE r == refunds[c.row].ret
  <2>6. r # None => (rets[r].status = "refunded" => rets'[r].status = "refunded")
    BY <2>1, ClosedStays DEF Types
  <2>7. \/ Writes(session[t].call)' = Writes(c)
        \/ Writes(session[t].call)' = <<>>
    BY <1>1, <1>3, <2>4, <2>6 DEF Writes
  <2>8. Reads(c) \in Seq(SaleLocks) /\ Writes(c) \in Seq(SaleLocks)
    BY <1>1, <2>1, ReadsTake, WritesTake
  <2>9. Held(t)' = FirstLocks(Reads(c) \o Writes(session[t].call)', session[t].locks)
    BY <1>1, <2>5 DEF Held
  <2> HIDE DEF c
  <2>10. FirstLocks(Reads(c) \o <<>>, session[t].locks)
           \subseteq FirstLocks(Reads(c) \o Writes(c), session[t].locks)
    <3>1. \A i \in DOMAIN (Reads(c) \o <<>>) :
            /\ i \in DOMAIN (Reads(c) \o Writes(c))
            /\ (Reads(c) \o <<>>)[i] = (Reads(c) \o Writes(c))[i]
      BY <2>8
    <3> QED
      BY <3>1 DEF FirstLocks
  <2> QED
    BY <2>7, <2>9, <2>10 DEF Held, c
<1> QED
  BY <1>2, <1>3

(* A lock that a session gets conflicts with none that others hold.        *)
LEMMA OwnLocks ==
  ASSUME Types, Rows, NEW s \in Sessions, StepOf(s), NEW a \in Held(s)'
  PROVE  \/ a \in Held(s)
         \/ \A t \in Sessions \ {s} : \A held \in Held(t) : ~Conflict(a, held)
<1> DEFINE c == session[s].call
<1>1. ASSUME NEW d \in Call, IsRun(d), Starts(s, d), UNCHANGED rowVars
      PROVE  \A t \in Sessions \ {s} : \A held \in Held(t) : ~Conflict(a, held)
  <2>1. /\ Running(s, d, 1)
        /\ \A t \in Sessions \ {s} : \A held \in Held(t) :
             ~Conflict(Reads(d)[1], held)
    BY <1>1, StartsWithOne
  <2>2. session'[s].call = d /\ session'[s].locks = 1
    BY <1>1, <2>1, RunningBecomes
  <2>3. Reads(d)' = Reads(d) /\ Writes(d)' = Writes(d)
    BY <1>1 DEF Reads, Writes, rowVars
  <2>4. a \in FirstLocks(Reads(d) \o Writes(d), 1)
    BY <2>2, <2>3 DEF Held
  <2>5. /\ Reads(d) \in Seq(SaleLocks) /\ Len(Reads(d)) >= 1
        /\ Writes(d) \in Seq(SaleLocks)
    BY <1>1, ReadsTake, WritesTake
  <2>6. a = (Reads(d) \o Writes(d))[1]
    BY <2>4 DEF FirstLocks
  <2>7. a = Reads(d)[1]
    BY <2>5, <2>6
  <2> QED
    BY <2>1, <2>7
<1>2. CASE session'[s].locks = 0
  BY <1>2, NoLocks DEF Held
<1>3. CASE Acquire(s)
  <2>1. /\ session'[s].call = c /\ session'[s].locks = session[s].locks + 1
        /\ session[s].stage = "run" /\ session[s].locks \in Nat
        /\ session[s].go \in {"undecided", "apply", "last"}
        /\ c \in Call /\ IsSession(session[s]) /\ UNCHANGED rowVars
    BY <1>3 DEF Acquire, Asking, Types, Session, rowVars
  <2>2. IsRun(c)
    BY <2>1 DEF IsSession
  <2>3. Reads(c)' = Reads(c) /\ Writes(c)' = Writes(c)
    BY <2>1 DEF Reads, Writes, rowVars
  <2> DEFINE seq == Reads(c) \o Writes(c)
             n   == session[s].locks
  <2>4. /\ Reads(c) \in Seq(SaleLocks) /\ Writes(c) \in Seq(SaleLocks)
        /\ seq \in Seq(SaleLocks)
    BY <2>1, <2>2, ReadsTake, WritesTake, HasConcat
  <2>5. n < Len(seq) /\ Wanted(s) = seq[n + 1]
    <3>1. n < Len(Locks(c, session[s].go))
      BY <1>3 DEF Acquire, Asking
    <3> HIDE DEF c, n
    <3>2. CASE session[s].go = "undecided"
      <4>1. Locks(c, session[s].go) = Reads(c)
        BY <3>2 DEF Locks
      <4>2. n \in Nat
        BY <2>1 DEF n
      <4> QED
        BY <2>4, <3>1, <4>1, <4>2 DEF Wanted, c, n
    <3>3. CASE session[s].go # "undecided"
      BY <3>1, <3>3 DEF Locks, Wanted, c, n
    <3> QED
      BY <3>2, <3>3
  <2> DEFINE wanted == Wanted(s)
  <2>6. Held(s) = FirstLocks(seq, n) /\ Held(s)' = FirstLocks(seq, n + 1)
    BY <2>1, <2>3 DEF Held
  <2> HIDE DEF seq, n
  <2>7. FirstLocks(seq, n + 1) = FirstLocks(seq, n) \cup {wanted}
    BY <2>1, <2>4, <2>5, NextLock DEF n
  <2>8. \A t \in Sessions \ {s} : \A held \in Held(t) : ~Conflict(wanted, held)
    BY <1>3 DEF Acquire, WaitsFor
  <2> QED
    BY <2>6, <2>7, <2>8
<1>4. CASE MakesUpItsMind(s)
  <2>1. /\ session'[s].call = c /\ session'[s].locks = session[s].locks
        /\ UNCHANGED rowVars
    BY <1>4 DEF MakesUpItsMind, Types, Session, Undisturbed
  <2>2. Reads(c)' = Reads(c) /\ Writes(c)' = Writes(c)
    BY <2>1 DEF Reads, Writes, rowVars
  <2> QED
    BY <2>1, <2>2 DEF Held
<1>5. ASSUME NEW d \in Call, BeginsRefund(s, d) PROVE session'[s].locks = 0
  BY <1>5, RunningBecomes DEF BeginsRefund
<1>6. CASE GivesUp(s) \/ Commit(s)
  <2>1. PICK committed \in BOOLEAN : Over(s, committed)
    BY <1>6, CommitFacts DEF GivesUp
  <2>2. session[s].stage = "run"
    BY <1>6, CommitFacts DEF GivesUp, Decided
  <2>3. session'[s].locks = 0
    BY <2>1, <2>2, OverBecomes
  <2> QED
    BY <1>2, <2>3
<1>7. CASE GatewayRefunds(s)
  <2>1. session'[s].locks = 0
    BY <1>7, IdleIsSession DEF GatewayRefunds, Running, Types, Session, Idle
  <2> QED
    BY <1>2, <2>1
<1>8. CASE StoresNext(s)
  BY <1>2, <1>8, StoresBecomes DEF StoresNext, GatewayRefuses,
     GatewayAnswerLost, Stage
<1>9. CASE Ends(s)
  <2>1. session'[s] = Idle
    BY <1>9, EndsBecomes DEF Ends, StoreAnswer, ReleaseKey, Crash, Becomes
  <2> QED
    BY <1>2, <2>1, IdleIsSession
<1> QED
  BY <1>1, <1>2, <1>3, <1>4, <1>5, <1>6, <1>7, <1>8, <1>9
     DEF StepOf, BeginsSale, BeginsSettle, Undisturbed

LEMMA ExclusiveNext ==
  ASSUME Types, Rows, Exclusive, NEW s \in Sessions, Decided(s) => Ready(s),
         StepOf(s)
  PROVE  Exclusive'
<1> SUFFICES ASSUME NEW t \in Sessions, NEW u \in Sessions, t # u,
                    NEW a \in Held(t)', NEW b \in Held(u)'
             PROVE  ~Conflict(a, b)
  BY DEF Exclusive
<1>1. CASE t # s /\ u # s
  <2>1. a \in Held(t) /\ b \in Held(u)
    BY <1>1, OthersHold
  <2> QED
    BY <2>1 DEF Exclusive
<1>2. CASE t = s
  <2>1. b \in Held(u)
    BY <1>2, OthersHold
  <2> QED
    BY <1>2, <2>1, OwnLocks DEF Exclusive
<1>3. CASE u = s
  <2>1. a \in Held(t)
    BY <1>3, OthersHold
  <2>2. ~Conflict(b, a)
    BY <1>3, <2>1, OwnLocks DEF Exclusive
  <2> QED
    BY <2>2, ConflictSymmetric
<1> QED
  BY <1>1, <1>2, <1>3

-----------------------------------------------------------------------------
(* What was decided stays right *)

(* Nobody else is about to change what the order's lock protects.          *)
LEMMA OrderAlone ==
  ASSUME Types, Rows, Exclusive, NEW s \in Sessions, Update("order") \in Held(s),
         NEW t \in Sessions, t # s, Decided(t), Ready(t)
  PROVE  LET c == session[t].call
         IN  /\ c.fn \notin OrderFirst \cup {"admin_update_shipment"}
             /\ c.fn = "settle_refund" => c.to # "processed"
<1> DEFINE c == session[t].call
<1>1. /\ IsRun(c) /\ session[t].locks >= Len(Reads(c)) /\ Runs(t, c.fn)
  BY DEF Types, IsSession, Decided, Ready, Runs
<1>2. \A lock : Has(Reads(c), lock) => lock \in Held(t)
  BY <1>1, ReadsHeld
<1>3. Update("order") \notin Held(t)
  <2>1. Conflict(Update("order"), Update("order"))
    BY UpdateExcludes
  <2> QED
    BY <2>1 DEF Exclusive
<1>4. ~Has(Reads(c), Update("order"))
  BY <1>2, <1>3
<1>5. c.fn = "settle_refund" => refunds[c.row].status = "initiated"
  BY <1>1 DEF Rows, RefundStep, Runs
<1> QED
  BY <1>1, <1>4, <1>5, ReadsTake

(* Whoever holds it sees the order, its boxes and its refunds as they are; *)
(* only a refund that went nowhere may fail meanwhile.                     *)
LEMMA OrderKept ==
  ASSUME Types, Rows, Exclusive, NEW s \in Sessions, Update("order") \in Held(s),
         NEW t \in Sessions, t # s, Decided(t) => Ready(t), StepOf(t)
  PROVE  /\ order' = order /\ ships' = ships
         /\ \A k \in Keys :
              \/ refunds'[k] = refunds[k]
              \/ /\ refunds[k].status = "initiated"
                 /\ refunds'[k].status = "failed" /\ refunds'[k].n = refunds[k].n
<1> DEFINE c == session[t].call
<1>1. ASSUME Commit(t)
      PROVE  /\ c.fn \notin OrderFirst \cup {"admin_update_shipment"}
             /\ c.fn = "settle_refund" => c.to # "processed"
  BY <1>1, CommitFacts, OrderAlone
<1>2. CASE CommitShip(t) \/ CommitTrack(t) \/ CommitCancel(t) \/ CommitRefund(t)
  <2>1. c.fn \in OrderFirst \cup {"admin_update_shipment"}
    BY <1>2 DEF CommitShip, CommitTrack, CommitCancel, CommitRefund, Commits,
       OrderFirst
  <2> QED
    BY <1>1, <1>2, <2>1 DEF Commit
<1>3. CASE CommitSettle(t)
  <2>1. Runs(t, "settle_refund") /\ Decided(t) /\ IsRun(c)
    BY <1>3, CommitsFacts DEF CommitSettle
  <2>2. /\ c.fn = "settle_refund" /\ c.row \in Keys
        /\ refunds[c.row].status = "initiated"
    BY <2>1 DEF Runs, IsRun, Rows, RefundStep
  <2>3. c.to = "failed"
    BY <1>1, <1>3, <2>1, <2>2 DEF Commit, IsRun
  <2>4. session[t].go # "last"
    BY <2>1, <2>2, <2>3 DEF Ready, Last
  <2>5. order' = order /\ ships' = ships
    BY <1>3, <2>4 DEF CommitSettle
  <2>6. refunds' = [refunds EXCEPT ![c.row].status = "failed"]
    BY <1>3, <2>3 DEF CommitSettle
  <2> QED
    BY <2>2, <2>5, <2>6 DEF Types
<1>4. CASE UNCHANGED <<order, ships, refunds>>
  BY <1>4
<1> QED
  BY <1>2, <1>3, <1>4 DEF StepOf, BeginsSale, BeginsRefund, BeginsSettle,
     Acquire, MakesUpItsMind, GivesUp, Commit, GatewayRefunds, StoresNext,
     GatewayRefuses, GatewayAnswerLost, Ends, StoreAnswer, ReleaseKey, Crash,
     Undisturbed, rowVars, CommitRequest, CommitReview, CommitReceive

(* Whoever holds a return that is there sees its status as it is.          *)
LEMMA ReturnKept ==
  ASSUME Types, Rows, Exclusive, NEW s \in Sessions, NEW r \in Returns,
         Update(r) \in Held(s), rets[r].status # "none",
         NEW t \in Sessions, t # s, Decided(t) => Ready(t), StepOf(t)
  PROVE  rets'[r].status = rets[r].status
<1> DEFINE c == session[t].call
<1>1. \A lock \in {Update(r), NoKey(r), KeyShare(r)} : lock \notin Held(t)
  BY UpdateExcludes DEF Exclusive
<1>2. ASSUME Reviews(t, r) \/ Receives(t, r) PROVE FALSE
  <2>1. PICK fn \in {"admin_review_return", "admin_receive_return"} :
          Commits(t, fn) /\ c.row = r
    BY <1>2 DEF Reviews, Receives, CommitReview, CommitReceive
  <2>2. Runs(t, c.fn) /\ IsRun(c) /\ c.fn = fn /\ Ready(t)
    BY <2>1, CommitsFacts DEF Runs
  <2>3. Has(Reads(c), Update(r)) /\ session[t].locks >= Len(Reads(c))
    BY <2>1, <2>2, ReadsTake DEF Ready
  <2> QED
    BY <1>1, <2>2, <2>3, ReadsHeld
<1>3. ASSUME Closes(t, r) PROVE rets[r].status = "refunded"
  <2>1. /\ Decided(t) /\ ~Asking(t) /\ IsRun(c) /\ c \in Call
        /\ c.fn = "settle_refund"
    BY <1>3, CommitsFacts DEF Closes, CommitSettle, Runs
  <2>2. c.to = "processed" /\ refunds[c.row].ret = r
    BY <1>3 DEF Closes
  <2>3. rets[r].status # "refunded" => NoKey(r) \in Held(t)
    BY <2>1, <2>2, WritesTake, WritesHeld, Constants
  <2> QED
    BY <1>1, <2>3
<1> QED
  BY <1>2, <1>3, ReturnChanges DEF Requests, Closes

(* The sums after a step.                                                  *)
LEMMA SumsNext ==
  ASSUME Types'
  PROVE  /\ InBoxes' = Total([b \in Shipments |-> ships'[b].n])
         /\ Asked' = Total([r \in Returns |-> rets'[r].n])
         /\ Back' = Total([r \in Returns |-> IF rets'[r].status \in Settled
                                               THEN rets'[r].n ELSE 0])
         /\ \A statuses :
              RefundedIn(statuses)'
                = Total([k \in Keys |-> IF refunds'[k].status \in statuses
                                          THEN refunds'[k].n ELSE 0])
         /\ [b \in Shipments |-> ships'[b].n] \in [Shipments -> Nat]
         /\ [r \in Returns |-> rets'[r].n] \in [Returns -> Nat]
         /\ [r \in Returns |-> IF rets'[r].status \in Settled
                                  THEN rets'[r].n ELSE 0] \in [Returns -> Nat]
         /\ \A statuses :
              [k \in Keys |-> IF refunds'[k].status \in statuses
                                THEN refunds'[k].n ELSE 0] \in [Keys -> Nat]
         /\ InBoxes' \in Nat /\ Asked' \in Nat /\ Back' \in Nat
         /\ \A statuses : RefundedIn(statuses)' \in Nat
<1>1. /\ \A b \in Shipments : ships'[b].n \in Nat
      /\ \A r \in Returns : rets'[r].n \in Nat
      /\ \A k \in Keys : refunds'[k].n \in Nat
  BY Constants DEF Types
<1> DEFINE boxes  == [b \in Shipments |-> ships'[b].n]
           asked  == [r \in Returns |-> rets'[r].n]
           back   == [r \in Returns |-> IF rets'[r].status \in Settled
                                          THEN rets'[r].n ELSE 0]
           g(statuses) == [k \in Keys |-> IF refunds'[k].status \in statuses
                                            THEN refunds'[k].n ELSE 0]
<1>2. /\ boxes \in [Shipments -> Nat] /\ asked \in [Returns -> Nat]
      /\ back \in [Returns -> Nat]
      /\ \A statuses : g(statuses) \in [Keys -> Nat]
  BY <1>1
<1>3. InBoxes' = Total(boxes)
  BY DEF InBoxes, Total
<1>4. Asked' = Total(asked)
  BY DEF Asked, Total
<1>5. Back' = Total(back)
  BY DEF Back, Total, Settled
<1>6. \A statuses : RefundedIn(statuses)' = Total(g(statuses))
  BY DEF RefundedIn, Total
<1> HIDE DEF boxes, asked, back, g
<1>7. InBoxes' \in Nat /\ Asked' \in Nat /\ Back' \in Nat
  BY <1>2, <1>3, <1>4, <1>5, Constants, TotalIsNat
<1>8. \A statuses : RefundedIn(statuses)' \in Nat
  BY <1>2, <1>6, Constants, TotalIsNat
<1> QED
  BY <1>2, <1>3, <1>4, <1>5, <1>6, <1>7, <1>8 DEF boxes, asked, back, g

(* The sums of what did not change.                                        *)
LEMMA SumsStay ==
  ASSUME Types, Types'
  PROVE  /\ (\A b \in Shipments : ships'[b].n = ships[b].n) => InBoxes' = InBoxes
         /\ (\A r \in Returns : rets'[r].n = rets[r].n) => Asked' = Asked
         /\ \A statuses :
              (\A k \in Keys :
                 refunds[k].status \in statuses =>
                   /\ refunds'[k].status \in statuses
                   /\ refunds'[k].n = refunds[k].n)
              => RefundedIn(statuses) <= RefundedIn(statuses)'
         /\ \A statuses :
              (\A k \in Keys :
                 refunds'[k].status \in statuses =>
                   /\ refunds[k].status \in statuses
                   /\ refunds[k].n = refunds'[k].n)
              => RefundedIn(statuses)' <= RefundedIn(statuses)
<1>1. (\A b \in Shipments : ships'[b].n = ships[b].n) => InBoxes' = InBoxes
  BY DEF InBoxes
<1>2. (\A r \in Returns : rets'[r].n = rets[r].n) => Asked' = Asked
  BY DEF Asked
<1> DEFINE f(statuses) == [k \in Keys |-> IF refunds[k].status \in statuses
                                            THEN refunds[k].n ELSE 0]
           g(statuses) == [k \in Keys |-> IF refunds'[k].status \in statuses
                                            THEN refunds'[k].n ELSE 0]
<1>3. \A statuses : /\ f(statuses) \in [Keys -> Nat]
                    /\ RefundedIn(statuses) = Total(f(statuses))
  BY SumTypes DEF RefundedIn
<1>4. \A statuses : /\ g(statuses) \in [Keys -> Nat]
                    /\ RefundedIn(statuses)' = Total(g(statuses))
  BY SumsNext
<1>5. ASSUME NEW statuses,
             \A k \in Keys : refunds[k].status \in statuses =>
               refunds'[k].status \in statuses /\ refunds'[k].n = refunds[k].n
      PROVE  RefundedIn(statuses) <= RefundedIn(statuses)'
  <2>1. \A k \in Keys : f(statuses)[k] <= g(statuses)[k]
    <3> SUFFICES ASSUME NEW k \in Keys PROVE f(statuses)[k] <= g(statuses)[k]
      OBVIOUS
    <3>1. refunds[k].n \in Nat /\ refunds'[k].n \in Nat
      BY DEF Types
    <3> QED
      BY <1>5, <3>1
  <2> HIDE DEF f, g
  <2> QED
    BY <1>3, <1>4, <2>1, Constants, TotalMonotone
<1>6. ASSUME NEW statuses,
             \A k \in Keys : refunds'[k].status \in statuses =>
               refunds[k].status \in statuses /\ refunds[k].n = refunds'[k].n
      PROVE  RefundedIn(statuses)' <= RefundedIn(statuses)
  <2>1. \A k \in Keys : g(statuses)[k] <= f(statuses)[k]
    <3> SUFFICES ASSUME NEW k \in Keys PROVE g(statuses)[k] <= f(statuses)[k]
      OBVIOUS
    <3>1. refunds[k].n \in Nat /\ refunds'[k].n \in Nat
      BY DEF Types
    <3> QED
      BY <1>6, <3>1
  <2> HIDE DEF f, g
  <2> QED
    BY <1>3, <1>4, <2>1, Constants, TotalMonotone
<1> QED
  BY <1>1, <1>2, <1>5, <1>6

(* Whoever moves meanwhile, a call that decided still is right.            *)
LEMMA OthersKeepReady ==
  ASSUME Types, Types', Rows, Exclusive,
         NEW s \in Sessions, Decided(s), Ready(s),
         NEW t \in Sessions, t # s, Decided(t) => Ready(t), StepOf(t)
  PROVE  Ready(s)'
<1>1. PICK c \in Call : c = session[s].call
  BY DEF Types, Session
<1>2. /\ session'[s] = session[s] /\ IsRun(c) /\ Runs(s, c.fn)
      /\ session[s].locks >= Len(Reads(c))
  BY <1>1, SessionNext DEF Becomes, Types, IsSession, Decided, Ready, Runs
<1>3. \A lock : Has(Reads(c), lock) => lock \in Held(s)
  BY <1>1, <1>2, ReadsHeld
<1>4. c.fn = "settle_refund" =>
        /\ c.row \in Keys /\ refunds[c.row].status = "initiated"
        /\ refunds'[c.row] = refunds[c.row]
  <2> SUFFICES ASSUME c.fn = "settle_refund"
               PROVE  /\ c.row \in Keys /\ refunds[c.row].status = "initiated"
                      /\ refunds'[c.row] = refunds[c.row]
    OBVIOUS
  <2>1. c.row \in Keys /\ Runs(s, "settle_refund")
    BY <1>2 DEF IsRun
  <2>2. PICK k \in Keys : k = c.row
    BY <2>1
  <2>3. About(s, k) /\ About(s, k)'
    BY <1>1, <1>2, <2>1, <2>2 DEF About, Runs
  <2>4. ~About(t, k) /\ ~About(t, k)'
    BY <2>3, ApartNext DEF Rows, Apart
  <2> QED
    BY <1>1, <2>1, <2>2, <2>4, RefundStays DEF SameRefund, Rows, RefundStep
<1>5. Reads(c)' = Reads(c)
  BY <1>4 DEF Reads
<1>6. c.fn = "admin_ship_order" => ~Refused(c)'
  <2> SUFFICES ASSUME c.fn = "admin_ship_order" PROVE ~Refused(c)'
    OBVIOUS
  <2>1. Update("order") \in Held(s)
    BY <1>2, <1>3, ReadsTake DEF OrderFirst
  <2>2. InBoxes' = InBoxes
    BY <2>1, OrderKept, SumsStay
  <2>3. ~(InBoxes + c.n > Quantity)
    BY <1>1 DEF Ready, Refused
  <2> QED
    BY <2>2, <2>3 DEF Refused
<1>7. c.fn \in {"admin_review_return", "admin_receive_return"} => ~Refused(c)'
  <2> SUFFICES ASSUME c.fn \in {"admin_review_return", "admin_receive_return"}
               PROVE  ~Refused(c)'
    OBVIOUS
  <2>1. c.row \in Returns /\ rets[c.row].status # "none" /\ ~Refused(c)
    BY <1>1, <1>2 DEF IsRun, Rows, ReturnStep, Runs, Ready
  <2>2. Update(c.row) \in Held(s)
    BY <1>2, <1>3, ReadsTake
  <2>3. rets'[c.row].status = rets[c.row].status
    BY <2>1, <2>2, ReturnKept
  <2> QED
    BY <2>1, <2>3 DEF Refused, NotReceivable
<1>8. c.fn = "admin_refund" => ~Refused(c)'
  <2> SUFFICES ASSUME c.fn = "admin_refund" PROVE ~Refused(c)'
    OBVIOUS
  <2>1. Update("order") \in Held(s)
    BY <1>2, <1>3, ReadsTake DEF OrderFirst
  <2>2. Already' <= Already
    BY <2>1, OrderKept, SumsStay DEF Already
  <2>3. ~(Already + c.n > Quantity)
    BY <1>1 DEF Ready, Refused
  <2>4. Already \in Nat /\ Already' \in Nat /\ c.n \in Nat
    BY SumTypes, SumsNext DEF Already, Call
  <2>5. ~(Already' + c.n > Quantity)
    BY <2>2, <2>3, <2>4, Constants
  <2> QED
    BY <2>5 DEF Refused
<1>9. c.fn = "request_return" =>
        c.n <= Quantity /\ (~AskTogether => ~Refused(c)')
  <2> SUFFICES ASSUME c.fn = "request_return"
               PROVE  c.n <= Quantity /\ (~AskTogether => ~Refused(c)')
    OBVIOUS
  <2>1. c.n <= Quantity
    BY <1>1 DEF Ready
  <2>2. ASSUME ~AskTogether PROVE Asked' = Asked
    <3>1. ~Runs(t, "request_return")
      BY <1>2, <2>2 DEF Rows, Apart
    <3>2. \A r \in Returns : rets'[r].n = rets[r].n
      BY <3>1, ReturnChanges, CommitsFacts
         DEF Requests, Reviews, Receives, Closes, CommitRequest
    <3> QED
      BY <3>2, SumsStay
  <2>3. ASSUME ~AskTogether PROVE ~Refused(c)'
    <3>1. ~Refused(c)
      BY <1>1, <2>3 DEF Ready
    <3>2. ~(Asked + c.n > Quantity)
      BY <3>1 DEF Refused
    <3> QED
      BY <2>2, <2>3, <3>2 DEF Refused
  <2> QED
    BY <2>1, <2>3
<1>10. c.fn = "settle_refund" => (Last(c)' <=> Last(c))
  <2> SUFFICES ASSUME c.fn = "settle_refund" PROVE Last(c)' <=> Last(c)
    OBVIOUS
  <2>1. CASE c.to # "processed"
    BY <2>1 DEF Last
  <2>2. CASE c.to = "processed"
    <3>1. Update("order") \in Held(s)
      BY <1>2, <1>3, <1>4, <2>2, ReadsTake
    <3>2. order' = order
      BY <3>1, OrderKept
    <3>3. RefundedIn({"processed"})' = RefundedIn({"processed"})
      <4>1. /\ RefundedIn({"processed"})' \in Nat
            /\ RefundedIn({"processed"}) \in Nat
        BY SumTypes, SumsNext
      <4>2. RefundedIn({"processed"})' <= RefundedIn({"processed"})
        BY <3>1, OrderKept, SumsStay
      <4>3. RefundedIn({"processed"}) <= RefundedIn({"processed"})'
        BY <3>1, OrderKept, SumsStay
      <4> QED
        BY <4>1, <4>2, <4>3
    <3>4. PaidBack(c)' = PaidBack(c)
      BY <1>4, <3>3 DEF PaidBack
    <3> QED
      BY <3>2, <3>4 DEF Last
  <2> QED
    BY <2>1, <2>2
<1> QED
  BY <1>1, <1>2, <1>5, <1>6, <1>7, <1>8, <1>9, <1>10 DEF Ready

(* A call is ready when it decides, and only the commit ends that.         *)
LEMMA ReadyNext ==
  ASSUME Types, Types', Rows, Exclusive,
         \A u \in Sessions : Decided(u) => Ready(u),
         NEW t \in Sessions, StepOf(t), NEW s \in Sessions, Decided(s)'
  PROVE  Ready(s)'
<1>1. CASE s # t
  <2>1. Decided(s)
    BY <1>1, SessionNext DEF Becomes, Decided
  <2> QED
    BY <1>1, <2>1, OthersKeepReady
<1>2. CASE s = t
  <2>1. PICK c \in Call : c = session[s].call
    BY DEF Types, Session
  <2>2. CASE MakesUpItsMind(s)
    <3>1. /\ session'[s].call = c /\ session'[s].locks = session[s].locks
          /\ session'[s].go = IF Last(c) THEN "last" ELSE "apply"
          /\ session[s].stage = "run" /\ session[s].go = "undecided"
          /\ ~Asking(s) /\ ~Refused(c) /\ UNCHANGED rowVars
      BY <2>1, <2>2 DEF MakesUpItsMind, Types, Session, Undisturbed
    <3>2. session[s].locks >= Len(Reads(c))
      <4>1. ~(session[s].locks < Len(Reads(c)))
        BY <2>1, <3>1 DEF Asking, Locks
      <4>2. IsRun(c) /\ session[s].locks \in Nat
        BY <2>1, <3>1 DEF Types, IsSession, Session
      <4>3. Reads(c) \in Seq(SaleLocks)
        BY <4>2, ReadsTake
      <4> QED
        BY <4>1, <4>2, <4>3
    <3>3. Reads(c)' = Reads(c)
      BY <3>1 DEF Reads, rowVars
    <3>4. Refused(c)' <=> Refused(c)
      BY <3>1 DEF rowVars, Refused, InBoxes, Asked, Already, RefundedIn,
         NotReceivable
    <3>5. Last(c)' <=> Last(c)
      BY <3>1 DEF rowVars, Last, PaidBack, RefundedIn
    <3>6. c.fn = "request_return" => c.n <= Quantity
      <4>1. c.fn = "request_return" => ~(Asked + c.n > Quantity)
        BY <3>1 DEF Refused
      <4>2. Asked \in Nat /\ c.n \in Nat
        BY SumTypes DEF Call
      <4> QED
        BY <4>1, <4>2, Constants
    <3>7. session'[s].go = "last" <=> Last(c)
      BY <3>1
    <3> QED
      BY <3>1, <3>2, <3>3, <3>4, <3>5, <3>6, <3>7 DEF Ready
  <2>3. CASE Acquire(s)
    <3>1. /\ session'[s].call = c /\ session'[s].locks = session[s].locks + 1
          /\ session'[s].go = session[s].go
          /\ session'[s].stage = session[s].stage
          /\ session[s].locks \in Nat /\ UNCHANGED rowVars
      BY <2>1, <2>3 DEF Acquire, Types, Session, rowVars
    <3>2. Decided(s) /\ Ready(s)
      BY <1>2, <3>1 DEF Decided
    <3>3. IsRun(c)
      BY <2>1, <3>2 DEF Types, IsSession, Decided
    <3>4. Reads(c) \in Seq(SaleLocks) /\ Reads(c)' = Reads(c)
      BY <3>1, <3>3, ReadsTake DEF Reads, rowVars
    <3>5. session'[s].locks >= Len(Reads(c))
      BY <2>1, <3>1, <3>2, <3>4 DEF Ready
    <3>6. Refused(c)' <=> Refused(c)
      BY <3>1 DEF rowVars, Refused, InBoxes, Asked, Already, RefundedIn,
         NotReceivable
    <3>7. Last(c)' <=> Last(c)
      BY <3>1 DEF rowVars, Last, PaidBack, RefundedIn
    <3> QED
      BY <2>1, <3>1, <3>2, <3>4, <3>5, <3>6, <3>7 DEF Ready
  <2>4. CASE \E d \in Call : BeginsSale(s, d) \/ BeginsRefund(s, d)
                              \/ BeginsSettle(s, d)
    <3>1. PICK d \in Call : BeginsSale(s, d) \/ BeginsRefund(s, d)
                              \/ BeginsSettle(s, d)
      BY <2>4
    <3>2. PICK l \in Nat : IsRun(d) /\ Running(s, d, l)
      BY <3>1, StartsWithOne DEF BeginsSale, BeginsRefund, BeginsSettle
    <3>3. session'[s].go = "undecided"
      BY <3>2, RunningBecomes
    <3> QED
      BY <3>3 DEF Decided
  <2>5. CASE GivesUp(s) \/ Commit(s)
    <3>1. PICK committed \in BOOLEAN : Over(s, committed)
      BY <2>5, CommitFacts DEF GivesUp
    <3>2. session[s].stage = "run"
      BY <2>5, CommitFacts DEF GivesUp, Decided
    <3>3. session'[s].stage # "run"
      BY <3>1, <3>2, OverBecomes
    <3> QED
      BY <3>3 DEF Decided
  <2>6. CASE GatewayRefunds(s)
    <3>1. session'[s].go = "undecided"
      BY <2>6, IdleIsSession DEF GatewayRefunds, Running, Types, Session, Idle
    <3> QED
      BY <3>1 DEF Decided
  <2>7. CASE StoresNext(s)
    <3>1. session'[s].stage = "store"
      BY <2>7, StoresBecomes DEF StoresNext, GatewayRefuses, GatewayAnswerLost,
         Stage
    <3> QED
      BY <3>1 DEF Decided
  <2>8. CASE Ends(s)
    <3>1. session'[s] = Idle
      BY <2>8, EndsBecomes DEF Ends, StoreAnswer, ReleaseKey, Crash, Becomes
    <3> QED
      BY <3>1, IdleIsSession DEF Decided
  <2> QED
    BY <1>2, <2>2, <2>3, <2>4, <2>5, <2>6, <2>7, <2>8 DEF StepOf
<1> QED
  BY <1>1, <1>2

-----------------------------------------------------------------------------
(* Sums stay within bounds *)

(* A refund that is counted as refunded stays counted as such.             *)
LEMMA RefundedGrows ==
  ASSUME Types, Types', Rows, NEW s \in Sessions, StepOf(s)
  PROVE  \A k \in Keys : refunds[k].status = "processed" =>
           refunds'[k].status = "processed" /\ refunds'[k].n = refunds[k].n
<1> DEFINE c == session[s].call
<1> SUFFICES ASSUME NEW k \in Keys, refunds[k].status = "processed"
             PROVE  refunds'[k].status = "processed" /\ refunds'[k].n = refunds[k].n
  OBVIOUS
<1>1. CASE CommitRefund(s)
  <2>1. Runs(s, "admin_refund")
    BY <1>1, CommitsFacts DEF CommitRefund
  <2>2. c.route # k
    BY <2>1 DEF Rows, RefundStep
  <2> QED
    BY <1>1, <2>2 DEF CommitRefund, Types
<1>2. CASE CommitSettle(s)
  <2>1. Runs(s, "settle_refund")
    BY <1>2, CommitsFacts DEF CommitSettle
  <2>2. c.row # k
    BY <2>1 DEF Rows, RefundStep
  <2> QED
    BY <1>2, <2>2 DEF CommitSettle, Types
<1>3. CASE refunds' = refunds
  BY <1>3
<1> QED
  BY <1>1, <1>2, <1>3 DEF StepOf, BeginsSale, BeginsRefund, BeginsSettle,
     Acquire, MakesUpItsMind, GivesUp, Commit, GatewayRefunds, StoresNext,
     GatewayRefuses, GatewayAnswerLost, Ends, StoreAnswer, ReleaseKey, Crash,
     Undisturbed, rowVars, CommitShip, CommitTrack, CommitCancel, CommitRequest,
     CommitReview, CommitReceive

(* The settlement of a refund counts it as processed.                      *)
LEMMA SettlesIt ==
  ASSUME Types, Types', Rows, NEW s \in Sessions, CommitSettle(s),
         session[s].call.to = "processed"
  PROVE  RefundedIn({"processed"})' = PaidBack(session[s].call)
<1>1. PICK c : c = session[s].call
  OBVIOUS
<1>2. Runs(s, "settle_refund") /\ IsRun(c)
  BY <1>1, CommitsFacts DEF CommitSettle
<1>3. c.row \in Keys /\ refunds[c.row].status = "initiated"
  BY <1>1, <1>2 DEF IsRun, Runs, Rows, RefundStep
<1>4. refunds' = [refunds EXCEPT ![c.row].status = "processed"]
  BY <1>1 DEF CommitSettle
<1> DEFINE f == [k \in Keys |-> IF refunds[k].status \in {"processed"}
                                  THEN refunds[k].n ELSE 0]
           g == [k \in Keys |-> IF refunds'[k].status \in {"processed"}
                                  THEN refunds'[k].n ELSE 0]
<1>5. f \in [Keys -> Nat] /\ RefundedIn({"processed"}) = Total(f)
  BY SumTypes DEF RefundedIn
<1>6. g \in [Keys -> Nat] /\ RefundedIn({"processed"})' = Total(g)
  BY SumsNext
<1>7. f[c.row] = 0 /\ g[c.row] = refunds[c.row].n
  BY <1>3, <1>4 DEF Types
<1>8. \A k \in Keys : k # c.row => g[k] = f[k]
  BY <1>3, <1>4 DEF Types
<1> HIDE DEF f, g
<1>9. Total(g) + f[c.row] = Total(f) + g[c.row]
  BY <1>3, <1>5, <1>6, <1>8, Constants, TotalChange
<1>10. Total(f) \in Nat /\ Total(g) \in Nat
  BY <1>5, <1>6, SumTypes, SumsNext
<1> QED
  BY <1>1, <1>5, <1>6, <1>7, <1>9, <1>10 DEF PaidBack

(* An order is refunded from when its refunds are full.                    *)
LEMMA FullNext ==
  ASSUME Types, Types', Rows, Bounds, NEW s \in Sessions,
         Decided(s) => Ready(s), StepOf(s)
  PROVE  /\ order' = "refunded" => RefundedIn({"processed"})' >= Quantity
         /\ /\ ~(RefundedIn({"processed"}) >= Quantity)
            /\ RefundedIn({"processed"})' >= Quantity
            => order' = "refunded"
<1> DEFINE c == session[s].call
           now  == RefundedIn({"processed"})
           next == RefundedIn({"processed"})'
<1>1. now \in Nat /\ next \in Nat /\ Quantity \in Nat
  BY SumTypes, SumsNext, Constants
<1>2. now <= next
  BY RefundedGrows, SumsStay
<1>3. order = "refunded" => now >= Quantity
  BY DEF Bounds
<1> HIDE DEF now, next
<1>4. CASE CommitSettle(s) /\ c.to = "processed"
  <2>1. Runs(s, "settle_refund") /\ Decided(s) /\ Ready(s)
    BY <1>4, CommitsFacts DEF CommitSettle
  <2>2. session[s].go = "last" <=> PaidBack(c) >= Quantity /\ order # "refunded"
    BY <1>4, <2>1 DEF Ready, Last, Runs
  <2>3. next = PaidBack(c)
    BY <1>4, SettlesIt DEF next
  <2>4. order' = IF session[s].go = "last" THEN "refunded" ELSE order
    BY <1>4 DEF CommitSettle
  <2>5. order' = "refunded" => next >= Quantity
    BY <1>1, <1>2, <1>3, <2>2, <2>3, <2>4
  <2>6. ~(now >= Quantity) /\ next >= Quantity => order' = "refunded"
    BY <1>3, <2>2, <2>3, <2>4
  <2> QED
    BY <2>5, <2>6 DEF now, next
<1>5. CASE ~(CommitSettle(s) /\ c.to = "processed")
  <2>1. order' = "refunded" => order = "refunded"
    <3>1. CASE CommitSettle(s)
      <4>1. Runs(s, "settle_refund") /\ Decided(s) /\ Ready(s)
        BY <3>1, CommitsFacts DEF CommitSettle
      <4>2. session[s].go # "last"
        BY <1>5, <3>1, <4>1 DEF Ready, Last, Runs
      <4> QED
        BY <3>1, <4>2 DEF CommitSettle
    <3>2. CASE ~CommitSettle(s)
      BY <3>2 DEF StepOf, BeginsSale, BeginsRefund, BeginsSettle,
         Acquire, MakesUpItsMind, GivesUp, Commit, GatewayRefunds, StoresNext,
         GatewayRefuses, GatewayAnswerLost, Ends, StoreAnswer, ReleaseKey,
         Crash, Undisturbed, rowVars, CommitShip, CommitTrack, CommitCancel,
         CommitRequest, CommitReview, CommitReceive, CommitRefund
    <3> QED
      BY <3>1, <3>2
  <2>2. \A k \in Keys : refunds'[k].status = "processed" =>
          refunds[k].status = "processed" /\ refunds[k].n = refunds'[k].n
    <3>1. CASE CommitSettle(s)
      <4>1. Runs(s, "settle_refund") /\ IsRun(c)
        BY <3>1, CommitsFacts DEF CommitSettle
      <4>2. c.row \in Keys /\ c.to = "failed"
        BY <1>5, <3>1, <4>1 DEF IsRun, Runs
      <4> QED
        BY <3>1, <4>2 DEF CommitSettle, Types
    <3>2. CASE CommitRefund(s)
      BY <3>2 DEF CommitRefund, Types
    <3>3. CASE refunds' = refunds
      BY <3>3
    <3> QED
      BY <3>1, <3>2, <3>3 DEF StepOf, BeginsSale, BeginsRefund, BeginsSettle,
         Acquire, MakesUpItsMind, GivesUp, Commit, GatewayRefunds, StoresNext,
         GatewayRefuses, GatewayAnswerLost, Ends, StoreAnswer, ReleaseKey,
         Crash, Undisturbed, rowVars, CommitShip, CommitTrack, CommitCancel,
         CommitRequest, CommitReview, CommitReceive
  <2>3. next <= now
    BY <2>2, SumsStay DEF now, next
  <2>4. next = now
    BY <1>1, <1>2, <2>3
  <2> QED
    BY <1>3, <2>1, <2>4 DEF now, next
<1> QED
  BY <1>4, <1>5

(* No box takes more than the order leaves.                                *)
LEMMA BoxesNext ==
  ASSUME Types, Types', Bounds, NEW s \in Sessions, Decided(s) => Ready(s),
         StepOf(s)
  PROVE  InBoxes' <= Quantity
<1>1. CASE CommitShip(s)
  <2>1. PICK c \in Call : c = session[s].call
    BY DEF Types, Session
  <2>2. Runs(s, "admin_ship_order") /\ Ready(s) /\ IsRun(c)
    BY <1>1, <2>1, CommitsFacts DEF CommitShip
  <2>3. c.row \in Shipments /\ c.fn = "admin_ship_order" /\ c.n \in Nat
    BY <2>1, <2>2 DEF IsRun, Runs, Call
  <2>4. InBoxes + c.n <= Quantity
    <3>1. ~Refused(c)
      BY <2>1, <2>2, <2>3 DEF Ready
    <3>2. ~(InBoxes + c.n > Quantity)
      BY <2>3, <3>1 DEF Refused
    <3> QED
      BY <2>3, <3>2, SumTypes, Constants
  <2> DEFINE f == [b \in Shipments |-> ships[b].n]
             g == [b \in Shipments |-> ships'[b].n]
  <2>5. f \in [Shipments -> Nat] /\ InBoxes = Total(f) /\ InBoxes \in Nat
    BY SumTypes DEF InBoxes
  <2>6. g \in [Shipments -> Nat] /\ InBoxes' = Total(g) /\ InBoxes' \in Nat
    BY SumsNext
  <2>7. g[c.row] = c.n /\ \A b \in Shipments : b # c.row => g[b] = f[b]
    BY <1>1, <2>1, <2>3 DEF CommitShip, Types
  <2>8. f[c.row] \in Nat
    BY <2>3, <2>5
  <2> HIDE DEF f, g
  <2>9. Total(g) + f[c.row] = Total(f) + g[c.row]
    BY <2>3, <2>5, <2>6, <2>7, Constants, TotalChange
  <2> QED
    BY <2>3, <2>4, <2>5, <2>6, <2>7, <2>8, <2>9, Constants
<1>2. CASE ~CommitShip(s)
  <2>1. \A b \in Shipments : ships'[b].n = ships[b].n
    <3>1. CASE CommitTrack(s)
      BY <3>1 DEF CommitTrack, Types
    <3>2. CASE ships' = ships
      BY <3>2
    <3> QED
      BY <1>2, <3>1, <3>2 DEF StepOf, BeginsSale, BeginsRefund, BeginsSettle,
         Acquire, MakesUpItsMind, GivesUp, Commit, GatewayRefunds, StoresNext,
         GatewayRefuses, GatewayAnswerLost, Ends, StoreAnswer, ReleaseKey,
         Crash, Undisturbed, rowVars, CommitCancel, CommitRequest,
         CommitReview, CommitReceive, CommitRefund, CommitSettle
  <2> QED
    BY <2>1, SumsStay DEF Bounds
<1> QED
  BY <1>1, <1>2

(* Refunds are recorded for no more than the order took.                   *)
LEMMA AlreadyNext ==
  ASSUME Types, Types', Rows, Bounds, NEW s \in Sessions,
         Decided(s) => Ready(s), StepOf(s)
  PROVE  Already' <= Quantity
<1>1. CASE CommitRefund(s)
  <2>1. PICK c \in Call : c = session[s].call
    BY DEF Types, Session
  <2>2. Runs(s, "admin_refund") /\ Ready(s) /\ IsRun(c)
    BY <1>1, <2>1, CommitsFacts DEF CommitRefund
  <2>3. /\ c.route \in Keys /\ c.fn = "admin_refund" /\ c.n \in Nat
        /\ refunds[c.route].status = "none"
    BY <2>1, <2>2 DEF IsRun, Runs, Call, Rows, RefundStep
  <2>4. Already + c.n <= Quantity
    <3>1. ~Refused(c)
      BY <2>1, <2>2, <2>3 DEF Ready
    <3>2. ~(Already + c.n > Quantity)
      BY <2>3, <3>1 DEF Refused
    <3> QED
      BY <2>3, <3>2, SumTypes, Constants
  <2> DEFINE f == [k \in Keys |-> IF refunds[k].status \in {"initiated", "processed"}
                                    THEN refunds[k].n ELSE 0]
             g == [k \in Keys |-> IF refunds'[k].status \in {"initiated", "processed"}
                                    THEN refunds'[k].n ELSE 0]
  <2>5. f \in [Keys -> Nat] /\ Already = Total(f) /\ Already \in Nat
    BY SumTypes DEF Already, RefundedIn
  <2>6. g \in [Keys -> Nat] /\ Already' = Total(g) /\ Already' \in Nat
    BY SumsNext DEF Already
  <2>7. /\ f[c.route] = 0 /\ g[c.route] = c.n
        /\ \A k \in Keys : k # c.route => g[k] = f[k]
    BY <1>1, <2>1, <2>3 DEF CommitRefund, Types
  <2> HIDE DEF f, g
  <2>8. Total(g) + f[c.route] = Total(f) + g[c.route]
    BY <2>3, <2>5, <2>6, <2>7, Constants, TotalChange
  <2> QED
    BY <2>3, <2>4, <2>5, <2>6, <2>7, <2>8, Constants
<1>2. CASE ~CommitRefund(s)
  <2>1. \A k \in Keys : refunds'[k].status \in {"initiated", "processed"} =>
          /\ refunds[k].status \in {"initiated", "processed"}
          /\ refunds[k].n = refunds'[k].n
    <3>1. CASE CommitSettle(s)
      <4>1. Runs(s, "settle_refund")
        BY <3>1, CommitsFacts DEF CommitSettle
      <4>2. refunds[session[s].call.row].status = "initiated"
        BY <4>1 DEF Rows, RefundStep
      <4> QED
        BY <3>1, <4>2 DEF CommitSettle, Types
    <3>2. CASE refunds' = refunds
      BY <3>2
    <3> QED
      BY <1>2, <3>1, <3>2 DEF StepOf, BeginsSale, BeginsRefund, BeginsSettle,
         Acquire, MakesUpItsMind, GivesUp, Commit, GatewayRefunds, StoresNext,
         GatewayRefuses, GatewayAnswerLost, Ends, StoreAnswer, ReleaseKey,
         Crash, Undisturbed, rowVars, CommitShip, CommitTrack, CommitCancel,
         CommitRequest, CommitReview, CommitReceive
  <2>2. Already' <= Already
    BY <2>1, SumsStay DEF Already
  <2>3. Already <= Quantity /\ Already \in Nat /\ Already' \in Nat
    BY SumTypes, SumsNext DEF Bounds, Already
  <2> QED
    BY <2>2, <2>3, Constants
<1> QED
  BY <1>1, <1>2

(* One return after the other asks for no more than was ordered.           *)
LEMMA AskedNext ==
  ASSUME Types, Types', Rows, Bounds, ~AskTogether, NEW s \in Sessions,
         Decided(s) => Ready(s), StepOf(s)
  PROVE  Asked' <= Quantity
<1> DEFINE f == [r \in Returns |-> rets[r].n]
           g == [r \in Returns |-> rets'[r].n]
<1>1. f \in [Returns -> Nat] /\ Asked = Total(f) /\ Asked \in Nat
  BY SumTypes DEF Asked
<1>2. g \in [Returns -> Nat] /\ Asked' = Total(g) /\ Asked' \in Nat
  BY SumsNext
<1>3. Asked <= Quantity
  BY DEF Bounds
<1>4. CASE CommitRequest(s)
  <2>1. PICK c \in Call : c = session[s].call
    BY DEF Types, Session
  <2>2. Runs(s, "request_return") /\ Ready(s) /\ IsRun(c)
    BY <1>4, <2>1, CommitsFacts DEF CommitRequest
  <2>3. c.row \in Returns /\ c.fn = "request_return" /\ c.n \in Nat
    BY <2>1, <2>2 DEF IsRun, Runs, Call
  <2>4. Asked + c.n <= Quantity
    <3>1. ~Refused(c)
      BY <2>1, <2>2, <2>3 DEF Ready
    <3>2. ~(Asked + c.n > Quantity)
      BY <2>3, <3>1 DEF Refused
    <3> QED
      BY <1>1, <2>3, <3>2, Constants
  <2>5. g[c.row] = c.n /\ \A r \in Returns : r # c.row => g[r] = f[r]
    BY <1>4, <2>1, <2>3 DEF CommitRequest, Types
  <2>6. f[c.row] \in Nat
    BY <1>1, <2>3
  <2> HIDE DEF f, g
  <2>7. Total(g) + f[c.row] = Total(f) + g[c.row]
    BY <1>1, <1>2, <2>3, <2>5, Constants, TotalChange
  <2> QED
    BY <1>1, <1>2, <2>3, <2>4, <2>5, <2>6, <2>7, Constants
<1>5. CASE ~CommitRequest(s)
  <2>1. \A r \in Returns : rets'[r].n = rets[r].n
    BY <1>5, ReturnChanges DEF Requests, Reviews, Receives, Closes
  <2> QED
    BY <1>3, <2>1, SumsStay
<1> QED
  BY <1>4, <1>5

(* What is received was not received before: it adds to what is back.      *)
LEMMA BackNext ==
  ASSUME Types, Types', Rows, Bounds, ~AskTogether, NEW s \in Sessions,
         Decided(s) => Ready(s), StepOf(s)
  PROVE  returned' <= Back'
<1> DEFINE f == [r \in Returns |-> IF rets[r].status \in Settled
                                     THEN rets[r].n ELSE 0]
           g == [r \in Returns |-> IF rets'[r].status \in Settled
                                     THEN rets'[r].n ELSE 0]
<1>1. f \in [Returns -> Nat] /\ Back = Total(f) /\ Back \in Nat
  BY SumTypes DEF Back
<1>2. g \in [Returns -> Nat] /\ Back' = Total(g) /\ Back' \in Nat
  BY SumsNext
<1>3. returned <= Back /\ returned \in Nat
  BY DEF Bounds, Types
<1>4. CASE CommitReceive(s)
  <2>1. PICK c \in Call : c = session[s].call
    BY DEF Types, Session
  <2>2. Runs(s, "admin_receive_return") /\ Ready(s) /\ IsRun(c)
    BY <1>4, <2>1, CommitsFacts DEF CommitReceive
  <2>3. c.row \in Returns /\ c.fn = "admin_receive_return"
    BY <2>1, <2>2 DEF IsRun, Runs
  <2>4. rets[c.row].status \notin Settled
    <3>1. ~Refused(c)
      BY <2>1, <2>2, <2>3 DEF Ready
    <3> QED
      BY <2>3, <3>1 DEF Refused, NotReceivable
  <2>5. /\ rets'[c.row].status = "received" /\ rets'[c.row].n = rets[c.row].n
        /\ returned' = returned + rets[c.row].n
        /\ \A r \in Returns : r # c.row => rets'[r] = rets[r]
    BY <1>4, <2>1, <2>3 DEF CommitReceive, Types
  <2>6. rets[c.row].n \in Nat
    BY <2>3, Constants DEF Types
  <2>7. /\ f[c.row] = 0 /\ g[c.row] = rets[c.row].n
        /\ \A r \in Returns : r # c.row => g[r] = f[r]
    BY <2>3, <2>4, <2>5 DEF Settled
  <2> HIDE DEF f, g
  <2>8. Total(g) + f[c.row] = Total(f) + g[c.row]
    BY <1>1, <1>2, <2>3, <2>7, Constants, TotalChange
  <2> QED
    BY <1>1, <1>2, <1>3, <2>5, <2>6, <2>7, <2>8
<1>5. CASE ~CommitReceive(s)
  <2>1. returned' = returned
    BY <1>5 DEF StepOf, BeginsSale, BeginsRefund, BeginsSettle, Acquire,
       MakesUpItsMind, GivesUp, Commit, GatewayRefunds, StoresNext,
       GatewayRefuses, GatewayAnswerLost, Ends, StoreAnswer, ReleaseKey, Crash,
       Undisturbed, rowVars, CommitShip, CommitTrack, CommitCancel,
       CommitRequest, CommitReview, CommitRefund, CommitSettle
  <2>2. \A r \in Returns : f[r] <= g[r]
    <3> SUFFICES ASSUME NEW r \in Returns PROVE f[r] <= g[r]
      OBVIOUS
    <3>1. rets[r].n \in Nat /\ rets'[r].n \in Nat
      BY Constants DEF Types
    <3>2. rets[r].status \in Settled =>
            rets'[r].status \in Settled /\ rets'[r].n = rets[r].n
      BY ClosedStays, ReturnChanges
         DEF Settled, Requests, Reviews, Receives, Closes
    <3> QED
      BY <3>1, <3>2
  <2> HIDE DEF f, g
  <2>3. Total(f) <= Total(g)
    BY <1>1, <1>2, <2>2, Constants, TotalMonotone
  <2> QED
    BY <1>1, <1>2, <1>3, <2>1, <2>3
<1> QED
  BY <1>4, <1>5

LEMMA BoundsNext ==
  ASSUME Types, Types', Rows, Bounds, NEW s \in Sessions,
         Decided(s) => Ready(s), StepOf(s)
  PROVE  Bounds'
BY BoxesNext, AlreadyNext, AskedNext, BackNext, FullNext DEF Bounds

(* Staff have a lock as long as their call runs.                           *)
LEMMA StaffHoldNext ==
  ASSUME Types, StaffHold, NEW s \in Sessions, StepOf(s)
  PROVE  StaffHold'
<1> DEFINE Staff == {"admin_ship_order", "admin_update_shipment",
                     "admin_cancel_order"}
<1>1. \A t \in Sessions \ {s} : session'[t] = session[t]
  BY SessionNext DEF Becomes
<1>2. SUFFICES session'[s].call.fn \in Staff => session'[s].locks >= 1
  BY <1>1 DEF StaffHold
<1>3. ASSUME NEW c \in Call, BeginsSale(s, c) PROVE session'[s].locks = 1
  <2>1. IsRun(c) /\ Running(s, c, 1)
    BY <1>3, StartsWithOne DEF BeginsSale
  <2> QED
    BY <2>1, RunningBecomes
<1>4. ASSUME NEW c \in Call, BeginsRefund(s, c)
      PROVE  session'[s].call.fn = "admin_refund"
  <2>1. session'[s].call = c /\ c.fn = "admin_refund"
    BY <1>4, RunningBecomes DEF BeginsRefund
  <2> QED
    BY <2>1
<1>5. ASSUME NEW c \in Call, BeginsSettle(s, c) PROVE session'[s].locks = 1
  <2>1. IsRun(c) /\ Running(s, c, 1)
    BY <1>5, StartsWithOne DEF BeginsSettle
  <2> QED
    BY <2>1, RunningBecomes
<1>6. CASE Acquire(s) \/ MakesUpItsMind(s)
  <2>1. /\ session'[s].call = session[s].call
        /\ session'[s].locks \in {session[s].locks, session[s].locks + 1}
        /\ session[s].locks \in Nat
    BY <1>6 DEF Acquire, MakesUpItsMind, Types, Session
  <2> QED
    BY <2>1 DEF StaffHold
<1>7. CASE GivesUp(s) \/ Commit(s)
  <2>1. PICK committed \in BOOLEAN : Over(s, committed)
    BY <1>7, CommitFacts DEF GivesUp
  <2>2. session[s].stage = "run"
    BY <1>7, CommitFacts DEF GivesUp, Decided
  <2>3. session'[s].call.fn = "none"
    BY <2>1, <2>2, OverBecomes
  <2> QED
    BY <2>3
<1>8. CASE GatewayRefunds(s)
  <2>1. session'[s].call.fn = "settle_refund"
    BY <1>8, IdleIsSession DEF GatewayRefunds, Running, Types, Session, Idle, NoCall
  <2> QED
    BY <2>1
<1>9. CASE StoresNext(s)
  <2>1. session[s].stage = "gateway" /\ session'[s].call = session[s].call
    BY <1>9, StoresBecomes DEF StoresNext, GatewayRefuses, GatewayAnswerLost,
       Stage
  <2>2. session[s].call.fn = "none"
    BY <2>1 DEF Types, IsSession
  <2> QED
    BY <2>1, <2>2
<1>10. CASE Ends(s)
  <2>1. session'[s] = Idle
    BY <1>10, EndsBecomes DEF Ends, StoreAnswer, ReleaseKey, Crash, Becomes
  <2> QED
    BY <2>1, IdleIsSession
<1> QED
  BY <1>3, <1>4, <1>5, <1>6, <1>7, <1>8, <1>9, <1>10 DEF StepOf

-----------------------------------------------------------------------------
(* The invariant, and what follows                                         *)

LEMMA StartsRight == Init => IInv
<1> SUFFICES ASSUME Init PROVE IInv
  OBVIOUS
<1>1. \A s \in Sessions : session[s] = Idle
  BY DEF Init
<1>2. /\ \A s \in Sessions : session[s].stage = "idle"
      /\ \A s \in Sessions : session[s].call = NoCall
      /\ \A s \in Sessions : session[s].locks = 0
      /\ \A s \in Sessions : session[s].go = "undecided"
      /\ \A s \in Sessions : session[s].call.fn = "none"
      /\ \A s \in Sessions : session[s].call.route = None
  BY <1>1, IdleIsSession
<1>3. Types
  BY <1>1, IdleIsSession, Constants DEF Init, Types
<1>4. Rows
  <2>1. \A s \in Sessions : \A k \in Keys : ~About(s, k)
    BY <1>2, Constants DEF About, Runs
  <2>2. Apart
    BY <1>2, <2>1 DEF Apart, Runs
  <2>3. \A k \in Keys : RefundInv(k)
    BY DEF Init, RefundInv
  <2>4. \A s \in Sessions : RefundStep(s) /\ ReturnStep(s)
    BY <1>2 DEF RefundStep, ReturnStep, Runs
  <2> QED
    BY <2>2, <2>3, <2>4 DEF Rows
<1>5. Exclusive
  <2>1. \A s \in Sessions : Held(s) = {}
    BY <1>2, NoLocks DEF Held
  <2> QED
    BY <2>1 DEF Exclusive
<1>6. \A s \in Sessions : ~Decided(s)
  BY <1>2 DEF Decided
<1>7. Bounds
  <2> DEFINE boxes == [b \in Shipments |-> ships[b].n]
             asked == [r \in Returns |-> rets[r].n]
             back  == [r \in Returns |-> IF rets[r].status \in Settled
                                           THEN rets[r].n ELSE 0]
             open  == [k \in Keys |-> IF refunds[k].status \in {"initiated", "processed"}
                                        THEN refunds[k].n ELSE 0]
  <2>1. InBoxes = 0
    <3>1. \A x \in DOMAIN boxes : boxes[x] = 0
      BY DEF Init
    <3> HIDE DEF boxes
    <3>2. Total(boxes) = 0
      BY <3>1, TotalOfNothing
    <3> QED
      BY <3>2 DEF InBoxes, boxes
  <2>2. Asked = 0
    <3>1. \A x \in DOMAIN asked : asked[x] = 0
      BY DEF Init
    <3> HIDE DEF asked
    <3>2. Total(asked) = 0
      BY <3>1, TotalOfNothing
    <3> QED
      BY <3>2 DEF Asked, asked
  <2>3. Back = 0
    <3>1. \A x \in DOMAIN back : back[x] = 0
      BY DEF Init
    <3> HIDE DEF back
    <3>2. Total(back) = 0
      BY <3>1, TotalOfNothing
    <3> QED
      BY <3>2 DEF Back, back
  <2>4. Already = 0
    <3>1. \A x \in DOMAIN open : open[x] = 0
      BY DEF Init
    <3> HIDE DEF open
    <3>2. Total(open) = 0
      BY <3>1, TotalOfNothing
    <3> QED
      BY <3>2 DEF Already, RefundedIn, open
  <2>5. returned = 0 /\ order = "paid"
    BY DEF Init
  <2> QED
    BY <2>1, <2>2, <2>3, <2>4, <2>5, Constants DEF Bounds
<1>8. StaffHold
  BY <1>2 DEF StaffHold
<1> QED
  BY <1>3, <1>4, <1>5, <1>6, <1>7, <1>8 DEF IInv

(* A step keeps the invariant.                                             *)
LEMMA StaysRight == IInv /\ [Next]_vars => IInv'
<1> SUFFICES ASSUME IInv, [Next]_vars PROVE IInv'
  OBVIOUS
<1>1. CASE Next
  <2>1. PICK s \in Sessions : StepOf(s)
    BY <1>1, Steps DEF IInv
  <2>2. Types'
    BY <2>1, TypesNext DEF IInv
  <2>3. Rows'
    BY <2>1, RowsNext DEF IInv
  <2>4. Exclusive'
    BY <2>1, ExclusiveNext DEF IInv
  <2>5. \A t \in Sessions : Decided(t)' => Ready(t)'
    BY <2>1, <2>2, ReadyNext DEF IInv
  <2>6. Bounds'
    BY <2>1, <2>2, BoundsNext DEF IInv
  <2>7. StaffHold'
    BY <2>1, StaffHoldNext DEF IInv
  <2> QED
    BY <2>2, <2>3, <2>4, <2>5, <2>6, <2>7 DEF IInv
<1>2. CASE UNCHANGED vars
  <2>1. UNCHANGED <<order, ships, rets, refunds, returned, keys, session, paid,
                    mishaps>>
    BY <1>2 DEF vars, rowVars
  <2>2. Types'
    BY <2>1 DEF IInv, Types, IsSession, IsRun
  <2>3. Rows'
    BY <2>1 DEF IInv, Rows, RefundInv, RefundStep, ReturnStep, Apart, About, Runs
  <2>4. \A c : Reads(c)' = Reads(c) /\ Writes(c)' = Writes(c)
    BY <2>1 DEF Reads, Writes
  <2>5. \A s : Held(s)' = Held(s)
    BY <2>1, <2>4 DEF Held
  <2>6. Exclusive'
    BY <2>5 DEF IInv, Exclusive
  <2>7. \A c : (Refused(c)' <=> Refused(c)) /\ (Last(c)' <=> Last(c))
    BY <2>1 DEF Refused, Last, PaidBack, RefundedIn, InBoxes, Asked, Already,
       NotReceivable
  <2>8. ASSUME NEW s \in Sessions, Decided(s)' PROVE Ready(s)'
    <3>1. Decided(s) /\ Ready(s)
      BY <2>1, <2>8 DEF IInv, Decided
    <3>2. session'[s].call = session[s].call
      BY <2>1
    <3>3. PICK c : c = session[s].call
      OBVIOUS
    <3> QED
      BY <2>1, <2>4, <2>7, <3>1, <3>2, <3>3 DEF Ready
  <2>9. Bounds'
    BY <2>1 DEF IInv, Bounds, InBoxes, Already, Asked, Back, RefundedIn
  <2>10. StaffHold'
    BY <2>1 DEF IInv, StaffHold
  <2> QED
    BY <2>2, <2>3, <2>6, <2>8, <2>9, <2>10 DEF IInv
<1> QED
  BY <1>1, <1>2

(* Exclusive locks, what is decided behind them, and the sums, at every    *)
(* step.                                                                   *)
THEOREM AfterSalesInvariant == Spec => []IInv
BY StartsRight, StaysRight, PTL DEF Spec

(* What was paid back is recorded, and what is recorded fits the order.    *)
LEMMA PaidWithin ==
  ASSUME IInv
  PROVE  /\ Total(paid) <= Quantity /\ Total(paid) \in Nat
         /\ \A k \in Keys : paid[k] <= refunds[k].n /\ paid[k] <= Total(paid)
<1> DEFINE open == [k \in Keys |-> IF refunds[k].status \in {"initiated", "processed"}
                                     THEN refunds[k].n ELSE 0]
<1>1. Types /\ Already <= Quantity /\ \A k \in Keys : RefundInv(k)
  BY DEF IInv, Rows, Bounds
<1>2. paid \in [Keys -> Nat]
  BY <1>1 DEF Types
<1>3. open \in [Keys -> Nat] /\ Already = Total(open) /\ Already \in Nat
  BY <1>1, SumTypes DEF Already, RefundedIn
<1>4. \A k \in Keys : paid[k] <= refunds[k].n /\ paid[k] <= open[k]
  <2> SUFFICES ASSUME NEW k \in Keys
               PROVE  paid[k] <= refunds[k].n /\ paid[k] <= open[k]
    OBVIOUS
  <2>1. /\ refunds[k].n \in Nat
        /\ refunds[k].status \in {"none", "initiated", "processed", "failed"}
    BY <1>1 DEF Types
  <2>2. /\ paid[k] = 0 \/ paid[k] = refunds[k].n
        /\ refunds[k].status \in {"none", "failed"} => paid[k] = 0
    BY <1>1 DEF RefundInv
  <2> QED
    BY <2>1, <2>2
<1> HIDE DEF open
<1>5. Total(paid) <= Total(open)
  BY <1>2, <1>3, <1>4, Constants, TotalMonotone
<1>6. Total(paid) \in Nat
  BY <1>2, Constants, TotalIsNat
<1>7. \A k \in Keys : paid[k] <= Total(paid)
  BY <1>2, Constants, TotalElement
<1> QED
  BY <1>1, <1>3, <1>4, <1>5, <1>6, <1>7, Constants

(* Rows keep their types, and no refund exceeds the order.                 *)
THEOREM AfterSalesTypes == Spec => []TypeOK
<1>1. IInv => TypeOK
  <2> SUFFICES ASSUME IInv PROVE TypeOK
    OBVIOUS
  <2>1. Types
    BY DEF IInv
  <2>2. \A k \in Keys : paid[k] \in 0..Quantity
    <3>1. \A k \in Keys : paid[k] \in Nat
      BY <2>1 DEF Types
    <3> QED
      BY <3>1, PaidWithin, Constants
  <2>3. paid \in [Keys -> 0..Quantity]
    BY <2>1, <2>2 DEF Types
  <2> QED
    BY <2>1, <2>3 DEF Types, TypeOK
<1> QED
  BY <1>1, AfterSalesInvariant, PTL

(* The boxes of an order hold no more than was ordered                     *)
(* (enforce_shipment_quantity, behind the lock of admin_ship_order).       *)
THEOREM BoxesWithinOrder == Spec => []ShippedWithinOrder
<1>1. IInv => ShippedWithinOrder
  BY DEF IInv, Bounds, ShippedWithinOrder
<1> QED
  BY <1>1, AfterSalesInvariant, PTL

(* A customer who asks for one return after the other sends back no more   *)
(* than was ordered (enforce_return_quantity, admin_receive_return).       *)
THEOREM ReturnsWithinOrder ==
  ASSUME ~AskTogether
  PROVE  Spec => []ReturnedWithinOrder
<1>1. IInv => ReturnedWithinOrder
  <2> SUFFICES ASSUME IInv PROVE returned <= Quantity
    BY DEF ReturnedWithinOrder
  <2>1. Types /\ Asked <= Quantity /\ returned <= Back
    BY DEF IInv, Bounds
  <2> DEFINE f == [r \in Returns |-> IF rets[r].status \in Settled
                                       THEN rets[r].n ELSE 0]
             g == [r \in Returns |-> rets[r].n]
  <2>2. /\ f \in [Returns -> Nat] /\ Back = Total(f) /\ Back \in Nat
        /\ g \in [Returns -> Nat] /\ Asked = Total(g) /\ Asked \in Nat
    BY <2>1, SumTypes DEF Back, Asked
  <2>3. \A r \in Returns : f[r] <= g[r]
    <3>1. \A r \in Returns : rets[r].n \in Nat
      BY <2>1, Constants DEF Types
    <3> QED
      BY <3>1
  <2>4. returned \in Nat
    BY <2>1 DEF Types
  <2> HIDE DEF f, g
  <2>5. Total(f) <= Total(g)
    BY <2>2, <2>3, Constants, TotalMonotone
  <2> QED
    BY <2>1, <2>2, <2>4, <2>5, Constants
<1> QED
  BY <1>1, AfterSalesInvariant, PTL

(* No refund moves its money twice, whatever was retried, lost or died     *)
(* (idempotent, admin_refund, settle_refund).                              *)
THEOREM RefundsMoveMoneyOnce == Spec => []MoneyOnce
<1>1. IInv => MoneyOnce
  BY PaidWithin DEF MoneyOnce
<1> QED
  BY <1>1, AfterSalesInvariant, PTL

(* Goods that are back, or money that has gone, end the return             *)
(* (admin_review_return, admin_receive_return, settle_refund).             *)
THEOREM ReturnsStayFinal == Spec => ReturnFinal
<1> DEFINE Final == \A r \in Returns :
             /\ rets[r].status = "received" =>
                  rets'[r].status \in {"received", "refunded"}
             /\ rets[r].status = "refunded" => rets'[r].status = "refunded"
<1>1. IInv /\ [Next]_vars => [Final]_vars
  <2> SUFFICES ASSUME IInv, Next PROVE Final
    OBVIOUS
  <2>1. PICK s \in Sessions : StepOf(s)
    BY Steps DEF IInv
  <2> QED
    BY <2>1, ClosedStays DEF IInv
<1> QED
  BY <1>1, AfterSalesInvariant, PTL DEF Spec, ReturnFinal

(* The settlement that makes the refunds full says so on the order, and no *)
(* other does (settle_refund).                                             *)
THEOREM FullRefundsShow == Spec => FullyRefunded
<1> DEFINE Shows ==
      LET full == RefundedIn({"processed"}) >= Quantity
      IN  /\ ~full /\ full' => order' = "refunded"
          /\ order' = "refunded" => full'
<1>1. IInv /\ [Next]_vars => [Shows]_vars
  <2> SUFFICES ASSUME IInv, Next PROVE Shows
    OBVIOUS
  <2>1. PICK s \in Sessions : StepOf(s)
    BY Steps DEF IInv
  <2>2. Types'
    BY <2>1, TypesNext DEF IInv
  <2> QED
    BY <2>1, <2>2, FullNext DEF IInv
<1> QED
  BY <1>1, AfterSalesInvariant, PTL DEF Spec, FullyRefunded

(* Staff who ship, track and cancel never wait for each other in a circle: *)
(* each of them locks the order last (admin_update_shipment).              *)
THEOREM StaffGoOn == Spec => []StaffNeverDeadlock
<1>1. IInv => StaffNeverDeadlock
  <2> DEFINE Staff(s) == session[s].call.fn \in
               {"admin_ship_order", "admin_update_shipment", "admin_cancel_order"}
  <2> SUFFICES ASSUME IInv, NEW s \in Sessions, NEW t \in Sessions,
                      Staff(s), Staff(t), WaitsFor(s, t), WaitsFor(t, s)
               PROVE  FALSE
    BY DEF StaffNeverDeadlock
  <2>1. Types /\ Exclusive /\ StaffHold
    BY DEF IInv
  <2>2. ASSUME NEW u \in Sessions, Staff(u), Asking(u)
        PROVE  /\ Wanted(u) = Update("order")
               /\ Held(u) = {Update(session[u].call.row)}
    <3>1. PICK c \in Call : c = session[u].call
      BY <2>1 DEF Types, Session
    <3>2. Writes(c) = <<>>
      BY <2>2, <3>1 DEF Writes
    <3>3. IsRun(c) /\ session[u].locks \in Nat /\ session[u].locks >= 1
      BY <2>1, <2>2, <3>1 DEF Types, IsSession, Session, Asking, StaffHold
    <3>4. Reads(c) \in Seq(SaleLocks)
      BY <3>3, ReadsTake
    <3>5. Reads(c) \o Writes(c) = Reads(c)
      BY <3>2, <3>4
    <3>6. /\ Locks(c, session[u].go) = Reads(c)
          /\ session[u].locks < Len(Reads(c))
      BY <2>2, <3>1, <3>5 DEF Locks, Asking
    <3>7. c.fn = "admin_update_shipment"
      <4>1. c.fn # "admin_update_shipment" => Reads(c) = <<Update("order")>>
        BY <2>2, <3>1 DEF Reads
      <4>2. Len(<<Update("order")>>) = 1
        OBVIOUS
      <4>3. ASSUME c.fn # "admin_update_shipment" PROVE FALSE
        <5>1. Len(Reads(c)) = 1
          BY <4>1, <4>2, <4>3
        <5> QED
          BY <3>3, <3>6, <5>1
      <4> QED
        BY <4>3
    <3>8. Reads(c) = <<Update(c.row), Update("order")>>
      BY <3>7 DEF Reads
    <3>9. session[u].locks = 1
      <4>1. Len(<<Update(c.row), Update("order")>>) = 2
        OBVIOUS
      <4> QED
        BY <3>3, <3>6, <3>8, <4>1
    <3>10. Wanted(u) = Update("order")
      BY <3>1, <3>6, <3>8, <3>9 DEF Wanted
    <3>11. Held(u) = FirstLocks(<<Update(c.row), Update("order")>>, 1)
      BY <3>1, <3>5, <3>8, <3>9 DEF Held
    <3>12. DOMAIN <<Update(c.row), Update("order")>> \cap 1..1 = {1}
      OBVIOUS
    <3> QED
      BY <3>1, <3>10, <3>11, <3>12 DEF FirstLocks
  <2>3. /\ s # t /\ Wanted(s) = Update("order") /\ Wanted(t) = Update("order")
        /\ Held(s) = {Update(session[s].call.row)}
        /\ Held(t) = {Update(session[t].call.row)}
    BY <2>2 DEF WaitsFor
  <2>4. /\ Conflict(Update("order"), Update(session[t].call.row))
        /\ Conflict(Update("order"), Update(session[s].call.row))
    BY <2>3 DEF WaitsFor
  <2>5. session[t].call.row = "order" /\ session[s].call.row = "order"
    BY <2>4 DEF Conflict, Update
  <2>6. Conflict(Update("order"), Update("order"))
    BY UpdateExcludes
  <2> QED
    BY <2>1, <2>3, <2>5, <2>6 DEF Exclusive
<1> QED
  BY <1>1, AfterSalesInvariant, PTL

=============================================================================
