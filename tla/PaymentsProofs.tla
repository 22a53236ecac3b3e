--------------------------- MODULE PaymentsProofs ---------------------------
(***************************************************************************)
(* Proofs about Payments, for every set of orders, gateway orders, payment *)
(* requests, webhook requests and job processes.                           *)
(***************************************************************************)
EXTENDS Payments, OrdersProofs

-----------------------------------------------------------------------------
(* The payment flow only does to the orders what Orders lets happen.       *)

(* A delivery that is applied is a step of Orders, or none.                *)
LEMMA ApplyIsOrderStep ==
  ASSUME NEW e, NEW o \in Orders, Apply(e, o)
  PROVE  [Next]_vars
<1>1. CASE CapturePayment(o, GrandTotal)
  BY <1>1, PaymentsAssumption DEF Next, OrderStep
<1>2. CASE FailPayment(o)
  BY <1>2 DEF Next, OrderStep
<1>3. CASE UNCHANGED vars
  BY <1>3
<1> QED
  BY <1>1, <1>2, <1>3 DEF Apply

(* Every step of the payment flow is a step of Orders, or none.            *)
LEMMA PayStepIsOrderStep ==
  ASSUME [PayNext]_allVars
  PROVE  [Next]_vars
<1>1. ASSUME NEW c \in Sessions, SessionStep(c) PROVE [Next]_vars
  BY <1>1 DEF SessionStep, ReadOrder, ReuseRef, NoRefYet,
     CreateGatewayOrder, AttachRef, SessionFails
<1>2. ASSUME NEW g \in GatewayIds, CustomerPays(g) \/ CustomerIsDeclined(g)
      PROVE  [Next]_vars
  BY <1>2 DEF CustomerPays, CustomerIsDeclined
<1>3. ASSUME NEW w \in Workers, WorkerStep(w) PROVE [Next]_vars
  <2>1. CASE Act(w)
    <3>1. PICK o \in Orders : Apply(worker[w].event, o)
      BY <2>1 DEF Act
    <3> QED
      BY <3>1, ApplyIsOrderStep
  <2>2. CASE ~Act(w)
    BY <1>3, <2>2 DEF WorkerStep, Proceed, ActFails, Mark, MarkFails,
       MarkError, Crash, Deliver, RedriveSelect, RedriveClaim,
     ClaimFails
  <2> QED
    BY <2>1, <2>2
<1>4. ASSUME NEW e \in Events, SweepWebhookEvents(e) PROVE [Next]_vars
  BY <1>4 DEF SweepWebhookEvents
<1>5. CASE StoreStep
  BY <1>5 DEF StoreStep, Next, OrderStep
<1>6. CASE UNCHANGED allVars
  BY <1>6 DEF allVars
<1> QED
  BY <1>1, <1>2, <1>3, <1>4, <1>5, <1>6 DEF PayNext

(* PaySpec refines Orders!Spec: every theorem about Orders is one about    *)
(* the orders that are paid through the payment routes and the webhooks.   *)
THEOREM PaymentsUseOrders == PaySpec => OrdersAreUsed
<1>1. PayInit => Init
  BY DEF PayInit
<1>2. [PayNext]_allVars => [Next]_vars
  BY PayStepIsOrderStep
<1> QED
  BY <1>1, <1>2, PTL DEF PaySpec, OrdersAreUsed, Spec

-----------------------------------------------------------------------------
(* Types.  A request that is under way has an order, one that is about to  *)
(* attach a gateway order has opened it for that order, and a worker that  *)
(* is not idle has an event: without this the types are not inductive.     *)

SessionInv ==
  \A c \in Sessions :
    /\ session[c].pc # "idle" => session[c].order \in Orders
    /\ session[c].pc = "attach" => /\ session[c].gid \in GatewayIds
                                   /\ opened[session[c].gid] = session[c].order

WorkerInv ==
  \A w \in Workers : worker[w].pc # "idle" => worker[w].event \in Events

WellFormed == PayTypeOK /\ SessionInv /\ WorkerInv

(* A payment request keeps the types. *)
LEMMA SessionTypes ==
  ASSUME WellFormed, NEW c \in Sessions, SessionStep(c)
  PROVE  WellFormed'
<1> USE DEF WellFormed, PayTypeOK, SessionInv, WorkerInv
<1>1. ASSUME NEW o \in Orders, ReadOrder(c, o) PROVE WellFormed'
  BY <1>1 DEF ReadOrder, Idle
<1>2. CASE ReuseRef(c)
  <2>1. ref[session[c].order] \in GatewayIds
    BY <1>2 DEF ReuseRef
  <2> QED
    BY <1>2, <2>1 DEF ReuseRef, Idle
<1>3. CASE NoRefYet(c)
  BY <1>3 DEF NoRefYet
<1>4. ASSUME NEW g \in GatewayIds, CreateGatewayOrder(c, g) PROVE WellFormed'
  <2>1. session[c].order \in Orders
    BY <1>4 DEF CreateGatewayOrder
  <2> DEFINE Request == [pc    : {"idle", "read", "create", "attach"},
                         order : Orders \cup {None},
                         gid   : GatewayIds \cup {None}]
  <2>3. session' \in [Sessions -> Request]
    <3>1. session[c] \in Request
      OBVIOUS
    <3>2. \A s \in Request : [s EXCEPT !.pc = "attach", !.gid = g] \in Request
      OBVIOUS
    <3> QED
      BY <1>4, <3>1, <3>2 DEF CreateGatewayOrder
  <2>4. opened' \in [GatewayIds -> Orders \cup {None}]
    BY <1>4, <2>1 DEF CreateGatewayOrder
  <2>5. session'[c].gid = g /\ session'[c].order = session[c].order
    BY <1>4 DEF CreateGatewayOrder
  <2>6. \A d \in Sessions : d # c => session'[d] = session[d]
    BY <1>4 DEF CreateGatewayOrder
  <2>7. /\ opened'[g] = session[c].order
        /\ \A h \in GatewayIds : opened[h] \in Orders => opened'[h] = opened[h]
    BY <1>4, PaymentsAssumption DEF CreateGatewayOrder
  <2>8. SessionInv'
    BY <2>1, <2>5, <2>6, <2>7
  <2> QED
    BY <1>4, <2>3, <2>4, <2>8 DEF CreateGatewayOrder
<1>5. CASE AttachRef(c)
  <2>1. ref' \in [Orders -> GatewayIds \cup {None}]
    BY <1>5 DEF AttachRef, Attached
  <2> QED
    BY <1>5, <2>1 DEF AttachRef, Idle
<1>6. CASE SessionFails(c)
  BY <1>6 DEF SessionFails, Idle
<1> QED
  BY <1>1, <1>2, <1>3, <1>4, <1>5, <1>6 DEF SessionStep

(* What claiming a delivery does keeps the types. *)
LEMMA ClaimTypes ==
  ASSUME WellFormed, NEW w \in Workers, NEW e \in Events,
         NEW batch \in SUBSET Events, Claim(w, e, batch),
         UNCHANGED <<ref, opened, offered, emitted, session>>
  PROVE  WellFormed'
<1> USE DEF WellFormed, PayTypeOK, SessionInv, WorkerInv
<1>1. events' \in [Events -> [attempts : Nat, processed : BOOLEAN]]
  BY DEF Claim, Recorded
<1> QED
  BY <1>1 DEF Claim, Waiting

(* A webhook request or a redrive keeps the types. *)
LEMMA WorkerTypes ==
  ASSUME WellFormed, NEW w \in Workers, WorkerStep(w)
  PROVE  WellFormed'
<1> USE DEF WellFormed, PayTypeOK, SessionInv, WorkerInv
<1>1. CASE Act(w)
  BY <1>1 DEF Act
<1>2. CASE ActFails(w)
  BY <1>2 DEF ActFails
<1>3. CASE Mark(w)
  BY <1>3 DEF Mark, Done, Waiting
<1>4. CASE MarkFails(w)
  BY <1>4 DEF MarkFails
<1>5. CASE MarkError(w)
  BY <1>5 DEF MarkError, Done, Waiting
<1>6. CASE Crash(w)
  BY <1>6 DEF Crash, Waiting
<1>7. ASSUME NEW e \in Events, Deliver(w, e) PROVE WellFormed'
  BY <1>7, ClaimTypes DEF Deliver
<1>8. CASE RedriveSelect(w)
  BY <1>8 DEF RedriveSelect, Unprocessed
<1>9. ASSUME NEW e \in Events, RedriveClaim(w, e) PROVE WellFormed'
  BY <1>9, ClaimTypes DEF RedriveClaim
<1>10. ASSUME NEW e \in Events, ClaimFails(w, e) PROVE WellFormed'
  BY <1>10 DEF ClaimFails
<1> QED
  BY <1>1, <1>2, <1>3, <1>4, <1>5, <1>6, <1>7, <1>8, <1>9, <1>10
     DEF WorkerStep, Proceed

(* Types and what goes with them hold in every state. *)
THEOREM PayWellFormed == PaySpec => []WellFormed
<1>1. PayInit => WellFormed
  BY DEF PayInit, WellFormed, PayTypeOK, SessionInv, WorkerInv, Idle, Waiting,
     NoEvent
<1>2. ASSUME WellFormed, [PayNext]_allVars PROVE WellFormed'
  <2> USE DEF WellFormed, PayTypeOK, SessionInv, WorkerInv
  <2>1. ASSUME NEW g \in GatewayIds, CustomerPays(g) PROVE WellFormed'
    BY <1>2, <2>1 DEF CustomerPays, Captured, Events
  <2>2. ASSUME NEW g \in GatewayIds, CustomerIsDeclined(g) PROVE WellFormed'
    BY <1>2, <2>2 DEF CustomerIsDeclined, Declined, Events
  <2>3. ASSUME NEW e \in Events, SweepWebhookEvents(e) PROVE WellFormed'
    BY <1>2, <2>3 DEF SweepWebhookEvents, NoEvent
  <2>4. CASE StoreStep
    BY <1>2, <2>4 DEF StoreStep, payVars
  <2>5. CASE UNCHANGED allVars
    BY <1>2, <2>5 DEF allVars, payVars
  <2> QED
    BY <1>2, <2>1, <2>2, <2>3, <2>4, <2>5, SessionTypes, WorkerTypes
       DEF PayNext
<1> QED
  BY <1>1, <1>2, PTL DEF PaySpec

(* Every column, every request and every worker keeps its type.            *)
THEOREM PayTypeCorrect == PaySpec => []PayTypeOK
<1>1. WellFormed => PayTypeOK
  BY DEF WellFormed
<1> QED
  BY <1>1, PayWellFormed, PTL

-----------------------------------------------------------------------------
(* What every step leaves as it is. *)

(* A reference that is there stays.                                        *)
LEMMA RefKept ==
  ASSUME WellFormed, [PayNext]_allVars, NEW o \in Orders, ref[o] # None
  PROVE  ref'[o] = ref[o]
<1>1. ASSUME NEW c \in Sessions, SessionStep(c) PROVE ref'[o] = ref[o]
  <2>1. CASE AttachRef(c)
    BY <2>1 DEF AttachRef, Attached, WellFormed, PayTypeOK
  <2>2. CASE ~AttachRef(c)
    BY <1>1, <2>2 DEF SessionStep, ReadOrder, ReuseRef, NoRefYet,
       CreateGatewayOrder, SessionFails
  <2> QED
    BY <2>1, <2>2
<1>2. ASSUME NEW w \in Workers, WorkerStep(w) PROVE ref'[o] = ref[o]
  BY <1>2 DEF WorkerStep, Proceed, Act, ActFails, Mark, MarkFails, MarkError,
     Crash, Deliver, RedriveSelect, RedriveClaim,
     ClaimFails
<1>3. ASSUME NEW g \in GatewayIds, CustomerPays(g) \/ CustomerIsDeclined(g)
      PROVE  ref'[o] = ref[o]
  BY <1>3 DEF CustomerPays, CustomerIsDeclined
<1>4. ASSUME NEW e \in Events, SweepWebhookEvents(e) PROVE ref'[o] = ref[o]
  BY <1>4 DEF SweepWebhookEvents
<1>5. CASE StoreStep
  BY <1>5 DEF StoreStep, payVars
<1>6. CASE UNCHANGED allVars
  BY <1>6 DEF allVars, payVars
<1> QED
  BY <1>1, <1>2, <1>3, <1>4, <1>5, <1>6 DEF PayNext

(* attach_payment_ref never replaces a reference, whoever comes second.    *)
THEOREM RefsStay == PaySpec => RefStays
<1>1. WellFormed /\ [PayNext]_allVars
        => [\A o \in Orders : ref[o] # None => ref'[o] = ref[o]]_allVars
  BY RefKept
<1> QED
  BY <1>1, PayWellFormed, PTL DEF PaySpec, RefStays

(* Orders leave "none" and "pending" for good. *)
LEMMA StatusAdvances ==
  ASSUME TypeOK, [Next]_vars, NEW o \in Orders
  PROVE  /\ status[o] # "none" => status'[o] # "none"
         /\ status[o] \notin {"none", "pending"}
              => status'[o] \notin {"none", "pending"}
<1> USE DEF TypeOK, Statuses
<1>1. ASSUME NEW p \in Orders, OrderStep(p)
      PROVE  /\ status[o] # "none" => status'[o] # "none"
             /\ status[o] \notin {"none", "pending"}
                  => status'[o] \notin {"none", "pending"}
  BY <1>1 DEF OrderStep, Checkout, CapturePayment, FailPayment,
     AdminCaptureCod, AdminCancelOrder, CancelOwnOrder, AdminShipOrder, Lapse
<1>2. ASSUME NEW v \in Variants, NEW q \in Adjustments,
             RecordStockMovement(v, q)
      PROVE  status' = status
  BY <1>2 DEF RecordStockMovement
<1>3. ASSUME NEW s \in Sweepers, SweepStep(s) PROVE status' = status
  BY <1>3 DEF SweepStep, SweepRead, SweepWrite, SweepConflict, SweepCrash
<1>4. CASE UNCHANGED vars
  BY <1>4 DEF vars
<1> QED
  BY <1>1, <1>2, <1>3, <1>4 DEF Next

-----------------------------------------------------------------------------
(* What the gateway has taken *)

(* An order that was not placed has no razorpay row, and nothing has been  *)
(* captured for one that is not paid yet.                                  *)
Untouched ==
  \A o \in Orders :
    /\ status[o] = "none" => payments[o]["razorpay"].status = "none"
    /\ status[o] \in {"none", "pending"} => taken[o] = 0

(* Every capture moves its order out of "pending". *)
LEMMA UntouchedInvariant == Spec => []Untouched
<1>1. Init => Untouched
  BY DEF Init, Untouched, NoRow, Providers
<1>2. ASSUME TypeOK, Untouched, [Next]_vars PROVE Untouched'
  <2> USE DEF TypeOK, Statuses, Untouched
  <2>1. ASSUME NEW o \in Orders, NEW m \in Methods, NEW b \in Baskets,
               NEW c \in Credits, Checkout(o, m, b, c)
        PROVE  Untouched'
    BY <1>2, <2>1 DEF Checkout
  <2>2. ASSUME NEW o \in Orders, NEW amount \in Captures,
               CapturePayment(o, amount)
        PROVE  Untouched'
    BY <1>2, <2>2 DEF CapturePayment
  <2>3. ASSUME NEW o \in Orders,
               \/ FailPayment(o)
               \/ AdminCaptureCod(o)
               \/ AdminCancelOrder(o)
               \/ CancelOwnOrder(o)
               \/ \E box \in Baskets : AdminShipOrder(o, box)
               \/ Lapse(o)
        PROVE  Untouched'
    BY <1>2, <2>3 DEF FailPayment, AdminCaptureCod, AdminCancelOrder,
       CancelOwnOrder, AdminShipOrder, Lapse
  <2>4. ASSUME NEW v \in Variants, NEW q \in Adjustments,
               RecordStockMovement(v, q)
        PROVE  Untouched'
    BY <1>2, <2>4 DEF RecordStockMovement
  <2>5. ASSUME NEW s \in Sweepers, SweepStep(s) PROVE Untouched'
    BY <1>2, <2>5 DEF SweepStep, SweepRead, SweepWrite, SweepConflict,
       SweepCrash
  <2>6. CASE UNCHANGED vars
    BY <1>2, <2>6 DEF vars
  <2> QED
    BY <1>2, <2>1, <2>2, <2>3, <2>4, <2>5, <2>6 DEF Next, OrderStep
<1> QED
  BY <1>1, <1>2, TypeCorrect, PTL DEF Spec

(* A reference names a gateway order that was opened for the order it is   *)
(* attached to, and only orders that were placed have one.                 *)
LinkInv ==
  \A o \in Orders :
    ref[o] # None => opened[ref[o]] = o /\ status[o] # "none"

(* What is recorded or worked on was sent by the gateway.                  *)
TrailInv ==
  /\ \A w \in Workers : worker[w].pc # "idle" => worker[w].event \in emitted
  /\ \A w \in Workers : worker[w].batch \subseteq emitted
  /\ \A e \in Events : events[e].attempts > 0 => e \in emitted

(* The capture e has reached the order it is for.                          *)
Applied(e) ==
  e.kind = "payment.captured"
    => \E o \in Orders : Resolves(e, o) /\ status[o] \notin {"none", "pending"}

(* A worker that has acted, and a delivery marked processed, are applied.  *)
DoneInv ==
  /\ \A w \in Workers : worker[w].pc = "acted" => Applied(worker[w].event)
  /\ \A e \in Events : events[e].processed => Applied(e)

PayInv == LinkInv /\ TrailInv /\ CapturedWasPaid /\ DoneInv

(* What was applied stays applied. *)
LEMMA AppliedStays ==
  ASSUME TypeOK, WellFormed, [PayNext]_allVars, NEW e \in Events, Applied(e)
  PROVE  Applied(e)'
<1>1. SUFFICES ASSUME e.kind = "payment.captured" PROVE Applied(e)'
  BY DEF Applied
<1>2. PICK o \in Orders : /\ Resolves(e, o)
                          /\ status[o] \notin {"none", "pending"}
  BY <1>1 DEF Applied
<1>3. ref[o] # None
  BY <1>2, PaymentsAssumption DEF Resolves, Events
<1>4. ref'[o] = ref[o]
  BY <1>3, RefKept
<1>5. status'[o] \notin {"none", "pending"}
  BY <1>2, PayStepIsOrderStep, StatusAdvances
<1> QED
  BY <1>2, <1>4, <1>5 DEF Applied, Resolves

(* References stay linked: attaching links a gateway order to the order it *)
(* was opened for.                                                         *)
LEMMA LinkStays ==
  ASSUME TypeOK, Untouched, WellFormed, LinkInv, [PayNext]_allVars
  PROVE  LinkInv'
<1> USE DEF WellFormed, PayTypeOK
<1>1. \A o \in Orders : status[o] # "none" => status'[o] # "none"
  BY PayStepIsOrderStep, StatusAdvances
<1>2. ASSUME NEW c \in Sessions, AttachRef(c) PROVE LinkInv'
  <2>1. /\ session[c].order \in Orders
        /\ session[c].gid \in GatewayIds
        /\ opened[session[c].gid] = session[c].order
    BY <1>2 DEF AttachRef, SessionInv
  <2>2. ref' # ref => status[session[c].order] # "none"
    BY <1>2, <2>1 DEF AttachRef, Attached, Untouched
  <2>3. \A o \in Orders : \/ ref'[o] = ref[o]
                          \/ /\ o = session[c].order
                             /\ ref'[o] = session[c].gid
    BY <1>2, <2>1 DEF AttachRef, Attached
  <2>4. UNCHANGED <<opened, vars>>
    BY <1>2 DEF AttachRef
  <2>5. \A o \in Orders : ref'[o] # ref[o] => ref' # ref
    OBVIOUS
  <2>6. UNCHANGED status
    BY <2>4 DEF vars
  <2> QED
    BY <2>1, <2>2, <2>3, <2>4, <2>5, <2>6 DEF LinkInv
<1>3. ASSUME NEW c \in Sessions, NEW g \in GatewayIds, CreateGatewayOrder(c, g)
      PROVE  LinkInv'
  <2>1. \A h \in GatewayIds : opened[h] \in Orders => opened'[h] = opened[h]
    BY <1>3, PaymentsAssumption DEF CreateGatewayOrder
  <2>2. UNCHANGED <<ref, vars>>
    BY <1>3 DEF CreateGatewayOrder
  <2> QED
    BY <2>1, <2>2 DEF LinkInv, vars
<1>4. CASE UNCHANGED <<ref, opened>>
  BY <1>1, <1>4 DEF LinkInv
<1>5. ASSUME NEW c \in Sessions, SessionStep(c) PROVE LinkInv'
  BY <1>2, <1>3, <1>4, <1>5 DEF SessionStep, ReadOrder, ReuseRef, NoRefYet,
     SessionFails
<1>6. ASSUME NEW w \in Workers, WorkerStep(w) PROVE LinkInv'
  BY <1>4, <1>6 DEF WorkerStep, Proceed, Act, ActFails, Mark, MarkFails,
     MarkError, Crash, Deliver, RedriveSelect, RedriveClaim,
     ClaimFails
<1>7. ASSUME NEW g \in GatewayIds, CustomerPays(g) \/ CustomerIsDeclined(g)
      PROVE  LinkInv'
  BY <1>4, <1>7 DEF CustomerPays, CustomerIsDeclined
<1>8. ASSUME NEW e \in Events, SweepWebhookEvents(e) PROVE LinkInv'
  BY <1>4, <1>8 DEF SweepWebhookEvents
<1>9. CASE StoreStep \/ UNCHANGED allVars
  BY <1>4, <1>9 DEF StoreStep, allVars, payVars
<1> QED
  BY <1>5, <1>6, <1>7, <1>8, <1>9 DEF PayNext

(* Nothing is recorded or worked on that the gateway did not send.         *)
LEMMA TrailStays ==
  ASSUME WellFormed, TrailInv, [PayNext]_allVars
  PROVE  TrailInv'
<1> USE DEF WellFormed, PayTypeOK
<1>1. ASSUME NEW w \in Workers, NEW e \in Events, NEW batch,
             e \in emitted, batch \subseteq emitted, Claim(w, e, batch),
             UNCHANGED emitted
      PROVE  TrailInv'
  <2>1. \A f \in Events : f # e => events'[f] = events[f]
    BY <1>1 DEF Claim, Recorded
  <2>2. \A v \in Workers : v # w => worker'[v] = worker[v]
    BY <1>1 DEF Claim
  <2>3. /\ worker'[w].pc # "idle" => worker'[w].event = e
        /\ worker'[w].batch = batch
    BY <1>1 DEF Claim, Waiting
  <2> QED
    BY <1>1, <2>1, <2>2, <2>3 DEF TrailInv
<1>2. ASSUME NEW w \in Workers, WorkerStep(w) PROVE TrailInv'
  <2>1. ASSUME NEW e \in Events, Deliver(w, e) PROVE TrailInv'
    BY <1>1, <2>1 DEF Deliver
  <2>2. ASSUME NEW e \in Events, RedriveClaim(w, e) PROVE TrailInv'
    BY <1>1, <2>2 DEF RedriveClaim, TrailInv
  <2>3. CASE RedriveSelect(w)
    BY <2>3 DEF RedriveSelect, Unprocessed, TrailInv
  <2>4. CASE Act(w) \/ ActFails(w) \/ MarkFails(w)
    <3>1. worker[w].pc # "idle" /\ UNCHANGED <<events, emitted>>
      BY <2>4 DEF Act, ActFails, MarkFails
    <3>2. \A v \in Workers : /\ worker'[v].event = worker[v].event
                             /\ worker'[v].batch = worker[v].batch
                             /\ v # w => worker'[v] = worker[v]
      BY <2>4 DEF Act, ActFails, MarkFails
    <3> QED
      BY <3>1, <3>2 DEF TrailInv
  <2>5. CASE Mark(w)
    BY <2>5 DEF Mark, Done, Waiting, TrailInv, WorkerInv
  <2>6. CASE MarkError(w) \/ Crash(w) \/ \E e \in Events : ClaimFails(w, e)
    <3>1. UNCHANGED <<events, emitted>>
      BY <2>6 DEF MarkError, Crash, ClaimFails
    <3>2. \A v \in Workers : v # w => worker'[v] = worker[v]
      BY <2>6 DEF MarkError, Crash, ClaimFails
    <3>3. worker'[w].pc = "idle" /\ worker'[w].batch \subseteq worker[w].batch
      BY <2>6 DEF MarkError, Crash, ClaimFails, Done, Waiting
    <3> QED
      BY <3>1, <3>2, <3>3 DEF TrailInv
  <2> QED
    BY <1>2, <2>1, <2>2, <2>3, <2>4, <2>5, <2>6 DEF WorkerStep, Proceed
<1>3. ASSUME NEW c \in Sessions, SessionStep(c) PROVE TrailInv'
  BY <1>3 DEF SessionStep, ReadOrder, ReuseRef, NoRefYet, CreateGatewayOrder,
     AttachRef, SessionFails, TrailInv
<1>4. ASSUME NEW g \in GatewayIds, CustomerPays(g) \/ CustomerIsDeclined(g)
      PROVE  TrailInv'
  BY <1>4 DEF CustomerPays, CustomerIsDeclined, TrailInv
<1>5. ASSUME NEW e \in Events, SweepWebhookEvents(e) PROVE TrailInv'
  BY <1>5 DEF SweepWebhookEvents, NoEvent, TrailInv
<1>6. CASE StoreStep \/ UNCHANGED allVars
  BY <1>6 DEF StoreStep, allVars, payVars, TrailInv
<1> QED
  BY <1>2, <1>3, <1>4, <1>5, <1>6 DEF PayNext

(* The gateway forgets no event it has to deliver. *)
LEMMA EmittedGrows ==
  ASSUME [PayNext]_allVars
  PROVE  emitted \subseteq emitted'
<1>1. ASSUME NEW g \in GatewayIds, CustomerPays(g) \/ CustomerIsDeclined(g)
      PROVE  emitted \subseteq emitted'
  BY <1>1 DEF CustomerPays, CustomerIsDeclined
<1>2. ASSUME NEW c \in Sessions, SessionStep(c) PROVE emitted' = emitted
  BY <1>2 DEF SessionStep, ReadOrder, ReuseRef, NoRefYet, CreateGatewayOrder,
     AttachRef, SessionFails
<1>3. ASSUME NEW w \in Workers, WorkerStep(w) PROVE emitted' = emitted
  BY <1>3 DEF WorkerStep, Proceed, Act, ActFails, Mark, MarkFails, MarkError,
     Crash, Deliver, RedriveSelect, RedriveClaim,
     ClaimFails
<1>4. ASSUME NEW e \in Events, SweepWebhookEvents(e) PROVE emitted' = emitted
  BY <1>4 DEF SweepWebhookEvents
<1>5. CASE StoreStep \/ UNCHANGED allVars
  BY <1>5 DEF StoreStep, allVars, payVars
<1> QED
  BY <1>1, <1>2, <1>3, <1>4, <1>5 DEF PayNext

(* Only a capture the gateway sent makes the gateway's money arrive, and   *)
(* only on the pending order its reference is attached to.                 *)
LEMMA TakenStep ==
  ASSUME TypeOK, Untouched, WellFormed, TrailInv, [PayNext]_allVars,
         NEW o \in Orders, taken'[o] # taken[o]
  PROVE  /\ taken'[o] = GrandTotal
         /\ ref[o] # None
         /\ Captured(ref[o]) \in emitted
<1>1. ASSUME NEW c \in Sessions, SessionStep(c) PROVE taken' = taken
  BY <1>1 DEF SessionStep, ReadOrder, ReuseRef, NoRefYet, CreateGatewayOrder,
     AttachRef, SessionFails, vars
<1>2. ASSUME NEW g \in GatewayIds, CustomerPays(g) \/ CustomerIsDeclined(g)
      PROVE  taken' = taken
  BY <1>2 DEF CustomerPays, CustomerIsDeclined, vars
<1>3. ASSUME NEW e \in Events, SweepWebhookEvents(e) PROVE taken' = taken
  BY <1>3 DEF SweepWebhookEvents, vars
<1>4. ASSUME StoreStep PROVE taken' = taken
  BY <1>4 DEF StoreStep, Checkout, AdminCaptureCod, AdminCancelOrder,
     CancelOwnOrder, AdminShipOrder, Lapse, RecordStockMovement, SweepStep,
     SweepRead, SweepWrite, SweepConflict, SweepCrash
<1>5. ASSUME UNCHANGED allVars PROVE taken' = taken
  BY <1>5 DEF allVars, vars
<1>6. PICK w \in Workers : WorkerStep(w)
  BY <1>1, <1>2, <1>3, <1>4, <1>5 DEF PayNext
<1>7. Act(w)
  BY <1>6 DEF WorkerStep, Proceed, ActFails, Mark, MarkFails, MarkError,
     Crash, Deliver, RedriveSelect, RedriveClaim,
     ClaimFails, vars
<1> DEFINE e == worker[w].event
<1>8. e \in Events /\ e \in emitted
  BY <1>7 DEF Act, WellFormed, WorkerInv, TrailInv
<1>9. PICK p \in Orders : Resolves(e, p) /\ Apply(e, p)
  BY <1>7 DEF Act
<1>10. e.kind = "payment.captured" /\ CapturePayment(p, GrandTotal)
  BY <1>9 DEF Apply, FailPayment, vars
<1>11. p = o /\ taken[o] = 0 /\ taken'[o] = GrandTotal
  BY <1>10, OrdersAssumption DEF CapturePayment, TypeOK, Untouched
<1>12. ref[o] = e.gid /\ e.gid \in GatewayIds
  BY <1>8, <1>9, <1>11, PaymentsAssumption DEF Resolves, Events
<1>13. e = Captured(ref[o])
  BY <1>8, <1>10, <1>12 DEF Captured, Events
<1> QED
  BY <1>8, <1>11, <1>12, <1>13, PaymentsAssumption

(* The store and the gateway stay in agreement. *)
LEMMA CapturedStays ==
  ASSUME TypeOK, Untouched, WellFormed, LinkInv, TrailInv, CapturedWasPaid,
         [PayNext]_allVars
  PROVE  CapturedWasPaid'
<1> SUFFICES ASSUME NEW o \in Orders, taken'[o] # 0
             PROVE  /\ taken'[o] = GrandTotal
                    /\ ref'[o] # None
                    /\ opened'[ref'[o]] = o
                    /\ Captured(ref'[o]) \in emitted'
  BY DEF CapturedWasPaid, Captured
<1>1. /\ taken'[o] = GrandTotal
      /\ ref[o] # None
      /\ Captured(ref[o]) \in emitted
  BY TakenStep DEF CapturedWasPaid
<1>2. ref'[o] = ref[o]
  BY <1>1, RefKept
<1>3. LinkInv'
  BY LinkStays
<1> QED
  BY <1>1, <1>2, <1>3, EmittedGrows DEF LinkInv

(* What a worker has applied, and what it marks, is applied. *)
LEMMA DoneStays ==
  ASSUME TypeOK, WellFormed, LinkInv, DoneInv, [PayNext]_allVars
  PROVE  DoneInv'
<1> USE DEF WellFormed, PayTypeOK
<1>1. \A e \in Events : Applied(e) => Applied(e)'
  BY AppliedStays
<1>2. CASE UNCHANGED <<events, worker>>
  BY <1>1, <1>2 DEF DoneInv, WorkerInv
<1>3. ASSUME NEW w \in Workers, Act(w) PROVE DoneInv'
  <2>1. PICK e \in Events : e = worker[w].event
    BY <1>3 DEF Act, WorkerInv
  <2>2. PICK o \in Orders : Resolves(e, o) /\ Apply(e, o)
    BY <1>3, <2>1 DEF Act
  <2>3. ref[o] # None /\ status[o] # "none"
    BY <2>1, <2>2, PaymentsAssumption DEF Resolves, Events, LinkInv
  <2>4. e.kind = "payment.captured" => status'[o] \notin {"none", "pending"}
    BY <2>2, <2>3 DEF Apply, CapturePayment, TypeOK, vars
  <2>5. ref'[o] = ref[o]
    BY <2>3, RefKept
  <2>6. Applied(e)'
    BY <2>2, <2>4, <2>5 DEF Applied, Resolves
  <2>7. /\ worker'[w].event = e
        /\ \A v \in Workers : v # w => worker'[v] = worker[v]
        /\ events' = events
    BY <1>3, <2>1 DEF Act
  <2> QED
    BY <1>1, <2>6, <2>7 DEF DoneInv, WorkerInv
<1>4. ASSUME NEW w \in Workers,
             \A v \in Workers : v # w => worker'[v] = worker[v],
             worker'[w].pc # "acted",
             \A e \in Events : events'[e].processed
               => events[e].processed \/ Applied(e)
      PROVE  DoneInv'
  BY <1>1, <1>4 DEF DoneInv, WorkerInv
<1>5. ASSUME NEW w \in Workers, NEW e \in Events, NEW batch,
             Claim(w, e, batch)
      PROVE  DoneInv'
  <2>1. \A f \in Events : events'[f].processed => events[f].processed
    BY <1>5 DEF Claim, Recorded
  <2>2. worker'[w].pc # "acted"
    BY <1>5 DEF Claim, Waiting
  <2>3. \A v \in Workers : v # w => worker'[v] = worker[v]
    BY <1>5 DEF Claim
  <2> QED
    BY <1>4, <2>1, <2>2, <2>3
<1>6. ASSUME NEW w \in Workers, Mark(w) PROVE DoneInv'
  <2>1. Applied(worker[w].event)
    BY <1>6 DEF Mark, DoneInv
  <2>2. \A e \in Events : events'[e].processed
          => events[e].processed \/ Applied(e)
    BY <1>6, <2>1 DEF Mark
  <2>3. /\ worker'[w].pc # "acted"
        /\ \A v \in Workers : v # w => worker'[v] = worker[v]
    BY <1>6 DEF Mark, Done, Waiting
  <2> QED
    BY <1>4, <2>2, <2>3
<1>7. ASSUME NEW w \in Workers,
             \/ ActFails(w)
             \/ MarkFails(w)
             \/ MarkError(w)
             \/ Crash(w)
             \/ RedriveSelect(w)
             \/ \E e \in Events : ClaimFails(w, e)
      PROVE  DoneInv'
  <2>1. /\ worker'[w].pc # "acted"
        /\ \A v \in Workers : v # w => worker'[v] = worker[v]
        /\ events' = events
    BY <1>7 DEF ActFails, MarkFails, MarkError, Crash, RedriveSelect,
       ClaimFails, Done, Waiting
  <2> QED
    BY <1>4, <2>1
<1>8. ASSUME NEW w \in Workers, WorkerStep(w) PROVE DoneInv'
  BY <1>3, <1>5, <1>6, <1>7, <1>8 DEF WorkerStep, Proceed, Deliver,
     RedriveClaim
<1>9. ASSUME NEW c \in Sessions, SessionStep(c) PROVE DoneInv'
  BY <1>2, <1>9 DEF SessionStep, ReadOrder, ReuseRef, NoRefYet,
     CreateGatewayOrder, AttachRef, SessionFails
<1>10. ASSUME NEW g \in GatewayIds, CustomerPays(g) \/ CustomerIsDeclined(g)
       PROVE  DoneInv'
  BY <1>2, <1>10 DEF CustomerPays, CustomerIsDeclined
<1>11. ASSUME NEW e \in Events, SweepWebhookEvents(e) PROVE DoneInv'
  <2>1. \A f \in Events : events'[f].processed => events[f].processed
    BY <1>11 DEF SweepWebhookEvents, NoEvent
  <2>2. worker' = worker
    BY <1>11 DEF SweepWebhookEvents
  <2> QED
    BY <1>1, <2>1, <2>2 DEF DoneInv, WorkerInv
<1>12. CASE StoreStep \/ UNCHANGED allVars
  BY <1>2, <1>12 DEF StoreStep, allVars, payVars
<1> QED
  BY <1>8, <1>9, <1>10, <1>11, <1>12 DEF PayNext

(* The invariant behind the two theorems below. *)
THEOREM PayInvariant == PaySpec => []PayInv
<1>1. PayInit => PayInv
  BY DEF PayInit, Init, PayInv, LinkInv, TrailInv, DoneInv, CapturedWasPaid,
     Waiting, NoEvent
<1>2. TypeOK /\ Untouched /\ WellFormed /\ PayInv /\ [PayNext]_allVars
        => PayInv'
  BY LinkStays, TrailStays, CapturedStays, DoneStays DEF PayInv
<1>3. PaySpec => [](TypeOK /\ Untouched)
  BY PaymentsUseOrders, TypeCorrect, UntouchedInvariant, PTL DEF OrdersAreUsed
<1> QED
  BY <1>1, <1>2, <1>3, PayWellFormed, PTL DEF PaySpec

(* The store and the gateway agree on what was paid (CapturedWasPaid).     *)
THEOREM CapturesWerePaid == PaySpec => []CapturedWasPaid
<1>1. PayInv => CapturedWasPaid
  BY DEF PayInv
<1> QED
  BY <1>1, PayInvariant, PTL

(* No capture counts as processed before it reached its order.             *)
THEOREM ProcessedWasApplied == PaySpec => []ProcessedIsApplied
<1>1. PayInv => ProcessedIsApplied
  BY DEF PayInv, DoneInv, Applied, ProcessedIsApplied
<1> QED
  BY <1>1, PayInvariant, PTL

(* The ledger keeps its promises in the payment flow too: what is proved   *)
(* of Orders is inherited.                                                 *)
THEOREM PaymentsKeepLedger ==
  PaySpec => []LedgerMatchesStatus /\ SettledLedgerIsFrozen
             /\ CapturedRowsStay /\ ClaimsKept
BY PaymentsUseOrders, LedgerAgrees, SettledFrozen, CapturedRowsAreFinal,
   OrdersKeepClaims DEF OrdersAreUsed

(* Nor does any order of deliveries, redrives and payment requests sell    *)
(* units that are not there, in a store without COD orders that ships only *)
(* what is paid.                                                           *)
THEOREM PaymentsCoverShelf ==
  ASSUME CodPressedFor = {}, ShipFrom \subseteq {"paid", "shipped"}
  PROVE  PaySpec => []ShelfCoversOrders
BY PaymentsUseOrders, ShelfCovers DEF OrdersAreUsed

=============================================================================
