------------------------------ MODULE Payments ------------------------------
(***************************************************************************)
(* Paying an order through the gateway: POST /payments/razorpay/order,     *)
(* POST /webhooks/razorpay and the job that redrives deliveries, over the  *)
(* webhook_events table and payments.provider_ref, composed with Orders.   *)
(*                                                                         *)
(* Every await of the TypeScript handlers is a step of its own: between    *)
(* two of them another request, the job loop or a crash can come.  The     *)
(* gateway is outside the repository: a customer can pay every gateway     *)
(* order that was handed to a browser, at most once, and its events are    *)
(* delivered in any order, at least once and perhaps more often.           *)
(***************************************************************************)
EXTENDS Orders

CONSTANTS
  Sessions,      \* requests to POST /payments/razorpay/order
  Requests,      \* requests to POST /webhooks/razorpay
  Redrivers,     \* ticks of the job loop that run redriveWebhooks
  GatewayIds,    \* ids of gateway orders
  None,          \* no id
  Declines,      \* gateway orders on which an attempt may be declined
  MaxAttempts,   \* REDRIVE_MAX_ATTEMPTS
  DeliveryBound  \* bound: deliveries are recorded up to this many attempts

ASSUME PaymentsAssumption ==
  /\ GrandTotal \in Captures
  /\ Declines \subseteq GatewayIds
  /\ None \notin GatewayIds
  /\ None \notin Orders
  /\ MaxAttempts \in Nat \ {0}
  /\ DeliveryBound \in Nat
  /\ Requests \cap Redrivers = {}

VARIABLES
  ref,      \* payments.provider_ref of the order's razorpay row
  opened,   \* gateway: the order each gateway order was created for
  offered,  \* gateway orders handed to a browser
  emitted,  \* gateway: events it has to deliver
  events,   \* webhook_events; no attempts means no row
  session,  \* where each payment request is
  worker    \* where each webhook request and each redrive is

payVars == <<ref, opened, offered, emitted, events, session, worker>>
allVars == <<vars, payVars>>

Workers  == Requests \cup Redrivers
Events   == [kind : {"payment.captured"}, gid : GatewayIds]
              \cup [kind : {"payment.failed"}, gid : Declines]
NoEvent  == [attempts |-> 0, processed |-> FALSE]
Idle     == [pc |-> "idle", order |-> None, gid |-> None]
Waiting  == [pc |-> "idle", event |-> None, batch |-> {}]

PayTypeOK ==
  /\ ref     \in [Orders -> GatewayIds \cup {None}]
  /\ opened  \in [GatewayIds -> Orders \cup {None}]
  /\ offered \in SUBSET GatewayIds
  /\ emitted \in SUBSET Events
  /\ events  \in [Events -> [attempts : Nat, processed : BOOLEAN]]
  /\ session \in [Sessions -> [pc    : {"idle", "read", "create", "attach"},
                               order : Orders \cup {None},
                               gid   : GatewayIds \cup {None}]]
  /\ worker  \in [Workers -> [pc    : {"idle", "claimed", "acted", "failed"},
                              event : Events \cup {None},
                              batch : SUBSET Events]]

PayInit ==
  /\ Init
  /\ ref     = [o \in Orders |-> None]
  /\ opened  = [g \in GatewayIds |-> None]
  /\ offered = {}
  /\ emitted = {}
  /\ events  = [e \in Events |-> NoEvent]
  /\ session = [c \in Sessions |-> Idle]
  /\ worker  = [w \in Workers |-> Waiting]

-----------------------------------------------------------------------------
(* POST /payments/razorpay/order *)

(* The order is read, and only a pending one goes on.                      *)
ReadOrder(c, o) ==
  /\ session[c].pc = "idle"
  /\ status[o] = "pending"
  /\ session' = [session EXCEPT ![c] = [Idle EXCEPT !.pc = "read",
                                                    !.order = o]]
  /\ UNCHANGED <<vars, ref, opened, offered, emitted, events, worker>>

(* (mutant of ReuseRef: the row is found whether it has an id or not.)     *)
ReuseAnyRow(c) ==
  /\ session[c].pc = "read"
  /\ offered' = offered \cup {ref[session[c].order]}
  /\ session' = [session EXCEPT ![c] = Idle]
  /\ UNCHANGED <<vars, ref, opened, emitted, events, worker>>

(* The gateway order that is attached already is returned ...              *)
ReuseRef(c) ==
  /\ session[c].pc = "read"
  /\ ref[session[c].order] # None
  /\ offered' = offered \cup {ref[session[c].order]}
  /\ session' = [session EXCEPT ![c] = Idle]
  /\ UNCHANGED <<vars, ref, opened, emitted, events, worker>>

(* ... and with none attached a new one is going to be created.            *)
NoRefYet(c) ==
  /\ session[c].pc = "read"
  /\ ref[session[c].order] = None
  /\ session' = [session EXCEPT ![c].pc = "create"]
  /\ UNCHANGED <<vars, ref, opened, offered, emitted, events, worker>>

(* razorpay().orders.create                                                *)
CreateGatewayOrder(c, g) ==
  /\ session[c].pc = "create"
  /\ opened[g] = None
  /\ opened' = [opened EXCEPT ![g] = session[c].order]
  /\ session' = [session EXCEPT ![c] = [@ EXCEPT !.pc = "attach",
                                                 !.gid = g]]
  /\ UNCHANGED <<vars, ref, offered, emitted, events, worker>>

(* (mutant of Attached: without "provider_ref is null".)                   *)
LastRefWins(o, g) ==
  IF payments[o]["razorpay"].status # "none"
    THEN [ref EXCEPT ![o] = g] ELSE ref

(* attach_payment_ref updates a razorpay row that has no reference yet; a  *)
(* row that has one, or no row at all, is not an error.                    *)
Attached(o, g) ==
  IF payments[o]["razorpay"].status # "none" /\ ref[o] = None
    THEN [ref EXCEPT ![o] = g] ELSE ref

(* The new id is attached and, attached or not, returned.                  *)
AttachRef(c) ==
  /\ session[c].pc = "attach"
  /\ ref' = Attached(session[c].order, session[c].gid)
  /\ offered' = offered \cup {session[c].gid}
  /\ session' = [session EXCEPT ![c] = Idle]
  /\ UNCHANGED <<vars, opened, emitted, events, worker>>

(* The gateway or the database does not answer, or the process dies.       *)
SessionFails(c) ==
  /\ session[c].pc # "idle"
  /\ session' = [session EXCEPT ![c] = Idle]
  /\ UNCHANGED <<vars, ref, opened, offered, emitted, events, worker>>

SessionStep(c) ==
  \/ \E o \in Orders : ReadOrder(c, o)
  \/ ReuseRef(c)
  \/ NoRefYet(c)
  \/ \E g \in GatewayIds : CreateGatewayOrder(c, g)
  \/ AttachRef(c)
  \/ SessionFails(c)

-----------------------------------------------------------------------------
(* The gateway *)

Captured(g) == [kind |-> "payment.captured", gid |-> g]
Declined(g) == [kind |-> "payment.failed", gid |-> g]

(* A customer pays a gateway order, perhaps after a declined attempt, and  *)
(* whatever became of the order meanwhile.                                 *)
CustomerPays(g) ==
  /\ g \in offered
  /\ emitted' = emitted \cup {Captured(g)}
  /\ UNCHANGED <<vars, ref, opened, offered, events, session, worker>>

CustomerIsDeclined(g) ==
  /\ g \in offered
  /\ g \in Declines
  /\ Captured(g) \notin emitted
  /\ emitted' = emitted \cup {Declined(g)}
  /\ UNCHANGED <<vars, ref, opened, offered, events, session, worker>>

-----------------------------------------------------------------------------
(* POST /webhooks/razorpay and redriveWebhooks *)

(* record_webhook: the row is inserted or its attempts are counted.        *)
Recorded(e) == [events EXCEPT ![e].attempts = @ + 1]

(* What record_webhook answers: did an earlier attempt finish?             *)
AlreadyProcessed(e) == events[e].processed

(* The worker w goes to work on e, unless it finished before.              *)
Claim(w, e, batch) ==
  /\ events' = Recorded(e)
  /\ worker' = [worker EXCEPT ![w] =
                  IF AlreadyProcessed(e)
                    THEN [Waiting EXCEPT !.batch = batch]
                    ELSE [pc |-> "claimed", event |-> e, batch |-> batch]]

(* A delivery, the first or a repeated one, is written down.               *)
Deliver(w, e) ==
  /\ worker[w].pc = "idle"
  /\ e \in emitted
  /\ events[e].attempts < DeliveryBound
  /\ Claim(w, e, {})
  /\ UNCHANGED <<vars, ref, opened, offered, emitted, session>>

(* (mutant of Unprocessed: a first try is left to the gateway to repeat.)  *)
UnprocessedRetries ==
  {e \in Events : /\ events[e].attempts \in 2..(MaxAttempts - 1)
                  /\ ~events[e].processed}

(* The deliveries recorded but not applied, with attempts left.            *)
Unprocessed == {e \in Events : /\ events[e].attempts \in 1..(MaxAttempts - 1)
                               /\ ~events[e].processed}

(* redriveWebhooks reads its batch.                                        *)
RedriveSelect(w) ==
  /\ worker[w] = Waiting
  /\ Unprocessed # {}
  /\ worker' = [worker EXCEPT ![w].batch = Unprocessed]
  /\ UNCHANGED <<vars, ref, opened, offered, emitted, events, session>>

(* It records one of them again before it acts on it.                      *)
RedriveClaim(w, e) ==
  /\ worker[w].pc = "idle"
  /\ e \in worker[w].batch
  /\ Claim(w, e, worker[w].batch \ {e})
  /\ UNCHANGED <<vars, ref, opened, offered, emitted, session>>

(* The claim itself fails: on to the next, the attempt was not counted.    *)
ClaimFails(w, e) ==
  /\ worker[w].pc = "idle"
  /\ e \in worker[w].batch
  /\ worker' = [worker EXCEPT ![w].batch = @ \ {e}]
  /\ UNCHANGED <<vars, ref, opened, offered, emitted, events, session>>

(* (mutant of Resolves: the order is the one named in the gateway's notes.) *)
ResolvesByNotes(e, o) == opened[e.gid] = o

(* resolveOrder: the order whose razorpay row has the gateway order id.    *)
Resolves(e, o) == ref[o] = e.gid

(* (mutant of Apply: payment.failed acts on an order in any status.)       *)
ApplyLateFailure(e, o) ==
  IF e.kind = "payment.captured"
    THEN IF status[o] = "pending" THEN CapturePayment(o, GrandTotal)
                                  ELSE UNCHANGED vars
    ELSE FailPaymentLate(o)

(* What processEvent does to the order o.                                  *)
Apply(e, o) ==
  IF e.kind = "payment.captured"
    THEN IF status[o] = "pending" THEN CapturePayment(o, GrandTotal)
                                  ELSE UNCHANGED vars
    ELSE IF status[o] = "pending" /\ payments[o]["razorpay"].status = "created"
           THEN FailPayment(o) ELSE UNCHANGED vars

(* processEvent commits (the reference it resolved by never changes); the  *)
(* answer may still be lost on the way.                                    *)
Act(w) ==
  /\ worker[w].pc = "claimed"
  /\ \E o \in Orders :
       Resolves(worker[w].event, o) /\ Apply(worker[w].event, o)
  /\ \E pc \in {"acted", "failed"} : worker' = [worker EXCEPT ![w].pc = pc]
  /\ UNCHANGED <<ref, opened, offered, emitted, events, session>>

(* It throws and changes nothing: no row carries the id, the shelf cannot  *)
(* cover a hold that lapsed, or the database does not answer.              *)
ActFails(w) ==
  /\ worker[w].pc = "claimed"
  /\ worker' = [worker EXCEPT ![w].pc = "failed"]
  /\ UNCHANGED <<vars, ref, opened, offered, emitted, events, session>>

(* On to the next of the batch, or done.                                   *)
Done(w) == [Waiting EXCEPT !.batch = worker[w].batch]

(* mark_webhook_processed                                                  *)
Mark(w) ==
  /\ worker[w].pc = "acted"
  /\ events' = [events EXCEPT ![worker[w].event].processed = TRUE]
  /\ worker' = [worker EXCEPT ![w] = Done(w)]
  /\ UNCHANGED <<vars, ref, opened, offered, emitted, session>>

MarkFails(w) ==
  /\ worker[w].pc = "acted"
  /\ worker' = [worker EXCEPT ![w].pc = "failed"]
  /\ UNCHANGED <<vars, ref, opened, offered, emitted, events, session>>

(* (mutant of MarkError: the error path marks the delivery processed.)     *)
MarkErrorProcessed(w) ==
  /\ worker[w].pc = "failed"
  /\ events' = [events EXCEPT ![worker[w].event].processed = TRUE]
  /\ worker' = [worker EXCEPT ![w] = Done(w)]
  /\ UNCHANGED <<vars, ref, opened, offered, emitted, session>>

(* mark_webhook_processed with an error keeps processed_at as it was.      *)
MarkError(w) ==
  /\ worker[w].pc = "failed"
  /\ worker' = [worker EXCEPT ![w] = Done(w)]
  /\ UNCHANGED <<vars, ref, opened, offered, emitted, events, session>>

(* The process dies.                                                       *)
Crash(w) ==
  /\ worker[w] # Waiting
  /\ worker' = [worker EXCEPT ![w] = Waiting]
  /\ UNCHANGED <<vars, ref, opened, offered, emitted, events, session>>

(* sweep_webhook_events: a processed row is dropped after 90 days, longer  *)
(* than anybody works on it.                                               *)
SweepWebhookEvents(e) ==
  /\ events[e].processed
  /\ \A w \in Workers : worker[w].event # e
  /\ events' = [events EXCEPT ![e] = NoEvent]
  /\ UNCHANGED <<vars, ref, opened, offered, emitted, session, worker>>

(* A worker goes on with the delivery it has claimed.                      *)
Proceed(w) == Act(w) \/ ActFails(w) \/ Mark(w) \/ MarkFails(w) \/ MarkError(w)

WorkerStep(w) ==
  \/ Proceed(w)
  \/ Crash(w)
  \/ w \in Requests /\ \E e \in Events : Deliver(w, e)
  \/ w \in Redrivers /\ RedriveSelect(w)
  \/ w \in Redrivers /\ \E e \in Events : RedriveClaim(w, e)
  \/ w \in Redrivers /\ \E e \in Events : ClaimFails(w, e)

-----------------------------------------------------------------------------
(* Everything else that happens to the orders.                             *)
StoreStep ==
  /\ \/ \E o \in Orders :
          \/ \E m \in Methods, b \in Baskets, c \in Credits :
               Checkout(o, m, b, c)
          \/ AdminCaptureCod(o)
          \/ AdminCancelOrder(o)
          \/ CancelOwnOrder(o)
          \/ \E box \in Baskets : AdminShipOrder(o, box)
          \/ Lapse(o)
     \/ \E v \in Variants, q \in Adjustments : RecordStockMovement(v, q)
     \/ \E s \in Sweepers : SweepStep(s)
  /\ UNCHANGED payVars

PayNext ==
  \/ \E c \in Sessions : SessionStep(c)
  \/ \E g \in GatewayIds : CustomerPays(g) \/ CustomerIsDeclined(g)
  \/ \E w \in Workers : WorkerStep(w)
  \/ \E e \in Events : SweepWebhookEvents(e)
  \/ StoreStep

PaySpec == PayInit /\ [][PayNext]_allVars

(* The gateway delivers until the delivery is written down; the job loop   *)
(* ticks, and a process that does not die finishes what it claimed.        *)
PayFairness ==
  /\ \A e \in Events :
       SF_allVars(events[e].attempts = 0 /\ \E w \in Requests : Deliver(w, e))
  /\ \A w \in Workers : WF_allVars(Proceed(w))
  /\ \A w \in Redrivers :
       /\ SF_allVars(RedriveSelect(w))
       /\ \A e \in Events : SF_allVars(RedriveClaim(w, e))

PayFairSpec == PaySpec /\ PayFairness

-----------------------------------------------------------------------------
(* Properties *)

(* A capture whose delivery counts as processed has reached its order,     *)
(* whoever processed it: nothing is marked done that a crash, a lost       *)
(* answer or a failure left undone (record, act, then mark).               *)
ProcessedIsApplied ==
  \A e \in Events :
    events[e].processed /\ e.kind = "payment.captured"
      => \E o \in Orders : Resolves(e, o) /\ status[o] # "pending"

(* The store and the gateway agree: an order counts as paid by card only   *)
(* when the customer has paid the gateway order that is attached to it,    *)
(* and that one was opened for it; duplicates, redeliveries and redrives,  *)
(* without a lock, count it once ("NO LOCK, deliberately").                *)
CapturedWasPaid ==
  \A o \in Orders :
    taken[o] # 0 => /\ taken[o] = GrandTotal
                    /\ ref[o] # None
                    /\ opened[ref[o]] = o
                    /\ Captured(ref[o]) \in emitted

(* The reference webhooks are resolved by never changes once it is there,  *)
(* whichever of two payment requests attached it (attach_payment_ref).     *)
RefStays ==
  [][\A o \in Orders : ref[o] # None => ref'[o] = ref[o]]_allVars

(* No capture is forgotten: it ends up processed, or it has used up its    *)
(* attempts and is one the alert counts (redriveWebhooks and checkOps).    *)
CapturesLand ==
  \A g \in GatewayIds :
    Captured(g) \in emitted
      ~> \/ events[Captured(g)].processed
         \/ events[Captured(g)].attempts >= MaxAttempts

(* At most one gateway order is opened against an order: "Two Razorpay     *)
(* orders against one basket is how a customer pays twice" (payments.ts).  *)
OneGatewayOrder ==
  \A g, h \in offered : opened[g] = opened[h] => g = h

(* The payment flow is one way of using Orders: the properties of Orders   *)
(* hold of it too.                                                         *)
OrdersAreUsed == Spec
=============================================================================
