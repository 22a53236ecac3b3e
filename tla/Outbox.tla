------------------------------- MODULE Outbox -------------------------------
(***************************************************************************)
(* message_log as a transactional outbox.  A checkout queues its message   *)
(* in its own transaction; every API instance, and whoever calls the drain *)
(* route, requeues what a dead drainer left behind, claims a batch, sends  *)
(* one message after the other and settles each.                           *)
(*                                                                         *)
(* Between two calls a drainer holds nothing in the database: the rows it  *)
(* claimed are 'sending', and the only thing that tells a slow drainer     *)
(* from a dead one is how long ago it claimed them.  Time passes in ticks. *)
(***************************************************************************)
EXTENDS Naturals, FiniteSets

CONSTANTS
  Messages,    \* messages, numbered as they are created
  NoMessage,
  Drainers,    \* processes that drain
  Unsendable,  \* messages on a channel that has no provider
  Batch,       \* limit of claim_outbox
  GiveUp,      \* p_give_up_after of settle_message
  CallTicks,   \* the longest a provider takes to answer
  StallTicks,  \* p_older_than of requeue_stalled_messages
  MishapBound  \* bound: crashes, lost answers, failed calls

ASSUME OutboxAssumption ==
  /\ Messages \subseteq Nat
  /\ NoMessage \notin Messages
  /\ Unsendable \subseteq Messages
  /\ {Batch, GiveUp, StallTicks} \subseteq Nat \ {0}
  /\ {CallTicks, MishapBound} \subseteq Nat

VARIABLES
  status,     \* message_log.status, "none" before the insert
  attempts,   \* message_log.attempts
  age,        \* ticks since message_log.claimed_at
  at,         \* what each drainer does next
  todo,       \* messages of its batch that it has not settled
  accepted,   \* whether it takes the current message for sent
  current,    \* the message it is about to settle
  waited,     \* ticks it has waited for the provider
  delivered,  \* how often the provider took each message
  mishaps     \* mishaps so far

logVars   == <<status, attempts, age>>
drainVars == <<at, todo, accepted, current, waited>>
vars      == <<logVars, drainVars, delivered, mishaps>>

TypeOK ==
  /\ status    \in [Messages -> {"none", "queued", "sending", "sent", "failed"}]
  /\ attempts  \in [Messages -> 0..(GiveUp + MishapBound)]
  /\ age       \in [Messages -> 0..(StallTicks + 1)]
  /\ at        \in [Drainers -> {"idle", "claim", "send", "settle"}]
  /\ todo      \in [Drainers -> SUBSET Messages]
  /\ accepted  \in [Drainers -> BOOLEAN]
  /\ current   \in [Drainers -> Messages \cup {NoMessage}]
  /\ waited    \in [Drainers -> 0..CallTicks]
  /\ delivered \in [Messages -> 0..(1 + MishapBound)]
  /\ mishaps   \in 0..MishapBound

Init ==
  /\ status    = [m \in Messages |-> "none"]
  /\ attempts  = [m \in Messages |-> 0]
  /\ age       = [m \in Messages |-> 0]
  /\ at        = [d \in Drainers |-> "idle"]
  /\ todo      = [d \in Drainers |-> {}]
  /\ accepted  = [d \in Drainers |-> FALSE]
  /\ current   = [d \in Drainers |-> NoMessage]
  /\ waited    = [d \in Drainers |-> 0]
  /\ delivered = [m \in Messages |-> 0]
  /\ mishaps   = 0

Mishap ==
  /\ mishaps < MishapBound
  /\ mishaps' = mishaps + 1

-----------------------------------------------------------------------------
(* checkout and the routes that mail a code insert a row.                  *)
Enqueue(m) ==
  /\ status[m] = "none"
  /\ \A n \in Messages : n < m => status[n] # "none"
  /\ status' = [status EXCEPT ![m] = "queued"]
  /\ UNCHANGED <<attempts, age, drainVars, delivered, mishaps>>

(* (mutants of Stalled: anything 'sending' is stalled; nothing is.)        *)
StalledAtOnce == {m \in Messages : status[m] = "sending" /\ age[m] > 0}
StalledNever  == {}

(* Claimed longer ago than p_older_than and still 'sending'.               *)
Stalled == {m \in Messages : status[m] = "sending" /\ age[m] > StallTicks}

Requeued ==
  status' = [m \in Messages |-> IF m \in Stalled THEN "queued" ELSE status[m]]

(* pg_cron requeues on its own schedule.                                   *)
RequeueStalled ==
  /\ Stalled # {}
  /\ Requeued
  /\ UNCHANGED <<attempts, age, drainVars, delivered, mishaps>>

(* drainOutbox begins; that the requeue failed does not stop it.           *)
Begin(d) ==
  /\ at[d] = "idle"
  /\ at' = [at EXCEPT ![d] = "claim"]
  /\ \/ Requeued /\ UNCHANGED mishaps
     \/ Mishap /\ UNCHANGED status
  /\ UNCHANGED <<attempts, age, todo, accepted, current, waited, delivered>>

(* (mutant of Queued: the claim does not look at the status again.)        *)
QueuedOrSending == {m \in Messages : status[m] \in {"queued", "sending"}}

Queued == {m \in Messages : status[m] = "queued"}

(* The oldest of them, a batch at most.                                    *)
Oldest(ms) == {m \in ms : Cardinality({n \in ms : n < m}) < Batch}

(* claim_outbox, which counts the attempt; with nothing to claim, or a     *)
(* claim that failed, the pass is over.                                    *)
Claim(d) ==
  LET batch == Oldest(Queued)
  IN  /\ at[d] = "claim"
      /\ status'   = [m \in Messages |->
                        IF m \in batch THEN "sending" ELSE status[m]]
      /\ attempts' = [m \in Messages |->
                        IF m \in batch THEN attempts[m] + 1 ELSE attempts[m]]
      /\ age'      = [m \in Messages |-> IF m \in batch THEN 0 ELSE age[m]]
      /\ todo'     = [todo EXCEPT ![d] = batch]
      /\ at'       = [at EXCEPT ![d] = IF batch = {} THEN "idle" ELSE "send"]
      /\ waited'   = [waited EXCEPT ![d] = 0]
      /\ UNCHANGED <<accepted, current, delivered, mishaps>>

ClaimFails(d) ==
  /\ at[d] = "claim"
  /\ Mishap
  /\ at' = [at EXCEPT ![d] = "idle"]
  /\ UNCHANGED <<logVars, todo, accepted, current, waited, delivered>>

(* send returns for the next message of the batch.                         *)
Answered(d, m, sent) ==
  /\ at[d] = "send"
  /\ m \in todo[d]
  /\ at'       = [at EXCEPT ![d] = "settle"]
  /\ current'  = [current EXCEPT ![d] = m]
  /\ accepted' = [accepted EXCEPT ![d] = sent]
  /\ UNCHANGED <<logVars, todo, waited>>

Delivered(m) ==
  /\ m \notin Unsendable
  /\ delivered' = [delivered EXCEPT ![m] = @ + 1]

SendAccepted(d, m) ==
  /\ Answered(d, m, TRUE)
  /\ Delivered(m)
  /\ UNCHANGED mishaps

(* The provider, or send itself, refuses.                                  *)
SendRefused(d, m) ==
  /\ Answered(d, m, FALSE)
  /\ UNCHANGED <<delivered, mishaps>>

(* The provider took it and the answer did not arrive in time.             *)
AnswerLost(d, m) ==
  /\ Answered(d, m, FALSE)
  /\ Delivered(m)
  /\ Mishap

(* settle_message: where the row lands, whatever its status was.           *)
Verdict(m, sent) ==
  IF sent THEN "sent"
  ELSE IF attempts[m] >= GiveUp THEN "failed" ELSE "queued"

(* The drainer goes on to the next message, or its pass is over.           *)
Advanced(d) ==
  LET rest == todo[d] \ {current[d]}
  IN  /\ todo'     = [todo EXCEPT ![d] = rest]
      /\ at'       = [at EXCEPT ![d] = IF rest = {} THEN "idle" ELSE "send"]
      /\ current'  = [current EXCEPT ![d] = NoMessage]
      /\ accepted' = [accepted EXCEPT ![d] = FALSE]
      /\ waited'   = [waited EXCEPT ![d] = 0]

Settle(d) ==
  /\ at[d] = "settle"
  /\ status' = [status EXCEPT ![current[d]] = Verdict(current[d], accepted[d])]
  /\ Advanced(d)
  /\ UNCHANGED <<attempts, age, delivered, mishaps>>

(* The call fails: the row stays 'sending'.                                *)
SettleFails(d) ==
  /\ at[d] = "settle"
  /\ Mishap
  /\ Advanced(d)
  /\ UNCHANGED <<logVars, delivered>>

(* The process dies and is started again.                                  *)
Crash(d) ==
  /\ at[d] # "idle"
  /\ Mishap
  /\ at'       = [at EXCEPT ![d] = "idle"]
  /\ todo'     = [todo EXCEPT ![d] = {}]
  /\ current'  = [current EXCEPT ![d] = NoMessage]
  /\ accepted' = [accepted EXCEPT ![d] = FALSE]
  /\ waited'   = [waited EXCEPT ![d] = 0]
  /\ UNCHANGED <<logVars, delivered>>

(* Time passes.  A provider answers within CallTicks, or send gives up on  *)
(* it; what it answered is settled within the tick.                        *)
Tick ==
  /\ \A d \in Drainers :
       at[d] # "settle" /\ (at[d] = "send" => waited[d] < CallTicks)
  /\ \E m \in Messages : status[m] = "sending" /\ age[m] <= StallTicks
  /\ age'    = [m \in Messages |->
                  IF status[m] = "sending" /\ age[m] <= StallTicks
                    THEN age[m] + 1 ELSE age[m]]
  /\ waited' = [d \in Drainers |->
                  IF at[d] = "send" THEN waited[d] + 1 ELSE waited[d]]
  /\ UNCHANGED <<status, attempts, at, todo, accepted, current, delivered,
                 mishaps>>

Answer(d) ==
  \E m \in Messages :
    SendAccepted(d, m) \/ SendRefused(d, m) \/ AnswerLost(d, m)

DrainStep(d) ==
  \/ Begin(d)
  \/ Claim(d)
  \/ ClaimFails(d)
  \/ Answer(d)
  \/ Settle(d)
  \/ SettleFails(d)

Next ==
  \/ \E m \in Messages : Enqueue(m)
  \/ RequeueStalled
  \/ \E d \in Drainers : DrainStep(d) \/ Crash(d)
  \/ Tick

Spec == Init /\ [][Next]_vars

(* The timer of a living process starts a pass and the pass goes on;       *)
(* time passes.  Nobody owes an Enqueue, and pg_cron may not be there.     *)
FairSpec ==
  /\ Spec
  /\ \A d \in Drainers : WF_vars(DrainStep(d))
  /\ SF_vars(Tick)

-----------------------------------------------------------------------------
(* Properties *)

(* Two drainers split the queue: no message is in two batches at once, be  *)
(* it claimed twice or requeued under a drainer that still works on it.    *)
OneSender ==
  \A d, e \in Drainers : d # e => todo[d] \cap todo[e] = {}

(* A message goes out a second time only where a mishap left in doubt      *)
(* whether it had, and only a mishap makes a failure of what went out.     *)
DuplicatesNeedMishaps ==
  \A m \in Messages :
    /\ delivered[m] <= 1 + mishaps
    /\ status[m] = "failed" /\ delivered[m] > 0 => mishaps > 0

(* What is sent stays sent: no late answer and no requeue opens the row    *)
(* again, though settle_message does not look at its status.               *)
SentIsFinal ==
  [][\A m \in Messages : status[m] = "sent" => status'[m] = "sent"]_vars

(* Every queued message is sent or given up in the end, also when the      *)
(* drainer that held it died or could not settle it.                       *)
EverySettled ==
  \A m \in Messages : status[m] = "queued" ~> status[m] \in {"sent", "failed"}

=============================================================================
