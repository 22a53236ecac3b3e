---------------------------- MODULE OutboxProofs ----------------------------
(***************************************************************************)
(* Proofs about Outbox, for every set of messages and drainers, every      *)
(* batch size, retry limit and number of mishaps, where a batch is over    *)
(* before requeue_stalled_messages takes its drainer for dead.             *)
(***************************************************************************)
EXTENDS Outbox, FiniteSetTheorems, TLAPS

(* The slowest batch takes no longer than p_older_than.                    *)
BatchInTime == Batch * CallTicks <= StallTicks

-----------------------------------------------------------------------------
(* The inductive invariant *)

(* TypeOK without the limits that rest on how often things go wrong.       *)
Types ==
  /\ status    \in [Messages -> {"none", "queued", "sending", "sent", "failed"}]
  /\ attempts  \in [Messages -> Nat]
  /\ age       \in [Messages -> 0..(StallTicks + 1)]
  /\ at        \in [Drainers -> {"idle", "claim", "send", "settle"}]
  /\ todo      \in [Drainers -> SUBSET Messages]
  /\ accepted  \in [Drainers -> BOOLEAN]
  /\ current   \in [Drainers -> Messages \cup {NoMessage}]
  /\ waited    \in [Drainers -> 0..CallTicks]
  /\ delivered \in [Messages -> Nat]
  /\ mishaps   \in 0..MishapBound

(* What a drainer carries from one call to the next.                       *)
Carries(d) ==
  /\ at[d] \in {"idle", "claim"} => todo[d] = {}
  /\ at[d] = "settle" => current[d] \in todo[d]
  /\ at[d] # "settle" => current[d] = NoMessage /\ accepted[d] = FALSE
  /\ \A m \in todo[d] : status[m] = "sending"

(* A batch that began when its rows had age 0 and has n messages left has  *)
(* spent no more than the calls for the others and the present one.        *)
InTime(d) ==
  /\ IsFiniteSet(todo[d])
  /\ \A m \in todo[d] :
       age[m] + Cardinality(todo[d]) * CallTicks
         <= Batch * CallTicks + waited[d]

DrainInv == OneSender /\ \A d \in Drainers : Carries(d) /\ InTime(d)

(* Some drainer has it in its batch.                                       *)
InBatch(m) == \E d \in Drainers : m \in todo[d]

(* It is sent, or was taken by the provider and is about to be settled.    *)
Sure(m) ==
  \/ status[m] = "sent"
  \/ \E d \in Drainers : current[d] = m /\ accepted[d]

(* Each attempt beyond GiveUp, and each delivery beyond the first, has a   *)
(* mishap of its own; a message that is open has one of both left.         *)
Counted(m) ==
  /\ attempts[m] <= GiveUp + mishaps
  /\ status[m] \in {"none", "queued", "sending"} /\ ~InBatch(m) =>
       attempts[m] < GiveUp + mishaps
  /\ delivered[m] <= 1 + mishaps
  /\ ~Sure(m) => delivered[m] <= mishaps

CountInv == \A m \in Messages : Counted(m)

IInv == Types /\ DrainInv /\ CountInv

-----------------------------------------------------------------------------
(* A batch *)

(* What the assumptions say of each constant.                              *)
LEMMA Constants ==
  /\ Messages \subseteq Nat /\ NoMessage \notin Messages
  /\ Batch \in Nat /\ Batch > 0 /\ GiveUp \in Nat /\ GiveUp > 0
  /\ StallTicks \in Nat /\ CallTicks \in Nat /\ MishapBound \in Nat
<1>1. \A n : n \in {Batch, GiveUp, StallTicks} => n \in Nat /\ n # 0
  BY OutboxAssumption
<1>2. \A n : n \in {CallTicks, MishapBound} => n \in Nat
  BY OutboxAssumption
<1> QED
  BY <1>1, <1>2, OutboxAssumption

(* claim_outbox takes no more than its limit: the messages before each one *)
(* are counted, and no two have as many before them.                       *)
LEMMA OldestWithinBatch ==
  ASSUME NEW ms, ms \subseteq Messages
  PROVE  IsFiniteSet(Oldest(ms)) /\ Cardinality(Oldest(ms)) <= Batch
<1> DEFINE Before(m) == {n \in ms : n < m}
           rank      == [m \in Oldest(ms) |-> Cardinality(Before(m))]
<1> HIDE DEF rank
<1>1. \A n \in ms : n \in Nat
  BY Constants
<1>2. Oldest(ms) \subseteq ms
  BY DEF Oldest
<1>3. ASSUME NEW m \in ms
      PROVE  IsFiniteSet(Before(m)) /\ Cardinality(Before(m)) \in Nat
  <2>1. Before(m) \subseteq Nat /\ m \in Nat
    BY <1>1
  <2>2. \A n \in Before(m) : n <= m
    BY <1>1
  <2>3. IsFiniteSet(Before(m))
    BY <2>1, <2>2, FS_BoundedSetOfNaturals
  <2> QED
    BY <2>3, FS_CardinalityType
<1>4. ASSUME NEW m \in Oldest(ms)
      PROVE  Cardinality(Before(m)) \in 0..(Batch - 1)
  <2>1. Cardinality(Before(m)) < Batch
    BY DEF Oldest
  <2>2. Cardinality(Before(m)) \in Nat
    BY <1>2, <1>3
  <2> HIDE DEF Before
  <2> QED
    BY <2>1, <2>2, Constants
<1>5. ASSUME NEW m \in ms, NEW n \in ms, m < n
      PROVE  Cardinality(Before(m)) # Cardinality(Before(n))
  <2>1. ASSUME NEW k \in Before(m) PROVE k \in Before(n)
    BY <1>1, <1>5
  <2>2. m \in Before(n) /\ m \notin Before(m)
    BY <1>1, <1>5
  <2>3. Before(m) \subseteq Before(n) /\ Before(m) # Before(n)
    BY <2>1, <2>2
  <2>4. IsFiniteSet(Before(n))
    BY <1>3
  <2> HIDE DEF Before
  <2> QED
    BY <2>3, <2>4, FS_Subset
<1>6. \A m, n \in ms : m # n => m < n \/ n < m
  BY <1>1
<1>7. \A m, n \in Oldest(ms) : rank[m] = rank[n] => m = n
  BY <1>2, <1>5, <1>6 DEF rank
<1>8. rank \in [Oldest(ms) -> 0..(Batch - 1)]
  BY <1>4 DEF rank
<1>9. rank \in Injection(Oldest(ms), 0..(Batch - 1))
  BY <1>7, <1>8 DEF Injection, IsInjective
<1>10. IsFiniteSet(0..(Batch - 1)) /\ Cardinality(0..(Batch - 1)) = Batch
  <2>1. 0 \in Int /\ Batch - 1 \in Int /\ ~(0 > Batch - 1)
        /\ (Batch - 1) - 0 + 1 = Batch
    BY Constants
  <2> QED
    BY <2>1, FS_Interval
<1> QED
  BY <1>9, <1>10, FS_Injection

(* Products of the time a call takes.                                      *)
LEMMA CallTimes ==
  /\ Batch * CallTicks \in Nat
  /\ \A n \in Nat : /\ n * CallTicks \in Nat
                    /\ (n + 1) * CallTicks = n * CallTicks + CallTicks
                    /\ n > 0 => n * CallTicks >= CallTicks
                    /\ n <= Batch => n * CallTicks <= Batch * CallTicks
<1>1. \A n \in Nat : n * CallTicks \in Nat
  BY Constants
<1>2. \A n \in Nat : (n + 1) * CallTicks = n * CallTicks + CallTicks
  BY Constants
<1>3. \A n \in Nat : n > 0 => n * CallTicks >= CallTicks
  BY Constants
<1>4. \A n \in Nat : n <= Batch => n * CallTicks <= Batch * CallTicks
  BY Constants
<1> QED
  BY <1>1, <1>2, <1>3, <1>4, Constants

-----------------------------------------------------------------------------
(* Types *)

LEMMA TypesInit == Init => Types
BY Constants DEF Init, Types

LEMMA TypesNext == Types /\ [Next]_vars => Types'
<1> SUFFICES ASSUME Types, [Next]_vars PROVE Types'
  OBVIOUS
<1> USE Constants DEF Types
<1>1. ASSUME NEW m \in Messages, Enqueue(m) PROVE Types'
  BY <1>1 DEF Enqueue, drainVars
<1>2. CASE RequeueStalled
  BY <1>2 DEF RequeueStalled, Requeued, drainVars
<1>3. ASSUME NEW d \in Drainers, Begin(d) PROVE Types'
  BY <1>3 DEF Begin, Requeued, Mishap
<1>4. ASSUME NEW d \in Drainers, Claim(d) PROVE Types'
  <2> DEFINE batch == Oldest(Queued)
  <2>1. batch \in SUBSET Messages
    BY DEF Oldest, Queued
  <2> HIDE DEF batch
  <2>2. /\ status'   = [m \in Messages |->
                          IF m \in batch THEN "sending" ELSE status[m]]
        /\ attempts' = [m \in Messages |->
                          IF m \in batch THEN attempts[m] + 1 ELSE attempts[m]]
        /\ age'  = [m \in Messages |-> IF m \in batch THEN 0 ELSE age[m]]
        /\ todo' = [todo EXCEPT ![d] = batch]
        /\ at'   = [at EXCEPT ![d] = IF batch = {} THEN "idle" ELSE "send"]
        /\ waited' = [waited EXCEPT ![d] = 0]
        /\ UNCHANGED <<accepted, current, delivered, mishaps>>
    BY <1>4 DEF Claim, batch
  <2> QED
    BY <2>1, <2>2
<1>5. ASSUME NEW d \in Drainers, ClaimFails(d) PROVE Types'
  BY <1>5 DEF ClaimFails, Mishap, logVars
<1>6. ASSUME NEW d \in Drainers, Answer(d) PROVE Types'
  <2> PICK m \in Messages : \/ SendAccepted(d, m)
                            \/ SendRefused(d, m)
                            \/ AnswerLost(d, m)
    BY <1>6 DEF Answer
  <2>1. CASE SendAccepted(d, m)
    BY <2>1 DEF SendAccepted, Answered, Delivered, logVars
  <2>2. CASE SendRefused(d, m)
    BY <2>2 DEF SendRefused, Answered, logVars
  <2>3. CASE AnswerLost(d, m)
    BY <2>3 DEF AnswerLost, Answered, Delivered, Mishap, logVars
  <2> QED
    BY <2>1, <2>2, <2>3
<1>7. ASSUME NEW d \in Drainers, Settle(d) PROVE Types'
  <2> DEFINE v == Verdict(current[d], accepted[d])
  <2>1. v \in {"sent", "failed", "queued"}
    BY DEF Verdict
  <2>2. status' = [status EXCEPT ![current[d]] = v]
    BY <1>7 DEF Settle
  <2> HIDE DEF v
  <2>3. status' \in [Messages ->
                        {"none", "queued", "sending", "sent", "failed"}]
    BY <2>1, <2>2
  <2> QED
    BY <1>7, <2>3 DEF Settle, Advanced
<1>8. ASSUME NEW d \in Drainers, SettleFails(d) PROVE Types'
  BY <1>8 DEF SettleFails, Advanced, Mishap, logVars
<1>9. ASSUME NEW d \in Drainers, Crash(d) PROVE Types'
  BY <1>9 DEF Crash, Mishap, logVars
<1>10. CASE Tick
  <2>1. \A d \in Drainers : at[d] = "send" => waited[d] + 1 \in 0..CallTicks
    BY <1>10 DEF Tick
  <2>2. \A m \in Messages : age[m] <= StallTicks =>
          age[m] + 1 \in 0..(StallTicks + 1)
    OBVIOUS
  <2> QED
    BY <1>10, <2>1, <2>2 DEF Tick
<1>11. CASE UNCHANGED vars
  BY <1>11 DEF vars, logVars, drainVars
<1> QED
  BY <1>1, <1>2, <1>3, <1>4, <1>5, <1>6, <1>7, <1>8, <1>9, <1>10, <1>11
     DEF Next, DrainStep

-----------------------------------------------------------------------------
(* One sender *)

(* Nothing happens to a drainer or to the rows of its batch.               *)
Undisturbed(d) ==
  /\ todo'[d] = todo[d] /\ at'[d] = at[d] /\ waited'[d] = waited[d]
  /\ current'[d] = current[d] /\ accepted'[d] = accepted[d]
  /\ \A m \in todo[d] : status'[m] = status[m] /\ age'[m] = age[m]

LEMMA UndisturbedKeeps ==
  ASSUME NEW d \in Drainers, Carries(d), InTime(d), Undisturbed(d)
  PROVE  Carries(d)' /\ InTime(d)'
BY DEF Carries, InTime, Undisturbed

(* A drainer with nothing in hand has nothing to be late with.             *)
LEMMA EmptyHanded ==
  ASSUME NEW d \in Drainers, todo'[d] = {}, at'[d] \in {"idle", "claim"},
         current'[d] = NoMessage, accepted'[d] = FALSE
  PROVE  Carries(d)' /\ InTime(d)'
BY FS_EmptySet DEF Carries, InTime

(* Batches that only lose messages stay apart.                             *)
LEMMA BatchesShrink ==
  ASSUME OneSender, \A d \in Drainers : todo'[d] \subseteq todo[d]
  PROVE  OneSender'
BY DEF OneSender

(* What is in a batch is not old enough to be requeued.                    *)
LEMMA NotStalled ==
  ASSUME BatchInTime, Types, NEW d \in Drainers, InTime(d), NEW m \in todo[d]
  PROVE  m \notin Stalled
<1> DEFINE n == Cardinality(todo[d])
<1>1. n \in Nat /\ n > 0
  BY FS_EmptySet, FS_CardinalityType DEF InTime
<1>2. n * CallTicks \in Nat /\ n * CallTicks >= CallTicks
  BY <1>1, CallTimes
<1>3. age[m] + n * CallTicks <= Batch * CallTicks + waited[d]
  BY DEF InTime
<1>4. /\ m \in Messages /\ age[m] \in Nat
      /\ waited[d] \in Nat /\ waited[d] <= CallTicks
  BY Constants DEF Types
<1>5. age[m] <= Batch * CallTicks
  BY <1>2, <1>3, <1>4, CallTimes, Constants
<1>6. age[m] <= StallTicks
  BY <1>4, <1>5, CallTimes, Constants DEF BatchInTime
<1> QED
  BY <1>4, <1>6, Constants DEF Stalled

(* A batch without its current message is no later than it was.            *)
LEMMA AdvancedKeeps ==
  ASSUME Types, NEW d \in Drainers, at[d] = "settle", Carries(d), InTime(d),
         Advanced(d), UNCHANGED age,
         \A m \in todo[d] \ {current[d]} : status'[m] = status[m]
  PROVE  Carries(d)' /\ InTime(d)'
<1> DEFINE rest == todo[d] \ {current[d]}
<1>1. /\ todo'[d] = rest
      /\ at'[d] = IF rest = {} THEN "idle" ELSE "send"
      /\ current'[d] = NoMessage /\ accepted'[d] = FALSE /\ waited'[d] = 0
  BY DEF Advanced, Types
<1>2. Carries(d)'
  BY <1>1 DEF Carries
<1>3. InTime(d)'
  <2>1. current[d] \in todo[d] /\ IsFiniteSet(todo[d])
    BY DEF Carries, InTime
  <2>2. /\ IsFiniteSet(rest) /\ Cardinality(rest) \in Nat
        /\ Cardinality(todo[d]) = Cardinality(rest) + 1
    <3>1. IsFiniteSet(rest) /\ Cardinality(rest) = Cardinality(todo[d]) - 1
      BY <2>1, FS_RemoveElement
    <3>2. Cardinality(rest) \in Nat /\ Cardinality(todo[d]) \in Nat
      BY <2>1, <3>1, FS_CardinalityType
    <3> QED
      BY <3>1, <3>2
  <2> DEFINE n == Cardinality(rest)
  <2>3. /\ (n + 1) * CallTicks = n * CallTicks + CallTicks
        /\ n * CallTicks \in Nat
    BY <2>2, CallTimes
  <2>4. ASSUME NEW m \in rest
        PROVE  age[m] + n * CallTicks <= Batch * CallTicks + 0
    <3>1. age[m] + (n + 1) * CallTicks <= Batch * CallTicks + waited[d]
      BY <2>2 DEF InTime
    <3>2. age[m] \in Nat /\ waited[d] \in Nat /\ waited[d] <= CallTicks
      BY Constants DEF Types
    <3> HIDE DEF n, rest
    <3> QED
      BY <2>3, <3>1, <3>2, CallTimes, Constants
  <2> QED
    BY <1>1, <2>2, <2>4 DEF InTime
<1> QED
  BY <1>2, <1>3

LEMMA DrainInit == Init => DrainInv
BY FS_EmptySet DEF Init, DrainInv, OneSender, Carries, InTime

LEMMA DrainNext ==
  ASSUME BatchInTime, Types, DrainInv, [Next]_vars
  PROVE  DrainInv'
<1> USE DEF DrainInv
<1>0. \A d \in Drainers : \A m \in todo[d] :
        m \in Messages /\ status[m] = "sending" /\ m \notin Stalled
  BY NotStalled DEF Carries, Types
<1>1. ASSUME NEW m \in Messages, Enqueue(m) PROVE DrainInv'
  <2>1. \A d \in Drainers : Undisturbed(d)
    BY <1>0, <1>1 DEF Enqueue, drainVars, Undisturbed, Types
  <2> QED
    BY <2>1, UndisturbedKeeps, BatchesShrink DEF Undisturbed
<1>2. CASE RequeueStalled
  <2>1. \A d \in Drainers : Undisturbed(d)
    BY <1>0, <1>2 DEF RequeueStalled, Requeued, drainVars, Undisturbed
  <2> QED
    BY <2>1, UndisturbedKeeps, BatchesShrink DEF Undisturbed
<1>3. ASSUME NEW d \in Drainers, Begin(d) PROVE DrainInv'
  <2>1. \A e \in Drainers : \A m \in todo[e] : status'[m] = status[m]
    BY <1>0, <1>3 DEF Begin, Requeued
  <2>2. \A e \in Drainers \ {d} : Undisturbed(e)
    BY <1>3, <2>1 DEF Begin, Undisturbed, Types
  <2>3. todo[d] = {} /\ todo' = todo
    BY <1>3 DEF Begin, Carries
  <2>4. Carries(d)' /\ InTime(d)'
    BY <1>3, <2>3, EmptyHanded DEF Begin, Carries, Types
  <2> QED
    BY <2>2, <2>3, <2>4, UndisturbedKeeps, BatchesShrink
<1>4. ASSUME NEW d \in Drainers, Claim(d) PROVE DrainInv'
  <2> DEFINE batch == Oldest(Queued)
  <2>1. batch \subseteq Messages /\ \A m \in batch : status[m] = "queued"
    BY DEF Oldest, Queued
  <2>2. IsFiniteSet(batch) /\ Cardinality(batch) <= Batch
    <3>1. Queued \subseteq Messages
      BY DEF Queued
    <3> QED
      BY <3>1, OldestWithinBatch
  <2> HIDE DEF batch
  <2>3. /\ status'   = [m \in Messages |->
                          IF m \in batch THEN "sending" ELSE status[m]]
        /\ age'  = [m \in Messages |-> IF m \in batch THEN 0 ELSE age[m]]
        /\ todo' = [todo EXCEPT ![d] = batch]
        /\ at'   = [at EXCEPT ![d] = IF batch = {} THEN "idle" ELSE "send"]
        /\ waited' = [waited EXCEPT ![d] = 0]
        /\ UNCHANGED <<accepted, current>>
        /\ at[d] = "claim"
    BY <1>4 DEF Claim, batch
  <2>4. \A e \in Drainers : \A m \in todo[e] : m \notin batch
    BY <1>0, <2>1
  <2>5. \A e \in Drainers \ {d} : Undisturbed(e)
    BY <1>0, <2>3, <2>4 DEF Undisturbed, Types
  <2>6. OneSender'
    BY <2>3, <2>4 DEF OneSender, Types
  <2>7. /\ todo'[d] = batch /\ waited'[d] = 0
        /\ at'[d] = IF batch = {} THEN "idle" ELSE "send"
        /\ current'[d] = NoMessage /\ accepted'[d] = FALSE
        /\ \A m \in batch : status'[m] = "sending" /\ age'[m] = 0
    BY <2>1, <2>3 DEF Carries, Types
  <2>8. Carries(d)'
    BY <2>7 DEF Carries
  <2>9. InTime(d)'
    <3>1. Cardinality(batch) \in Nat
      BY <2>2, FS_CardinalityType
    <3>2. 0 + Cardinality(batch) * CallTicks <= Batch * CallTicks + 0
      BY <2>2, <3>1, CallTimes
    <3> QED
      BY <2>2, <2>7, <3>2 DEF InTime
  <2> QED
    BY <2>5, <2>6, <2>8, <2>9, UndisturbedKeeps
<1>5. ASSUME NEW d \in Drainers, ClaimFails(d) PROVE DrainInv'
  <2>1. \A e \in Drainers \ {d} : Undisturbed(e)
    BY <1>5 DEF ClaimFails, logVars, Undisturbed, Types
  <2>2. todo[d] = {} /\ todo' = todo
    BY <1>5 DEF ClaimFails, Carries
  <2>3. Carries(d)' /\ InTime(d)'
    BY <1>5, <2>2, EmptyHanded DEF ClaimFails, Carries, Types
  <2> QED
    BY <2>1, <2>2, <2>3, UndisturbedKeeps, BatchesShrink
<1>6. ASSUME NEW d \in Drainers, Answer(d) PROVE DrainInv'
  <2>1. PICK m \in Messages, sent \in BOOLEAN : Answered(d, m, sent)
    BY <1>6 DEF Answer, SendAccepted, SendRefused, AnswerLost
  <2>2. \A e \in Drainers \ {d} : Undisturbed(e)
    BY <2>1 DEF Answered, logVars, Undisturbed, Types
  <2>3. /\ todo' = todo /\ waited' = waited /\ status' = status /\ age' = age
        /\ at'[d] = "settle" /\ current'[d] = m /\ m \in todo[d]
    BY <2>1 DEF Answered, logVars, Types
  <2>4. Carries(d)' /\ InTime(d)'
    BY <2>3 DEF Carries, InTime
  <2> QED
    BY <2>2, <2>3, <2>4, UndisturbedKeeps, BatchesShrink
<1>7. ASSUME NEW d \in Drainers, at[d] = "settle", Advanced(d), age' = age,
             \A m \in Messages \ {current[d]} : status'[m] = status[m]
      PROVE  DrainInv'
  <2>1. \A e \in Drainers \ {d} : todo'[e] = todo[e] /\ current[d] \notin todo[e]
    BY <1>7 DEF Advanced, Types, Carries, OneSender
  <2>2. \A e \in Drainers \ {d} : Undisturbed(e)
    BY <1>0, <1>7, <2>1 DEF Advanced, Undisturbed, Types
  <2>3. Carries(d)' /\ InTime(d)'
    BY <1>0, <1>7, AdvancedKeeps
  <2>4. todo'[d] \subseteq todo[d]
    BY <1>7 DEF Advanced, Types
  <2> QED
    BY <2>1, <2>2, <2>3, <2>4, UndisturbedKeeps, BatchesShrink
<1>8. ASSUME NEW d \in Drainers, Settle(d) PROVE DrainInv'
  BY <1>7, <1>8 DEF Settle, Types
<1>9. ASSUME NEW d \in Drainers, SettleFails(d) PROVE DrainInv'
  BY <1>7, <1>9 DEF SettleFails, logVars
<1>10. ASSUME NEW d \in Drainers, Crash(d) PROVE DrainInv'
  <2>1. \A e \in Drainers \ {d} : Undisturbed(e)
    BY <1>10 DEF Crash, logVars, Undisturbed, Types
  <2>2. todo'[d] = {} /\ Carries(d)' /\ InTime(d)'
    BY <1>10, EmptyHanded DEF Crash, Types
  <2>3. \A e \in Drainers : todo'[e] \subseteq todo[e]
    BY <2>1, <2>2 DEF Undisturbed
  <2> QED
    BY <2>1, <2>2, <2>3, UndisturbedKeeps, BatchesShrink
<1>11. CASE Tick
  <2>1. todo' = todo /\ UNCHANGED <<status, at, accepted, current>>
    BY <1>11 DEF Tick
  <2>2. ASSUME NEW d \in Drainers PROVE Carries(d)' /\ InTime(d)'
    <3>1. Carries(d)'
      BY <2>1 DEF Carries
    <3>2. ASSUME NEW m \in todo[d]
          PROVE  age'[m] <= age[m] + 1 /\ waited'[d] = waited[d] + 1
      <4>1. at[d] = "send"
        BY <1>11, <3>2 DEF Tick, Carries, Types
      <4>2. m \in Messages /\ age[m] \in Nat
        BY Constants DEF Types
      <4> QED
        BY <1>11, <4>1, <4>2 DEF Tick
    <3>3. ASSUME NEW m \in todo[d]
          PROVE  age'[m] + Cardinality(todo[d]) * CallTicks
                   <= Batch * CallTicks + waited'[d]
      <4> DEFINE n == Cardinality(todo[d]) * CallTicks
      <4>1. n \in Nat
        BY CallTimes, FS_CardinalityType DEF InTime
      <4>2. age[m] + n <= Batch * CallTicks + waited[d]
        BY DEF InTime
      <4>3. /\ age[m] \in Nat /\ age'[m] \in Nat
            /\ waited[d] \in Nat
        BY <1>11, Constants DEF Types, Tick
      <4> HIDE DEF n
      <4> QED
        BY <3>2, <4>1, <4>2, <4>3, CallTimes DEF n
    <3> QED
      BY <2>1, <3>1, <3>3 DEF InTime
  <2> QED
    BY <2>1, <2>2, BatchesShrink
<1>12. CASE UNCHANGED vars
  <2>1. \A d \in Drainers : Undisturbed(d)
    BY <1>12 DEF vars, logVars, drainVars, Undisturbed
  <2> QED
    BY <2>1, UndisturbedKeeps, BatchesShrink DEF Undisturbed
<1> QED
  BY <1>1, <1>2, <1>3, <1>4, <1>5, <1>6, <1>8, <1>9, <1>10, <1>11, <1>12
     DEF Next, DrainStep

-----------------------------------------------------------------------------
(* What mishaps cost *)

Open == {"none", "queued", "sending"}

(* A step that neither claims nor delivers m keeps its counts, if it only  *)
(* opens m again, or puts in doubt that it was sent, for a reason.         *)
LEMMA CountedStays ==
  ASSUME Types, Types', NEW m \in Messages, Counted(m),
         attempts'[m] = attempts[m], delivered'[m] = delivered[m],
         mishaps' >= mishaps,
         Sure(m) => Sure(m)' \/ mishaps' > mishaps,
         status'[m] \in Open /\ ~InBatch(m)' =>
           \/ status[m] \in Open /\ ~InBatch(m)
           \/ mishaps' > mishaps \/ attempts[m] < GiveUp
  PROVE  Counted(m)'
<1>1. /\ attempts[m] \in Nat /\ delivered[m] \in Nat
      /\ mishaps \in Nat /\ mishaps' \in Nat
  BY Constants DEF Types
<1>2. /\ attempts[m] <= GiveUp + mishaps
      /\ status[m] \in Open /\ ~InBatch(m) => attempts[m] < GiveUp + mishaps
      /\ delivered[m] <= 1 + mishaps
      /\ ~Sure(m) => delivered[m] <= mishaps
  BY DEF Counted, Open
<1>3. /\ attempts'[m] <= GiveUp + mishaps'
      /\ status'[m] \in Open /\ ~InBatch(m)' =>
           attempts'[m] < GiveUp + mishaps'
  BY <1>1, <1>2, Constants
<1>4. /\ delivered'[m] <= 1 + mishaps'
      /\ ~Sure(m)' => delivered'[m] <= mishaps'
  BY <1>1, <1>2
<1> QED
  BY <1>3, <1>4 DEF Counted, Open

(* Only the drainer that has m in its batch is about to settle it.         *)
LEMMA OneSettler ==
  ASSUME DrainInv, NEW d \in Drainers, NEW m \in todo[d], NEW e \in Drainers,
         current[e] = m, m # NoMessage
  PROVE  e = d
BY DEF DrainInv, OneSender, Carries

LEMMA CountInit == Init => CountInv
<1> SUFFICES ASSUME Init, NEW m \in Messages PROVE Counted(m)
  BY DEF CountInv
<1> QED
  BY Constants DEF Init, Counted

LEMMA CountNext ==
  ASSUME BatchInTime, Types, DrainInv, CountInv, [Next]_vars
  PROVE  CountInv'
<1>0. /\ Types'
      /\ \A d \in Drainers : \A m \in todo[d] :
           m \in Messages /\ status[m] = "sending" /\ m \notin Stalled
      /\ \A d \in Drainers : Carries(d)
  BY TypesNext, NotStalled DEF DrainInv, Carries, Types
<1>1. SUFFICES ASSUME NEW m \in Messages PROVE Counted(m)'
  BY DEF CountInv
<1>2. Counted(m) /\ m # NoMessage /\ mishaps \in Nat
  BY Constants DEF CountInv, Types
<1>3. CASE \E n \in Messages : Enqueue(n)
  <2>1. /\ UNCHANGED <<attempts, delivered, mishaps, todo, current, accepted>>
        /\ \/ status'[m] = status[m]
           \/ status[m] = "none" /\ status'[m] = "queued"
    BY <1>3 DEF Enqueue, drainVars, Types
  <2>2. InBatch(m)' = InBatch(m) /\ (Sure(m) => Sure(m)')
    BY <2>1 DEF InBatch, Sure
  <2> QED
    BY <1>0, <1>2, <2>1, <2>2, CountedStays DEF Open
<1>4. CASE Requeued /\ UNCHANGED <<attempts, delivered, mishaps, todo,
                                   current, accepted>>
  <2>1. \/ status'[m] = status[m]
        \/ status[m] = "sending" /\ status'[m] = "queued"
    BY <1>4 DEF Requeued, Stalled
  <2>2. InBatch(m)' = InBatch(m) /\ (Sure(m) => Sure(m)')
    BY <1>4, <2>1 DEF InBatch, Sure
  <2> QED
    BY <1>0, <1>2, <1>4, <2>1, <2>2, CountedStays DEF Open
<1>5. CASE Mishap /\ UNCHANGED <<attempts, delivered>>
  <2>1. mishaps' > mishaps /\ mishaps' >= mishaps
    BY <1>2, <1>5 DEF Mishap
  <2>2. attempts'[m] = attempts[m] /\ delivered'[m] = delivered[m]
    BY <1>5
  <2> QED
    BY <1>0, <1>2, <2>1, <2>2, CountedStays
<1>6. ASSUME NEW d \in Drainers, Claim(d) PROVE Counted(m)'
  <2> DEFINE batch == Oldest(Queued)
  <2>1. m \in batch => status[m] = "queued"
    BY DEF Oldest, Queued
  <2> HIDE DEF batch
  <2>2. /\ status'[m]   = IF m \in batch THEN "sending" ELSE status[m]
        /\ attempts'[m] = IF m \in batch THEN attempts[m] + 1 ELSE attempts[m]
        /\ todo' = [todo EXCEPT ![d] = batch]
        /\ UNCHANGED <<accepted, current, delivered, mishaps>>
        /\ todo[d] = {}
    BY <1>0, <1>6 DEF Claim, batch, Carries
  <2>3. CASE m \in batch
    <3>1. ~InBatch(m) /\ InBatch(m)'
      BY <1>0, <2>1, <2>2, <2>3 DEF InBatch, Types
    <3>2. attempts[m] < GiveUp + mishaps
      BY <1>2, <2>1, <2>3, <3>1 DEF Counted
    <3>3. Sure(m)' <=> Sure(m)
      BY <2>1, <2>2, <2>3 DEF Sure
    <3>4. attempts'[m] <= GiveUp + mishaps'
      BY <1>2, <2>2, <2>3, <3>2, Constants DEF Types
    <3> QED
      BY <1>2, <2>2, <3>1, <3>3, <3>4 DEF Counted
  <2>4. CASE m \notin batch
    <3>1. InBatch(m) => InBatch(m)'
      BY <2>2 DEF InBatch, Types
    <3>2. Sure(m)' <=> Sure(m)
      BY <2>2, <2>4 DEF Sure
    <3> QED
      BY <1>0, <1>2, <2>2, <2>4, <3>1, <3>2, CountedStays
  <2> QED
    BY <2>3, <2>4
<1>7. ASSUME NEW d \in Drainers, NEW n \in Messages, NEW sent \in BOOLEAN,
             Answered(d, n, sent)
      PROVE  /\ InBatch(m)' = InBatch(m)
             /\ UNCHANGED <<status, attempts>>
             /\ Sure(m) => Sure(m)' /\ m # n
             /\ m = n => Sure(m)' = sent
  <2>1. /\ UNCHANGED <<status, attempts, todo>>
        /\ current' = [current EXCEPT ![d] = n]
        /\ accepted' = [accepted EXCEPT ![d] = sent]
        /\ n \in todo[d] /\ current[d] = NoMessage /\ status[n] = "sending"
    BY <1>0, <1>7 DEF Answered, logVars, Carries
  <2>2. InBatch(m)' = InBatch(m)
    BY <2>1 DEF InBatch
  <2>3. \A e \in Drainers : current[e] # n
    BY <2>1, OneSettler, Constants
  <2>4. /\ current'[d] = n /\ accepted'[d] = sent
        /\ \A e \in Drainers \ {d} :
             current'[e] = current[e] /\ accepted'[e] = accepted[e]
    BY <2>1 DEF Types
  <2>5. Sure(m) => Sure(m)' /\ m # n
    BY <1>2, <2>1, <2>3, <2>4 DEF Sure
  <2>6. m = n => Sure(m)' = sent
    BY <2>1, <2>3, <2>4 DEF Sure
  <2> QED
    BY <2>1, <2>2, <2>5, <2>6
<1>8. ASSUME NEW d \in Drainers, Answer(d) PROVE Counted(m)'
  <2> PICK n \in Messages : \/ SendAccepted(d, n)
                            \/ SendRefused(d, n)
                            \/ AnswerLost(d, n)
    BY <1>8 DEF Answer
  <2>1. CASE SendRefused(d, n)
    <3>1. Answered(d, n, FALSE) /\ UNCHANGED <<delivered, mishaps>>
      BY <2>1 DEF SendRefused
    <3>2. /\ attempts'[m] = attempts[m] /\ status'[m] = status[m]
          /\ InBatch(m)' = InBatch(m) /\ (Sure(m) => Sure(m)')
      BY <1>7, <3>1
    <3>3. delivered'[m] = delivered[m] /\ mishaps' >= mishaps
      BY <1>2, <3>1
    <3> QED
      BY <1>0, <1>2, <3>2, <3>3, CountedStays
  <2>2. ASSUME m = n, Delivered(n),
               \/ Answered(d, n, TRUE) /\ mishaps' = mishaps
               \/ Answered(d, n, FALSE) /\ mishaps' = mishaps + 1
        PROVE  Counted(m)'
    <3>1. ~Sure(m) /\ InBatch(m)' = InBatch(m) /\ UNCHANGED <<status, attempts>>
      BY <1>7, <2>2
    <3>2. delivered[m] <= mishaps /\ delivered'[m] = delivered[m] + 1
      BY <1>2, <2>2, <3>1 DEF Counted, Delivered, Types
    <3>3. \/ mishaps' = mishaps /\ Sure(m)'
          \/ mishaps' = mishaps + 1
      BY <1>7, <2>2
    <3>4. /\ attempts[m] \in Nat /\ delivered[m] \in Nat
          /\ attempts'[m] = attempts[m] /\ status'[m] = status[m]
      BY <3>1 DEF Types
    <3>5. /\ delivered'[m] <= 1 + mishaps'
          /\ ~Sure(m)' => delivered'[m] <= mishaps'
      BY <1>2, <3>2, <3>3, <3>4
    <3>6. /\ attempts[m] <= GiveUp + mishaps
          /\ status[m] \in Open /\ ~InBatch(m) => attempts[m] < GiveUp + mishaps
      BY <1>2 DEF Counted, Open
    <3>7. /\ attempts'[m] <= GiveUp + mishaps'
          /\ status'[m] \in Open /\ ~InBatch(m)' =>
               attempts'[m] < GiveUp + mishaps'
      BY <1>2, <3>1, <3>3, <3>4, <3>6, Constants
    <3> QED
      BY <3>5, <3>7 DEF Counted, Open
  <2>3. CASE SendAccepted(d, n)
    <3>1. Answered(d, n, TRUE) /\ Delivered(n) /\ mishaps' = mishaps
      BY <2>3 DEF SendAccepted
    <3>2. CASE m # n
      <4>1. /\ attempts'[m] = attempts[m] /\ status'[m] = status[m]
            /\ InBatch(m)' = InBatch(m) /\ (Sure(m) => Sure(m)')
        BY <1>7, <3>1
      <4>2. delivered'[m] = delivered[m] /\ mishaps' >= mishaps
        BY <1>2, <3>1, <3>2 DEF Delivered, Types
      <4> QED
        BY <1>0, <1>2, <4>1, <4>2, CountedStays
    <3> QED
      BY <2>2, <3>1, <3>2
  <2>4. CASE AnswerLost(d, n)
    <3>1. Answered(d, n, FALSE) /\ Delivered(n) /\ mishaps' = mishaps + 1
      BY <2>4 DEF AnswerLost, Mishap
    <3>2. CASE m # n
      <4>1. /\ attempts'[m] = attempts[m] /\ status'[m] = status[m]
            /\ InBatch(m)' = InBatch(m) /\ (Sure(m) => Sure(m)')
        BY <1>7, <3>1
      <4>2. delivered'[m] = delivered[m] /\ mishaps' >= mishaps
        BY <1>2, <3>1, <3>2 DEF Delivered, Types
      <4> QED
        BY <1>0, <1>2, <4>1, <4>2, CountedStays
    <3> QED
      BY <2>2, <3>1, <3>2
  <2> QED
    BY <2>1, <2>3, <2>4
<1>9. ASSUME NEW d \in Drainers, Settle(d) PROVE Counted(m)'
  <2> DEFINE n == current[d]
             v == Verdict(n, accepted[d])
  <2>1. /\ UNCHANGED <<attempts, delivered, mishaps>>
        /\ status' = [status EXCEPT ![n] = v]
        /\ n \in todo[d] /\ n \in Messages
        /\ v = IF accepted[d] THEN "sent"
               ELSE IF attempts[n] >= GiveUp THEN "failed" ELSE "queued"
    BY <1>0, <1>9 DEF Settle, Carries, Verdict
  <2>2. /\ todo' = [todo EXCEPT ![d] = @ \ {n}]
        /\ current' = [current EXCEPT ![d] = NoMessage]
        /\ accepted' = [accepted EXCEPT ![d] = FALSE]
    BY <1>9 DEF Settle, Advanced, Types
  <2>3. CASE m # n
    <3>1. status'[m] = status[m]
      BY <2>1, <2>3 DEF Types
    <3>2. InBatch(m) => InBatch(m)'
      BY <2>2, <2>3 DEF InBatch, Types
    <3>3. Sure(m) => Sure(m)'
      BY <2>2, <2>3, <3>1 DEF Sure, Types
    <3> QED
      BY <1>0, <1>2, <2>1, <3>1, <3>2, <3>3, CountedStays
  <2>4. CASE m = n
    <3>1. status'[m] = v
      BY <2>1, <2>4 DEF Types
    <3>2. Sure(m) => accepted[d]
      <4>1. status[m] # "sent"
        BY <1>0, <2>1, <2>4
      <4>2. \A e \in Drainers : current[e] = m => e = d
        BY <1>2, <2>1, <2>4, OneSettler
      <4> QED
        BY <4>1, <4>2 DEF Sure
    <3>3. Sure(m) => Sure(m)'
      BY <2>1, <3>1, <3>2 DEF Sure
    <3>4. status'[m] \in Open => attempts[m] < GiveUp
      BY <2>1, <2>4, <3>1, Constants DEF Open, Types
    <3> QED
      BY <1>0, <1>2, <2>1, <3>3, <3>4, CountedStays
  <2> QED
    BY <2>3, <2>4
<1>10. CASE UNCHANGED <<status, attempts, delivered, mishaps, todo, current,
                        accepted>>
  BY <1>2, <1>10 DEF Counted, InBatch, Sure
<1> QED
  <2>1. ASSUME NEW d \in Drainers, DrainStep(d) \/ Crash(d) PROVE Counted(m)'
    BY <1>4, <1>5, <1>6, <1>8, <1>9, <2>1
       DEF DrainStep, Begin, ClaimFails, SettleFails, Crash, logVars
  <2> QED
    BY <1>3, <1>4, <1>10, <2>1
       DEF Next, RequeueStalled, Tick, vars, logVars, drainVars

-----------------------------------------------------------------------------
(* Theorems *)

(* The invariant that the others rest on.                                  *)
THEOREM OutboxInvariant == ASSUME BatchInTime PROVE Spec => []IInv
<1>1. Init => IInv
  BY TypesInit, DrainInit, CountInit DEF IInv
<1>2. IInv /\ [Next]_vars => IInv'
  BY TypesNext, DrainNext, CountNext DEF IInv
<1> QED
  BY <1>1, <1>2, PTL DEF Spec

(* The counters stay in the bounds that GiveUp and the mishaps give them:  *)
(* claim_outbox counts no attempt beyond GiveUp that no mishap caused.     *)
THEOREM OutboxTypes == ASSUME BatchInTime PROVE Spec => []TypeOK
<1>1. IInv => TypeOK
  <2> SUFFICES ASSUME IInv PROVE TypeOK
    OBVIOUS
  <2>1. Types /\ \A m \in Messages : attempts[m] <= GiveUp + mishaps
                                     /\ delivered[m] <= 1 + mishaps
    BY DEF IInv, CountInv, Counted
  <2>2. \A m \in Messages : /\ attempts[m] \in 0..(GiveUp + MishapBound)
                            /\ delivered[m] \in 0..(1 + MishapBound)
    BY <2>1, Constants DEF Types
  <2> QED
    BY <2>1, <2>2 DEF Types, TypeOK
<1> QED
  BY <1>1, OutboxInvariant, PTL

(* However many drainers there are, and wherever they crash, no message is *)
(* in two batches: neither claimed twice nor requeued under its sender.    *)
THEOREM OneSenderOnly == ASSUME BatchInTime PROVE Spec => []OneSender
<1>1. IInv => OneSender
  BY DEF IInv, DrainInv
<1> QED
  BY <1>1, OutboxInvariant, PTL

(* Each further delivery has a mishap to blame, and so has a message that  *)
(* the provider took and that ends 'failed'.                               *)
THEOREM DuplicatesHaveCauses ==
  ASSUME BatchInTime PROVE Spec => []DuplicatesNeedMishaps
<1>1. IInv => DuplicatesNeedMishaps
  <2> SUFFICES ASSUME IInv, NEW m \in Messages
               PROVE  /\ delivered[m] <= 1 + mishaps
                      /\ status[m] = "failed" /\ delivered[m] > 0 => mishaps > 0
    BY DEF DuplicatesNeedMishaps
  <2>1. Types /\ DrainInv /\ Counted(m)
    BY DEF IInv, CountInv
  <2>2. ASSUME status[m] = "failed" PROVE ~Sure(m)
    BY <2>1, <2>2, Constants DEF DrainInv, Carries, Sure
  <2>3. mishaps \in Nat /\ delivered[m] \in Nat
    BY <2>1, Constants DEF Types
  <2>4. status[m] = "failed" => delivered[m] <= mishaps
    BY <2>1, <2>2 DEF Counted
  <2> QED
    BY <2>1, <2>3, <2>4 DEF Counted
<1> QED
  BY <1>1, OutboxInvariant, PTL

(* No late answer and no requeue opens a sent message again, though        *)
(* settle_message does not look at the status of the row.                  *)
THEOREM SentStaysSent == ASSUME BatchInTime PROVE Spec => SentIsFinal
<1> DEFINE Final == \A m \in Messages : status[m] = "sent" => status'[m] = "sent"
<1>1. IInv /\ [Next]_vars => [Final]_vars
  <2> SUFFICES ASSUME IInv, Next, NEW m \in Messages, status[m] = "sent"
               PROVE  status'[m] = "sent"
    OBVIOUS
  <2>1. \A d \in Drainers : Carries(d)
    BY DEF IInv, DrainInv
  <2>2. Types
    BY DEF IInv
  <2>3. CASE \E n \in Messages : Enqueue(n)
    BY <2>2, <2>3 DEF Enqueue, Types
  <2>4. CASE Requeued
    BY <2>4 DEF Requeued, Stalled
  <2>5. ASSUME NEW d \in Drainers, Claim(d) PROVE status'[m] = "sent"
    <3>1. m \notin Oldest(Queued)
      BY DEF Oldest, Queued
    <3> QED
      BY <2>5, <3>1 DEF Claim
  <2>6. ASSUME NEW d \in Drainers, Settle(d) PROVE status'[m] = "sent"
    <3>1. current[d] # m
      BY <2>1, <2>6 DEF Settle, Carries
    <3> QED
      BY <2>2, <2>6, <3>1 DEF Settle, Types
  <2>7. CASE UNCHANGED status
    BY <2>7
  <2>8. ASSUME NEW d \in Drainers, DrainStep(d) \/ Crash(d)
        PROVE  status'[m] = "sent"
    BY <2>4, <2>5, <2>6, <2>7, <2>8
       DEF DrainStep, Begin, ClaimFails, Answer, SendAccepted, SendRefused,
           AnswerLost, Answered, SettleFails, Crash, logVars
  <2> QED
    BY <2>3, <2>4, <2>7, <2>8 DEF Next, RequeueStalled, Tick
<1> QED
  BY <1>1, OutboxInvariant, PTL DEF Spec, SentIsFinal

=============================================================================
