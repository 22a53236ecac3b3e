------------------------------ MODULE MCOutbox ------------------------------
(***************************************************************************)
(* Instances of Outbox: three messages, the second on a channel nobody     *)
(* serves, two drainers, and a batch that is over before the interval of   *)
(* requeue_stalled_messages.                                               *)
(***************************************************************************)
EXTENDS Outbox

MCMessages == 1..3

=============================================================================
