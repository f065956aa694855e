---------------------------- MODULE JsonChannel ----------------------------
(***************************************************************************)
(* What an Outbox promises of the JSON messages queued for one recipient:  *)
(* while the connection lives each is handed to the socket once, in order, *)
(* and reaches the recipient unless that very send raises.                 *)
(***************************************************************************)
EXTENDS Sequences

CONSTANTS Message, NoMessage

VARIABLES
  queue, \* accepted and not yet handed over
  heard, \* the last one handed over, and whether the send that did so lost it
  alive  \* the recipient is neither given up on nor gone

Init ==
  /\ queue = <<>> /\ heard = [message |-> NoMessage, lost |-> FALSE]
  /\ alive = TRUE

Send(m) ==
  /\ alive
  /\ queue' = Append(queue, m)
  /\ UNCHANGED <<heard, alive>>

Deliver(lost) ==
  /\ alive /\ queue # <<>>
  /\ heard' = [message |-> Head(queue), lost |-> lost]
  /\ queue' = Tail(queue)
  /\ UNCHANGED alive

\* The connection is lost, and what was queued for it.
Fail ==
  /\ alive
  /\ alive' = FALSE
  /\ queue' = <<>>
  /\ UNCHANGED heard

Next == (\E lost \in BOOLEAN : Deliver(lost)) \/ Fail \/ \E m \in Message : Send(m)

vars == <<queue, heard, alive>>
Spec == Init /\ [][Next]_vars

\* A message that was accepted does not stay where it is.
FairSpec == Spec /\ WF_vars(queue # <<>> /\ ((\E lost \in BOOLEAN : Deliver(lost)) \/ Fail))
=============================================================================
