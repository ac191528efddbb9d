------------------------------- MODULE Progress -------------------------------
(***************************************************************************)
(* What goes on by itself: battles, which their sweep settles, and events, *)
(* which the shippers publish.  The two share no state.                    *)
(***************************************************************************)
EXTENDS Pk, Outbox

\* Both have their types: every pairing a transaction holds or a battle shows is of
\* hosts and of rooms they had, no draft, queue row or doomed battle points at what
\* is not there, and a shipper's batch and claims are of events and attempts that are.
ProgressTypeOK == PkTypeOK /\ OutboxTypeOK
===============================================================================
