------------------------------ MODULE MCProgress ------------------------------
(***************************************************************************)
(* Components whose work must go on, checked side by side: the first state *)
(* chooses one of them, and only that one moves.  Postings are answered,   *)
(* battles end and events ship under the fairness of Ledger, Pk and Outbox.*)
(* The battles are those of two hosts, one of whose rooms closes around a  *)
(* gift; the events are three of two rooms, the first of them once-only.   *)
(***************************************************************************)
EXTENDS MCLedger, Progress

\* The two hosts of the battles.
CONSTANTS h1, h2

VARIABLE part

all == <<part, vars, pkVars, outboxVars>>

TwoRooms    == [e \in Events |-> IF e % 2 = 1 THEN "room_a" ELSE "room_b"]
FirstClaims == [e \in Events |-> IF e = 1 THEN "claim" ELSE "push"]

\* What the .cfg gives the constants.  TLC evaluates what a .cfg names at every
\* use, but what that names only once.
TheAccounts    == AccountsFlows
TheTracked     == TrackedFlows
TheKeyOf       == KeyOfFlows
TheIdentityOf  == IdentityOfFlows
TheTypeOf      == OneType
TheLegsOf      == LegsOfFlows
TheUnitOf      == UnitOfFlows
TheOpening     == OpeningFlows
TheAmounts     == SmallAmounts
ThePrices      == SmallPrices
TheRates       == SomeRates
TheFromFlows   == NotByHand
TheMaxTries    == OneTry
ThePartitionOf == TwoRooms
TheKindOf      == FirstClaims

ASSUME OutboxConstants

-----------------------------------------------------------------------------
ProgressInit == part \in {"postings", "battles", "events"} /\ Init /\ PkInit /\ OutboxInit

\* Only the part p moves.
Only(p) ==
    /\ part = p /\ UNCHANGED part
    /\ p # "postings" => UNCHANGED vars
    /\ p # "battles" => UNCHANGED pkVars
    /\ p # "events" => UNCHANGED outboxVars

ProgressNext ==
    \/ Only("postings") /\ Next
    \/ Only("battles") /\ PkNext
    \/ Only("events") /\ OutboxNext

\* The fairness of the modules, for the part that moves.
ProgressSpec ==
    /\ ProgressInit /\ [][ProgressNext]_all
    /\ \A r \in Requests : WF_all(Only("postings") /\ Serve(r))
    /\ \A b \in 1..MaxBattles : WF_all(Only("battles") /\ DueNext(b))
    /\ WF_all(Only("events") /\ Fetch(Job))
    /\ \A s \in Shippers : WF_all(Only("events") /\ Step(s))
===============================================================================
