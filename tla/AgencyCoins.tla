----------------------------- MODULE AgencyCoins ------------------------------
(***************************************************************************)
(* The coin channel of one agency (agency/coins.service.ts): prepays that  *)
(* one administrator records and another decides, and transfers from the   *)
(* inventory to users under daily caps.                                    *)
(*                                                                         *)
(* A posting is as Ledger has it: a key is posted once, the balance never  *)
(* goes below zero, and from its entry to its commit it holds the lock of  *)
(* the agency's inventory, which every posting here touches.               *)
(* X_Fault is X with a fault; nothing uses it.                             *)
(***************************************************************************)
EXTENDS Integers, FiniteSets, Functions

CONSTANTS
    Transfers,    \* calls of transfer, with their repetitions
    RequestOf,    \* [Transfers -> request ids]
    Lot, Payee,   \* per request id, its coins and its recipient
    Prepays,
    Worth,        \* [Prepays -> Nat], the coins frozen when it is recorded
    Admins,
    Decisions,    \* calls that decide a prepay
    PrepayOf, By, Verdict,
    AgencyCap, PayeeCap,  \* coins a day; the count is a cap of the same form
    LastDay,      \* bound: the day the run ends
    MaxMishaps    \* bound: crashes, and answers that are lost

VARIABLES
    day,
    trading,      \* agencies.coin_trading_enabled_at is set
    prepay,       \* agency_prepays: [state, recorder, decider]
    inventory,    \* the balance of agency_inventory
    sent,         \* agency_transfers: [request, stamp], and, a ghost, the day
                  \* its caps were counted for
    doing,        \* per call: stage, the days its transaction began and counted
    holder,       \* the call that holds the inventory's lock, or NoCall
    mishaps

channelVars == <<day, trading, prepay, inventory, sent, doing, holder, mishaps>>

Calls    == Transfers \cup Decisions
RequestIds == {RequestOf[c] : c \in Transfers}
NoCall   == "none"
NoAdmin   == "nobody"
Unasked     == [at |-> "idle", stamp |-> 0, counted |-> 0]

AgencyCoinsConstants ==
    /\ Transfers \cap Decisions = {} /\ NoCall \notin Calls /\ NoAdmin \notin Admins
    /\ Lot \in [RequestIds -> Nat \ {0}] /\ Worth \in [Prepays -> Nat \ {0}]
    /\ PrepayOf \in [Decisions -> Prepays] /\ By \in [Decisions -> Admins]
    /\ Verdict \in [Decisions -> {"confirm", "reject"}]
    /\ AgencyCap \in Nat /\ PayeeCap \in Nat /\ LastDay \in Nat /\ MaxMishaps \in Nat

ChannelTypeOK ==
    /\ day \in 0..LastDay /\ trading \in BOOLEAN /\ inventory \in Nat
    /\ prepay \in [Prepays -> [state : {"none", "pending", "confirmed", "rejected"},
                              recorder : Admins \cup {NoAdmin}, decider : Admins \cup {NoAdmin}]]
    /\ sent \subseteq [request : RequestIds, stamp : 0..LastDay, counted : 0..LastDay]
    /\ doing \in [Calls -> [at : {"idle", "checked", "begun", "inside", "counted", "ok", "refused"},
                            stamp : 0..LastDay, counted : 0..LastDay]]
    /\ holder \in Calls \cup {NoCall} /\ mishaps \in 0..MaxMishaps

ChannelInit ==
    /\ day = 0 /\ trading = TRUE /\ inventory = 0 /\ sent = {} /\ holder = NoCall /\ mishaps = 0
    /\ prepay = [p \in Prepays |-> [state |-> "none", recorder |-> NoAdmin, decider |-> NoAdmin]]
    /\ doing = [c \in Calls |-> Unasked]

Goes(c, stage) ==
    doing' = [doing EXCEPT ![c] = IF stage \in {"ok", "refused"} THEN [Unasked EXCEPT !.at = stage]
                                  ELSE [@ EXCEPT !.at = stage]]
Release(c)        == holder' = IF holder = c THEN NoCall ELSE holder

-----------------------------------------------------------------------------
\* recordPrepay: the maker's half; a payment reference is recorded once.
RecordPrepay(p, a) ==
    /\ prepay[p].state = "none" /\ trading
    /\ prepay' = [prepay EXCEPT ![p] = [state |-> "pending", recorder |-> a, decider |-> NoAdmin]]
    /\ UNCHANGED <<day, trading, inventory, sent, doing, holder, mishaps>>

\* rejectPrepay: one conditional UPDATE, which waits for a confirmation that has
\* updated the row; the database refuses the maker as its checker.
RejectPrepay(c) ==
    LET p == PrepayOf[c]
    IN  /\ c \in Decisions /\ Verdict[c] = "reject" /\ doing[c].at = "idle"
        /\ IF prepay[p].state = "pending" /\ prepay[p].recorder # By[c]
           THEN /\ prepay' = [prepay EXCEPT ![p].state = "rejected", ![p].decider = By[c]]
                /\ Goes(c, "ok")
           ELSE Goes(c, "refused") /\ UNCHANGED prepay
        /\ UNCHANGED <<day, trading, inventory, sent, holder, mishaps>>

\* confirmPrepay before the posting: pending, and somebody else's.
CheckPrepay(c) ==
    LET p == prepay[PrepayOf[c]]
    IN  /\ c \in Decisions /\ Verdict[c] = "confirm" /\ doing[c].at = "idle"
        /\ Goes(c, IF p.state = "pending" /\ p.recorder # By[c] THEN "checked" ELSE "refused")
        /\ UNCHANGED <<day, trading, prepay, inventory, sent, holder, mishaps>>

\* transfer before the posting: the owner, the grant, the cap of one transfer.
CheckTransfer(c) ==
    /\ c \in Transfers /\ doing[c].at = "idle"
    /\ Goes(c, IF trading THEN "checked" ELSE "refused")
    /\ UNCHANGED <<day, trading, prepay, inventory, sent, holder, mishaps>>

Posted_Fault(c) == FALSE

\* The key is derived from the record: the prepay, or the request id.
Posted(c) ==
    IF c \in Decisions THEN prepay[PrepayOf[c]].state = "confirmed"
    ELSE \E x \in sent : x.request = RequestOf[c]

\* BEGIN, whose time now() and created_at keep.
Begin(c) ==
    /\ doing[c].at = "checked"
    /\ doing' = [doing EXCEPT ![c] = IF Posted(c) THEN [Unasked EXCEPT !.at = "ok"]
                                     ELSE [Unasked EXCEPT !.at = "begun", !.stamp = day]]
    /\ UNCHANGED <<day, trading, prepay, inventory, sent, holder, mishaps>>

Enter_Fault(c) ==
    /\ doing[c].at = "begun"
    /\ Goes(c, IF Posted(c) THEN "ok" ELSE "inside")
    /\ UNCHANGED <<day, trading, prepay, inventory, sent, holder, mishaps>>

\* The key's unique index and the inventory's lock make it wait; whoever posted
\* the key meanwhile is replayed.
Enter(c) ==
    /\ doing[c].at = "begun" /\ holder = NoCall
    /\ IF Posted(c) THEN Goes(c, "ok") /\ UNCHANGED holder
       ELSE Goes(c, "inside") /\ holder' = c
    /\ UNCHANGED <<day, trading, prepay, inventory, sent, mishaps>>

LotsOf(S)    == SumFunctionOnSet([x \in S |-> Lot[x.request]], S)
SentToday    == {x \in sent : x.stamp = day}

WithinCaps_Fault(c) == LotsOf(SentToday) <= AgencyCap

\* usedToday under the lock, for the day it is, and the caps.
WithinCaps(c) ==
    LET r == RequestOf[c]
    IN  /\ LotsOf(SentToday) + Lot[r] <= AgencyCap
        /\ LotsOf({x \in SentToday : Payee[x.request] = Payee[r]}) + Lot[r] <= PayeeCap

CountUsed(c) ==
    /\ c \in Transfers /\ doing[c].at = "inside"
    /\ IF inventory >= Lot[RequestOf[c]] /\ WithinCaps(c)
       THEN doing' = [doing EXCEPT ![c].at = "counted", ![c].counted = day] /\ UNCHANGED holder
       ELSE Goes(c, "refused") /\ Release(c)
    /\ UNCHANGED <<day, trading, prepay, inventory, sent, mishaps>>

\* The row, stamped with the time of BEGIN; COMMIT.
Transfer(c) ==
    /\ c \in Transfers /\ doing[c].at = "counted"
    /\ sent' = sent \cup {[request |-> RequestOf[c], stamp |-> doing[c].stamp,
                          counted |-> doing[c].counted]}
    /\ inventory' = inventory - Lot[RequestOf[c]]
    /\ Goes(c, "ok") /\ Release(c)
    /\ UNCHANGED <<day, trading, prepay, mishaps>>

StillPending(c)  == prepay[PrepayOf[c]].state = "pending"
Minted_Fault(c)  == Worth[PrepayOf[c]]
Minted(c)        == IF StillPending(c) THEN Worth[PrepayOf[c]] ELSE 0

\* The decision is a conditional update inside the posting: no row, no coins.
Confirm(c) ==
    /\ c \in Decisions /\ doing[c].at = "inside"
    /\ inventory' = inventory + Minted(c)
    /\ IF StillPending(c)
       THEN /\ prepay' = [prepay EXCEPT ![PrepayOf[c]].state = "confirmed",
                                        ![PrepayOf[c]].decider = By[c]]
            /\ Goes(c, "ok")
       ELSE Goes(c, "refused") /\ UNCHANGED prepay
    /\ Release(c)
    /\ UNCHANGED <<day, trading, sent, mishaps>>

\* The process dies and the posting is rolled back, or the answer is lost: the
\* caller asks again.
Mishap(c) ==
    /\ doing[c].at # "idle" /\ mishaps < MaxMishaps /\ mishaps' = mishaps + 1
    /\ doing' = [doing EXCEPT ![c] = Unasked] /\ Release(c)
    /\ UNCHANGED <<day, trading, prepay, inventory, sent>>

Midnight ==
    /\ day < LastDay /\ day' = day + 1
    /\ UNCHANGED <<trading, prepay, inventory, sent, doing, holder, mishaps>>

\* An administrator withdraws the grant; calls past their check go on.
Withdraw ==
    /\ trading /\ trading' = FALSE
    /\ UNCHANGED <<day, prepay, inventory, sent, doing, holder, mishaps>>

ChannelNext ==
    \/ \E p \in Prepays, a \in Admins : RecordPrepay(p, a)
    \/ \E c \in Calls : \/ RejectPrepay(c) \/ CheckPrepay(c) \/ CheckTransfer(c) \/ Begin(c) \/ Enter(c)
                        \/ CountUsed(c) \/ Transfer(c) \/ Confirm(c) \/ Mishap(c)
    \/ Midnight \/ Withdraw

ChannelSpec == ChannelInit /\ [][ChannelNext]_channelVars

-----------------------------------------------------------------------------
(* Properties                                                              *)

\* "One record can only ever be one credit however it is retried or raced", and
\* a request moves coins once: the inventory is what was confirmed, by somebody
\* else than recorded it, less one lot for each request sent.
InventoryAddsUp ==
    /\ inventory = SumFunctionOnSet(Worth, {p \in Prepays : prepay[p].state = "confirmed"})
                   - SumFunctionOnSet(Lot, {x.request : x \in sent})
    /\ \A x, y \in sent : x.request = y.request => x = y
    /\ \A p \in Prepays : prepay[p].decider # NoAdmin => prepay[p].decider # prepay[p].recorder

\* "Two simultaneous transfers cannot both pass the last cap": what was begun and
\* counted on one day stays within that day's caps.  (A transfer that begins
\* before midnight and waits until after it is stamped with the one day and
\* counted for the other.)
CapsHold ==
    \A d \in 0..LastDay :
        LET whole == {x \in sent : x.stamp = d /\ x.counted = d}
        IN  /\ LotsOf(whole) <= AgencyCap
            /\ \A x \in whole : LotsOf({y \in whole : Payee[y.request] = Payee[x.request]}) <= PayeeCap

\* Both together.
ChannelHolds == ChannelTypeOK /\ InventoryAddsUp /\ CapsHold
===============================================================================
