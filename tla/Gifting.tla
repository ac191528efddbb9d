------------------------------- MODULE Gifting --------------------------------
(***************************************************************************)
(* Sending a gift, from the thumb to the ledger: the keys the app chooses  *)
(* (mobile: lib/intentKeys.ts, features/gifting/sendIntent.ts), the        *)
(* request it repeats (api/client.ts) and sendGift on the server           *)
(* (gifting/gifts.service.ts).  One viewer, one room, one recipient.       *)
(*                                                                         *)
(* Posting is one step, by the promise of LedgerAbs: a key is charged once *)
(* and nobody below zero.  X_Fault is X with a fault; nothing uses it.     *)
(***************************************************************************)
EXTENDS Integers, Sequences, FiniteSets, FiniteSetsExt, Functions

CONSTANTS
    Gifts,
    Price,        \* [Gifts -> Nat]
    Purse,        \* the viewer's balance at the start
    MaxTaps,      \* bound: gifts tapped
    MaxSends      \* bound: HTTP requests, the app's own repetitions included

VARIABLES
    taps,         \* the viewer's taps: [gift, key, heard]
    retry,        \* the one request whose outcome is unknown, or NoRetry
    sends,        \* requests: [tap, stage]
    charged,      \* keys of gift_sends and their gifts, as the ledger posted them
    stage,        \* whether the room and the viewer's limits allow a gift
    wished,       \* ghost: per gift, taps that were not about a failed one
    failed,       \* ghost: per gift, failures shown and not tapped again yet
    crossed,      \* ghost: keys sent again while a request of theirs ran
    muddled       \* ghost: two outcomes unknown at once, or the app restarted

giftVars == <<taps, retry, sends, charged, stage, wished, failed, crossed, muddled>>

TapIds  == 1..Len(taps)
SendIds == 1..Len(sends)
NoRetry == [gift |-> "none", key |-> 0]
Under   == {"find", "validate", "post"}

GiftingConstants ==
    /\ Price \in [Gifts -> Nat] /\ Purse \in Nat /\ MaxTaps \in Nat /\ MaxSends \in Nat
    /\ NoRetry.gift \notin Gifts

GiftingTypeOK ==
    /\ \A i \in TapIds : taps[i] \in [gift : Gifts, key : 1..MaxTaps,
                                      heard : {"waiting", "ok", "refused", "unknown"}]
    /\ retry = NoRetry \/ retry \in [gift : Gifts, key : 1..MaxTaps]
    /\ \A a \in SendIds : sends[a] \in [tap : TapIds, stage : Under \cup {"ok", "refused", "dead"}]
    /\ charged \subseteq [gift : Gifts, key : 1..MaxTaps]
    /\ stage \in {"open", "closed"}
    /\ wished \in [Gifts -> Nat] /\ failed \in [Gifts -> Nat]
    /\ crossed \subseteq 1..MaxTaps /\ muddled \in BOOLEAN

GiftingInit ==
    /\ taps = <<>> /\ retry = NoRetry /\ sends = <<>> /\ charged = {} /\ stage = "open"
    /\ wished = [g \in Gifts |-> 0] /\ failed = [g \in Gifts |-> 0]
    /\ crossed = {} /\ muddled = FALSE

-----------------------------------------------------------------------------
(* The app                                                                 *)

KeysUsed == {taps[i].key : i \in TapIds}
NewKey   == Max(KeysUsed \cup {0}) + 1

KeyFor_AlwaysNew(g) == NewKey

\* IntentKeys.begin: the key of the request being retried, else a fresh one.
KeyFor(g) == IF retry.gift = g THEN retry.key ELSE NewKey

Running(k) == \E a \in SendIds : sends[a].stage \in Under /\ taps[sends[a].tap].key = k

Send(i, k) ==
    /\ sends' = Append(sends, [tap |-> i, stage |-> "find"])
    /\ crossed' = IF Running(k) THEN crossed \cup {k} ELSE crossed

\* The thumb.  It taps again at once in a combo, without waiting for answers.
Tap(g) ==
    /\ Len(taps) < MaxTaps /\ Len(sends) < MaxSends
    /\ taps' = Append(taps, [gift |-> g, key |-> KeyFor(g), heard |-> "waiting"])
    /\ retry' = IF retry.gift = g THEN NoRetry ELSE retry
    /\ Send(Len(taps) + 1, KeyFor(g))
    /\ IF failed[g] > 0
       THEN failed' = [failed EXCEPT ![g] = @ - 1] /\ UNCHANGED wished
       ELSE wished' = [wished EXCEPT ![g] = @ + 1] /\ UNCHANGED failed
    /\ UNCHANGED <<charged, stage, muddled>>

\* The request a tap listens to is the last it sent.
LastSend(i) == Max({a \in SendIds : sends[a].tap = i})

\* A network error, a 503 or a 5xx: apiRequest sends the same key again, while
\* the server may still be working on the one before.
Resend(i) ==
    /\ taps[i].heard = "waiting" /\ Len(sends) < MaxSends
    /\ Send(i, taps[i].key)
    /\ UNCHANGED <<taps, retry, charged, stage, wished, failed, muddled>>

Settle_Forgets(i) == retry

\* IntentKeys.settle with an outcome unknown: the one slot is for this request.
Settle(i) == [gift |-> taps[i].gift, key |-> taps[i].key]

\* The retries are used up: the failure is shown.
ShowFailure(i) ==
    /\ taps[i].heard = "waiting"
    /\ taps' = [taps EXCEPT ![i].heard = "unknown"]
    /\ retry' = Settle(i)
    /\ muddled' = (muddled \/ (\E g \in Gifts : failed[g] > 0)
                           \/ (\E j \in TapIds \ {i} : taps[j].heard = "waiting"))
    /\ failed' = [failed EXCEPT ![taps[i].gift] = @ + 1]
    /\ UNCHANGED <<sends, charged, stage, wished, crossed>>

\* The answer to a tap's last request arrives, and settles its key.
HearAnswer(i) ==
    LET s == sends[LastSend(i)].stage
    IN  /\ taps[i].heard = "waiting" /\ s \in {"ok", "refused"}
        /\ taps' = [taps EXCEPT ![i].heard = s]
        /\ retry' = IF retry.key = taps[i].key THEN NoRetry ELSE retry
        /\ UNCHANGED <<sends, charged, stage, wished, failed, crossed, muddled>>

\* The sheet is closed or the app restarted: the slot was in memory.
Forget ==
    /\ retry # NoRetry /\ retry' = NoRetry /\ muddled' = TRUE
    /\ UNCHANGED <<taps, sends, charged, stage, wished, failed, crossed>>

-----------------------------------------------------------------------------
(* sendGift                                                                *)

Becomes(a, s) == /\ sends' = [sends EXCEPT ![a].stage = s]
                 /\ UNCHANGED <<taps, retry, stage, wished, failed, crossed, muddled>>

KeyOf(a)  == taps[sends[a].tap].key
GiftOf(a) == taps[sends[a].tap].gift
Charge(a) == [gift |-> GiftOf(a), key |-> KeyOf(a)]
CoinsCharged     == SumFunctionOnSet([c \in charged |-> Price[c.gift]], charged)

\* What was posted under this key; the same gift is the same operation, another
\* one is a key used twice (422).
PostedBy(a) == {c \in charged : c.key = KeyOf(a)}

Done_Fault(a) ==
    Charge(a) \in charged \/ \E b \in SendIds \ {a} : sends[b].stage = "post" /\ Charge(b) = Charge(a)

Done(a) == Charge(a) \in charged

Replay_Fault(a) ==
    /\ sends[a].stage = "find"
    /\ Becomes(a, "validate")
    /\ UNCHANGED charged

\* "REPLAY FIRST": findCompletedTransaction, before anything is validated.
Replay(a) ==
    /\ sends[a].stage = "find"
    /\ Becomes(a, IF Done(a) THEN "ok" ELSE IF PostedBy(a) # {} THEN "refused" ELSE "validate")
    /\ UNCHANGED charged

\* Price, room, ban, seat, block and the viewer's own limits, read without a lock.
Validate(a) ==
    /\ sends[a].stage = "validate"
    /\ Becomes(a, IF stage = "open" THEN "post" ELSE "refused")
    /\ UNCHANGED charged

\* postTransaction: the coins, the points and the gift_sends row, or nothing.
PostSend(a) ==
    /\ sends[a].stage = "post"
    /\ IF Done(a) THEN Becomes(a, "ok") /\ UNCHANGED charged
       ELSE IF PostedBy(a) # {} THEN Becomes(a, "refused") /\ UNCHANGED charged
       ELSE IF CoinsCharged + Price[GiftOf(a)] > Purse THEN Becomes(a, "refused") /\ UNCHANGED charged
       ELSE Becomes(a, "ok") /\ charged' = charged \cup {Charge(a)}

\* The request never arrives, or the process dies and rolls back.
LoseSend(a) ==
    /\ sends[a].stage \in Under
    /\ Becomes(a, "dead")
    /\ UNCHANGED charged

\* The host ends the room, the recipient leaves his seat, a limit is reached.
CloseStage ==
    /\ stage = "open" /\ stage' = "closed"
    /\ UNCHANGED <<taps, retry, sends, charged, wished, failed, crossed, muddled>>

GiftingNext ==
    \/ \E g \in Gifts : Tap(g)
    \/ \E i \in TapIds : Resend(i) \/ ShowFailure(i) \/ HearAnswer(i)
    \/ \E a \in SendIds : Replay(a) \/ Validate(a) \/ PostSend(a) \/ LoseSend(a)
    \/ Forget \/ CloseStage

GiftingSpec == GiftingInit /\ [][GiftingNext]_giftVars

-----------------------------------------------------------------------------
(* Properties                                                              *)

ChargesFor(g) == Cardinality({c \in charged : c.gift = g})

\* A viewer pays for the gifts he wished to send, though requests are repeated by
\* the app and by his thumb; unless two outcomes were unknown at once, or the app
\* was closed with one, because the app remembers a single one, in memory.
PaidAsWished ==
    ~muddled => \A g \in Gifts : ChargesFor(g) <= wished[g]

\* A gift shown as sent was paid for.
ShownWasSent ==
    \A i \in TapIds : taps[i].heard = "ok" =>
        \E c \in charged : c.key = taps[i].key /\ c.gift = taps[i].gift

\* "a charge that went through" is not answered "room ended": whoever is told of
\* a refusal was not charged, though answers were lost and the room ended in
\* between.  Only a request repeated while its first copy runs can cross it.
RefusedWasNotCharged ==
    \A i \in TapIds : taps[i].heard = "refused" /\ taps[i].key \notin crossed =>
        \A c \in charged : c.key # taps[i].key

\* Both: what the viewer is told about his coins is true.
AnswersAreTrue == ShownWasSent /\ RefusedWasNotCharged

\* The state has its type, he pays for what he wished, and what he is told is true.
GiftsHold == GiftingTypeOK /\ PaidAsWished /\ AnswersAreTrue
===============================================================================
