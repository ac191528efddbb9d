------------------------------- MODULE Wardrobe -------------------------------
(***************************************************************************)
(* What a person owns and wears (cosmetics/cosmetics.service.ts), the VIP  *)
(* tiers, which bundle items (vip.service.ts), and the items a level       *)
(* brings (unlocks.service.ts).  One person; a unit of time is a day.      *)
(*                                                                         *)
(* A purchase reads the catalogue and the ownership first and posts later, *)
(* in one transaction under the lock of the gem balance (module Ledger);   *)
(* levels are granted between the two.  A lapsed item keeps its flag: it   *)
(* is only not drawn.  Statements of two transactions that meet on a row   *)
(* end as one of their orders or roll one back, so each transaction is a   *)
(* step, and any of them may fail.  X_Fault is X with a fault; nothing     *)
(* uses it.                                                                *)
(***************************************************************************)
EXTENDS Integers, FiniteSets, FiniteSetsExt, Functions

CONSTANTS
    Items,        \* the catalogue: wearables and tiers
    Kind,         \* [Items -> kinds]; a tier's is "vip"
    Days,         \* [Items -> Nat]: what one purchase adds
    Bundle,       \* [Items -> SUBSET Items], a tier's items; their kinds differ
    LevelItems,   \* items a level brings
    Leaving,      \* items that may go off sale
    Orders,       \* requests
    Wish,         \* [Orders -> [do, item, key]]
    LastWear      \* bound: days that pass

VARIABLES
    owned,        \* user_cosmetics: per item its row, or Nothing
    days,         \* the clock
    selling,      \* items on sale
    order,        \* per request: "idle", "post" or "over"
    receipts,     \* cosmetic_purchases: [key, item, until]
    worn          \* ghost: days an item was the person's and running

wardrobeVars == <<owned, days, selling, order, receipts, worn>>

Never   == -1                       \* NULL: it does not lapse
Until   == Nat \cup {Never}
Nothing == [until |-> 0, on |-> FALSE, source |-> "none"]
OwnedRow == [until : Until, on : BOOLEAN, source : {"purchase", "level", "vip"}]
Tiers   == {i \in Items : Kind[i] = "vip"}
ItemKinds == {Kind[i] : i \in Items}
Keys    == {Wish[c].key : c \in Orders}

WardrobeConstants ==
    /\ Days \in [Items -> Nat \ {0}] /\ Bundle \in [Items -> SUBSET (Items \ Tiers)]
    /\ \A i \in Items : Bundle[i] # {} => i \in Tiers
    /\ \A i \in Items : \A b, c \in Bundle[i] : Kind[b] = Kind[c] => b = c
    /\ LevelItems \subseteq Items \ Tiers /\ LastWear \in Nat
    /\ \A c \in Orders : Wish[c].item \in Items /\ Wish[c].do \in {"buy", "wear", "bare"}

WardrobeTypeOK ==
    /\ owned \in [Items -> OwnedRow \cup {Nothing}]
    /\ days \in 0..LastWear /\ selling \subseteq Items
    /\ order \in [Orders -> {"idle", "post", "over"}]
    /\ receipts \subseteq [key : Keys, item : Items, until : Until]
    /\ worn \in [Items -> Nat]

WardrobeInit ==
    /\ owned = [i \in Items |-> Nothing] /\ days = 0 /\ selling = Items
    /\ order = [c \in Orders |-> "idle"] /\ receipts = {} /\ worn = [i \in Items |-> 0]

-----------------------------------------------------------------------------
Has(i)    == owned[i] # Nothing
Active(i) == Has(i) /\ (owned[i].until = Never \/ owned[i].until > days)
Paid(c)   == \E r \in receipts : r.key = Wish[c].key

Turn(c, stage) == order' = [order EXCEPT ![c] = stage]

\* Everything read before the posting.  A wearable bought with this key is
\* answered at once; a tier must still be on sale.
CheckOrder(c) ==
    LET i == Wish[c].item
        replay == i \notin Tiers /\ Paid(c)
    IN  /\ order[c] = "idle" /\ Wish[c].do = "buy"
        /\ Turn(c, IF ~replay /\ i \in selling /\ owned[i].source # "level" THEN "post" ELSE "over")
        /\ UNCHANGED <<owned, days, selling, receipts, worn>>

\* Time is added to what is left of it; an item owned for ever stays so.
Longer_Fault(row, n) == IF row.until = Never THEN Never ELSE days + n
Longer(row, n)       == IF row.until = Never THEN Never ELSE Max({row.until, days}) + n

\* Rows with every other item of i's kind taken off.
Alone(rows, i) ==
    [j \in Items |-> IF Kind[j] = Kind[i] /\ j # i THEN [rows[j] EXCEPT !.on = FALSE] ELSE rows[j]]

Bought(i) ==
    [Alone(owned, i) EXCEPT ![i] =
        [until |-> Longer(owned[i], Days[i]), on |-> TRUE,
         source |-> IF Has(i) THEN owned[i].source ELSE "purchase"]]

\* An item of a bundle is put on only where nothing of its kind is drawn.
PutOn(i, k) == \A j \in Items : Kind[j] = k /\ owned[j].on => ~Active(j)

Flagged(k) == \E j \in Items : Kind[j] = k /\ owned[j].on

BundleRow(i, tier) ==
    IF Has(i) THEN [owned[i] EXCEPT !.until = Longer(owned[i], Days[tier])]
    ELSE [until |-> days + Days[tier], on |-> PutOn(i, Kind[i]), source |-> "vip"]

WithBundle_Fault(rows, tier) ==
    [i \in Items |->
        IF i \in Bundle[tier] THEN [BundleRow(i, tier) EXCEPT !.on = TRUE]
        ELSE IF \E b \in Bundle[tier] : Kind[b] = Kind[i] THEN [rows[i] EXCEPT !.on = FALSE] ELSE rows[i]]

WithBundle(rows, tier) == [i \in Items |-> IF i \in Bundle[tier] THEN BundleRow(i, tier) ELSE rows[i]]

\* One item flagged per kind (a unique index): a new row that would be the
\* second ends the whole purchase, a lapsed item's flag counting too.
Clashes(tier) == \E i \in Bundle[tier] : ~Has(i) /\ PutOn(i, Kind[i]) /\ Flagged(Kind[i])

\* The receipt needs an expiry (NOT NULL), which an item owned for ever has not.
HasExpiry_Fault(i) == TRUE
HasExpiry(i)       == owned[i].until # Never

\* postTransaction: a key already used is a replay (or refused, for another
\* item); otherwise the gems, the time, the flags and the receipt together.
PostOrder_Fault(c) ==
    LET i == Wish[c].item
    IN  /\ order[c] = "post"
        /\ Turn(c, "over")
        /\ IF HasExpiry(i) /\ ~Clashes(i)
           THEN /\ owned' = WithBundle(Bought(i), i)
                /\ receipts' = receipts \cup
                       {[key |-> Wish[c].key, item |-> i, until |-> owned'[i].until]}
           ELSE UNCHANGED <<owned, receipts>>
        /\ UNCHANGED <<days, selling, worn>>

PostOrder(c) ==
    LET i == Wish[c].item
    IN  /\ order[c] = "post"
        /\ Turn(c, "over")
        /\ IF ~Paid(c) /\ HasExpiry(i) /\ ~Clashes(i)
           THEN /\ owned' = WithBundle(Bought(i), i)
                /\ receipts' = receipts \cup
                       {[key |-> Wish[c].key, item |-> i, until |-> owned'[i].until]}
           ELSE UNCHANGED <<owned, receipts>>
        /\ UNCHANGED <<days, selling, worn>>

\* equipCosmetic: only what is owned and running.
Equip(c) ==
    LET i == Wish[c].item
    IN  /\ order[c] = "idle" /\ Wish[c].do = "wear"
        /\ Turn(c, "over")
        /\ owned' = IF Active(i) THEN [Alone(owned, i) EXCEPT ![i].on = TRUE] ELSE owned
        /\ UNCHANGED <<days, selling, receipts, worn>>

\* unequipKind: the flag of a lapsed item goes too.
Unequip(c) ==
    LET i == Wish[c].item
    IN  /\ order[c] = "idle" /\ Wish[c].do = "bare"
        /\ Turn(c, "over")
        /\ owned' = [Alone(owned, i) EXCEPT ![i].on = FALSE]
        /\ UNCHANGED <<days, selling, receipts, worn>>

\* A purchase whose transaction failed: nothing of it is left.
Fail(c) ==
    /\ order[c] = "post"
    /\ Turn(c, "over")
    /\ UNCHANGED <<owned, days, selling, receipts, worn>>

\* grantLevelUnlocks, after a coin purchase: a rental becomes permanent.  reached
\* are the active items of the levels up to the buyer's, on sale or not: any of
\* them, the catalogue being what it is by then.
Earnable(reached) == {i \in reached : owned[i].source # "level"}

GrantUnlocks_Fault(reached) ==
    /\ Earnable(reached) # {}
    /\ owned' = [i \in Items |->
                    IF i \in Earnable(reached)
                    THEN [owned[i] EXCEPT !.until = Never, !.on = TRUE, !.source = "level"]
                    ELSE owned[i]]
    /\ UNCHANGED <<days, selling, order, receipts, worn>>

GrantUnlocks(reached) ==
    /\ Earnable(reached) # {}
    /\ owned' = [i \in Items |->
                    IF i \in Earnable(reached)
                    THEN [owned[i] EXCEPT !.until = Never, !.source = "level"] ELSE owned[i]]
    /\ UNCHANGED <<days, selling, order, receipts, worn>>

\* The catalogue changes.
TakeOffSale(i) ==
    /\ i \in selling \cap Leaving
    /\ selling' = selling \ {i}
    /\ UNCHANGED <<owned, days, order, receipts, worn>>

DayPasses ==
    /\ days < LastWear
    /\ days' = days + 1
    /\ worn' = [i \in Items |-> IF Active(i) THEN worn[i] + 1 ELSE worn[i]]
    /\ UNCHANGED <<owned, selling, order, receipts>>

WardrobeNext ==
    \/ \E c \in Orders : CheckOrder(c) \/ PostOrder(c) \/ Equip(c) \/ Unequip(c) \/ Fail(c)
    \/ \E i \in Items : TakeOffSale(i)
    \/ \E reached \in SUBSET LevelItems : GrantUnlocks(reached)
    \/ DayPasses

WardrobeSpec == WardrobeInit /\ [][WardrobeNext]_wardrobeVars

-----------------------------------------------------------------------------
\* An item's days, run and left, are the days paid for it: an early renewal
\* loses none, and a repeated request is charged once.
Left(i)    == Max({owned[i].until - days, 0})
Paying(i)  == {r \in receipts : r.item = i \/ i \in Bundle[r.item]}
TimeAddsUp ==
    \A i \in Items :
        Has(i) /\ owned[i].until # Never =>
            worn[i] + Left(i) = SumFunctionOnSet([r \in Paying(i) |-> Days[r.item]], Paying(i))
ChargedOnce == \A r, s \in receipts : r.key = s.key => r = s

\* What is owned for ever stays so, and is not sold, even to a purchase that
\* was under way when the level was reached.
KeptForGood ==
    \A i \in Items :
        owned[i].until = Never =>
            /\ owned'[i].until = Never
            /\ \A r \in receipts' \ receipts : r.item # i

\* What is drawn is taken off by its time, or by a request to wear, buy or take
\* off something of its kind: never by a bundle or a level.
Seen(k)     == {i \in Items : Kind[i] = k /\ owned[i].on /\ Active(i)}
Asked(k)    == \E c \in Orders : order[c] # order'[c] /\ order'[c] = "over" /\ Kind[Wish[c].item] = k
ChosenStays == \A k \in ItemKinds : Seen(k) # {} /\ Seen(k)' # Seen(k) => days' # days \/ Asked(k)

\* The types, and the four together, of every step (a step of something else,
\* which stutters here, is passed over before they are evaluated).
WardrobeKept  == TimeAddsUp' /\ ChargedOnce' /\ KeptForGood /\ ChosenStays
WardrobeHolds == []WardrobeTypeOK /\ [][wardrobeVars' # wardrobeVars => WardrobeKept]_wardrobeVars
===============================================================================
