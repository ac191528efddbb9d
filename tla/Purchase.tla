------------------------------- MODULE Purchase -------------------------------
(***************************************************************************)
(* Buying a coin pack: creditPurchase (payments/purchase.service.ts).      *)
(*                                                                         *)
(* One call is five transactions in a row, with the ledger in the middle,  *)
(* and the process may die between any two; the client then sends the      *)
(* receipt again.  Posting is one step here: Ledger is shown to implement  *)
(* LedgerAbs, in which an operation is applied at most once per key and    *)
(* whoever repeats it hears `replayed', or an error once the stored answer *)
(* has been purged.                                                        *)
(*                                                                         *)
(* X_Fault, like Count_Replace, is an operator with a fault a change to   *)
(* the code could introduce; nothing here uses it.                         *)
(***************************************************************************)
EXTENDS Integers, FiniteSets, FiniteSetsExt, Functions

CONSTANTS
    Requests,     \* HTTP requests, each with its own Idempotency-Key
    Users, Receipts, Packs,
    UserOf, ReceiptOf, PackOf,
    Coins,        \* [Packs -> Nat]
    Once,         \* packs with lifetime_once
    Levels,       \* thresholds of lifetime purchased coins
    MaxTries,     \* bound, per request: how often the client sends it
    MaxCrashes    \* bound: deaths of the process serving one

VARIABLES
    pc, tries, crashes,
    mine,         \* what an attempt holds: replayed?, and the total it read back
    purchases,    \* purchases: per receipt, NoRow or its row
    posted,       \* the ledger's purchase transactions
    purged,       \* ledger keys whose stored answer has been purged
    total,        \* user_stats.lifetime_purchased_coins
    level,        \* user_stats.user_level
    unlocked      \* highest level whose cosmetics the user was granted

vars == <<pc, tries, crashes, mine, purchases, posted, purged, total, level, unlocked>>

NoRow   == [status |-> "none"]
Fresh   == [replayed |-> FALSE, total |-> 0]
Working == {"record", "post", "count", "level", "unlock"}
Over    == {"done", "already_bought", "receipt_used", "error"}

ASSUME PurchaseConstants ==
    /\ UserOf \in [Requests -> Users] /\ ReceiptOf \in [Requests -> Receipts]
    /\ PackOf \in [Requests -> Packs] /\ Coins \in [Packs -> Nat \ {0}]
    /\ Once \subseteq Packs /\ Levels \subseteq Nat
    /\ MaxTries \in [Requests -> Nat] /\ MaxCrashes \in Nat

TypeOK ==
    /\ pc \in [Requests -> {"idle"} \cup Working \cup Over]
    /\ tries \in [Requests -> Nat] /\ crashes \in 0..MaxCrashes
    /\ mine \in [Requests -> [replayed : BOOLEAN, total : Nat]]
    /\ \A c \in Receipts : purchases[c] = NoRow \/ purchases[c] \in
         [status : {"pending", "credited"}, user : Users, pack : Packs]
    /\ posted \subseteq [key : Receipts \cup Requests, receipt : Receipts,
                         user : Users, pack : Packs]
    /\ purged \subseteq posted
    /\ total \in [Users -> Nat] /\ level \in [Users -> Nat] /\ unlocked \in [Users -> Nat]

Init ==
    /\ pc = [r \in Requests |-> "idle"] /\ tries = [r \in Requests |-> 0] /\ crashes = 0
    /\ mine = [r \in Requests |-> Fresh]
    /\ purchases = [c \in Receipts |-> NoRow]
    /\ posted = {} /\ purged = {}
    /\ total = [u \in Users |-> 0] /\ level = [u \in Users |-> 1]
    /\ unlocked = [u \in Users |-> 1]

-----------------------------------------------------------------------------
Goto(r, stage) == pc' = [pc EXCEPT ![r] = stage]

\* levelFor: level 1, and one more per threshold reached.
levelFor(coins) == 1 + Cardinality({t \in Levels : t <= coins})

OnceUsed(r) ==
    \E c \in Receipts : /\ purchases[c].status = "credited"
                        /\ purchases[c].user = UserOf[r] /\ purchases[c].pack = PackOf[r]

\* The client sends the receipt, and again after a crash or a lost answer.
\* assertLifetimeOnceNotUsed reads the purchases without a lock.
Check(r) ==
    /\ pc[r] \in {"idle"} \cup Over /\ tries[r] < MaxTries[r]
    /\ tries' = [tries EXCEPT ![r] = @ + 1]
    /\ Goto(r, IF PackOf[r] \in Once /\ OnceUsed(r) THEN "already_bought" ELSE "record")
    /\ UNCHANGED <<crashes, mine, purchases, posted, purged, total, level, unlocked>>

Record_Fault(r) ==
    /\ pc[r] = "record"
    /\ Goto(r, "post")
    /\ IF purchases[ReceiptOf[r]] = NoRow
       THEN purchases' = [purchases EXCEPT ![ReceiptOf[r]] =
                [status |-> "pending", user |-> UserOf[r], pack |-> PackOf[r]]]
       ELSE UNCHANGED purchases
    /\ UNCHANGED <<tries, crashes, mine, posted, purged, total, level, unlocked>>

\* INSERT INTO purchases .. ON CONFLICT (provider, provider_txn_id) DO NOTHING;
\* another account's receipt is refused.
Record(r) ==
    LET prior == purchases[ReceiptOf[r]]
    IN  /\ pc[r] = "record"
        /\ IF prior = NoRow
           THEN /\ purchases' = [purchases EXCEPT ![ReceiptOf[r]] =
                      [status |-> "pending", user |-> UserOf[r], pack |-> PackOf[r]]]
                /\ Goto(r, "post")
           ELSE /\ UNCHANGED purchases
                /\ Goto(r, IF prior.user = UserOf[r] THEN "post" ELSE "receipt_used")
        /\ UNCHANGED <<tries, crashes, mine, posted, purged, total, level, unlocked>>

LedgerKey_Fault(r) == r

\* purchase:<provider>:<provider_txn_id>, not the client's header.
LedgerKey(r) == ReceiptOf[r]

PriorPost(r) == {p \in posted : p.key = LedgerKey(r)}

\* postTransaction under the derived key; its identity names the pack.
Post(r) ==
    /\ pc[r] = "post"
    /\ IF PriorPost(r) = {}
       THEN /\ posted' = posted \cup {[key |-> LedgerKey(r), receipt |-> ReceiptOf[r],
                                       user |-> UserOf[r], pack |-> PackOf[r]]}
            /\ Goto(r, "count")
            /\ UNCHANGED mine
       ELSE /\ IF \E p \in PriorPost(r) : p.pack # PackOf[r] \/ p \in purged
               THEN Goto(r, "error") /\ UNCHANGED mine
               ELSE Goto(r, "count") /\ mine' = [mine EXCEPT ![r].replayed = TRUE]
            /\ UNCHANGED posted
    /\ UNCHANGED <<tries, crashes, purchases, purged, total, level, unlocked>>

Increment_Fault(r) == Coins[PackOf[r]]

\* "A replay must not inflate the counters a second time."
Increment(r) == IF mine[r].replayed THEN 0 ELSE Coins[PackOf[r]]

Count_Fault(r) ==
    LET u == UserOf[r]
    IN  /\ pc[r] = "count"
        /\ purchases' = [purchases EXCEPT ![ReceiptOf[r]].status = "credited"]
        /\ total' = [total EXCEPT ![u] = mine[r].total + Increment(r)]
        /\ mine' = [mine EXCEPT ![r].total = total'[u]]
        /\ Goto(r, "level")
        /\ UNCHANGED <<tries, crashes, posted, purged, level, unlocked>>

Count_Replace(r) ==
    LET u == UserOf[r]
    IN  /\ pc[r] = "count"
        /\ purchases' = [purchases EXCEPT ![ReceiptOf[r]] = [status |-> "credited"]]
        /\ total' = [total EXCEPT ![u] = @ + Increment(r)]
        /\ mine' = [mine EXCEPT ![r].total = total'[u]]
        /\ Goto(r, "level")
        /\ UNCHANGED <<tries, crashes, posted, purged, level, unlocked>>

\* One transaction: the purchase row, and the counters it returns.
Count(r) ==
    LET u == UserOf[r]
    IN  /\ pc[r] = "count"
        /\ purchases' = [purchases EXCEPT ![ReceiptOf[r]].status = "credited"]
        /\ total' = [total EXCEPT ![u] = @ + Increment(r)]
        /\ mine' = [mine EXCEPT ![r].total = total'[u]]
        /\ Goto(r, "level")
        /\ UNCHANGED <<tries, crashes, posted, purged, level, unlocked>>

\* A statement of its own, from the total read before.
SetLevel(r) ==
    /\ pc[r] = "level"
    /\ level' = [level EXCEPT ![UserOf[r]] = levelFor(mine[r].total)]
    /\ Goto(r, "unlock")
    /\ UNCHANGED <<tries, crashes, mine, purchases, posted, purged, total, unlocked>>

Unlock_Fault(r) ==
    /\ pc[r] = "unlock"
    /\ \/ unlocked' = [unlocked EXCEPT ![UserOf[r]] = Max({@, levelFor(mine[r].total) + 1})]
       \/ UNCHANGED unlocked
    /\ Goto(r, "done") /\ mine' = [mine EXCEPT ![r] = Fresh]
    /\ UNCHANGED <<tries, crashes, purchases, posted, purged, total, level>>

\* grantLevelUnlocks; a failure is logged and swallowed.
Unlock(r) ==
    /\ pc[r] = "unlock"
    /\ \/ unlocked' = [unlocked EXCEPT ![UserOf[r]] = Max({@, levelFor(mine[r].total)})]
       \/ UNCHANGED unlocked
    /\ Goto(r, "done") /\ mine' = [mine EXCEPT ![r] = Fresh]
    /\ UNCHANGED <<tries, crashes, purchases, posted, purged, total, level>>

\* The process dies between two of the transactions.
Crash(r) ==
    /\ pc[r] \in Working /\ crashes < MaxCrashes
    /\ crashes' = crashes + 1
    /\ Goto(r, "idle") /\ mine' = [mine EXCEPT ![r] = Fresh]
    /\ UNCHANGED <<tries, purchases, posted, purged, total, level, unlocked>>

\* The retention job clears the stored answer of a ledger transaction.
PurgeAnswer(p) ==
    /\ p \in posted \ purged
    /\ purged' = purged \cup {p}
    /\ UNCHANGED <<pc, tries, crashes, mine, purchases, posted, total, level, unlocked>>

Serve(r) == Record(r) \/ Post(r) \/ Count(r) \/ SetLevel(r) \/ Unlock(r)

Next ==
    \/ \E r \in Requests : Check(r) \/ Serve(r) \/ Crash(r)
    \/ \E p \in posted : PurgeAnswer(p)

Spec == Init /\ [][Next]_vars

-----------------------------------------------------------------------------
(* Properties                                                              *)

\* The coins the ledger credited an account, and those of requests that posted
\* and still have to count.
CreditsOf(u) == SumFunctionOnSet([p \in posted |-> Coins[p.pack]], {p \in posted : p.user = u})
OwedTo(u) ==
    SumFunctionOnSet([r \in Requests |-> Increment(r)], {r \in Requests : pc[r] = "count" /\ UserOf[r] = u})
Quiet == \A r \in Requests : pc[r] \in Over

\* "One receipt means one credit, forever", under any client keys, replays,
\* accounts and crashes, and it goes to the account whose row holds the receipt.
OneReceiptOneCredit ==
    /\ \A p, q \in posted : p.receipt = q.receipt => p = q
    /\ \A p \in posted : purchases[p.receipt] # NoRow /\ purchases[p.receipt].user = p.user

\* "A replay must not inflate the counters": lifetime purchased coins never
\* exceed what the ledger credited, minus what requests still have to count.
CountersNotInflated ==
    \A u \in Users : total[u] + OwedTo(u) <= CreditsOf(u)

\* With no process dying, nothing is lost between concurrent requests either.
CountersComplete ==
    crashes = 0 /\ Quiet => \A u \in Users : total[u] = CreditsOf(u)

\* Nobody is granted a cosmetic above the level the purchases reached.
UnlocksEarned == \A u \in Users : unlocked[u] <= levelFor(CreditsOf(u))

\* All three: what is kept beside the ledger follows the ledger.
CountersFollowLedger == CountersNotInflated /\ CountersComplete /\ UnlocksEarned

\* The header: a crash leaves a pending row and "retrying completes it".  Once
\* every request has been answered with success, every credited coin counts.
RetryCompletes ==
    (\A r \in Requests : pc[r] = "done") => \A u \in Users : total[u] = CreditsOf(u)
===============================================================================
