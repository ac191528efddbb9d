------------------------------- MODULE Ledger -------------------------------
(***************************************************************************)
(* The money layer: postTransaction (economy/ledger.service.ts), the       *)
(* account resolution it calls (economy/accounts.ts) and the constraints   *)
(* migration 002 puts under it, as concurrent API requests see them.       *)
(*                                                                         *)
(* A request is one logical client operation.  Two requests may carry the  *)
(* same idempotency key (a client that timed out and sent the operation    *)
(* again while the first attempt still runs), and one request may be       *)
(* submitted several times (its attempt died, or its answer was lost).     *)
(*                                                                         *)
(* Postgres runs at READ COMMITTED.  What a transaction has written is     *)
(* private until COMMIT, so `rows' and `balance' hold committed data only. *)
(* Locks are not variables: what an attempt holds follows from how far its *)
(* transaction has come (pc, leg), and COMMIT or ROLLBACK releases it all. *)
(*                                                                         *)
(* An operator named X_Fault is X with a fault a change to the code could  *)
(* introduce.  Nothing uses it; the sensitivity checks put it in X's place *)
(* to show which property notices.                                         *)
(***************************************************************************)
EXTENDS Integers, Sequences, FiniteSets, Functions

CONSTANTS
    Requests,     \* the client operations
    Keys,         \* idempotency keys
    Types,        \* codes of ledger_txn_types
    Accounts,     \* ledger_accounts
    Tracked,      \* the scoped ones: they have an account_balances row
    Units,        \* coin, point, paise
    KeyOf,        \* [Requests -> Keys]
    IdentityOf,   \* what the key is bound to, per request
    TypeOf,       \* [Requests -> Types]
    LegsOf,       \* per request, its sequence of [acct, amount]
    UnitOf,       \* [Accounts -> Units]
    Opening,      \* committed balance of each tracked account at the start
    MaxTries      \* bound, per request: how often it is submitted

VARIABLES
    pc,           \* where each request's current attempt stands
    leg,          \* the leg the resolve loop is at
    tries,        \* attempts submitted so far
    answer,       \* what the client was told, "none" if nothing yet
    rows,         \* committed ledger_txns rows (their entries: EntrySum)
    balance,      \* committed account_balances
    active        \* the txn types whose is_active is set

vars == <<pc, leg, tries, answer, rows, balance, active>>

InTxn   == {"resolve", "commit"}    \* inside post(), row inserted
Serving == InTxn \cup {"find", "check_type", "insert", "wait_key", "reread"}
Stages  == Serving \cup {"idle", "done"}
Success == {"ok", "replayed", "already_applied"}
Refusal == {"unbalanced", "key_reused", "inactive", "insufficient"}

Steps(r) == DOMAIN LegsOf[r]

LegAmounts(r) == [i \in Steps(r) |-> LegsOf[r][i].amount]

\* The sum of a request's legs on one account: what its entries add to it.
LegSum == [r \in Requests |-> [a \in Accounts |->
    SumFunctionOnSet(LegAmounts(r), {i \in Steps(r) : LegsOf[r][i].acct = a})]]

Touches(r, a) == \E i \in Steps(r) : LegsOf[r][i].acct = a

\* The `deltas' map: legs on one account are netted before check and update.
Delta(r, a) == IF Touches(r, a) THEN LegSum[r][a] ELSE 0

ASSUME LedgerConstants ==
    /\ KeyOf \in [Requests -> Keys]
    /\ TypeOf \in [Requests -> Types]
    /\ IsFiniteSet(Accounts) /\ Tracked \subseteq Accounts
    /\ \A r \in Requests : Len(LegsOf[r]) \in Nat \ {0}
    /\ \A r \in Requests : Steps(r) = 1..Len(LegsOf[r])
    /\ \A r \in Requests : \A i \in Steps(r) : LegsOf[r][i].acct \in Accounts
    /\ \A r \in Requests : \A i \in Steps(r) : LegsOf[r][i].amount \in Int
    /\ Opening \in [Tracked -> Nat]
    /\ MaxTries \in [Requests -> Nat]

Row == [by : Requests, try : Nat, key : Keys, body : BOOLEAN]

TypeOK ==
    /\ pc \in [Requests -> Stages]
    /\ leg \in [Requests -> Nat \ {0}]
    /\ tries \in [Requests -> Nat]
    /\ answer \in [Requests -> {"none"} \cup Success \cup Refusal]
    /\ rows \subseteq Row
    /\ balance \in [Tracked -> Int]
    /\ active \subseteq Types

Init ==
    /\ pc = [r \in Requests |-> "idle"]
    /\ leg = [r \in Requests |-> 1]
    /\ tries = [r \in Requests |-> 0]
    /\ answer = [r \in Requests |-> "none"]
    /\ rows = {}
    /\ balance = Opening
    /\ active = Types

-----------------------------------------------------------------------------
(* Locks, as functions of how far a transaction has come                   *)

\* An uncommitted ledger_txns row with this key: the unique index makes any
\* other INSERT of the key wait for its transaction to end.
HoldsKey(s, k) == pc[s] \in InTxn /\ KeyOf[s] = k

\* resolveAccount's INSERT .. ON CONFLICT DO UPDATE locks the ledger_accounts
\* row of each scoped leg, one leg after the other, until the end.
HoldsAccount(s, a) ==
    \/ pc[s] = "resolve" /\ \E i \in Steps(s) : i < leg[s] /\ LegsOf[s][i].acct = a
    \/ pc[s] = "commit" /\ Touches(s, a)

\* SELECT .. FOR UPDATE on account_balances.
HoldsBalance(s, a) == pc[s] = "commit" /\ Touches(s, a)

-----------------------------------------------------------------------------
(* postTransaction, step by step                                           *)

Goto(r, stage) == pc' = [pc EXCEPT ![r] = stage]

Tell(r, what) ==
    /\ Goto(r, "done")
    /\ answer' = [answer EXCEPT ![r] = what]

Balanced_ZeroLegsOnly(r) == \A i \in Steps(r) : LegsOf[r][i].amount # 0

\* assertBalanced: no zero leg, and every unit sums to zero.
Balanced(r) ==
    /\ \A i \in Steps(r) : LegsOf[r][i].amount # 0
    /\ \A u \in Units :
         SumFunctionOnSet(LegAmounts(r), {i \in Steps(r) : UnitOf[LegsOf[r][i].acct] = u}) = 0

Submit(r) ==
    /\ pc[r] = "idle" /\ tries[r] < MaxTries[r]
    /\ tries' = [tries EXCEPT ![r] = @ + 1]
    /\ IF Balanced(r) THEN Goto(r, "find") /\ UNCHANGED answer
                      ELSE Tell(r, "unbalanced")
    /\ UNCHANGED <<leg, rows, balance, active>>

ReplayOrThrow_AnyIdentity(r, x) ==
    Tell(r, IF x.body THEN "replayed" ELSE "already_applied")

ReplayOrThrow_PerRequest(r, x) ==
    Tell(r, IF x.by # r THEN "key_reused"
            ELSE IF x.body THEN "replayed" ELSE "already_applied")

ReplayOrThrow_Pending(r, x) == Tell(r, "pending")

\* replayOrThrow.  The row it is given is committed, hence 'completed'.
ReplayOrThrow(r, x) ==
    Tell(r, IF IdentityOf[x.by] # IdentityOf[r] THEN "key_reused"
            ELSE IF x.body THEN "replayed" ELSE "already_applied")

WithKey(k) == {x \in rows : x.key = k}

Find_Skipped(r) ==
    /\ pc[r] = "find"
    /\ Goto(r, "check_type")
    /\ UNCHANGED <<leg, tries, answer, rows, balance, active>>

\* findByKey, in a transaction of its own before post() begins.
Find(r) ==
    /\ pc[r] = "find"
    /\ \/ \E x \in WithKey(KeyOf[r]) : ReplayOrThrow(r, x)
       \/ WithKey(KeyOf[r]) = {} /\ Goto(r, "check_type") /\ UNCHANGED answer
    /\ UNCHANGED <<leg, tries, rows, balance, active>>

\* The kill switch: an unlocked read of ledger_txn_types.is_active.
CheckType(r) ==
    /\ pc[r] = "check_type"
    /\ IF TypeOf[r] \in active THEN Goto(r, "insert") /\ UNCHANGED answer
                               ELSE Tell(r, "inactive")
    /\ UNCHANGED <<leg, tries, rows, balance, active>>

InsertTxn_NoIndexWait(r) ==
    /\ pc[r] \in {"insert", "wait_key"}
    /\ IF WithKey(KeyOf[r]) # {} THEN Goto(r, "reread") /\ UNCHANGED leg
       ELSE Goto(r, "resolve") /\ leg' = [leg EXCEPT ![r] = 1]
    /\ UNCHANGED <<tries, answer, rows, balance, active>>

\* INSERT INTO ledger_txns: a unique violation, a wait, or the key is taken.
InsertTxn(r) ==
    /\ pc[r] \in {"insert", "wait_key"}
    /\ LET taken == WithKey(KeyOf[r]) # {}
           busy  == \E s \in Requests \ {r} : HoldsKey(s, KeyOf[r])
       IN \/ taken /\ Goto(r, "reread") /\ UNCHANGED leg
          \/ ~taken /\ busy /\ pc[r] = "insert" /\ Goto(r, "wait_key") /\ UNCHANGED leg
          \/ ~taken /\ ~busy /\ Goto(r, "resolve") /\ leg' = [leg EXCEPT ![r] = 1]
    /\ UNCHANGED <<tries, answer, rows, balance, active>>

\* After the unique violation: the winner has committed, so re-read, replay.
Reread(r) ==
    /\ pc[r] = "reread"
    /\ \E x \in WithKey(KeyOf[r]) : ReplayOrThrow(r, x)
    /\ UNCHANGED <<leg, tries, rows, balance, active>>

\* The scoped legs whose account the resolve loop has still to lock.
Unresolved(r) == {i \in Steps(r) : i >= leg[r] /\ LegsOf[r][i].acct \in Tracked}

Resolve_NoWait(r) ==
    /\ pc[r] = "resolve"
    /\ \E i \in Unresolved(r) :
         /\ \A j \in Unresolved(r) : i <= j
         /\ leg' = [leg EXCEPT ![r] = i + 1]
    /\ UNCHANGED <<pc, tries, answer, rows, balance, active>>

\* resolveAccount for the next scoped leg, in leg order; waits while another
\* attempt holds the row.  System accounts are only looked up.
Resolve(r) ==
    /\ pc[r] = "resolve"
    /\ \E i \in Unresolved(r) :
         /\ \A j \in Unresolved(r) : i <= j
         /\ \A s \in Requests \ {r} : ~HoldsAccount(s, LegsOf[r][i].acct)
         /\ leg' = [leg EXCEPT ![r] = i + 1]
    /\ UNCHANGED <<pc, tries, answer, rows, balance, active>>

Overdraws_ChecksCurrent(r, a) == Touches(r, a) /\ balance[a] < 0

\* current + delta < 0, on the netted delta.
Overdraws(r, a) == Touches(r, a) /\ balance[a] + Delta(r, a) < 0

\* SELECT .. FOR UPDATE of every tracked balance, then the overdraft check.
LockBalances(r) ==
    /\ pc[r] = "resolve" /\ Unresolved(r) = {}
    /\ \A a \in Tracked : Touches(r, a) => \A s \in Requests \ {r} : ~HoldsBalance(s, a)
    /\ IF \E a \in Tracked : Overdraws(r, a)
       THEN Tell(r, "insufficient")
       ELSE Goto(r, "commit") /\ UNCHANGED answer
    /\ UNCHANGED <<leg, tries, rows, balance, active>>

Commit_UpdatesDebitsOnly(r) ==
    /\ pc[r] = "commit"
    /\ rows' = rows \cup {[by |-> r, try |-> tries[r], key |-> KeyOf[r], body |-> TRUE]}
    /\ balance' = [a \in Tracked |-> IF Delta(r, a) < 0 THEN balance[a] + Delta(r, a)
                                                       ELSE balance[a]]
    /\ Tell(r, "ok")
    /\ UNCHANGED <<leg, tries, active>>

\* Entries, balance updates, 'completed' with the response body, COMMIT.
Commit(r) ==
    /\ pc[r] = "commit"
    /\ rows' = rows \cup {[by |-> r, try |-> tries[r], key |-> KeyOf[r], body |-> TRUE]}
    /\ balance' = [a \in Tracked |-> balance[a] + Delta(r, a)]
    /\ Tell(r, "ok")
    /\ UNCHANGED <<leg, tries, active>>

-----------------------------------------------------------------------------
(* What the environment does                                               *)

\* The attempt dies before COMMIT: a crashed process, a dropped connection, a
\* statement timeout, withinTransaction throwing.  ROLLBACK leaves nothing.
Abort(r) ==
    /\ pc[r] \in Serving
    /\ Goto(r, "idle")
    /\ UNCHANGED <<leg, tries, answer, rows, balance, active>>

\* The answer never reached the client, or the client asks again anyway.
AskAgain(r) ==
    /\ pc[r] = "done" /\ tries[r] < MaxTries[r]
    /\ Goto(r, "idle")
    /\ answer' = [answer EXCEPT ![r] = "none"]
    /\ UNCHANGED <<leg, tries, rows, balance, active>>

\* An operator flips a row of ledger_txn_types.
FlipType(t) ==
    /\ active' = IF t \in active THEN active \ {t} ELSE active \cup {t}
    /\ UNCHANGED <<pc, leg, tries, answer, rows, balance>>

\* The retention job drops response bodies older than seven days.
PurgeBody(x) ==
    /\ x.body
    /\ rows' = (rows \ {x}) \cup {[x EXCEPT !.body = FALSE]}
    /\ UNCHANGED <<pc, leg, tries, answer, balance, active>>

Serve(r) ==
    \/ Find(r) \/ CheckType(r) \/ InsertTxn(r) \/ Reread(r)
    \/ Resolve(r) \/ LockBalances(r) \/ Commit(r)

Next ==
    \/ \E r \in Requests : Submit(r) \/ Serve(r) \/ Abort(r) \/ AskAgain(r)
    \/ \E t \in Types : FlipType(t)
    \/ \E x \in rows : PurgeBody(x)

\* The database runs a statement that is not waiting for a lock.
Spec == Init /\ [][Next]_vars /\ \A r \in Requests : WF_vars(Serve(r))

-----------------------------------------------------------------------------
(* Properties                                                              *)

\* What the append-only entries add up to on an account.
EntrySum(a) == SumFunction([x \in rows |-> LegSum[x.by][a]])

\* One idempotency key is charged at most once, whatever attempts carrying it
\* overlap, die and are sent again.
OneEffectPerKey == \A x, y \in rows : x.key = y.key => x = y

\* The cached balance is what the entries say (reconciliation check 1), so a
\* lost update or a double one under concurrency would show here.
CacheMatchesEntries == \A a \in Tracked : balance[a] = Opening[a] + EntrySum(a)

\* No user, host or agency ever owes coins or points.
NonNegative == \A a \in Tracked : balance[a] >= 0

\* Every unit sums to zero over the whole ledger (double entry).
BooksBalance ==
    \A u \in Units :
        SumFunction([a \in {b \in Accounts : UnitOf[b] = u} |-> EntrySum(a)]) = 0

\* A client told its operation went through is right: a committed row carries
\* its key and its identity.
SuccessIsTrue ==
    \A r \in Requests : answer[r] \in Success =>
        \E x \in rows : x.key = KeyOf[r] /\ IdentityOf[x.by] = IdentityOf[r]

\* A client told its operation was refused was not charged by it, not even by
\* an earlier attempt whose answer was lost.
RefusalIsTrue ==
    \A r \in Requests : answer[r] \in Refusal => \A x \in rows : x.by # r

\* Why the above hold, as one inductive invariant.  An attempt that got past
\* the overdraft check still has the money when it writes (the CHECK under
\* account_balances never fires), because account locks are exclusive; and a
\* key whose INSERT succeeded stays unused by others until its attempt ends.
CheckStillHolds ==
    \A r \in Requests : pc[r] = "commit" =>
        \A a \in Tracked : Touches(r, a) => balance[a] + Delta(r, a) >= 0

LocksExclusive ==
    \A r, s \in Requests, a \in Tracked :
        HoldsAccount(r, a) /\ HoldsAccount(s, a) => r = s

KeysExclusive ==
    \A r \in Requests : pc[r] \in InTxn =>
        /\ WithKey(KeyOf[r]) = {}
        /\ \A s \in Requests : HoldsKey(s, KeyOf[r]) => s = r

NotYetApplied ==
    \A r \in Requests : pc[r] \in {"check_type", "insert", "wait_key"} =>
        \A x \in rows : x.by # r

RowsWellFormed == \A x \in rows : x.key = KeyOf[x.by] /\ Balanced(x.by)

FinitelyManyRows == IsFiniteSet(rows)

ServingBalanced == \A r \in Requests : pc[r] \in Serving => Balanced(r)

AnsweredIsDone == \A r \in Requests : answer[r] # "none" => pc[r] = "done"

IInv ==
    /\ TypeOK /\ OneEffectPerKey /\ NonNegative
    /\ CheckStillHolds /\ LocksExclusive /\ KeysExclusive /\ NotYetApplied
    /\ RowsWellFormed /\ ServingBalanced
    /\ SuccessIsTrue /\ RefusalIsTrue /\ AnsweredIsDone
    /\ FinitelyManyRows /\ CacheMatchesEntries /\ BooksBalance

\* No two requests wait on each other for good: whatever is in service, again
\* and again nobody is.  A client tries finitely often, so this is that every
\* attempt ends.
EveryAttemptEnds == []<>(\A r \in Requests : pc[r] \notin Serving)

\* The requests that have taken effect: the detailed ledger, seen through
\* this mapping, is the abstract one.
Applied == {x.by : x \in rows}

Abs == INSTANCE LedgerAbs WITH applied <- Applied, told <- answer

\* postTransaction is one atomic, exactly-once operation to its callers.
ImplementsAbs == Abs!Spec
=============================================================================
