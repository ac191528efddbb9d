----------------------------- MODULE LedgerAbs -----------------------------
(***************************************************************************)
(* What the ledger promises its callers, with no transactions, locks or    *)
(* attempts: an operation is applied at most once per key, all of it in    *)
(* one step and only if nobody is overdrawn by it, and whoever is told it  *)
(* succeeded was told the truth.  Ledger implements this module.           *)
(***************************************************************************)
EXTENDS Integers

CONSTANTS Requests, Tracked, KeyOf, IdentityOf, Opening, Delta(_, _)

VARIABLES
    applied,      \* the operations that took effect
    balance,      \* what each tracked account holds
    told          \* what each client knows

absVars == <<applied, balance, told>>

Init ==
    /\ applied = {}
    /\ balance = Opening
    /\ told = [r \in Requests |-> "none"]

KeyUsed(r)    == \E q \in applied : KeyOf[q] = KeyOf[r]
SameOperation(r) == \E q \in applied : KeyOf[q] = KeyOf[r] /\ IdentityOf[q] = IdentityOf[r]
Affordable(r) == \A a \in Tracked : balance[a] + Delta(r, a) >= 0

\* The operation takes effect and its client hears so.
Apply(r) ==
    /\ ~KeyUsed(r) /\ Affordable(r)
    /\ applied' = applied \cup {r}
    /\ balance' = [a \in Tracked |-> balance[a] + Delta(r, a)]
    /\ told' = [told EXCEPT ![r] = "ok"]

\* A client hears an outcome: success of what was applied under its key, the
\* key's use for something else, an overdraft, or that the feature is off.
Hear(r, what) ==
    /\ \/ what \in {"replayed", "already_applied"} /\ SameOperation(r)
       \/ what = "key_reused" /\ KeyUsed(r) /\ ~SameOperation(r)
       \/ what = "insufficient" /\ ~KeyUsed(r) /\ ~Affordable(r)
       \/ what \in {"inactive", "unbalanced"} /\ r \notin applied
    /\ told' = [told EXCEPT ![r] = what]
    /\ UNCHANGED <<applied, balance>>

\* A client forgets its answer (it was lost, or it asks again).
Forget(r) ==
    /\ told' = [told EXCEPT ![r] = "none"]
    /\ UNCHANGED <<applied, balance>>

Outcomes == {"replayed", "already_applied", "key_reused", "insufficient",
             "inactive", "unbalanced"}

Next == \E r \in Requests :
    Apply(r) \/ Forget(r) \/ \E what \in Outcomes : Hear(r, what)

Spec == Init /\ [][Next]_absVars
=============================================================================
