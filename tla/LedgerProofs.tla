---------------------------- MODULE LedgerProofs ----------------------------
(***************************************************************************)
(* For any set of requests, keys, accounts and legs: the inductive         *)
(* invariant of Ledger, the safety properties it implies, and that Ledger  *)
(* implements LedgerAbs.  For any amounts, prices and rates: the flows of  *)
(* Economy build legs that balance, so that no posting of theirs is        *)
(* refused as unbalanced.                                                  *)
(***************************************************************************)
EXTENDS Economy, Sums, SequenceTheorems

-----------------------------------------------------------------------------
(* What a request's legs add up to                                         *)

\* A request has finitely many legs, with integer amounts.
LEMMA LegsFinite ==
  ASSUME NEW r \in Requests
  PROVE  /\ IsFiniteSet(Steps(r))
         /\ \A i \in Steps(r) : LegAmounts(r)[i] \in Int /\ LegsOf[r][i].acct \in Accounts
<1>1. Steps(r) = 1..Len(LegsOf[r]) /\ Len(LegsOf[r]) \in Nat
  BY LedgerConstants
<1>2. IsFiniteSet(Steps(r))
  BY <1>1, FS_Interval
<1> QED BY <1>2, LedgerConstants DEF LegAmounts

\* They add an integer to each account, and nothing to one they do not touch.
LEMMA LegSums ==
  ASSUME NEW r \in Requests, NEW a \in Accounts
  PROVE  LegSum[r][a] \in Int /\ Delta(r, a) = LegSum[r][a]
<1> DEFINE on == {i \in Steps(r) : LegsOf[r][i].acct = a}
<1>1. LegSum[r][a] = SumFunctionOnSet(LegAmounts(r), on)
  BY DEF LegSum
<1>2. IsFiniteSet(on) /\ \A i \in on : LegAmounts(r)[i] \in Int
  BY LegsFinite, FS_Subset
<1>3. LegSum[r][a] \in Int
  <2> HIDE DEF on
  <2> QED BY <1>1, <1>2, SumType
<1>4. CASE Touches(r, a)
  BY <1>3, <1>4 DEF Delta
<1>5. CASE ~Touches(r, a)
  <2>1. on = {}
    BY <1>5 DEF Touches
  <2>2. LegSum[r][a] = 0
    BY <1>1, <2>1, SumEmpty
  <2> QED BY <1>3, <1>5, <2>2 DEF Delta
<1> QED BY <1>3, <1>4, <1>5

LEMMA DeltaType == \A r \in Requests, a \in Tracked : Delta(r, a) \in Int
BY LegSums, LedgerConstants

\* A balanced request adds nothing to the accounts of a unit taken together.
LEMMA BalancedSums ==
  ASSUME NEW r \in Requests, Balanced(r), NEW u \in Units, NEW A,
         A = {a \in Accounts : UnitOf[a] = u}
  PROVE  SumFunctionOnSet([a \in A |-> LegSum[r][a]], A) = 0
<1> DEFINE S == {i \in Steps(r) : UnitOf[LegsOf[r][i].acct] = u}
           f == LegAmounts(r)
           h == [i \in S |-> LegsOf[r][i].acct]
           g == [a \in A |-> SumFunctionOnSet(f, {i \in S : h[i] = a})]
<1>1. IsFiniteSet(S) /\ \A i \in S : h[i] \in A /\ f[i] \in Int
  BY LegsFinite, FS_Subset
<1>2. IsFiniteSet(A)
  BY LedgerConstants, FS_Subset
<1>3. SumFunctionOnSet(g, A) = SumFunctionOnSet(f, S)
  <2> HIDE DEF S, f, h
  <2> QED BY <1>1, <1>2, SumGrouped
<1>4. SumFunctionOnSet(f, S) = 0
  BY DEF Balanced
<1>5. ASSUME NEW a \in A PROVE LegSum[r][a] = g[a]
  <2>1. {i \in S : h[i] = a} = {i \in Steps(r) : LegsOf[r][i].acct = a}
    OBVIOUS
  <2> QED BY <2>1 DEF LegSum
<1>6. [a \in A |-> LegSum[r][a]] = g
  BY <1>5
<1> QED BY <1>3, <1>4, <1>6

-----------------------------------------------------------------------------
(* Types                                                                   *)

\* No step takes a variable out of its type.
LEMMA TypeStep == TypeOK /\ [Next]_vars => TypeOK'
<1> SUFFICES ASSUME TypeOK, [Next]_vars PROVE TypeOK'
  OBVIOUS
<1> USE DEF TypeOK, Stages, Serving, InTxn, Success, Refusal, Goto, Tell
<1>1. ASSUME NEW r \in Requests, Submit(r) PROVE TypeOK'
  <2>1. CASE Balanced(r)
    BY <1>1, <2>1 DEF Submit
  <2>2. CASE ~Balanced(r)
    BY <1>1, <2>2 DEF Submit
  <2> QED BY <2>1, <2>2
<1>2. ASSUME NEW r \in Requests, Find(r) PROVE TypeOK'
  BY <1>2 DEF Find, ReplayOrThrow
<1>3. ASSUME NEW r \in Requests, CheckType(r) PROVE TypeOK'
  BY <1>3 DEF CheckType
<1>4. ASSUME NEW r \in Requests, InsertTxn(r) PROVE TypeOK'
  BY <1>4 DEF InsertTxn
<1>5. ASSUME NEW r \in Requests, Reread(r) PROVE TypeOK'
  BY <1>5 DEF Reread, ReplayOrThrow
<1>6. ASSUME NEW r \in Requests, Resolve(r) PROVE TypeOK'
  BY <1>6, LedgerConstants DEF Resolve, Unresolved, Steps
<1>7. ASSUME NEW r \in Requests, LockBalances(r) PROVE TypeOK'
  BY <1>7 DEF LockBalances
<1>8. ASSUME NEW r \in Requests, Commit(r) PROVE TypeOK'
  <2>1. rows' \subseteq Row
    <3>1. KeyOf[r] \in Keys /\ tries[r] \in Nat
      BY LedgerConstants
    <3>2. [by |-> r, try |-> tries[r], key |-> KeyOf[r], body |-> TRUE] \in Row
      BY <3>1 DEF Row
    <3> QED BY <3>2, <1>8 DEF Commit
  <2>2. \A a \in Tracked : balance[a] + Delta(r, a) \in Int
    BY DeltaType
  <2>3. balance' = [a \in Tracked |-> balance[a] + Delta(r, a)]
    BY <1>8 DEF Commit
  <2>4. balance' \in [Tracked -> Int]
    BY <2>2, <2>3
  <2> QED BY <1>8, <2>1, <2>4 DEF Commit
<1>9. ASSUME NEW r \in Requests, Abort(r) PROVE TypeOK'
  BY <1>9 DEF Abort
<1>10. ASSUME NEW r \in Requests, AskAgain(r) PROVE TypeOK'
  BY <1>10 DEF AskAgain
<1>11. ASSUME NEW t \in Types, FlipType(t) PROVE TypeOK'
  BY <1>11 DEF FlipType
<1>12. ASSUME NEW x \in rows, PurgeBody(x) PROVE TypeOK'
  BY <1>12 DEF PurgeBody, Row
<1>13. CASE UNCHANGED vars
  BY <1>13 DEF vars
<1> QED
  BY <1>1, <1>2, <1>3, <1>4, <1>5, <1>6, <1>7, <1>8, <1>9, <1>10, <1>11,
     <1>12, <1>13 DEF Next, Serve

\* Every variable holds a value of its type at all times: the pc of an attempt
\* is one of post()'s stages, a told answer one of replayOrThrow's outcomes.
THEOREM TypeCorrect == Spec => []TypeOK
<1>1. Init => TypeOK
  BY LedgerConstants DEF Init, TypeOK, Stages, Serving, InTxn
<1> QED BY <1>1, TypeStep, PTL DEF Spec

-----------------------------------------------------------------------------
(* Account locks                                                           *)

LEMMA StepsArePositive ==
  \A r \in Requests : \A i \in Steps(r) : i \in Nat /\ i >= 1
BY LedgerConstants

\* Only the resolve loop acquires an account: every other step leaves each
\* attempt with at most the tracked accounts it held.
LEMMA OnlyResolveLocks ==
  ASSUME TypeOK, [Next]_vars, \A r \in Requests : ~Resolve(r),
         NEW s \in Requests, NEW a \in Tracked, HoldsAccount(s, a)'
  PROVE  HoldsAccount(s, a)
<1> USE DEF TypeOK, HoldsAccount, Touches, Goto, Tell
<1>1. ASSUME NEW r \in Requests, Submit(r) PROVE HoldsAccount(s, a)
  BY <1>1 DEF Submit
<1>2. ASSUME NEW r \in Requests, Find(r) \/ CheckType(r) \/ Reread(r)
      PROVE  HoldsAccount(s, a)
  BY <1>2 DEF Find, CheckType, Reread, ReplayOrThrow
<1>3. ASSUME NEW r \in Requests, InsertTxn(r) PROVE HoldsAccount(s, a)
  BY <1>3, StepsArePositive DEF InsertTxn
<1>4. ASSUME NEW r \in Requests, LockBalances(r) PROVE HoldsAccount(s, a)
  <2>1. \A i \in Steps(r) : LegsOf[r][i].acct \in Tracked => i < leg[r]
    BY <1>4, LedgerConstants DEF LockBalances, Unresolved, Steps
  <2> QED BY <1>4, <2>1 DEF LockBalances
<1>5. ASSUME NEW r \in Requests, Commit(r) PROVE HoldsAccount(s, a)
  BY <1>5 DEF Commit
<1>6. ASSUME NEW r \in Requests, Abort(r) \/ AskAgain(r) PROVE HoldsAccount(s, a)
  BY <1>6 DEF Abort, AskAgain
<1>7. CASE (\E t \in Types : FlipType(t)) \/ (\E x \in rows : PurgeBody(x)) \/ UNCHANGED vars
  BY <1>7 DEF FlipType, PurgeBody, vars
<1> QED BY <1>1, <1>2, <1>3, <1>4, <1>5, <1>6, <1>7 DEF Next, Serve

\* resolveAccount waits for the row, so two attempts never hold one account.
LEMMA LocksStep == TypeOK /\ LocksExclusive /\ [Next]_vars => LocksExclusive'
<1> SUFFICES ASSUME TypeOK, LocksExclusive, [Next]_vars,
                    NEW s \in Requests, NEW t \in Requests, NEW a \in Tracked,
                    HoldsAccount(s, a)', HoldsAccount(t, a)'
             PROVE  s = t
  BY DEF LocksExclusive
<1>1. CASE \A r \in Requests : ~Resolve(r)
  BY <1>1, OnlyResolveLocks DEF LocksExclusive
<1>2. ASSUME NEW r \in Requests, Resolve(r) PROVE s = t
  <2>1. PICK i \in Unresolved(r) :
          /\ \A j \in Unresolved(r) : i <= j
          /\ \A u \in Requests \ {r} : ~HoldsAccount(u, LegsOf[r][i].acct)
          /\ leg' = [leg EXCEPT ![r] = i + 1]
    BY <1>2 DEF Resolve
  <2>2. pc' = pc /\ pc[r] = "resolve"
    BY <1>2 DEF Resolve
  <2>3. \A u \in Requests \ {r} : HoldsAccount(u, a)' => HoldsAccount(u, a)
    BY <2>1, <2>2 DEF HoldsAccount, TypeOK
  <2>4. HoldsAccount(r, a)' => HoldsAccount(r, a) \/ a = LegsOf[r][i].acct
    <3> SUFFICES ASSUME HoldsAccount(r, a)' PROVE HoldsAccount(r, a) \/ a = LegsOf[r][i].acct
      OBVIOUS
    <3>1. PICK j \in Steps(r) : j < i + 1 /\ LegsOf[r][j].acct = a
      BY <2>1, <2>2 DEF HoldsAccount, TypeOK
    <3>2. i \in Steps(r) /\ i \in Nat /\ j \in Nat /\ leg[r] \in Nat
      BY <2>1, StepsArePositive DEF Unresolved, TypeOK
    <3>3. CASE j < leg[r]
      BY <3>1, <3>3, <2>2 DEF HoldsAccount
    <3>4. CASE ~(j < leg[r])
      <4>1. j \in Unresolved(r)
        BY <3>1, <3>2, <3>4 DEF Unresolved
      <4>2. j = i
        BY <4>1, <2>1, <3>1, <3>2
      <4> QED BY <4>2, <3>1
    <3> QED BY <3>3, <3>4
  <2> QED BY <2>1, <2>3, <2>4 DEF LocksExclusive
<1> QED BY <1>1, <1>2

-----------------------------------------------------------------------------
(* Idempotency keys                                                        *)

KeyInv == /\ OneEffectPerKey /\ KeysExclusive /\ NotYetApplied
          /\ RowsWellFormed /\ ServingBalanced

\* The unique index, held by an uncommitted INSERT until its transaction ends,
\* keeps every key for one attempt at a time and for good once it commits.
LEMMA KeysStep == TypeOK /\ KeyInv /\ [Next]_vars => KeyInv'
<1> SUFFICES ASSUME TypeOK, KeyInv, [Next]_vars PROVE KeyInv'
  OBVIOUS
<1> USE DEF TypeOK, KeyInv, OneEffectPerKey, KeysExclusive, NotYetApplied,
            RowsWellFormed, ServingBalanced, HoldsKey, WithKey, Goto, Tell,
            InTxn, Serving
<1>1. ASSUME NEW r \in Requests, Submit(r) PROVE KeyInv'
  <2>1. CASE Balanced(r)
    BY <1>1, <2>1 DEF Submit
  <2>2. CASE ~Balanced(r)
    BY <1>1, <2>2 DEF Submit
  <2> QED BY <2>1, <2>2
<1>2. ASSUME NEW r \in Requests, Find(r) PROVE KeyInv'
  BY <1>2 DEF Find, ReplayOrThrow
<1>3. ASSUME NEW r \in Requests, CheckType(r) PROVE KeyInv'
  BY <1>3 DEF CheckType
<1>4. ASSUME NEW r \in Requests, InsertTxn(r) PROVE KeyInv'
  BY <1>4 DEF InsertTxn
<1>5. ASSUME NEW r \in Requests, Reread(r) PROVE KeyInv'
  BY <1>5 DEF Reread, ReplayOrThrow
<1>6. ASSUME NEW r \in Requests, Resolve(r) PROVE KeyInv'
  BY <1>6 DEF Resolve
<1>7. ASSUME NEW r \in Requests, LockBalances(r) PROVE KeyInv'
  BY <1>7 DEF LockBalances
<1>8. ASSUME NEW r \in Requests, Commit(r) PROVE KeyInv'
  <2> DEFINE new == [by |-> r, try |-> tries[r], key |-> KeyOf[r], body |-> TRUE]
  <2>1. /\ rows' = rows \cup {new} /\ new.by = r /\ new.key = KeyOf[r]
        /\ pc[r] = "commit" /\ pc' = [pc EXCEPT ![r] = "done"]
    BY <1>8 DEF Commit
  <2> HIDE DEF new
  <2>2. \A x \in rows : x.key # KeyOf[r]
    BY <2>1
  <2>3. OneEffectPerKey'
    BY <2>1, <2>2
  <2>4. KeysExclusive'
    BY <2>1
  <2>5. NotYetApplied' /\ ServingBalanced'
    BY <2>1
  <2>6. RowsWellFormed'
    BY <2>1
  <2> QED BY <2>3, <2>4, <2>5, <2>6
<1>9. ASSUME NEW r \in Requests, Abort(r) \/ AskAgain(r) PROVE KeyInv'
  BY <1>9 DEF Abort, AskAgain
<1>10. ASSUME NEW x \in rows, PurgeBody(x) PROVE KeyInv'
  <2> DEFINE new == [x EXCEPT !.body = FALSE]
  <2>1. /\ rows' = (rows \ {x}) \cup {new} /\ pc' = pc
        /\ new.by = x.by /\ new.key = x.key
    BY <1>10 DEF PurgeBody, Row
  <2> HIDE DEF new
  <2>2. OneEffectPerKey'
    BY <2>1
  <2>3. KeysExclusive' /\ NotYetApplied' /\ ServingBalanced'
    BY <2>1
  <2>4. RowsWellFormed'
    BY <2>1
  <2> QED BY <2>2, <2>3, <2>4
<1>11. CASE (\E t \in Types : FlipType(t)) \/ UNCHANGED vars
  BY <1>11 DEF FlipType, vars
<1> QED
  BY <1>1, <1>2, <1>3, <1>4, <1>5, <1>6, <1>7, <1>8, <1>9, <1>10, <1>11
     DEF Next, Serve

-----------------------------------------------------------------------------
(* Money                                                                   *)

MoneyInv == NonNegative /\ CheckStillHolds

\* What the overdraft check saw is still there at COMMIT: whoever else could
\* write the account would have to hold it.
LEMMA MoneyStep == TypeOK /\ LocksExclusive /\ MoneyInv /\ [Next]_vars => MoneyInv'
<1> SUFFICES ASSUME TypeOK, LocksExclusive, MoneyInv, [Next]_vars PROVE MoneyInv'
  OBVIOUS
<1> USE DEF TypeOK, MoneyInv, NonNegative, CheckStillHolds, Goto, Tell
<1>0. \A r \in Requests, a \in Tracked : Delta(r, a) \in Int
  BY DeltaType
<1>1. ASSUME NEW r \in Requests, Submit(r) PROVE MoneyInv'
  BY <1>1 DEF Submit
<1>2. ASSUME NEW r \in Requests, Find(r) \/ CheckType(r) \/ InsertTxn(r) \/ Reread(r)
      PROVE  MoneyInv'
  BY <1>2 DEF Find, CheckType, InsertTxn, Reread, ReplayOrThrow
<1>3. ASSUME NEW r \in Requests, Resolve(r) PROVE MoneyInv'
  BY <1>3 DEF Resolve
<1>4. ASSUME NEW r \in Requests, LockBalances(r) PROVE MoneyInv'
  BY <1>0, <1>4 DEF LockBalances, Overdraws
<1>5. ASSUME NEW r \in Requests, Commit(r) PROVE MoneyInv'
  <2>1. /\ pc[r] = "commit" /\ pc' = [pc EXCEPT ![r] = "done"]
        /\ \A a \in Tracked : balance'[a] = balance[a] + Delta(r, a)
    BY <1>5 DEF Commit
  <2>2. \A a \in Tracked : ~Touches(r, a) => Delta(r, a) = 0
    BY DEF Delta
  <2>3. NonNegative'
    BY <1>0, <2>1, <2>2
  <2>4. ASSUME NEW s \in Requests, pc'[s] = "commit", NEW a \in Tracked, Touches(s, a)
        PROVE  balance'[a] + Delta(s, a) >= 0
    <3>1. s # r /\ pc[s] = "commit"
      BY <2>1, <2>4
    <3>2. ~Touches(r, a)
      BY <2>1, <2>4, <3>1 DEF LocksExclusive, HoldsAccount
    <3> QED BY <1>0, <2>1, <2>2, <2>4, <3>1, <3>2
  <2> QED BY <2>3, <2>4
<1>6. ASSUME NEW r \in Requests, Abort(r) \/ AskAgain(r) PROVE MoneyInv'
  BY <1>6 DEF Abort, AskAgain
<1>7. CASE (\E t \in Types : FlipType(t)) \/ (\E x \in rows : PurgeBody(x)) \/ UNCHANGED vars
  BY <1>7 DEF FlipType, PurgeBody, vars
<1> QED BY <1>1, <1>2, <1>3, <1>4, <1>5, <1>6, <1>7 DEF Next, Serve

-----------------------------------------------------------------------------
(* Answers                                                                 *)

AnswerInv == SuccessIsTrue /\ RefusalIsTrue /\ AnsweredIsDone

\* replayOrThrow tells the truth about the row it is given.
LEMMA ReplayTellsTruth ==
  ASSUME TypeOK, KeyInv, AnswerInv, NEW r \in Requests, NEW x \in WithKey(KeyOf[r]),
         ReplayOrThrow(r, x), rows' = rows
  PROVE  AnswerInv'
<1> USE DEF TypeOK, AnswerInv, AnsweredIsDone, WithKey, Goto, Tell
<1>1. AnsweredIsDone'
  BY DEF ReplayOrThrow
<1>2. SuccessIsTrue'
  BY DEF ReplayOrThrow, SuccessIsTrue, Success
<1>3. RefusalIsTrue'
  <2>1. ASSUME IdentityOf[x.by] # IdentityOf[r], NEW y \in rows PROVE y.by # r
    BY <2>1 DEF KeyInv, OneEffectPerKey, RowsWellFormed
  <2> QED BY <2>1 DEF ReplayOrThrow, RefusalIsTrue, Refusal
<1> QED BY <1>1, <1>2, <1>3

\* A refusal is only spoken while no row of the request exists, and nothing
\* can commit for it until it asks again.
LEMMA AnswersStep == TypeOK /\ KeyInv /\ AnswerInv /\ [Next]_vars => AnswerInv'
<1> SUFFICES ASSUME TypeOK, KeyInv, AnswerInv, [Next]_vars PROVE AnswerInv'
  OBVIOUS
<1> USE DEF TypeOK, AnswerInv, AnsweredIsDone, SuccessIsTrue, RefusalIsTrue,
            Success, Refusal, Goto, Tell
<1>1. ASSUME NEW r \in Requests, Submit(r) PROVE AnswerInv'
  <2>1. CASE Balanced(r)
    BY <1>1, <2>1 DEF Submit
  <2>2. CASE ~Balanced(r)
    BY <1>1, <2>2 DEF Submit, KeyInv, RowsWellFormed
  <2> QED BY <2>1, <2>2
<1>2. ASSUME NEW r \in Requests, Find(r) PROVE AnswerInv'
  <2>1. ASSUME NEW x \in WithKey(KeyOf[r]), ReplayOrThrow(r, x) PROVE AnswerInv'
    BY <1>2, <2>1, ReplayTellsTruth DEF Find
  <2>2. CASE Goto(r, "check_type") /\ UNCHANGED answer
    BY <1>2, <2>2 DEF Find
  <2> QED BY <1>2, <2>1, <2>2 DEF Find
<1>3. ASSUME NEW r \in Requests, CheckType(r) PROVE AnswerInv'
  BY <1>3 DEF CheckType, KeyInv, NotYetApplied
<1>4. ASSUME NEW r \in Requests, InsertTxn(r) PROVE AnswerInv'
  BY <1>4 DEF InsertTxn
<1>5. ASSUME NEW r \in Requests, Reread(r) PROVE AnswerInv'
  BY <1>5, ReplayTellsTruth DEF Reread
<1>6. ASSUME NEW r \in Requests, Resolve(r) PROVE AnswerInv'
  BY <1>6 DEF Resolve
<1>7. ASSUME NEW r \in Requests, LockBalances(r) PROVE AnswerInv'
  <2>1. \A x \in rows : x.by # r
    BY <1>7 DEF LockBalances, KeyInv, KeysExclusive, RowsWellFormed, WithKey, InTxn
  <2> QED BY <1>7, <2>1 DEF LockBalances
<1>8. ASSUME NEW r \in Requests, Commit(r) PROVE AnswerInv'
  <2> DEFINE new == [by |-> r, try |-> tries[r], key |-> KeyOf[r], body |-> TRUE]
  <2>1. /\ rows' = rows \cup {new} /\ new.by = r /\ new.key = KeyOf[r]
        /\ pc[r] = "commit" /\ pc' = [pc EXCEPT ![r] = "done"]
        /\ answer' = [answer EXCEPT ![r] = "ok"]
    BY <1>8 DEF Commit
  <2> HIDE DEF new
  <2> QED BY <2>1
<1>9. ASSUME NEW r \in Requests, Abort(r) \/ AskAgain(r) PROVE AnswerInv'
  BY <1>9 DEF Abort, AskAgain, Serving, InTxn
<1>10. ASSUME NEW x \in rows, PurgeBody(x) PROVE AnswerInv'
  <2> DEFINE new == [x EXCEPT !.body = FALSE]
  <2>1. /\ rows' = (rows \ {x}) \cup {new} /\ pc' = pc /\ answer' = answer
        /\ new.by = x.by /\ new.key = x.key
    BY <1>10 DEF PurgeBody, Row
  <2> HIDE DEF new
  <2> QED BY <2>1
<1>11. CASE (\E t \in Types : FlipType(t)) \/ UNCHANGED vars
  BY <1>11 DEF FlipType, vars
<1> QED
  BY <1>1, <1>2, <1>3, <1>4, <1>5, <1>6, <1>7, <1>8, <1>9, <1>10, <1>11
     DEF Next, Serve

-----------------------------------------------------------------------------
(* What the entries add up to                                              *)

BooksInv == FinitelyManyRows /\ CacheMatchesEntries /\ BooksBalance

\* A commit adds its legs to every account's entries; purging a response body
\* changes no entry.
LEMMA EntriesStep ==
  ASSUME TypeOK, KeyInv, FinitelyManyRows, [Next]_vars
  PROVE  /\ FinitelyManyRows'
         /\ \A a \in Accounts : EntrySum(a) \in Int
         /\ \/ \E r \in Requests :
                 /\ Balanced(r)
                 /\ balance' = [a \in Tracked |-> balance[a] + Delta(r, a)]
                 /\ \A a \in Accounts : EntrySum(a)' = EntrySum(a) + LegSum[r][a]
            \/ balance' = balance /\ \A a \in Accounts : EntrySum(a)' = EntrySum(a)
<1> USE DEF FinitelyManyRows, Goto, Tell
<1> DEFINE entry(a) == [x \in rows |-> LegSum[x.by][a]]
<1>0. \A a \in Accounts : EntrySum(a) = SumFunctionOnSet(entry(a), rows)
  BY DEF EntrySum, SumFunction
<1>a. \A x \in rows : x.by \in Requests
  BY DEF TypeOK, Row
<1>b. \A a \in Accounts : \A x \in rows : entry(a)[x] \in Int
  BY <1>a, LegSums
<1>1. \A a \in Accounts : EntrySum(a) \in Int
  <2> SUFFICES ASSUME NEW a \in Accounts PROVE EntrySum(a) \in Int
    OBVIOUS
  <2> DEFINE f == entry(a)
  <2>1. \A x \in rows : f[x] \in Int
    BY <1>b
  <2> HIDE DEF f
  <2>2. SumFunctionOnSet(f, rows) \in Int
    BY <2>1, SumType
  <2> QED BY <1>0, <2>2 DEF f
<1>2. ASSUME NEW r \in Requests, Commit(r)
      PROVE  /\ IsFiniteSet(rows') /\ Balanced(r)
             /\ balance' = [a \in Tracked |-> balance[a] + Delta(r, a)]
             /\ \A a \in Accounts : EntrySum(a)' = EntrySum(a) + LegSum[r][a]
  <2> DEFINE new == [by |-> r, try |-> tries[r], key |-> KeyOf[r], body |-> TRUE]
  <2>1. rows' = rows \cup {new} /\ new.by = r /\ new.key = KeyOf[r] /\ pc[r] = "commit"
    BY <1>2 DEF Commit
  <2> HIDE DEF new
  <2>2. new \notin rows
    BY <2>1 DEF KeyInv, KeysExclusive, WithKey, InTxn
  <2>3. IsFiniteSet(rows')
    BY <2>1, FS_AddElement
  <2>4. ASSUME NEW a \in Accounts PROVE EntrySum(a)' = EntrySum(a) + LegSum[r][a]
    <3> DEFINE f == entry(a)
               g == [x \in rows' |-> LegSum[x.by][a]]
    <3>1. EntrySum(a)' = SumFunctionOnSet(g, rows')
      BY DEF EntrySum, SumFunction
    <3>2. \A x \in rows : f[x] \in Int /\ f[x] = g[x]
      BY <1>b, <2>1
    <3>3. g[new] = LegSum[r][a] /\ g[new] \in Int
      BY <2>1, LegSums
    <3>4. EntrySum(a) = SumFunctionOnSet(f, rows)
      BY <1>0
    <3> HIDE DEF f, g
    <3>5. SumFunctionOnSet(f, rows) = SumFunctionOnSet(g, rows)
      BY <3>2, SumSame
    <3>6. SumFunctionOnSet(g, rows \cup {new}) = SumFunctionOnSet(g, rows) + g[new]
      BY <2>2, <3>2, <3>3, SumAdd
    <3> QED BY <2>1, <3>1, <3>3, <3>4, <3>5, <3>6
  <2>5. Balanced(r)
    BY <2>1 DEF KeyInv, ServingBalanced, Serving, InTxn
  <2> QED BY <1>2, <2>3, <2>4, <2>5 DEF Commit
<1>3. ASSUME NEW x \in rows, PurgeBody(x)
      PROVE  /\ IsFiniteSet(rows') /\ balance' = balance
             /\ \A a \in Accounts : EntrySum(a)' = EntrySum(a)
  <2> DEFINE new == [x EXCEPT !.body = FALSE]
             rest == rows \ {x}
  <2>1. /\ rows' = rest \cup {new} /\ balance' = balance
        /\ new.by = x.by /\ new.key = x.key /\ new # x
    BY <1>3 DEF PurgeBody, Row, TypeOK
  <2>2. rows = rest \cup {x} /\ x \notin rest /\ IsFiniteSet(rest)
    BY FS_Subset
  <2> HIDE DEF new
  <2>3. new \notin rest
    BY <2>1 DEF KeyInv, OneEffectPerKey
  <2> HIDE DEF rest
  <2>4. IsFiniteSet(rows')
    BY <2>1, <2>2, FS_AddElement
  <2>5. ASSUME NEW a \in Accounts PROVE EntrySum(a)' = EntrySum(a)
    <3> DEFINE f == entry(a)
               g == [y \in rows' |-> LegSum[y.by][a]]
    <3>1. EntrySum(a)' = SumFunctionOnSet(g, rows')
      BY DEF EntrySum, SumFunction
    <3>2. \A y \in rest : f[y] \in Int /\ f[y] = g[y]
      BY <1>b, <2>1, <2>2
    <3>3. f[x] = g[new] /\ f[x] \in Int
      BY <1>b, <2>1
    <3>4. EntrySum(a) = SumFunctionOnSet(f, rows)
      BY <1>0
    <3> HIDE DEF f, g
    <3>5. SumFunctionOnSet(f, rest) = SumFunctionOnSet(g, rest)
      BY <2>2, <3>2, SumSame
    <3>6. SumFunctionOnSet(f, rest \cup {x}) = SumFunctionOnSet(f, rest) + f[x]
      BY <2>2, <3>2, <3>3, SumAdd
    <3>7. SumFunctionOnSet(g, rest \cup {new}) = SumFunctionOnSet(g, rest) + g[new]
      BY <2>2, <2>3, <3>2, <3>3, SumAdd
    <3> QED BY <2>1, <2>2, <3>1, <3>3, <3>4, <3>5, <3>6, <3>7
  <2> QED BY <2>1, <2>4, <2>5
<1>4. ASSUME rows' = rows
      PROVE  IsFiniteSet(rows') /\ \A a \in Accounts : EntrySum(a)' = EntrySum(a)
  <2>1. IsFiniteSet(rows')
    BY <1>4
  <2>2. ASSUME NEW a \in Accounts PROVE EntrySum(a)' = EntrySum(a)
    <3>1. [x \in rows' |-> LegSum[x.by][a]] = [x \in rows |-> LegSum[x.by][a]]
      BY <1>4
    <3> QED BY <3>1 DEF EntrySum
  <2> QED BY <2>1, <2>2
<1>5. \/ \E r \in Requests : Commit(r)
      \/ \E x \in rows : PurgeBody(x)
      \/ rows' = rows /\ balance' = balance
  BY DEF Next, Serve, vars, Submit, Find, CheckType, InsertTxn, Reread, ReplayOrThrow,
         Resolve, LockBalances, Abort, AskAgain, FlipType
<1> QED BY <1>1, <1>2, <1>3, <1>4, <1>5

\* COMMIT writes the entries and the cache in one transaction, and what it
\* writes was balanced: both books agree, and each unit still sums to zero.
LEMMA BooksStep == TypeOK /\ KeyInv /\ BooksInv /\ [Next]_vars => BooksInv'
<1> SUFFICES ASSUME TypeOK, KeyInv, BooksInv, [Next]_vars PROVE BooksInv'
  OBVIOUS
<1>1. FinitelyManyRows' /\ \A a \in Accounts : EntrySum(a) \in Int
  BY EntriesStep DEF BooksInv
<1>2. Tracked \subseteq Accounts
  BY LedgerConstants
<1>3. ASSUME NEW r \in Requests, Balanced(r),
             balance' = [a \in Tracked |-> balance[a] + Delta(r, a)],
             \A a \in Accounts : EntrySum(a)' = EntrySum(a) + LegSum[r][a]
      PROVE  CacheMatchesEntries' /\ BooksBalance'
  <2>1. ASSUME NEW a \in Tracked PROVE balance'[a] = Opening[a] + EntrySum(a)'
    <3>1. /\ balance[a] = Opening[a] + EntrySum(a) /\ balance'[a] = balance[a] + Delta(r, a)
          /\ EntrySum(a)' = EntrySum(a) + LegSum[r][a] /\ Delta(r, a) = LegSum[r][a]
      BY <1>2, <1>3, LegSums DEF BooksInv, CacheMatchesEntries
    <3>2. Opening[a] \in Int /\ EntrySum(a) \in Int /\ LegSum[r][a] \in Int
      BY <1>1, <1>2, LegSums, LedgerConstants
    <3> QED BY <3>1, <3>2
  <2>2. ASSUME NEW u \in Units
        PROVE  SumFunction([a \in {b \in Accounts : UnitOf[b] = u} |-> EntrySum(a)])' = 0
    <3> DEFINE A == {b \in Accounts : UnitOf[b] = u}
               f == [a \in A |-> EntrySum(a)]
               g == [a \in A |-> LegSum[r][a]]
               h == [a \in A |-> EntrySum(a)']
    <3>1. IsFiniteSet(A)
      BY LedgerConstants, FS_Subset
    <3>2. \A a \in A : f[a] \in Int /\ g[a] \in Int /\ h[a] = f[a] + g[a]
      BY <1>1, <1>3, LegSums
    <3>3. SumFunctionOnSet(g, A) = 0
      BY <1>3, BalancedSums
    <3>4. SumFunctionOnSet(f, A) = 0
      BY DEF BooksInv, BooksBalance, SumFunction
    <3>5. SumFunction([a \in A |-> EntrySum(a)])' = SumFunctionOnSet(h, A)
      BY DEF SumFunction
    <3> HIDE DEF f, g, h, A
    <3>6. SumFunctionOnSet(h, A) = SumFunctionOnSet(f, A) + SumFunctionOnSet(g, A)
      BY <3>1, <3>2, SumPlus
    <3> QED BY <3>3, <3>4, <3>5, <3>6 DEF A
  <2> QED BY <2>1, <2>2 DEF CacheMatchesEntries, BooksBalance
<1>4. ASSUME balance' = balance, \A a \in Accounts : EntrySum(a)' = EntrySum(a)
      PROVE  CacheMatchesEntries' /\ BooksBalance'
  <2>1. CacheMatchesEntries'
    BY <1>2, <1>4 DEF BooksInv, CacheMatchesEntries
  <2>2. ASSUME NEW u \in Units
        PROVE  SumFunction([a \in {b \in Accounts : UnitOf[b] = u} |-> EntrySum(a)])' = 0
    <3>1. [a \in {b \in Accounts : UnitOf[b] = u} |-> EntrySum(a)']
            = [a \in {b \in Accounts : UnitOf[b] = u} |-> EntrySum(a)]
      BY <1>4
    <3> QED BY <3>1 DEF BooksInv, BooksBalance, SumFunction
  <2> QED BY <2>1, <2>2 DEF BooksBalance
<1> QED BY <1>1, <1>3, <1>4, EntriesStep DEF BooksInv

-----------------------------------------------------------------------------
(* The theorems                                                            *)

LEMMA InitIInv == Init => IInv
<1> SUFFICES ASSUME Init PROVE IInv
  OBVIOUS
<1>1. TypeOK
  BY LedgerConstants DEF Init, TypeOK, Stages, Serving, InTxn
<1>2. NonNegative
  BY LedgerConstants DEF Init, NonNegative
<1>3. FinitelyManyRows /\ \A a \in Accounts : EntrySum(a) = 0
  BY FS_EmptySet, SumEmpty DEF Init, FinitelyManyRows, EntrySum, SumFunction
<1>4. CacheMatchesEntries
  BY <1>3, LedgerConstants DEF Init, CacheMatchesEntries
<1>5. BooksBalance
  <2> SUFFICES ASSUME NEW u \in Units
               PROVE  SumFunction([a \in {b \in Accounts : UnitOf[b] = u} |-> EntrySum(a)]) = 0
    BY DEF BooksBalance
  <2> DEFINE A == {b \in Accounts : UnitOf[b] = u}
             f == [a \in A |-> EntrySum(a)]
  <2>1. IsFiniteSet(A) /\ \A a \in A : f[a] = 0
    BY <1>3, LedgerConstants, FS_Subset
  <2>2. SumFunction(f) = SumFunctionOnSet(f, A)
    BY DEF SumFunction
  <2> HIDE DEF A, f
  <2>3. SumFunction(f) = 0
    BY <2>1, <2>2, SumZero
  <2> QED BY <2>3 DEF A, f
<1> QED
  BY <1>1, <1>2, <1>3, <1>4, <1>5 DEF Init, IInv, OneEffectPerKey, CheckStillHolds, LocksExclusive,
     HoldsAccount, KeysExclusive, NotYetApplied, RowsWellFormed, ServingBalanced,
     InTxn, Serving, SuccessIsTrue, RefusalIsTrue, AnsweredIsDone, Success, Refusal

LEMMA StepIInv == IInv /\ [Next]_vars => IInv'
BY TypeStep, LocksStep, KeysStep, MoneyStep, AnswersStep, BooksStep
   DEF IInv, KeyInv, MoneyInv, AnswerInv, BooksInv

\* The inductive invariant of the posting protocol, for any number of
\* concurrent requests over any accounts.
THEOREM Invariant == Spec => []IInv
BY InitIInv, StepIInv, PTL DEF Spec

\* However attempts carrying a key overlap, die and are repeated, its effect is
\* committed at most once.
THEOREM ExactlyOnce == Spec => []OneEffectPerKey
<1>1. IInv => OneEffectPerKey
  BY DEF IInv
<1> QED BY <1>1, Invariant, PTL

\* No committed balance of a user, host or agency is ever negative.
THEOREM NeverOverdrawn == Spec => []NonNegative
<1>1. IInv => NonNegative
  BY DEF IInv
<1> QED BY <1>1, Invariant, PTL

\* A client told its operation went through was told the truth, across lost
\* answers and repeated attempts: a row with its key and identity is committed.
THEOREM SuccessTrue == Spec => []SuccessIsTrue
<1>1. IInv => SuccessIsTrue
  BY DEF IInv
<1> QED BY <1>1, Invariant, PTL

\* A client told its operation was refused was not charged by it, not even by an
\* earlier attempt whose answer was lost.
THEOREM RefusalTrue == Spec => []RefusalIsTrue
<1>1. IInv => RefusalIsTrue
  BY DEF IInv
<1> QED BY <1>1, Invariant, PTL

\* Whatever postings overlap, the cached balance of every account is its opening
\* balance and the sum of its committed entries: no update is lost or doubled.
THEOREM CacheTrue == Spec => []CacheMatchesEntries
<1>1. IInv => CacheMatchesEntries
  BY DEF IInv
<1> QED BY <1>1, Invariant, PTL

\* Coins, points and paise are neither made nor lost: the committed entries of
\* all accounts of a unit sum to zero.
THEOREM DoubleEntry == Spec => []BooksBalance
<1>1. IInv => BooksBalance
  BY DEF IInv
<1> QED BY <1>1, Invariant, PTL

-----------------------------------------------------------------------------
(* Refinement                                                              *)

\* To its callers, postTransaction is one atomic operation applied at most
\* once per key: every step is a step of LedgerAbs or invisible to it.
THEOREM Refinement == Spec => ImplementsAbs
<1> USE DEF Abs!absVars
<1>1. Init => Abs!Init
  BY DEF Init, Abs!Init, Applied
<1>2. IInv /\ [Next]_vars => [Abs!Next]_(Abs!absVars)
  <2> SUFFICES ASSUME IInv, [Next]_vars PROVE [Abs!Next]_(Abs!absVars)
    OBVIOUS
  <2> USE DEF IInv, Goto, Tell
  <2>0. TypeOK
    OBVIOUS
  <2>a. ASSUME NEW r \in Requests, NEW what \in Abs!Outcomes, Abs!Hear(r, what)
        PROVE  Abs!Next
    BY <2>a DEF Abs!Next
  <2>b. ASSUME NEW r \in Requests, NEW x \in WithKey(KeyOf[r]), ReplayOrThrow(r, x),
               rows' = rows, balance' = balance
        PROVE  Abs!Next
    <3>1. Applied' = Applied
      BY <2>b DEF Applied
    <3>2. x \in rows /\ x.key = KeyOf[r] /\ x.by \in Applied /\ KeyOf[x.by] = KeyOf[r]
      BY DEF WithKey, Applied, RowsWellFormed
    <3>3. CASE IdentityOf[x.by] = IdentityOf[r]
      <4>1. Abs!SameOperation(r)
        BY <3>2, <3>3 DEF Abs!SameOperation
      <4>2. Abs!Hear(r, "replayed") \/ Abs!Hear(r, "already_applied")
        BY <3>1, <3>3, <4>1, <2>b DEF Abs!Hear, ReplayOrThrow
      <4> QED BY <4>2, <2>a DEF Abs!Outcomes
    <3>4. CASE IdentityOf[x.by] # IdentityOf[r]
      <4>1. \A q \in Applied : KeyOf[q] = KeyOf[r] => q = x.by
        BY <3>2 DEF Applied, OneEffectPerKey, RowsWellFormed
      <4>2. Abs!KeyUsed(r) /\ ~Abs!SameOperation(r)
        BY <3>2, <3>4, <4>1 DEF Abs!KeyUsed, Abs!SameOperation
      <4>3. Abs!Hear(r, "key_reused")
        BY <3>1, <3>4, <4>2, <2>b DEF Abs!Hear, ReplayOrThrow
      <4> QED BY <4>3, <2>a DEF Abs!Outcomes
    <3> QED BY <3>3, <3>4
  <2>c. ASSUME rows' = rows, balance' = balance, answer' = answer
        PROVE  UNCHANGED Abs!absVars
    BY <2>c DEF Applied
  <2>1. ASSUME NEW r \in Requests, Submit(r) PROVE [Abs!Next]_(Abs!absVars)
    <3>1. CASE Balanced(r)
      BY <2>1, <3>1, <2>c DEF Submit
    <3>2. CASE ~Balanced(r)
      <4>1. r \notin Applied /\ Applied' = Applied
        BY <2>1, <3>2 DEF Submit, Applied, RowsWellFormed
      <4>2. Abs!Hear(r, "unbalanced")
        BY <2>1, <3>2, <4>1 DEF Submit, Abs!Hear
      <4> QED BY <4>2, <2>a DEF Abs!Outcomes
    <3> QED BY <3>1, <3>2
  <2>2. ASSUME NEW r \in Requests, Find(r) PROVE [Abs!Next]_(Abs!absVars)
    BY <2>2, <2>b, <2>c DEF Find
  <2>3. ASSUME NEW r \in Requests, CheckType(r) PROVE [Abs!Next]_(Abs!absVars)
    <3>1. CASE TypeOf[r] \in active
      BY <2>3, <3>1, <2>c DEF CheckType
    <3>2. CASE TypeOf[r] \notin active
      <4>1. r \notin Applied /\ Applied' = Applied
        BY <2>3 DEF CheckType, Applied, NotYetApplied
      <4>2. Abs!Hear(r, "inactive")
        BY <2>3, <3>2, <4>1 DEF CheckType, Abs!Hear
      <4> QED BY <4>2, <2>a DEF Abs!Outcomes
    <3> QED BY <3>1, <3>2
  <2>4. ASSUME NEW r \in Requests, InsertTxn(r) \/ Resolve(r) \/ Abort(r)
        PROVE  [Abs!Next]_(Abs!absVars)
    BY <2>4, <2>c DEF InsertTxn, Resolve, Abort
  <2>5. ASSUME NEW r \in Requests, Reread(r) PROVE [Abs!Next]_(Abs!absVars)
    BY <2>5, <2>b DEF Reread
  <2>6. ASSUME NEW r \in Requests, LockBalances(r) PROVE [Abs!Next]_(Abs!absVars)
    <3>1. CASE \E a \in Tracked : Overdraws(r, a)
      <4>1. ~Abs!KeyUsed(r)
        BY <2>6 DEF LockBalances, Abs!KeyUsed, Applied, KeysExclusive,
                    RowsWellFormed, WithKey, InTxn
      <4>2. ~Abs!Affordable(r)
        BY <3>1, DeltaType DEF Overdraws, Abs!Affordable, TypeOK
      <4>3. Applied' = Applied
        BY <2>6 DEF LockBalances, Applied
      <4>4. Abs!Hear(r, "insufficient")
        BY <2>6, <3>1, <4>1, <4>2, <4>3 DEF LockBalances, Abs!Hear
      <4> QED BY <4>4, <2>a DEF Abs!Outcomes
    <3>2. CASE ~(\E a \in Tracked : Overdraws(r, a))
      BY <2>6, <3>2, <2>c DEF LockBalances
    <3> QED BY <3>1, <3>2
  <2>7. ASSUME NEW r \in Requests, Commit(r) PROVE [Abs!Next]_(Abs!absVars)
    <3>1. ~Abs!KeyUsed(r)
      BY <2>7 DEF Commit, Abs!KeyUsed, Applied, KeysExclusive, RowsWellFormed,
                  WithKey, InTxn
    <3>2. Abs!Affordable(r)
      <4> SUFFICES ASSUME NEW a \in Tracked PROVE balance[a] + Delta(r, a) >= 0
        BY DEF Abs!Affordable
      <4>1. CASE Touches(r, a)
        BY <2>7, <4>1 DEF Commit, CheckStillHolds
      <4>2. CASE ~Touches(r, a)
        <5>1. Delta(r, a) = 0
          BY <4>2 DEF Delta
        <5> QED BY <5>1 DEF NonNegative, TypeOK
      <4> QED BY <4>1, <4>2
    <3>3. Applied' = Applied \cup {r}
      <4> DEFINE new == [by |-> r, try |-> tries[r], key |-> KeyOf[r], body |-> TRUE]
      <4>1. rows' = rows \cup {new} /\ new.by = r
        BY <2>7 DEF Commit
      <4> HIDE DEF new
      <4> QED BY <4>1 DEF Applied
    <3>4. Abs!Apply(r)
      BY <2>7, <3>1, <3>2, <3>3 DEF Commit, Abs!Apply
    <3> QED BY <3>4 DEF Abs!Next
  <2>8. ASSUME NEW r \in Requests, AskAgain(r) PROVE [Abs!Next]_(Abs!absVars)
    <3>1. Abs!Forget(r)
      BY <2>8 DEF AskAgain, Abs!Forget, Applied
    <3> QED BY <3>1 DEF Abs!Next
  <2>9. ASSUME NEW x \in rows, PurgeBody(x) PROVE UNCHANGED Abs!absVars
    <3> DEFINE new == [x EXCEPT !.body = FALSE]
    <3>1. rows' = (rows \ {x}) \cup {new} /\ new.by = x.by
      BY <2>9 DEF PurgeBody, Row, TypeOK
    <3> HIDE DEF new
    <3>2. Applied' = Applied
      BY <3>1 DEF Applied
    <3> QED BY <2>9, <3>2 DEF PurgeBody
  <2>10. CASE (\E t \in Types : FlipType(t)) \/ UNCHANGED vars
    BY <2>10, <2>c DEF FlipType, vars
  <2> QED
    BY <2>1, <2>2, <2>3, <2>4, <2>5, <2>6, <2>7, <2>8, <2>9, <2>10 DEF Next, Serve
<1> QED BY <1>1, <1>2, Invariant, PTL DEF Spec, ImplementsAbs, Abs!Spec

-----------------------------------------------------------------------------
(* The legs of the flows                                                   *)

PaiseCodes ==
    {"cash_iap", "cash_web", "cash_reseller", "discount_pack", "discount_reseller",
     "discount_conversion_bonus", "deferred_revenue", "revenue_gifting", "revenue_cosmetics",
     "expense_host_payout", "expense_free_coins", "expense_agency_commission",
     "points_payable"}
Codes   == CoinCodes \cup PointCodes \cup PaiseCodes
Owners  == {"u", "h", "ag", "p", "system"}
Account == Codes \X Owners
AnyLeg == [acct : Account, amount : Int]
UnitSum(legs, u) == SumFunctionOnSet(AmountsOf(legs), OfUnit(legs, u))
Counted(l, u) == IF UnitOfAccount(l.acct) = u THEN l.amount ELSE 0

LEMMA LegType == \A a \in Account, n \in Int : Leg(a, n) \in AnyLeg
BY DEF Leg, AnyLeg

\* A leg at the end adds its amount to its unit.
LEMMA LegAdded ==
  ASSUME NEW legs \in Seq(AnyLeg), NEW l \in AnyLeg, NEW u
  PROVE  UnitSum(Append(legs, l), u) = UnitSum(legs, u) + Counted(l, u)
<1> DEFINE n == Len(legs)
           more == Append(legs, l)
           f == AmountsOf(legs)
           g == AmountsOf(more)
           S == OfUnit(legs, u)
           T == OfUnit(more, u)
<1>1. n \in Nat /\ DOMAIN legs = 1..n /\ DOMAIN more = 1..(n + 1)
  OBVIOUS
<1>2. \A i \in 1..n : more[i] = legs[i] /\ legs[i] \in AnyLeg
  OBVIOUS
<1>3. more[n + 1] = l
  OBVIOUS
<1>4. S \subseteq 1..n /\ T \subseteq 1..(n + 1)
  BY <1>1 DEF OfUnit
<1>5. IsFiniteSet(S)
  <2> HIDE DEF S, n
  <2>1. IsFiniteSet(1..n)
    BY <1>1, FS_Interval
  <2> QED BY <1>4, <2>1, FS_Subset
<1>6. /\ \A i \in 1..n : f[i] = legs[i].amount /\ g[i] = f[i] /\ f[i] \in Int
      /\ g[n + 1] = l.amount /\ l.amount \in Int
  BY <1>1, <1>2, <1>3 DEF AmountsOf, AnyLeg
<1>7. T = IF UnitOfAccount(l.acct) = u THEN S \cup {n + 1} ELSE S
  BY <1>1, <1>2, <1>3 DEF OfUnit
<1>8. n + 1 \notin S
  BY <1>1, <1>4
<1>9. UnitSum(legs, u) = SumFunctionOnSet(f, S) /\ UnitSum(more, u) = SumFunctionOnSet(g, T)
  BY DEF UnitSum
<1> HIDE DEF f, g, S, T, n
<1>10. SumFunctionOnSet(g, S) = SumFunctionOnSet(f, S)
  BY <1>4, <1>5, <1>6, SumSame
<1>11. SumFunctionOnSet(f, S) \in Int
  BY <1>4, <1>5, <1>6, SumType
<1>12. CASE UnitOfAccount(l.acct) = u
  <2>1. \A i \in S \cup {n + 1} : g[i] \in Int
    BY <1>4, <1>6
  <2>2. SumFunctionOnSet(g, S \cup {n + 1}) = SumFunctionOnSet(g, S) + g[n + 1]
    BY <1>5, <1>8, <2>1, SumAdd
  <2> QED BY <1>6, <1>7, <1>9, <1>10, <1>12, <2>2 DEF Counted
<1>13. CASE UnitOfAccount(l.acct) # u
  BY <1>7, <1>9, <1>10, <1>11, <1>13 DEF Counted
<1> QED BY <1>12, <1>13

LEMMA SumsAreInt == ASSUME NEW legs \in Seq(AnyLeg), NEW u PROVE UnitSum(legs, u) \in Int
<1>1. PICK n \in Nat : n = Len(legs) /\ DOMAIN legs = 1..n
  OBVIOUS
<1>2. IsFiniteSet(1..n) /\ OfUnit(legs, u) \subseteq 1..n
  BY <1>1, FS_Interval DEF OfUnit
<1>3. IsFiniteSet(OfUnit(legs, u))
  BY <1>2, FS_Subset
<1>4. \A i \in OfUnit(legs, u) : AmountsOf(legs)[i] \in Int
  <2>1. \A i \in 1..n : legs[i] \in AnyLeg
    BY <1>1
  <2> QED BY <1>1, <1>2, <2>1 DEF AmountsOf, AnyLeg
<1> QED BY <1>3, <1>4, SumType DEF UnitSum

LEMMA NoLegs == ASSUME NEW u PROVE UnitSum(<<>>, u) = 0
<1>1. OfUnit(<<>>, u) = {}
  BY DEF OfUnit
<1> QED BY <1>1, SumEmpty DEF UnitSum

\* The loop of nonZero: what it has kept after each leg.
Loop(legs, m, k) ==
    /\ k[0] = <<>>
    /\ \A i \in 1..m :
         k[i] = IF legs[i].amount = 0 THEN k[i - 1] ELSE Append(k[i - 1], legs[i])

LEMMA LoopRuns ==
  ASSUME NEW legs \in Seq(AnyLeg)
  PROVE  \E k : Loop(legs, Len(legs), k) /\ nonZero(legs) = k[Len(legs)]
<1> DEFINE Body(m, k) == [i \in 0..m |->
             IF i = 0 THEN <<>>
             ELSE IF legs[i].amount = 0 THEN k[i - 1] ELSE Append(k[i - 1], legs[i])]
           P == {m \in Nat : \E k : k = Body(m, k)}
<1>1. 0 \in P
  <2>1. [i \in 0..0 |-> <<>>] = Body(0, [i \in 0..0 |-> <<>>])
    OBVIOUS
  <2> QED BY <2>1
<1>2. ASSUME NEW m \in Nat, m \in P PROVE m + 1 \in P
  <2>1. PICK k : k = Body(m, k)
    BY <1>2
  <2>2. PICK last : last = IF legs[m + 1].amount = 0 THEN k[m] ELSE Append(k[m], legs[m +
        1])
    OBVIOUS
  <2>3. PICK next : next = [i \in 0..(m + 1) |-> IF i = m + 1 THEN last ELSE k[i]]
    OBVIOUS
  <2>4. \A i \in 0..m : next[i] = k[i]
    BY <2>3
  <2>5. next[m + 1] = last
    BY <2>3
  <2>6. ASSUME NEW i \in 0..(m + 1) PROVE next[i] = Body(m + 1, next)[i]
    <3>1. CASE i = m + 1
      BY <2>2, <2>4, <2>5, <3>1
    <3>2. CASE i \in 0..m
      <4>1. i # 0 => i - 1 \in 0..m
        BY <3>2
      <4>2. k[i] = Body(m, k)[i]
        BY <2>1
      <4> QED BY <2>4, <3>2, <4>1, <4>2
    <3> QED BY <3>1, <3>2
  <2>7. next = Body(m + 1, next)
    <3>1. PICK b : b = Body(m + 1, next)
      OBVIOUS
    <3>2. \A i \in 0..(m + 1) : next[i] = b[i]
      BY <2>6, <3>1
    <3>3. b = [i \in 0..(m + 1) |-> b[i]] /\ next = [i \in 0..(m + 1) |-> next[i]]
      BY <2>3, <3>1
    <3> QED BY <3>1, <3>2, <3>3
  <2> QED BY <2>7
<1>3. \A m \in Nat : m \in P
  <2> HIDE DEF P
  <2> QED BY <1>1, <1>2, Counting
<1> DEFINE n == Len(legs)
           K == CHOOSE k : k = Body(n, k)
<1>4. n \in Nat
  OBVIOUS
<1>5. K = Body(n, K)
  <2>1. \E k : k = Body(n, k)
    BY <1>3, <1>4
  <2> HIDE DEF Body
  <2> QED BY <2>1
<1>6. nonZero(legs) = K[n]
  BY DEF nonZero
<1>7. Loop(legs, n, K)
  <2> HIDE DEF K, n
  <2>1. \A i \in 0..n : K[i] = IF i = 0 THEN <<>>
             ELSE IF legs[i].amount = 0 THEN K[i - 1] ELSE Append(K[i - 1], legs[i])
    BY <1>5
  <2> QED BY <1>4, <2>1 DEF Loop
<1> QED BY <1>6, <1>7

\* Dropping the zero legs leaves no zero leg, and the sums as they were.
LEMMA NonZeroLegs ==
  ASSUME NEW legs \in Seq(AnyLeg)
  PROVE  /\ nonZero(legs) \in Seq(AnyLeg)
         /\ \A i \in DOMAIN nonZero(legs) : nonZero(legs)[i].amount # 0
         /\ \A u : UnitSum(nonZero(legs), u) = UnitSum(legs, u)
<1> DEFINE n == Len(legs)
           NoZero(s) == \A i \in 1..Len(s) : s[i].amount # 0
           Same(s, m) == \A u : UnitSum(s, u) = UnitSum(SubSeq(legs, 1, m), u)
<1>1. PICK k : Loop(legs, n, k) /\ nonZero(legs) = k[n]
  BY LoopRuns
<1> DEFINE Kept(m) == m <= n => k[m] \in Seq(AnyLeg) /\ NoZero(k[m]) /\ Same(k[m], m)
           P == {m \in Nat : Kept(m)}
<1>2. 0 \in P
  <2>1. k[0] = <<>>
    BY <1>1 DEF Loop
  <2>2. SubSeq(legs, 1, 0) = <<>>
    BY SubSeqEmpty
  <2>3. <<>> \in Seq(AnyLeg) /\ NoZero(<<>>)
    OBVIOUS
  <2>4. Same(k[0], 0)
    BY <2>1, <2>2
  <2> QED BY <2>1, <2>3, <2>4
<1>3. ASSUME NEW m \in Nat, m \in P PROVE m + 1 \in P
  <2> SUFFICES ASSUME m + 1 <= n
               PROVE  k[m + 1] \in Seq(AnyLeg) /\ NoZero(k[m + 1]) /\ Same(k[m + 1], m + 1)
    OBVIOUS
  <2>1. n \in Nat /\ m <= n /\ m + 1 \in 1..n
    OBVIOUS
  <2>2. k[m] \in Seq(AnyLeg) /\ NoZero(k[m]) /\ Same(k[m], m)
    BY <1>3, <2>1
  <2>3. k[m + 1] = IF legs[m + 1].amount = 0 THEN k[m] ELSE Append(k[m], legs[m + 1])
    <3>1. (m + 1) - 1 = m
      OBVIOUS
    <3> QED BY <1>1, <2>1, <3>1 DEF Loop
  <2>4. PICK l \in AnyLeg : l = legs[m + 1]
    BY <2>1
  <2>5. PICK front \in Seq(AnyLeg) : front = SubSeq(legs, 1, m)
    <3>1. \A i \in 1..m : legs[i] \in AnyLeg
      BY <2>1
    <3>2. 1 \in Int /\ m \in Int
      OBVIOUS
    <3>3. SubSeq(legs, 1, m) \in Seq(AnyLeg)
      <4> HIDE DEF P, n
      <4> QED BY <3>1, <3>2, SubSeqProperties, Zenon
    <3> QED BY <3>3
  <2>6. SubSeq(legs, 1, m + 1) = Append(front, l)
    BY <2>1, <2>4, <2>5
  <2>7. \A u : UnitSum(SubSeq(legs, 1, m + 1), u) = UnitSum(front, u) + Counted(l, u)
    BY <2>6, LegAdded
  <2>8. \A u : UnitSum(k[m], u) = UnitSum(front, u)
    BY <2>2, <2>5
  <2>9. \A u : UnitSum(front, u) \in Int
    BY SumsAreInt
  <2>10. CASE l.amount = 0
    <3>1. \A u : Counted(l, u) = 0
      BY <2>10 DEF Counted
    <3>2. k[m + 1] = k[m]
      BY <2>3, <2>4, <2>10
    <3>3. Same(k[m + 1], m + 1)
      BY <2>7, <2>8, <2>9, <3>1, <3>2
    <3> QED BY <2>2, <3>2, <3>3
  <2>11. CASE l.amount # 0
    <3>1. k[m + 1] = Append(k[m], l)
      BY <2>3, <2>4, <2>11
    <3>2. \A u : UnitSum(k[m + 1], u) = UnitSum(k[m], u) + Counted(l, u)
      BY <2>2, <3>1, LegAdded
    <3>3. Same(k[m + 1], m + 1)
      BY <2>7, <2>8, <3>2
    <3>4. k[m + 1] \in Seq(AnyLeg) /\ NoZero(k[m + 1])
      BY <2>2, <2>11, <3>1
    <3> QED BY <3>3, <3>4
  <2> QED BY <2>10, <2>11
<1>4. \A m \in Nat : m \in P
  <2> HIDE DEF P
  <2> QED BY <1>2, <1>3, Counting
<1>5. n \in Nat /\ n \in P
  BY <1>4
<1>6. SubSeq(legs, 1, n) = legs
  BY SubSeqFull
<1>7. nonZero(legs) \in Seq(AnyLeg) /\ NoZero(nonZero(legs)) /\ Same(nonZero(legs), n)
  BY <1>1, <1>5
<1>8. DOMAIN nonZero(legs) = 1..Len(nonZero(legs))
  BY <1>7
<1> QED BY <1>6, <1>7, <1>8

LEMMA CountedType == ASSUME NEW l \in AnyLeg, NEW u PROVE Counted(l, u) \in Int
BY DEF Counted, AnyLeg

\* Legs written one after the other add up term by term.
LEMMA Sum2 ==
  ASSUME NEW a, NEW b, NEW u, <<a, b>> \in Seq(AnyLeg)
  PROVE  UnitSum(<<a, b>>, u) =
           Counted(a, u) + Counted(b, u)
<1>1. a \in AnyLeg /\ b \in AnyLeg
  <2>1. PICK s \in Seq(AnyLeg) : s = <<a, b>>
    OBVIOUS
  <2>2. s[1] \in AnyLeg /\ s[2] \in AnyLeg
    BY <2>1
  <2> QED BY <2>1, <2>2
<1>2. UnitSum(<<a>>, u) = UnitSum(<<>>, u) + Counted(a, u)
  <2>1. PICK t : t = <<>>
    OBVIOUS
  <2>2. t \in Seq(AnyLeg) /\ <<a>> = Append(t, a)
    BY <2>1
  <2>3. UnitSum(Append(t, a), u) = UnitSum(t, u) + Counted(a, u)
    BY <1>1, <2>2, LegAdded
  <2> QED BY <2>1, <2>2, <2>3
<1>3. UnitSum(<<a, b>>, u) = UnitSum(<<a>>, u) + Counted(b, u)
  <2>1. PICK t : t = <<a>>
    OBVIOUS
  <2>2. t \in Seq(AnyLeg) /\ <<a, b>> = Append(t, b)
    BY <1>1, <2>1
  <2>3. UnitSum(Append(t, b), u) = UnitSum(t, u) + Counted(b, u)
    BY <1>1, <2>2, LegAdded
  <2> QED BY <2>1, <2>2, <2>3
<1>4. Counted(a, u) \in Int
  BY <1>1, CountedType
<1> QED BY <1>2, <1>3, <1>4, NoLegs

LEMMA Sum3 ==
  ASSUME NEW a, NEW b, NEW c, NEW u, <<a, b, c>> \in Seq(AnyLeg)
  PROVE  UnitSum(<<a, b, c>>, u) =
           Counted(a, u) + Counted(b, u) + Counted(c, u)
<1>1. PICK s \in Seq(AnyLeg) : s = <<a, b, c>>
  OBVIOUS
<1>2. Len(s) = 3 /\ s[1] = a /\ s[2] = b /\ s[3] = c
  BY <1>1
<1>3. a \in AnyLeg /\ b \in AnyLeg /\ c \in AnyLeg
  BY <1>2
<1>4. <<a, b>> \in Seq(AnyLeg) /\ <<a, b, c>> = Append(<<a, b>>, c)
  BY <1>3
<1>5. UnitSum(<<a, b, c>>, u) = UnitSum(<<a, b>>, u) + Counted(c, u)
  <2>1. PICK t : t = <<a, b>>
    OBVIOUS
  <2>2. t \in Seq(AnyLeg) /\ <<a, b, c>> = Append(t, c)
    BY <1>4, <2>1
  <2>3. UnitSum(Append(t, c), u) = UnitSum(t, u) + Counted(c, u)
    BY <1>3, <2>2, LegAdded
  <2> QED BY <2>1, <2>2, <2>3
<1> QED BY <1>4, <1>5, Sum2

LEMMA Sum4 ==
  ASSUME NEW a, NEW b, NEW c, NEW d, NEW u, <<a, b, c, d>> \in Seq(AnyLeg)
  PROVE  UnitSum(<<a, b, c, d>>, u) =
           Counted(a, u) + Counted(b, u) + Counted(c, u) + Counted(d, u)
<1>1. PICK s \in Seq(AnyLeg) : s = <<a, b, c, d>>
  OBVIOUS
<1>2. Len(s) = 4 /\ s[1] = a /\ s[2] = b /\ s[3] = c /\ s[4] = d
  BY <1>1
<1>3. a \in AnyLeg /\ b \in AnyLeg /\ c \in AnyLeg /\ d \in AnyLeg
  BY <1>2
<1>4. <<a, b, c>> \in Seq(AnyLeg) /\ <<a, b, c, d>> = Append(<<a, b, c>>, d)
  BY <1>3
<1>5. UnitSum(<<a, b, c, d>>, u) = UnitSum(<<a, b, c>>, u) + Counted(d, u)
  <2>1. PICK t : t = <<a, b, c>>
    OBVIOUS
  <2>2. t \in Seq(AnyLeg) /\ <<a, b, c, d>> = Append(t, d)
    BY <1>4, <2>1
  <2>3. UnitSum(Append(t, d), u) = UnitSum(t, u) + Counted(d, u)
    BY <1>3, <2>2, LegAdded
  <2> QED BY <2>1, <2>2, <2>3
<1> QED BY <1>4, <1>5, Sum3

LEMMA Sum5 ==
  ASSUME NEW a, NEW b, NEW c, NEW d, NEW e, NEW u, <<a, b, c, d, e>> \in Seq(AnyLeg)
  PROVE  UnitSum(<<a, b, c, d, e>>, u) =
           Counted(a, u) + Counted(b, u) + Counted(c, u) + Counted(d, u) + Counted(e, u)
<1>1. PICK s \in Seq(AnyLeg) : s = <<a, b, c, d, e>>
  OBVIOUS
<1>2. Len(s) = 5 /\ s[1] = a /\ s[2] = b /\ s[3] = c /\ s[4] = d /\ s[5] = e
  BY <1>1
<1>3. a \in AnyLeg /\ b \in AnyLeg /\ c \in AnyLeg /\ d \in AnyLeg /\ e \in AnyLeg
  BY <1>2
<1>4. <<a, b, c, d>> \in Seq(AnyLeg) /\ <<a, b, c, d, e>> = Append(<<a, b, c, d>>, e)
  BY <1>3
<1>5. UnitSum(<<a, b, c, d, e>>, u) = UnitSum(<<a, b, c, d>>, u) + Counted(e, u)
  <2>1. PICK t : t = <<a, b, c, d>>
    OBVIOUS
  <2>2. t \in Seq(AnyLeg) /\ <<a, b, c, d, e>> = Append(t, e)
    BY <1>4, <2>1
  <2>3. UnitSum(Append(t, e), u) = UnitSum(t, u) + Counted(e, u)
    BY <1>3, <2>2, LegAdded
  <2> QED BY <2>1, <2>2, <2>3
<1> QED BY <1>4, <1>5, Sum4

LEMMA Sum6 ==
  ASSUME NEW a, NEW b, NEW c, NEW d, NEW e, NEW f, NEW u,
        <<a, b, c, d, e, f>> \in Seq(AnyLeg)
  PROVE  UnitSum(<<a, b, c, d, e, f>>, u) =
           Counted(a, u) + Counted(b, u) + Counted(c, u) + Counted(d, u) +
                 Counted(e, u) + Counted(f, u)
<1>1. PICK s \in Seq(AnyLeg) : s = <<a, b, c, d, e, f>>
  OBVIOUS
<1>2. Len(s) = 6 /\ s[1] = a /\ s[2] = b /\ s[3] = c /\ s[4] = d /\ s[5] = e /\ s[6] = f
  BY <1>1
<1>3. a \in AnyLeg /\ b \in AnyLeg /\ c \in AnyLeg /\ d \in AnyLeg /\ e \in AnyLeg /\
      f \in AnyLeg
  BY <1>2
<1>4. <<a, b, c, d, e>> \in Seq(AnyLeg) /\ <<a, b, c, d, e, f>>
      = Append(<<a, b, c, d, e>>, f)
  BY <1>3
<1>5. UnitSum(<<a, b, c, d, e, f>>, u) = UnitSum(<<a, b, c, d, e>>, u) + Counted(f, u)
  <2>1. PICK t : t = <<a, b, c, d, e>>
    OBVIOUS
  <2>2. t \in Seq(AnyLeg) /\ <<a, b, c, d, e, f>> = Append(t, f)
    BY <1>4, <2>1
  <2>3. UnitSum(Append(t, f), u) = UnitSum(t, u) + Counted(f, u)
    BY <1>3, <2>2, LegAdded
  <2> QED BY <2>1, <2>2, <2>3
<1> QED BY <1>4, <1>5, Sum5

LEMMA Sum7 ==
  ASSUME NEW a, NEW b, NEW c, NEW d, NEW e, NEW f, NEW g, NEW u,
        <<a, b, c, d, e, f, g>> \in Seq(AnyLeg)
  PROVE  UnitSum(<<a, b, c, d, e, f, g>>, u) =
           Counted(a, u) + Counted(b, u) + Counted(c, u) + Counted(d, u) +
                 Counted(e, u) + Counted(f, u) + Counted(g, u)
<1>1. PICK s \in Seq(AnyLeg) : s = <<a, b, c, d, e, f, g>>
  OBVIOUS
<1>2. Len(s) = 7 /\ s[1] = a /\ s[2] = b /\ s[3] = c /\ s[4] = d /\ s[5] = e /\
      s[6] = f /\ s[7] = g
  BY <1>1
<1>3. a \in AnyLeg /\ b \in AnyLeg /\ c \in AnyLeg /\ d \in AnyLeg /\ e \in AnyLeg /\
      f \in AnyLeg /\ g \in AnyLeg
  BY <1>2
<1>4. <<a, b, c, d, e, f>> \in Seq(AnyLeg) /\ <<a, b, c, d, e, f, g>>
      = Append(<<a, b, c, d, e, f>>, g)
  BY <1>3
<1>5. UnitSum(<<a, b, c, d, e, f, g>>, u) = UnitSum(<<a, b, c, d, e, f>>, u) + Counted(g, u)
  <2>1. PICK t : t = <<a, b, c, d, e, f>>
    OBVIOUS
  <2>2. t \in Seq(AnyLeg) /\ <<a, b, c, d, e, f, g>> = Append(t, g)
    BY <1>4, <2>1
  <2>3. UnitSum(Append(t, g), u) = UnitSum(t, u) + Counted(g, u)
    BY <1>3, <2>2, LegAdded
  <2> QED BY <2>1, <2>2, <2>3
<1> QED BY <1>4, <1>5, Sum6

LEMMA Sum8 ==
  ASSUME NEW a, NEW b, NEW c, NEW d, NEW e, NEW f, NEW g, NEW h, NEW u,
        <<a, b, c, d, e, f, g, h>> \in Seq(AnyLeg)
  PROVE  UnitSum(<<a, b, c, d, e, f, g, h>>, u) =
           Counted(a, u) + Counted(b, u) + Counted(c, u) + Counted(d, u) +
                 Counted(e, u) + Counted(f, u) + Counted(g, u) + Counted(h, u)
<1>1. PICK s \in Seq(AnyLeg) : s = <<a, b, c, d, e, f, g, h>>
  OBVIOUS
<1>2. Len(s) = 8 /\ s[1] = a /\ s[2] = b /\ s[3] = c /\ s[4] = d /\ s[5] = e /\
      s[6] = f /\ s[7] = g /\ s[8] = h
  BY <1>1
<1>3. a \in AnyLeg /\ b \in AnyLeg /\ c \in AnyLeg /\ d \in AnyLeg /\ e \in AnyLeg /\
      f \in AnyLeg /\ g \in AnyLeg /\ h \in AnyLeg
  BY <1>2
<1>4. <<a, b, c, d, e, f, g>> \in Seq(AnyLeg) /\ <<a, b, c, d, e, f, g, h>>
      = Append(<<a, b, c, d, e, f, g>>, h)
  BY <1>3
<1>5. UnitSum(<<a, b, c, d, e, f, g, h>>, u) = UnitSum(<<a, b, c, d, e, f, g>>, u) +
      Counted(h, u)
  <2>1. PICK t : t = <<a, b, c, d, e, f, g>>
    OBVIOUS
  <2>2. t \in Seq(AnyLeg) /\ <<a, b, c, d, e, f, g, h>> = Append(t, h)
    BY <1>4, <2>1
  <2>3. UnitSum(Append(t, h), u) = UnitSum(t, u) + Counted(h, u)
    BY <1>3, <2>2, LegAdded
  <2> QED BY <2>1, <2>2, <2>3
<1> QED BY <1>4, <1>5, Sum7

MoneyUnits == {"coin", "point", "paise"}

LEMMA NoZeroLegBalances ==
  ASSUME NEW legs \in Seq(AnyLeg), \A u \in MoneyUnits : UnitSum(legs, u) = 0,
         \A i \in DOMAIN legs : legs[i].amount # 0
  PROVE  LegsBalance(legs)
BY DEF LegsBalance, UnitSum, MoneyUnits

LEMMA KeptLegsBalance ==
  ASSUME NEW legs \in Seq(AnyLeg), \A u \in MoneyUnits : UnitSum(legs, u) = 0
  PROVE  LegsBalance(nonZero(legs))
<1>1. /\ \A i \in DOMAIN nonZero(legs) : nonZero(legs)[i].amount # 0
      /\ \A u : UnitSum(nonZero(legs), u) = UnitSum(legs, u)
  BY NonZeroLegs
<1>2. \A u \in MoneyUnits : UnitSum(nonZero(legs), u) = 0
  BY <1>1
<1> QED BY <1>1, <1>2 DEF LegsBalance, UnitSum, MoneyUnits

\* What a leg counts for, by the code of its account.
Counts(l, unit, n) == l \in AnyLeg /\ \A u : Counted(l, u) = IF u = unit THEN n ELSE 0

LEMMA CoinLegs ==
  \A code \in CoinCodes, s \in Owners, n \in Int : Counts(Leg(<<code, s>>, n), "coin", n)
BY DEF Leg, AnyLeg, Account, Codes, Counted, UnitOfAccount, Counts

LEMMA PointLegs ==
  \A code \in PointCodes, s \in Owners, n \in Int : Counts(Leg(<<code, s>>, n), "point", n)
<1>1. \A code \in PointCodes : code \notin CoinCodes
  BY DEF PointCodes, CoinCodes
<1> QED BY <1>1 DEF Leg, AnyLeg, Account, Codes, Counted, UnitOfAccount, Counts

LEMMA PaiseLegs ==
  \A code \in PaiseCodes, s \in Owners, n \in Int : Counts(Leg(<<code, s>>, n), "paise", n)
<1>1. \A code \in PaiseCodes : code \notin CoinCodes /\ code \notin PointCodes
  BY DEF PaiseCodes, PointCodes, CoinCodes
<1> QED BY <1>1 DEF Leg, AnyLeg, Account, Codes, Counted, UnitOfAccount, Counts

LEMMA Rounded == \A a \in Int : unitsToPaise(a) \in Int /\ pointsToPaise(a) \in Int
BY DEF unitsToPaise, pointsToPaise, FaceValueUnitsPerRupee, PointsPerRupee

LEMMA Channels ==
  ASSUME NEW channel \in {"iap", "web", "reseller"}
  PROVE  CashAccount(channel) \in PaiseCodes /\ DiscountAccount(channel) \in PaiseCodes
<1>1. /\ CashAccount(channel) \in {"cash_iap", "cash_web", "cash_reseller"}
      /\ DiscountAccount(channel) \in {"discount_reseller", "discount_pack"}
  BY DEF CashAccount, DiscountAccount
<1> QED BY <1>1 DEF PaiseCodes

\* A number of points or gems at a rate, rounded down, is a number.
LEMMA AtRate == \A n \in Nat, rate \in Nat : giftPoints(n, rate) \in Int /\
      coinsToGems(n, rate) \in Int
<1> SUFFICES ASSUME NEW n \in Nat, NEW rate \in Nat
             PROVE  giftPoints(n, rate) \in Int /\ coinsToGems(n, rate) \in Int
  OBVIOUS
<1>1. PICK x : x = n * rate
  OBVIOUS
<1>2. x \in Int
  BY <1>1
<1>3. x \div 10000 \in Int
  BY <1>2
<1> QED BY <1>1, <1>3 DEF giftPoints, coinsToGems

LEMMA TransferBalances ==
  ASSUME NEW n \in Nat
  PROVE  LegsBalance(agencyTransferLegs("ag", "u", n))
<1> DEFINE a == Leg(Scoped("agency_inventory", "ag"), -n)
           b == Leg(Scoped("user_coins", "u"), n)
<1>1. /\ "agency_inventory" \in CoinCodes
      /\ "user_coins" \in CoinCodes
  BY DEF CoinCodes, PointCodes, PaiseCodes
<1>2. -n \in Int /\ n \in Int
  OBVIOUS
<1>3. /\ Counts(a, "coin", -n)
      /\ Counts(b, "coin", n)
  BY <1>1, <1>2, CoinLegs, PointLegs, PaiseLegs DEF Scoped, System, Owners
<1>4. agencyTransferLegs("ag", "u", n) = nonZero(<<a, b>>)
  BY DEF agencyTransferLegs
<1> HIDE DEF a, b
<1>5. \A u \in MoneyUnits : UnitSum(<<a, b>>, u) = 0
  <2>1. a \in AnyLeg /\ b \in AnyLeg
    BY <1>3 DEF Counts
  <2>2. <<a, b>> \in Seq(AnyLeg)
    BY <2>1
  <2>3. UnitSum(<<a, b>>, "coin") = 0
    <3>1. /\ Counted(a, "coin") = -n
          /\ Counted(b, "coin") = n
      BY <1>3 DEF Counts
    <3>2. UnitSum(<<a, b>>, "coin") = Counted(a, "coin") + Counted(b, "coin")
      BY <2>2, Sum2
    <3>3. (-n) + n = 0
      BY <1>2
    <3> QED BY <3>1, <3>2, <3>3
  <2>4. UnitSum(<<a, b>>, "point") = 0
    <3>1. /\ Counted(a, "point") = 0
          /\ Counted(b, "point") = 0
      BY <1>3 DEF Counts
    <3>2. UnitSum(<<a, b>>, "point") = Counted(a, "point") + Counted(b, "point")
      BY <2>2, Sum2
    <3>3. 0 + 0 = 0
      BY <1>2
    <3> QED BY <3>1, <3>2, <3>3
  <2>5. UnitSum(<<a, b>>, "paise") = 0
    <3>1. /\ Counted(a, "paise") = 0
          /\ Counted(b, "paise") = 0
      BY <1>3 DEF Counts
    <3>2. UnitSum(<<a, b>>, "paise") = Counted(a, "paise") + Counted(b, "paise")
      BY <2>2, Sum2
    <3>3. 0 + 0 = 0
      BY <1>2
    <3> QED BY <3>1, <3>2, <3>3
  <2> QED BY <2>3, <2>4, <2>5 DEF MoneyUnits
<1>6. <<a, b>> \in Seq(AnyLeg)
  BY <1>3 DEF Counts
<1> QED BY <1>4, <1>5, <1>6, KeptLegsBalance

LEMMA PrepayBalances ==
  ASSUME NEW n \in Nat, NEW paid \in Nat
  PROVE  LegsBalance(resellerPrepayLegs("ag", n, paid))
<1>1. PICK face \in Int : face = unitsToPaise(n)
  BY Rounded
<1> DEFINE a == Leg(Scoped("agency_inventory", "ag"), n)
           b == Leg(System("system_coin_float"), -n)
           c == Leg(System("cash_reseller"), paid)
           d == Leg(System("discount_reseller"), face - paid)
           e == Leg(System("deferred_revenue"), -face)
<1>2. /\ "agency_inventory" \in CoinCodes
      /\ "system_coin_float" \in CoinCodes
      /\ "cash_reseller" \in PaiseCodes
      /\ "discount_reseller" \in PaiseCodes
      /\ "deferred_revenue" \in PaiseCodes
  BY DEF CoinCodes, PointCodes, PaiseCodes
<1>3. n \in Int /\ -n \in Int /\ paid \in Int /\ face - paid \in Int /\ -face \in Int
  OBVIOUS
<1>4. /\ Counts(a, "coin", n)
      /\ Counts(b, "coin", -n)
      /\ Counts(c, "paise", paid)
      /\ Counts(d, "paise", face - paid)
      /\ Counts(e, "paise", -face)
  BY <1>2, <1>3, CoinLegs, PointLegs, PaiseLegs DEF Scoped, System, Owners
<1>5. resellerPrepayLegs("ag", n, paid) = nonZero(<<a, b, c, d, e>>)
  BY <1>1 DEF resellerPrepayLegs
<1> HIDE DEF a, b, c, d, e
<1>6. \A u \in MoneyUnits : UnitSum(<<a, b, c, d, e>>, u) = 0
  <2>1. a \in AnyLeg /\ b \in AnyLeg /\ c \in AnyLeg /\ d \in AnyLeg /\ e \in AnyLeg
    BY <1>4 DEF Counts
  <2>2. <<a, b, c, d, e>> \in Seq(AnyLeg)
    BY <2>1
  <2>3. UnitSum(<<a, b, c, d, e>>, "coin") = 0
    <3>1. /\ Counted(a, "coin") = n
          /\ Counted(b, "coin") = -n
          /\ Counted(c, "coin") = 0
          /\ Counted(d, "coin") = 0
          /\ Counted(e, "coin") = 0
      BY <1>4 DEF Counts
    <3>2. UnitSum(<<a, b, c, d, e>>, "coin") = Counted(a, "coin") + Counted(b, "coin") +
          Counted(c, "coin") + Counted(d, "coin") + Counted(e, "coin")
      BY <2>2, Sum5
    <3>3. n + (-n) + 0 + 0 + 0 = 0
      BY <1>3, <1>1
    <3> QED BY <3>1, <3>2, <3>3
  <2>4. UnitSum(<<a, b, c, d, e>>, "point") = 0
    <3>1. /\ Counted(a, "point") = 0
          /\ Counted(b, "point") = 0
          /\ Counted(c, "point") = 0
          /\ Counted(d, "point") = 0
          /\ Counted(e, "point") = 0
      BY <1>4 DEF Counts
    <3>2. UnitSum(<<a, b, c, d, e>>, "point") = Counted(a, "point") +
          Counted(b, "point") + Counted(c, "point") + Counted(d, "point") +
          Counted(e, "point")
      BY <2>2, Sum5
    <3>3. 0 + 0 + 0 + 0 + 0 = 0
      BY <1>3, <1>1
    <3> QED BY <3>1, <3>2, <3>3
  <2>5. UnitSum(<<a, b, c, d, e>>, "paise") = 0
    <3>1. /\ Counted(a, "paise") = 0
          /\ Counted(b, "paise") = 0
          /\ Counted(c, "paise") = paid
          /\ Counted(d, "paise") = face - paid
          /\ Counted(e, "paise") = -face
      BY <1>4 DEF Counts
    <3>2. UnitSum(<<a, b, c, d, e>>, "paise") = Counted(a, "paise") +
          Counted(b, "paise") + Counted(c, "paise") + Counted(d, "paise") +
          Counted(e, "paise")
      BY <2>2, Sum5
    <3>3. 0 + 0 + paid + (face - paid) + (-face) = 0
      BY <1>3, <1>1
    <3> QED BY <3>1, <3>2, <3>3
  <2> QED BY <2>3, <2>4, <2>5 DEF MoneyUnits
<1>7. <<a, b, c, d, e>> \in Seq(AnyLeg)
  BY <1>4 DEF Counts
<1> QED BY <1>5, <1>6, <1>7, KeptLegsBalance

LEMMA PurchaseBalances ==
  ASSUME NEW n \in Nat, NEW gems \in Nat, NEW paid \in Nat, 
         NEW channel \in {"iap", "web", "reseller"}
  PROVE  LegsBalance(purchaseLegs("u", n, gems, paid, channel))
<1>1. PICK face \in Int : face = unitsToPaise(n + gems)
  BY Rounded
<1> DEFINE a == Leg(Scoped("user_coins", "u"), n)
           b == Leg(Scoped("user_gems", "u"), gems)
           c == Leg(System("system_coin_float"), -(n + gems))
           d == Leg(System(CashAccount(channel)), paid)
           e == Leg(System(DiscountAccount(channel)), face - paid)
           f == Leg(System("deferred_revenue"), -face)
<1>2. /\ "user_coins" \in CoinCodes
      /\ "user_gems" \in CoinCodes
      /\ "system_coin_float" \in CoinCodes
      /\ CashAccount(channel) \in PaiseCodes
      /\ DiscountAccount(channel) \in PaiseCodes
      /\ "deferred_revenue" \in PaiseCodes
  BY Channels DEF CoinCodes, PointCodes, PaiseCodes
<1>3. n \in Int /\ gems \in Int /\ -(n + gems) \in Int /\ paid \in Int /\
      face - paid \in Int /\ -face \in Int
  OBVIOUS
<1>4. /\ Counts(a, "coin", n)
      /\ Counts(b, "coin", gems)
      /\ Counts(c, "coin", -(n + gems))
      /\ Counts(d, "paise", paid)
      /\ Counts(e, "paise", face - paid)
      /\ Counts(f, "paise", -face)
  BY <1>2, <1>3, CoinLegs, PointLegs, PaiseLegs DEF Scoped, System, Owners
<1>5. purchaseLegs("u", n, gems, paid, channel) = nonZero(<<a, b, c, d, e, f>>)
  BY <1>1 DEF purchaseLegs
<1> HIDE DEF a, b, c, d, e, f
<1>6. \A u \in MoneyUnits : UnitSum(<<a, b, c, d, e, f>>, u) = 0
  <2>1. a \in AnyLeg /\ b \in AnyLeg /\ c \in AnyLeg /\ d \in AnyLeg /\ e \in AnyLeg /\
        f \in AnyLeg
    BY <1>4 DEF Counts
  <2>2. <<a, b, c, d, e, f>> \in Seq(AnyLeg)
    BY <2>1
  <2>3. UnitSum(<<a, b, c, d, e, f>>, "coin") = 0
    <3>1. /\ Counted(a, "coin") = n
          /\ Counted(b, "coin") = gems
          /\ Counted(c, "coin") = -(n + gems)
          /\ Counted(d, "coin") = 0
          /\ Counted(e, "coin") = 0
          /\ Counted(f, "coin") = 0
      BY <1>4 DEF Counts
    <3>2. UnitSum(<<a, b, c, d, e, f>>, "coin") = Counted(a, "coin") +
          Counted(b, "coin") + Counted(c, "coin") + Counted(d, "coin") +
          Counted(e, "coin") + Counted(f, "coin")
      BY <2>2, Sum6
    <3>3. n + gems + (-(n + gems)) + 0 + 0 + 0 = 0
      BY <1>3, <1>1
    <3> QED BY <3>1, <3>2, <3>3
  <2>4. UnitSum(<<a, b, c, d, e, f>>, "point") = 0
    <3>1. /\ Counted(a, "point") = 0
          /\ Counted(b, "point") = 0
          /\ Counted(c, "point") = 0
          /\ Counted(d, "point") = 0
          /\ Counted(e, "point") = 0
          /\ Counted(f, "point") = 0
      BY <1>4 DEF Counts
    <3>2. UnitSum(<<a, b, c, d, e, f>>, "point") = Counted(a, "point") +
          Counted(b, "point") + Counted(c, "point") + Counted(d, "point") +
          Counted(e, "point") + Counted(f, "point")
      BY <2>2, Sum6
    <3>3. 0 + 0 + 0 + 0 + 0 + 0 = 0
      BY <1>3, <1>1
    <3> QED BY <3>1, <3>2, <3>3
  <2>5. UnitSum(<<a, b, c, d, e, f>>, "paise") = 0
    <3>1. /\ Counted(a, "paise") = 0
          /\ Counted(b, "paise") = 0
          /\ Counted(c, "paise") = 0
          /\ Counted(d, "paise") = paid
          /\ Counted(e, "paise") = face - paid
          /\ Counted(f, "paise") = -face
      BY <1>4 DEF Counts
    <3>2. UnitSum(<<a, b, c, d, e, f>>, "paise") = Counted(a, "paise") +
          Counted(b, "paise") + Counted(c, "paise") + Counted(d, "paise") +
          Counted(e, "paise") + Counted(f, "paise")
      BY <2>2, Sum6
    <3>3. 0 + 0 + 0 + paid + (face - paid) + (-face) = 0
      BY <1>3, <1>1
    <3> QED BY <3>1, <3>2, <3>3
  <2> QED BY <2>3, <2>4, <2>5 DEF MoneyUnits
<1>7. <<a, b, c, d, e, f>> \in Seq(AnyLeg)
  BY <1>4 DEF Counts
<1> QED BY <1>5, <1>6, <1>7, KeptLegsBalance

LEMMA GiftBalances ==
  ASSUME NEW n \in Nat, NEW rate \in Nat
  PROVE  LegsBalance(giftLegs("u", "h", n, rate))
<1>1. PICK points \in Int : points = giftPoints(n, rate)
  BY AtRate
<1>2. PICK value \in Int : value = unitsToPaise(n)
  BY Rounded
<1>3. PICK payout \in Int : payout = pointsToPaise(points)
  BY Rounded
<1> DEFINE a == Leg(Scoped("user_coins", "u"), -n)
           b == Leg(System("system_coin_float"), n)
           c == Leg(System("system_point_float"), -points)
           d == Leg(Scoped("host_points_held", "h"), points)
           e == Leg(System("deferred_revenue"), value)
           f == Leg(System("revenue_gifting"), -value)
           g == Leg(System("expense_host_payout"), payout)
           h == Leg(System("points_payable"), -payout)
<1>4. /\ "user_coins" \in CoinCodes
      /\ "system_coin_float" \in CoinCodes
      /\ "system_point_float" \in PointCodes
      /\ "host_points_held" \in PointCodes
      /\ "deferred_revenue" \in PaiseCodes
      /\ "revenue_gifting" \in PaiseCodes
      /\ "expense_host_payout" \in PaiseCodes
      /\ "points_payable" \in PaiseCodes
  BY DEF CoinCodes, PointCodes, PaiseCodes
<1>5. -n \in Int /\ n \in Int /\ -points \in Int /\ points \in Int /\ value \in Int /\
      -value \in Int /\ payout \in Int /\ -payout \in Int
  OBVIOUS
<1>6. /\ Counts(a, "coin", -n)
      /\ Counts(b, "coin", n)
      /\ Counts(c, "point", -points)
      /\ Counts(d, "point", points)
      /\ Counts(e, "paise", value)
      /\ Counts(f, "paise", -value)
      /\ Counts(g, "paise", payout)
      /\ Counts(h, "paise", -payout)
  BY <1>4, <1>5, CoinLegs, PointLegs, PaiseLegs DEF Scoped, System, Owners
<1>7. giftLegs("u", "h", n, rate) = nonZero(<<a, b, c, d, e, f, g, h>>)
  BY <1>1, <1>2, <1>3 DEF giftLegs
<1> HIDE DEF a, b, c, d, e, f, g, h
<1>8. \A u \in MoneyUnits : UnitSum(<<a, b, c, d, e, f, g, h>>, u) = 0
  <2>1. a \in AnyLeg /\ b \in AnyLeg /\ c \in AnyLeg /\ d \in AnyLeg /\ e \in AnyLeg /\
        f \in AnyLeg /\ g \in AnyLeg /\ h \in AnyLeg
    BY <1>6 DEF Counts
  <2>2. <<a, b, c, d, e, f, g, h>> \in Seq(AnyLeg)
    BY <2>1
  <2>3. UnitSum(<<a, b, c, d, e, f, g, h>>, "coin") = 0
    <3>1. /\ Counted(a, "coin") = -n
          /\ Counted(b, "coin") = n
          /\ Counted(c, "coin") = 0
          /\ Counted(d, "coin") = 0
          /\ Counted(e, "coin") = 0
          /\ Counted(f, "coin") = 0
          /\ Counted(g, "coin") = 0
          /\ Counted(h, "coin") = 0
      BY <1>6 DEF Counts
    <3>2. UnitSum(<<a, b, c, d, e, f, g, h>>, "coin") = Counted(a, "coin") +
          Counted(b, "coin") + Counted(c, "coin") + Counted(d, "coin") +
          Counted(e, "coin") + Counted(f, "coin") + Counted(g, "coin") + Counted(h, "coin")
      BY <2>2, Sum8
    <3>3. (-n) + n + 0 + 0 + 0 + 0 + 0 + 0 = 0
      BY <1>5, <1>1, <1>2, <1>3
    <3> QED BY <3>1, <3>2, <3>3
  <2>4. UnitSum(<<a, b, c, d, e, f, g, h>>, "point") = 0
    <3>1. /\ Counted(a, "point") = 0
          /\ Counted(b, "point") = 0
          /\ Counted(c, "point") = -points
          /\ Counted(d, "point") = points
          /\ Counted(e, "point") = 0
          /\ Counted(f, "point") = 0
          /\ Counted(g, "point") = 0
          /\ Counted(h, "point") = 0
      BY <1>6 DEF Counts
    <3>2. UnitSum(<<a, b, c, d, e, f, g, h>>, "point") = Counted(a, "point") +
          Counted(b, "point") + Counted(c, "point") + Counted(d, "point") +
          Counted(e, "point") + Counted(f, "point") + Counted(g, "point") +
          Counted(h, "point")
      BY <2>2, Sum8
    <3>3. 0 + 0 + (-points) + points + 0 + 0 + 0 + 0 = 0
      BY <1>5, <1>1, <1>2, <1>3
    <3> QED BY <3>1, <3>2, <3>3
  <2>5. UnitSum(<<a, b, c, d, e, f, g, h>>, "paise") = 0
    <3>1. /\ Counted(a, "paise") = 0
          /\ Counted(b, "paise") = 0
          /\ Counted(c, "paise") = 0
          /\ Counted(d, "paise") = 0
          /\ Counted(e, "paise") = value
          /\ Counted(f, "paise") = -value
          /\ Counted(g, "paise") = payout
          /\ Counted(h, "paise") = -payout
      BY <1>6 DEF Counts
    <3>2. UnitSum(<<a, b, c, d, e, f, g, h>>, "paise") = Counted(a, "paise") +
          Counted(b, "paise") + Counted(c, "paise") + Counted(d, "paise") +
          Counted(e, "paise") + Counted(f, "paise") + Counted(g, "paise") +
          Counted(h, "paise")
      BY <2>2, Sum8
    <3>3. 0 + 0 + 0 + 0 + value + (-value) + payout + (-payout) = 0
      BY <1>5, <1>1, <1>2, <1>3
    <3> QED BY <3>1, <3>2, <3>3
  <2> QED BY <2>3, <2>4, <2>5 DEF MoneyUnits
<1>9. <<a, b, c, d, e, f, g, h>> \in Seq(AnyLeg)
  BY <1>6 DEF Counts
<1> QED BY <1>7, <1>8, <1>9, KeptLegsBalance

LEMMA CosmeticBalances ==
  ASSUME NEW n \in Nat
  PROVE  LegsBalance(cosmeticPurchaseLegs("u", n))
<1>1. PICK value \in Int : value = unitsToPaise(n)
  BY Rounded
<1> DEFINE a == Leg(Scoped("user_gems", "u"), -n)
           b == Leg(System("system_coin_float"), n)
           c == Leg(System("deferred_revenue"), value)
           d == Leg(System("revenue_cosmetics"), -value)
<1>2. /\ "user_gems" \in CoinCodes
      /\ "system_coin_float" \in CoinCodes
      /\ "deferred_revenue" \in PaiseCodes
      /\ "revenue_cosmetics" \in PaiseCodes
  BY DEF CoinCodes, PointCodes, PaiseCodes
<1>3. -n \in Int /\ n \in Int /\ value \in Int /\ -value \in Int
  OBVIOUS
<1>4. /\ Counts(a, "coin", -n)
      /\ Counts(b, "coin", n)
      /\ Counts(c, "paise", value)
      /\ Counts(d, "paise", -value)
  BY <1>2, <1>3, CoinLegs, PointLegs, PaiseLegs DEF Scoped, System, Owners
<1>5. cosmeticPurchaseLegs("u", n) = nonZero(<<a, b, c, d>>)
  BY <1>1 DEF cosmeticPurchaseLegs
<1> HIDE DEF a, b, c, d
<1>6. \A u \in MoneyUnits : UnitSum(<<a, b, c, d>>, u) = 0
  <2>1. a \in AnyLeg /\ b \in AnyLeg /\ c \in AnyLeg /\ d \in AnyLeg
    BY <1>4 DEF Counts
  <2>2. <<a, b, c, d>> \in Seq(AnyLeg)
    BY <2>1
  <2>3. UnitSum(<<a, b, c, d>>, "coin") = 0
    <3>1. /\ Counted(a, "coin") = -n
          /\ Counted(b, "coin") = n
          /\ Counted(c, "coin") = 0
          /\ Counted(d, "coin") = 0
      BY <1>4 DEF Counts
    <3>2. UnitSum(<<a, b, c, d>>, "coin") = Counted(a, "coin") + Counted(b, "coin") +
          Counted(c, "coin") + Counted(d, "coin")
      BY <2>2, Sum4
    <3>3. (-n) + n + 0 + 0 = 0
      BY <1>3, <1>1
    <3> QED BY <3>1, <3>2, <3>3
  <2>4. UnitSum(<<a, b, c, d>>, "point") = 0
    <3>1. /\ Counted(a, "point") = 0
          /\ Counted(b, "point") = 0
          /\ Counted(c, "point") = 0
          /\ Counted(d, "point") = 0
      BY <1>4 DEF Counts
    <3>2. UnitSum(<<a, b, c, d>>, "point") = Counted(a, "point") + Counted(b, "point") +
          Counted(c, "point") + Counted(d, "point")
      BY <2>2, Sum4
    <3>3. 0 + 0 + 0 + 0 = 0
      BY <1>3, <1>1
    <3> QED BY <3>1, <3>2, <3>3
  <2>5. UnitSum(<<a, b, c, d>>, "paise") = 0
    <3>1. /\ Counted(a, "paise") = 0
          /\ Counted(b, "paise") = 0
          /\ Counted(c, "paise") = value
          /\ Counted(d, "paise") = -value
      BY <1>4 DEF Counts
    <3>2. UnitSum(<<a, b, c, d>>, "paise") = Counted(a, "paise") + Counted(b, "paise") +
          Counted(c, "paise") + Counted(d, "paise")
      BY <2>2, Sum4
    <3>3. 0 + 0 + value + (-value) = 0
      BY <1>3, <1>1
    <3> QED BY <3>1, <3>2, <3>3
  <2> QED BY <2>3, <2>4, <2>5 DEF MoneyUnits
<1>7. <<a, b, c, d>> \in Seq(AnyLeg)
  BY <1>4 DEF Counts
<1> QED BY <1>5, <1>6, <1>7, KeptLegsBalance

LEMMA ConversionBalances ==
  ASSUME NEW n \in Nat, NEW rate \in Nat
  PROVE  LegsBalance(conversionLegs("u", n, rate))
<1>1. PICK gems \in Int : gems = coinsToGems(n, rate)
  BY AtRate
<1>2. PICK bonus \in Int : bonus = gems - n
  OBVIOUS
<1>3. PICK paise \in Int : paise = unitsToPaise(bonus)
  BY Rounded
<1> DEFINE a == Leg(Scoped("user_coins", "u"), -n)
           b == Leg(Scoped("user_gems", "u"), gems)
           c == Leg(System("system_coin_float"), -bonus)
           d == Leg(System("discount_conversion_bonus"), paise)
           e == Leg(System("deferred_revenue"), -paise)
<1>4. /\ "user_coins" \in CoinCodes
      /\ "user_gems" \in CoinCodes
      /\ "system_coin_float" \in CoinCodes
      /\ "discount_conversion_bonus" \in PaiseCodes
      /\ "deferred_revenue" \in PaiseCodes
  BY DEF CoinCodes, PointCodes, PaiseCodes
<1>5. -n \in Int /\ gems \in Int /\ -bonus \in Int /\ paise \in Int /\ -paise \in Int
  OBVIOUS
<1>6. /\ Counts(a, "coin", -n)
      /\ Counts(b, "coin", gems)
      /\ Counts(c, "coin", -bonus)
      /\ Counts(d, "paise", paise)
      /\ Counts(e, "paise", -paise)
  BY <1>4, <1>5, CoinLegs, PointLegs, PaiseLegs DEF Scoped, System, Owners
<1>7. conversionLegs("u", n, rate) = nonZero(<<a, b, c, d, e>>)
  BY <1>1, <1>2, <1>3 DEF conversionLegs
<1> HIDE DEF a, b, c, d, e
<1>8. \A u \in MoneyUnits : UnitSum(<<a, b, c, d, e>>, u) = 0
  <2>1. a \in AnyLeg /\ b \in AnyLeg /\ c \in AnyLeg /\ d \in AnyLeg /\ e \in AnyLeg
    BY <1>6 DEF Counts
  <2>2. <<a, b, c, d, e>> \in Seq(AnyLeg)
    BY <2>1
  <2>3. UnitSum(<<a, b, c, d, e>>, "coin") = 0
    <3>1. /\ Counted(a, "coin") = -n
          /\ Counted(b, "coin") = gems
          /\ Counted(c, "coin") = -bonus
          /\ Counted(d, "coin") = 0
          /\ Counted(e, "coin") = 0
      BY <1>6 DEF Counts
    <3>2. UnitSum(<<a, b, c, d, e>>, "coin") = Counted(a, "coin") + Counted(b, "coin") +
          Counted(c, "coin") + Counted(d, "coin") + Counted(e, "coin")
      BY <2>2, Sum5
    <3>3. (-n) + gems + (-bonus) + 0 + 0 = 0
      BY <1>5, <1>1, <1>2, <1>3
    <3> QED BY <3>1, <3>2, <3>3
  <2>4. UnitSum(<<a, b, c, d, e>>, "point") = 0
    <3>1. /\ Counted(a, "point") = 0
          /\ Counted(b, "point") = 0
          /\ Counted(c, "point") = 0
          /\ Counted(d, "point") = 0
          /\ Counted(e, "point") = 0
      BY <1>6 DEF Counts
    <3>2. UnitSum(<<a, b, c, d, e>>, "point") = Counted(a, "point") +
          Counted(b, "point") + Counted(c, "point") + Counted(d, "point") +
          Counted(e, "point")
      BY <2>2, Sum5
    <3>3. 0 + 0 + 0 + 0 + 0 = 0
      BY <1>5, <1>1, <1>2, <1>3
    <3> QED BY <3>1, <3>2, <3>3
  <2>5. UnitSum(<<a, b, c, d, e>>, "paise") = 0
    <3>1. /\ Counted(a, "paise") = 0
          /\ Counted(b, "paise") = 0
          /\ Counted(c, "paise") = 0
          /\ Counted(d, "paise") = paise
          /\ Counted(e, "paise") = -paise
      BY <1>6 DEF Counts
    <3>2. UnitSum(<<a, b, c, d, e>>, "paise") = Counted(a, "paise") +
          Counted(b, "paise") + Counted(c, "paise") + Counted(d, "paise") +
          Counted(e, "paise")
      BY <2>2, Sum5
    <3>3. 0 + 0 + 0 + paise + (-paise) = 0
      BY <1>5, <1>1, <1>2, <1>3
    <3> QED BY <3>1, <3>2, <3>3
  <2> QED BY <2>3, <2>4, <2>5 DEF MoneyUnits
<1>9. <<a, b, c, d, e>> \in Seq(AnyLeg)
  BY <1>6 DEF Counts
<1> QED BY <1>7, <1>8, <1>9, KeptLegsBalance

LEMMA GrantBalances ==
  ASSUME NEW n \in Nat
  PROVE  LegsBalance(freeCoinGrantLegs("u", n))
<1>1. PICK value \in Int : value = unitsToPaise(n)
  BY Rounded
<1> DEFINE a == Leg(System("system_coin_float"), -n)
           b == Leg(Scoped("user_coins", "u"), n)
           c == Leg(System("expense_free_coins"), value)
           d == Leg(System("deferred_revenue"), -value)
<1>2. /\ "system_coin_float" \in CoinCodes
      /\ "user_coins" \in CoinCodes
      /\ "expense_free_coins" \in PaiseCodes
      /\ "deferred_revenue" \in PaiseCodes
  BY DEF CoinCodes, PointCodes, PaiseCodes
<1>3. -n \in Int /\ n \in Int /\ value \in Int /\ -value \in Int
  OBVIOUS
<1>4. /\ Counts(a, "coin", -n)
      /\ Counts(b, "coin", n)
      /\ Counts(c, "paise", value)
      /\ Counts(d, "paise", -value)
  BY <1>2, <1>3, CoinLegs, PointLegs, PaiseLegs DEF Scoped, System, Owners
<1>5. freeCoinGrantLegs("u", n) = nonZero(<<a, b, c, d>>)
  BY <1>1 DEF freeCoinGrantLegs
<1> HIDE DEF a, b, c, d
<1>6. \A u \in MoneyUnits : UnitSum(<<a, b, c, d>>, u) = 0
  <2>1. a \in AnyLeg /\ b \in AnyLeg /\ c \in AnyLeg /\ d \in AnyLeg
    BY <1>4 DEF Counts
  <2>2. <<a, b, c, d>> \in Seq(AnyLeg)
    BY <2>1
  <2>3. UnitSum(<<a, b, c, d>>, "coin") = 0
    <3>1. /\ Counted(a, "coin") = -n
          /\ Counted(b, "coin") = n
          /\ Counted(c, "coin") = 0
          /\ Counted(d, "coin") = 0
      BY <1>4 DEF Counts
    <3>2. UnitSum(<<a, b, c, d>>, "coin") = Counted(a, "coin") + Counted(b, "coin") +
          Counted(c, "coin") + Counted(d, "coin")
      BY <2>2, Sum4
    <3>3. (-n) + n + 0 + 0 = 0
      BY <1>3, <1>1
    <3> QED BY <3>1, <3>2, <3>3
  <2>4. UnitSum(<<a, b, c, d>>, "point") = 0
    <3>1. /\ Counted(a, "point") = 0
          /\ Counted(b, "point") = 0
          /\ Counted(c, "point") = 0
          /\ Counted(d, "point") = 0
      BY <1>4 DEF Counts
    <3>2. UnitSum(<<a, b, c, d>>, "point") = Counted(a, "point") + Counted(b, "point") +
          Counted(c, "point") + Counted(d, "point")
      BY <2>2, Sum4
    <3>3. 0 + 0 + 0 + 0 = 0
      BY <1>3, <1>1
    <3> QED BY <3>1, <3>2, <3>3
  <2>5. UnitSum(<<a, b, c, d>>, "paise") = 0
    <3>1. /\ Counted(a, "paise") = 0
          /\ Counted(b, "paise") = 0
          /\ Counted(c, "paise") = value
          /\ Counted(d, "paise") = -value
      BY <1>4 DEF Counts
    <3>2. UnitSum(<<a, b, c, d>>, "paise") = Counted(a, "paise") + Counted(b, "paise") +
          Counted(c, "paise") + Counted(d, "paise")
      BY <2>2, Sum4
    <3>3. 0 + 0 + value + (-value) = 0
      BY <1>3, <1>1
    <3> QED BY <3>1, <3>2, <3>3
  <2> QED BY <2>3, <2>4, <2>5 DEF MoneyUnits
<1>7. <<a, b, c, d>> \in Seq(AnyLeg)
  BY <1>4 DEF Counts
<1> QED BY <1>5, <1>6, <1>7, KeptLegsBalance

\* An accrual is posted for more than nothing, and has its legs in paise if they
\* are worth a paisa.
LEMMA AccrualBalances ==
  ASSUME NEW n \in Nat \ {0}, NEW payee \in {"agency", "agent"}
  PROVE  LegsBalance(accrualLegs(payee, "p", n))
<1>1. PICK paise \in Int : paise = pointsToPaise(n)
  BY Rounded
<1>2. PICK code \in PointCodes :
        code = IF payee = "agency" THEN "agency_points_held" ELSE "agent_points_held"
  BY DEF PointCodes
<1> DEFINE a == Leg(System("system_point_float"), -n)
           b == Leg(Scoped(code, "p"), n)
           c == Leg(System("expense_agency_commission"), paise)
           d == Leg(System("points_payable"), -paise)
<1>3. /\ "system_point_float" \in PointCodes
      /\ "expense_agency_commission" \in PaiseCodes /\ "points_payable" \in PaiseCodes
  BY DEF PointCodes, PaiseCodes
<1>4. -n \in Int /\ n \in Int /\ paise \in Int /\ -paise \in Int
  OBVIOUS
<1>5. /\ Counts(a, "point", -n) /\ Counts(b, "point", n)
      /\ Counts(c, "paise", paise) /\ Counts(d, "paise", -paise)
  BY <1>2, <1>3, <1>4, PointLegs, PaiseLegs DEF Scoped, System, Owners
<1>6. a.amount = -n /\ b.amount = n /\ c.amount = paise /\ d.amount = -paise
  BY DEF Leg
<1>7. accrualLegs(payee, "p", n) = IF paise > 0 THEN <<a, b, c, d>> ELSE <<a, b>>
  BY <1>1, <1>2 DEF accrualLegs
<1> HIDE DEF a, b, c, d
<1>8. a \in AnyLeg /\ b \in AnyLeg /\ c \in AnyLeg /\ d \in AnyLeg
  BY <1>5 DEF Counts
<1>9. \A u \in MoneyUnits : Counted(a, u) + Counted(b, u) = 0 /\ Counted(c, u) +
      Counted(d, u) = 0
  BY <1>4, <1>5 DEF Counts, MoneyUnits
<1>10. PICK two \in Seq(AnyLeg) : two = <<a, b>>
  <2>1. PICK s : s = <<a, b>>
    OBVIOUS
  <2>2. s \in Seq(AnyLeg)
    BY <1>8, <2>1
  <2> QED BY <2>1, <2>2
<1>11. PICK four \in Seq(AnyLeg) : four = <<a, b, c, d>>
  <2>1. PICK s : s = <<a, b, c, d>>
    OBVIOUS
  <2>2. s \in Seq(AnyLeg)
    BY <1>8, <2>1
  <2> QED BY <2>1, <2>2
<1>12. ASSUME paise > 0 PROVE LegsBalance(four)
  <2>1. \A u \in MoneyUnits : UnitSum(four, u) = 0
    <3> SUFFICES ASSUME NEW u \in MoneyUnits PROVE UnitSum(four, u) = 0
      OBVIOUS
    <3>1. UnitSum(four, u) = Counted(a, u) + Counted(b, u) + Counted(c, u) + Counted(d, u)
      BY <1>11, Sum4
    <3>2. /\ Counted(a, u) \in Int /\ Counted(b, u) \in Int
          /\ Counted(c, u) \in Int /\ Counted(d, u) \in Int
      BY <1>8, CountedType
    <3> QED BY <1>9, <3>1, <3>2
  <2>2. \A i \in DOMAIN four : four[i].amount # 0
    BY <1>6, <1>11, <1>12
  <2> QED BY <2>1, <2>2, NoZeroLegBalances
<1>13. LegsBalance(two)
  <2>1. \A u \in MoneyUnits : UnitSum(two, u) = 0
    BY <1>9, <1>10, Sum2
  <2>2. \A i \in DOMAIN two : two[i].amount # 0
    BY <1>6, <1>10
  <2> QED BY <2>1, <2>2, NoZeroLegBalances
<1> QED BY <1>7, <1>10, <1>11, <1>12, <1>13

\* Every flow builds legs that balance, whatever the amounts, prices, rates and
\* channel: rounding loses nothing and dropping the zero legs nothing either.
THEOREM FlowsAlwaysBalance == FlowsBalance
<1> SUFFICES ASSUME NEW legs \in FlowLegs PROVE LegsBalance(legs)
  BY DEF FlowsBalance
<1>1. /\ \A n \in Amounts : n \in Nat \ {0}
      /\ \A n \in Amounts \cup {0} : n \in Nat
      /\ \A n \in Prices : n \in Nat
      /\ \A n \in Rates : n \in Nat
  BY EconomyConstants
<1>2. \/ \E n \in Amounts, gems \in Amounts \cup {0}, paid \in Prices,
             channel \in {"iap", "web", "reseller"} :
           legs = purchaseLegs("u", n, gems, paid, channel)
      \/ \E n \in Amounts, paid \in Prices : legs = resellerPrepayLegs("ag", n, paid)
      \/ \E n \in Amounts : legs = agencyTransferLegs("ag", "u", n)
      \/ \E n \in Amounts, rate \in Rates : legs = giftLegs("u", "h", n, rate)
      \/ \E n \in Amounts : legs = cosmeticPurchaseLegs("u", n)
      \/ \E n \in Amounts, rate \in Rates : legs = conversionLegs("u", n, rate)
      \/ \E n \in Amounts : legs = freeCoinGrantLegs("u", n)
      \/ \E n \in Amounts, payee \in {"agency", "agent"} : legs = accrualLegs(payee, "p", n)
  BY DEF FlowLegs
<1> QED BY <1>1, <1>2, PurchaseBalances, PrepayBalances, TransferBalances, GiftBalances,
           CosmeticBalances, ConversionBalances, GrantBalances, AccrualBalances

\* So assertBalanced accepts them.
LEMMA FlowsAccepted == \A r \in FromFlows : Balanced(r)
<1> SUFFICES ASSUME NEW r \in FromFlows PROVE Balanced(r)
  OBVIOUS
<1>1. r \in Requests /\ LegsBalance(LegsOf[r])
  BY EconomyConstants, FlowsAlwaysBalance DEF FlowsBalance
<1>2. \A i \in Steps(r) : UnitOf[LegsOf[r][i].acct] = UnitOfAccount(LegsOf[r][i].acct)
  BY EconomyConstants
<1>3. \A i \in Steps(r) : LegsOf[r][i].amount # 0
  BY <1>1 DEF LegsBalance, Steps
<1>4. ASSUME NEW u \in Units
      PROVE  SumFunctionOnSet(LegAmounts(r), {i \in Steps(r) : UnitOf[LegsOf[r][i].acct] = u}) = 0
  <2>1. LegAmounts(r) = AmountsOf(LegsOf[r])
    BY DEF LegAmounts, AmountsOf, Steps
  <2>2. {i \in Steps(r) : UnitOf[LegsOf[r][i].acct] = u} = OfUnit(LegsOf[r], u)
    BY <1>2 DEF OfUnit, Steps
  <2>3. CASE u \in {"coin", "point", "paise"}
    BY <1>1, <2>1, <2>2, <2>3 DEF LegsBalance
  <2>4. CASE u \notin {"coin", "point", "paise"}
    <3>1. OfUnit(LegsOf[r], u) = {}
      BY <2>4 DEF OfUnit, UnitOfAccount
    <3> QED BY <2>2, <3>1, SumEmpty
  <2> QED BY <2>3, <2>4
<1> QED BY <1>3, <1>4 DEF Balanced

\* Only legs that do not balance are called unbalanced.
ToldUnbalanced == \A r \in Requests : answer[r] = "unbalanced" => ~Balanced(r)

\* The books balance in every unit, and postTransaction refuses no flow's legs.
THEOREM EconomyBalances == Spec => []EveryFlowBalances
<1>1. Init => ToldUnbalanced
  BY DEF Init, ToldUnbalanced
<1>2. TypeOK /\ ToldUnbalanced /\ [Next]_vars => ToldUnbalanced'
  <2> SUFFICES ASSUME TypeOK, ToldUnbalanced, [Next]_vars PROVE ToldUnbalanced'
    OBVIOUS
  <2> USE DEF ToldUnbalanced, Tell, TypeOK
  <2>1. ASSUME NEW r \in Requests, Submit(r) PROVE ToldUnbalanced'
    <3>1. CASE Balanced(r)
      BY <2>1, <3>1 DEF Submit
    <3>2. CASE ~Balanced(r)
      BY <2>1, <3>2 DEF Submit
    <3> QED BY <3>1, <3>2
  <2>2. ASSUME NEW r \in Requests, Serve(r) PROVE ToldUnbalanced'
    BY <2>2 DEF Serve, Find, CheckType, InsertTxn, Reread, Resolve, LockBalances, Commit,
                ReplayOrThrow
  <2>3. ASSUME NEW r \in Requests, Abort(r) \/ AskAgain(r) PROVE ToldUnbalanced'
    BY <2>3 DEF Abort, AskAgain
  <2>4. ASSUME NEW t \in Types, FlipType(t) PROVE ToldUnbalanced'
    BY <2>4 DEF FlipType
  <2>5. ASSUME NEW x \in rows, PurgeBody(x) PROVE ToldUnbalanced'
    BY <2>5 DEF PurgeBody
  <2>6. ASSUME UNCHANGED vars PROVE ToldUnbalanced'
    BY <2>6 DEF vars
  <2> QED BY <2>1, <2>2, <2>3, <2>4, <2>5, <2>6 DEF Next
<1>3. BooksBalance /\ ToldUnbalanced => EveryFlowBalances
  BY FlowsAlwaysBalance, FlowsAccepted, EconomyConstants DEF EveryFlowBalances, ToldUnbalanced
<1> QED BY <1>1, <1>2, <1>3, TypeCorrect, DoubleEntry, PTL DEF Spec

=============================================================================
