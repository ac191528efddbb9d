----------------------------- MODULE PaymentProofs -----------------------------
(***************************************************************************)
(* Buying coins and the brakes on spending them, for any requests and any  *)
(* amounts.  Purchases (purchase.service.ts): one receipt is credited once *)
(* and what is kept beside the ledger follows it.  Spend controls          *)
(* (spend.service.ts): raises wait, pauses last, and how far gifts that    *)
(* are checked at once may pass a cap.  Gifts (gifts.service.ts and the    *)
(* app's intentKeys.ts): paid for as wished, and answered truly.           *)
(***************************************************************************)
EXTENDS Purchase, Spend, Gifting, Sums

(* One receipt, one credit                                                 *)

PurchaseRow == [status : {"pending", "credited"}, user : Users, pack : Packs]

CreditShaped ==
    /\ pc \in [Requests -> {"idle"} \cup Working \cup Over]
    /\ purchases \in [Receipts -> PurchaseRow \cup {NoRow}]

HeldBy(c, u) == purchases[c] # NoRow /\ purchases[c].user = u

\* A request past its insert has its receipt's row in its own name.
Recorded ==
    \A r \in Requests :
        pc[r] \in {"post", "count", "level", "unlock"} => HeldBy(ReceiptOf[r], UserOf[r])

\* The ledger's key is the receipt, so its unique index is one over receipts.
Credited ==
    /\ \A p \in posted : p.key = p.receipt /\ p.receipt \in Receipts /\ HeldBy(p.receipt, p.user)
    /\ \A p, q \in posted : p.key = q.key => p = q

CreditInv == CreditShaped /\ Recorded /\ Credited

-----------------------------------------------------------------------------
LEMMA CreditStarts == Init => CreditInv
BY PurchaseConstants DEF Init, CreditInv, CreditShaped, Recorded, Credited, HeldBy

\* No step takes a row away or gives it to another account.
LEMMA RowsStay ==
  ASSUME CreditInv, [Next]_vars
  PROVE  /\ purchases' \in [Receipts -> PurchaseRow \cup {NoRow}]
         /\ \A c \in Receipts : \A u \in Users : HeldBy(c, u) => HeldBy(c, u)'
<1> USE PurchaseConstants DEF CreditInv, CreditShaped
<1>1. ASSUME NEW r \in Requests, Record(r)
      PROVE  /\ purchases' \in [Receipts -> PurchaseRow \cup {NoRow}]
             /\ \A c \in Receipts : \A u \in Users : HeldBy(c, u) => HeldBy(c, u)'
  <2> DEFINE new == [status |-> "pending", user |-> UserOf[r], pack |-> PackOf[r]]
  <2>1. purchases' = IF purchases[ReceiptOf[r]] = NoRow
                     THEN [purchases EXCEPT ![ReceiptOf[r]] = new] ELSE purchases
    BY <1>1 DEF Record
  <2>2. new \in PurchaseRow
    BY DEF PurchaseRow
  <2> HIDE DEF new
  <2> QED BY <2>1, <2>2 DEF HeldBy
<1>2. ASSUME NEW r \in Requests, Count(r)
      PROVE  /\ purchases' \in [Receipts -> PurchaseRow \cup {NoRow}]
             /\ \A c \in Receipts : \A u \in Users : HeldBy(c, u) => HeldBy(c, u)'
  <2> DEFINE c == ReceiptOf[r]
  <2>1. purchases[c] \in PurchaseRow /\ purchases' = [purchases EXCEPT ![c].status = "credited"]
    BY <1>2 DEF Count, Recorded, HeldBy
  <2>2. [purchases[c] EXCEPT !.status = "credited"] \in PurchaseRow
        /\ [purchases[c] EXCEPT !.status = "credited"].user = purchases[c].user
    BY <2>1 DEF PurchaseRow
  <2>3. [purchases[c] EXCEPT !.status = "credited"] # NoRow
    BY <2>1 DEF PurchaseRow, NoRow
  <2> QED BY <2>1, <2>2, <2>3 DEF HeldBy
<1>3. CASE UNCHANGED purchases
  BY <1>3 DEF HeldBy
<1> QED BY <1>1, <1>2, <1>3
        DEF Next, Serve, Check, Post, SetLevel, Unlock, Crash, PurgeAnswer, vars

\* Only the insert leads to the posting, and the posting to what follows.
LEMMA StagesKeep ==
  ASSUME CreditInv, [Next]_vars
  PROVE  /\ pc' \in [Requests -> {"idle"} \cup Working \cup Over]
         /\ Recorded'
<1> USE PurchaseConstants DEF CreditInv, CreditShaped, Goto
<1>1. ASSUME NEW r \in Requests, Record(r)
      PROVE  /\ pc' \in [Requests -> {"idle"} \cup Working \cup Over] /\ Recorded'
  <2>1. pc' \in [Requests -> {"idle"} \cup Working \cup Over]
    BY <1>1 DEF Record, Working, Over
  <2>2. \A s \in Requests \ {r} : pc'[s] = pc[s]
    BY <1>1 DEF Record
  <2>3. pc'[r] = "post" => HeldBy(ReceiptOf[r], UserOf[r])'
    BY <1>1 DEF Record, HeldBy, NoRow
  <2>4. pc'[r] \in {"post", "receipt_used"}
    BY <1>1 DEF Record
  <2> QED BY <2>1, <2>2, <2>3, <2>4, RowsStay DEF Recorded
<1>2. ASSUME NEW r \in Requests, Check(r) \/ Post(r) \/ Count(r) \/ SetLevel(r) \/ Unlock(r) \/ Crash(r)
      PROVE  /\ pc' \in [Requests -> {"idle"} \cup Working \cup Over] /\ Recorded'
  <2>1. /\ pc' \in [Requests -> {"idle"} \cup Working \cup Over]
        /\ \A s \in Requests \ {r} : pc'[s] = pc[s]
        /\ pc'[r] \in {"post", "count", "level", "unlock"} => pc[r] \in {"post", "count", "level", "unlock"}
    BY <1>2 DEF Check, Post, Count, SetLevel, Unlock, Crash, Working, Over
  <2> QED BY <2>1, RowsStay DEF Recorded
<1>3. CASE UNCHANGED pc
  BY <1>3, RowsStay DEF Recorded
<1> QED BY <1>1, <1>2, <1>3 DEF Next, Serve, PurgeAnswer, vars

LEMMA CreditsKeep ==
  ASSUME CreditInv, [Next]_vars
  PROVE  Credited'
<1> USE PurchaseConstants DEF CreditInv, CreditShaped
<1>1. ASSUME NEW r \in Requests, Post(r) PROVE Credited'
  <2> DEFINE new == [key |-> LedgerKey(r), receipt |-> ReceiptOf[r], user |-> UserOf[r],
                     pack |-> PackOf[r]]
  <2>1. posted' = posted \/ (PriorPost(r) = {} /\ posted' = posted \cup {new})
    BY <1>1 DEF Post
  <2>2. /\ new.key = new.receipt /\ new.receipt \in Receipts /\ HeldBy(new.receipt, new.user)
        /\ PriorPost(r) = {} => \A p \in posted : p.key # new.key
    BY <1>1 DEF Post, Recorded, LedgerKey, PriorPost
  <2>3. purchases' = purchases
    BY <1>1 DEF Post
  <2> HIDE DEF new
  <2> QED BY <2>1, <2>2, <2>3 DEF Credited, HeldBy
<1>2. CASE posted' = posted
  <2>1. ASSUME NEW p \in posted PROVE HeldBy(p.receipt, p.user)'
    <3>1. /\ p.receipt \in Receipts /\ HeldBy(p.receipt, p.user)
      BY DEF Credited
    <3>2. p.user \in Users
      BY <3>1 DEF HeldBy, PurchaseRow
    <3> QED BY <3>1, <3>2, RowsStay
  <2> QED BY <1>2, <2>1 DEF Credited
<1> QED BY <1>1, <1>2 DEF Next, Serve, Check, Record, Count, SetLevel, Unlock, Crash, PurgeAnswer, vars

\* "One receipt means one credit, forever", for any number of requests, accounts
\* and receipts, and with any client keys, replays, purges and crashes.
THEOREM OneCreditPerReceipt == Spec => []OneReceiptOneCredit
<1>1. CreditInv /\ [Next]_vars => CreditInv'
  BY RowsStay, StagesKeep, CreditsKeep DEF CreditInv, CreditShaped
<1>2. CreditInv => OneReceiptOneCredit
  BY DEF CreditInv, Credited, HeldBy, OneReceiptOneCredit
<1> QED BY CreditStarts, <1>1, <1>2, PTL DEF Spec

-----------------------------------------------------------------------------
(* Lifetime coins, levels and cosmetics                                    *)

Increments(m) == [r \in Requests |-> IF m[r].replayed THEN 0 ELSE Coins[PackOf[r]]]
AtCount(p)    == {r \in Requests : p[r] = "count"}
Of(S, u)      == {r \in S : UserOf[r] = u}
Credits(P, u) == SumFunctionOnSet([p \in P |-> Coins[p.pack]], {p \in P : p.user = u})
Owes(p, m, u) == SumFunctionOnSet(Increments(m), Of(AtCount(p), u))
Term(p, m, r, u) == IF p[r] = "count" /\ UserOf[r] = u THEN Increments(m)[r] ELSE 0

Holding == [replayed : BOOLEAN, total : Nat]
Posting == [key : Receipts \cup Requests, receipt : Receipts, user : Users, pack : Packs]

Counters ==
    /\ pc \in [Requests -> {"idle"} \cup Working \cup Over] /\ crashes \in Nat
    /\ mine \in [Requests -> Holding]
    /\ total \in [Users -> Nat] /\ unlocked \in [Users -> Nat]
    /\ posted \subseteq Posting /\ IsFiniteSet(posted)
    /\ IsFiniteSet(AtCount(pc))

\* A request holds nothing before its posting; what it read back was there, and
\* a lifetime total only grows.
ReadBack ==
    \A r \in Requests :
        /\ pc[r] \notin {"count", "level", "unlock"} => mine[r] = Fresh
        /\ mine[r].total <= total[UserOf[r]]

\* What was counted and is still to be counted is what was credited, unless a
\* process died with a posting it had not counted.
Accounted ==
    \A u \in Users :
        /\ total[u] + Owes(pc, mine, u) <= Credits(posted, u)
        /\ crashes = 0 => total[u] + Owes(pc, mine, u) = Credits(posted, u)

CountInv == Counters /\ ReadBack /\ Accounted /\ UnlocksEarned

-----------------------------------------------------------------------------
LEMMA Unfolds ==
  \A u \in Users : CreditsOf(u) = Credits(posted, u) /\ OwedTo(u) = Owes(pc, mine, u)
<1> SUFFICES ASSUME NEW u \in Users
             PROVE CreditsOf(u) = Credits(posted, u) /\ OwedTo(u) = Owes(pc, mine, u)
  OBVIOUS
<1>1. {r \in Requests : pc[r] = "count" /\ UserOf[r] = u} = Of(AtCount(pc), u)
  BY DEF Of, AtCount
<1>2. [r \in Requests |-> Increment(r)] = Increments(mine)
  BY DEF Increment, Increments
<1> QED BY <1>1, <1>2 DEF CreditsOf, OwedTo, Credits, Owes

\* The level of more coins is no lower.
LEMMA LevelsGrow ==
  ASSUME NEW a \in Nat, NEW b \in Nat, a <= b
  PROVE  levelFor(a) \in Nat \ {0} /\ levelFor(a) <= levelFor(b)
<1> DEFINE L(n) == {t \in Levels : t <= n}
<1>0. Levels \subseteq Nat
  BY PurchaseConstants
<1>1. L(a) \subseteq 0..a /\ L(b) \subseteq 0..b /\ L(a) \subseteq L(b)
  <2>1. \A t \in Levels : t \in Nat /\ (t <= a => t \in 0..a /\ t <= b) /\ (t <= b => t \in 0..b)
    BY <1>0
  <2> QED BY <2>1
<1>2. /\ IsFiniteSet(L(a)) /\ Cardinality(L(a)) \in Nat
      /\ IsFiniteSet(L(b)) /\ Cardinality(L(b)) \in Nat
  <2>1. IsFiniteSet(0..a) /\ IsFiniteSet(0..b)
    BY FS_Interval
  <2>2. IsFiniteSet(L(a)) /\ IsFiniteSet(L(b))
    BY <1>1, <2>1, FS_Subset
  <2> QED BY <2>2, FS_CardinalityType
<1>4. Cardinality(L(a)) <= Cardinality(L(b))
  BY <1>1, <1>2, FS_Subset
<1> QED BY <1>2, <1>4 DEF levelFor

\* A step of one request changes what is owed by its own term alone.
Squared(r, p, q, m, n, u) == Owes(q, n, u) + Term(p, m, r, u) = Owes(p, m, u) + Term(q, n, r, u)
OnlyMoves(r, p, q, m, n) == \A s \in Requests \ {r} : q[s] = p[s] /\ n[s] = m[s]

LEMMA OwedMoves ==
  ASSUME NEW p, NEW q, NEW m \in [Requests -> Holding], NEW n \in [Requests -> Holding],
         NEW r \in Requests, IsFiniteSet(AtCount(p)),
         OnlyMoves(r, p, q, m, n)
  PROVE  /\ IsFiniteSet(AtCount(q))
         /\ \A u \in Users :
              /\ Owes(p, m, u) \in Nat /\ Owes(q, n, u) \in Nat
              /\ Term(p, m, r, u) \in Nat /\ Term(q, n, r, u) \in Nat
              /\ Squared(r, p, q, m, n, u)
<1> USE DEF OnlyMoves
<1>1. AtCount(q) \subseteq AtCount(p) \cup {r}
  BY DEF AtCount
<1>2. IsFiniteSet(AtCount(p) \cup {r})
  BY FS_AddElement
<1>3. IsFiniteSet(AtCount(q))
  BY <1>1, <1>2, FS_Subset
<1>4. ASSUME NEW u \in Users
      PROVE  /\ Owes(p, m, u) \in Nat /\ Owes(q, n, u) \in Nat
             /\ Term(p, m, r, u) \in Nat /\ Term(q, n, r, u) \in Nat
             /\ Squared(r, p, q, m, n, u)
  <2> DEFINE A == Of(AtCount(p), u)
             B == Of(AtCount(q), u)
             f == Increments(m)
             g == Increments(n)
  <2>1. IsFiniteSet(A) /\ IsFiniteSet(B)
    BY <1>3, FS_Subset DEF Of
  <2>2. /\ \A s \in Requests : f[s] \in Nat /\ g[s] \in Nat
        /\ \A s \in Requests \ {r} : f[s] = g[s]
    <3>1. \A s \in Requests : Coins[PackOf[s]] \in Nat
      BY PurchaseConstants
    <3>2. \A s \in Requests : m[s].replayed \in BOOLEAN /\ n[s].replayed \in BOOLEAN
      BY DEF Holding
    <3> QED BY <3>1, <3>2 DEF Increments
  <2>3. A \subseteq Requests /\ B \subseteq Requests /\ A \ {r} = B \ {r}
    BY DEF Of, AtCount
  <2> HIDE DEF f, g, A, B
  <2>4. IsFiniteSet(A \ {r}) /\ IsFiniteSet(B \ {r})
    BY <2>1, FS_RemoveElement
  <2>5. SumFunctionOnSet(f, A \ {r}) = SumFunctionOnSet(g, B \ {r})
    BY <2>2, <2>3, <2>4, SumSame
  <2>6. /\ SumFunctionOnSet(f, A) \in Nat /\ SumFunctionOnSet(g, B) \in Nat
        /\ SumFunctionOnSet(f, A \ {r}) \in Nat /\ SumFunctionOnSet(g, B \ {r}) \in Nat
    BY <2>1, <2>2, <2>3, <2>4, SumType
  <2>7. SumFunctionOnSet(f, A) = SumFunctionOnSet(f, A \ {r}) + (IF r \in A THEN f[r] ELSE 0)
    <3>1. CASE r \in A
      <4>1. \A s \in A : f[s] \in Int
        BY <2>2, <2>3
      <4>2. SumFunctionOnSet(f, A) = f[r] + SumFunctionOnSet(f, A \ {r})
        BY <3>1, <2>1, <4>1, SumAny
      <4>3. (IF r \in A THEN f[r] ELSE 0) = f[r] /\ f[r] \in Nat
        BY <3>1, <2>2
      <4> QED BY <3>1, <2>6, <4>2, <4>3
    <3>2. CASE r \notin A
      <4>1. A \ {r} = A /\ (IF r \in A THEN f[r] ELSE 0) = 0
        BY <3>2
      <4>2. SumFunctionOnSet(f, A \ {r}) = SumFunctionOnSet(f, A)
        BY <4>1
      <4> QED BY <2>6, <4>1, <4>2
    <3> QED BY <3>1, <3>2
  <2>8. SumFunctionOnSet(g, B) = SumFunctionOnSet(g, B \ {r}) + (IF r \in B THEN g[r] ELSE 0)
    <3>1. CASE r \in B
      <4>1. \A s \in B : g[s] \in Int
        BY <2>2, <2>3
      <4>2. SumFunctionOnSet(g, B) = g[r] + SumFunctionOnSet(g, B \ {r})
        BY <3>1, <2>1, <4>1, SumAny
      <4>3. (IF r \in B THEN g[r] ELSE 0) = g[r] /\ g[r] \in Nat
        BY <3>1, <2>2
      <4> QED BY <3>1, <2>6, <4>2, <4>3
    <3>2. CASE r \notin B
      <4>1. B \ {r} = B /\ (IF r \in B THEN g[r] ELSE 0) = 0
        BY <3>2
      <4>2. SumFunctionOnSet(g, B \ {r}) = SumFunctionOnSet(g, B)
        BY <4>1
      <4> QED BY <2>6, <4>1, <4>2
    <3> QED BY <3>1, <3>2
  <2>9. /\ Term(p, m, r, u) = IF r \in A THEN f[r] ELSE 0
        /\ Term(q, n, r, u) = IF r \in B THEN g[r] ELSE 0
    BY DEF Term, A, B, f, g, Of, AtCount
  <2>10. Owes(p, m, u) = SumFunctionOnSet(f, A) /\ Owes(q, n, u) = SumFunctionOnSet(g, B)
    BY DEF Owes, A, B, f, g
  <2> QED BY <2>2, <2>5, <2>6, <2>7, <2>8, <2>9, <2>10 DEF Squared
<1> QED BY <1>3, <1>4

\* One more posting credits its pack's coins to its account.
LEMMA CreditsGrow ==
  ASSUME NEW P \in SUBSET Posting, IsFiniteSet(P), NEW x \in Posting, x \notin P, NEW u \in Users
  PROVE  /\ Credits(P, u) \in Nat /\ Coins[x.pack] \in Nat
         /\ Credits(P \cup {x}, u) = Credits(P, u) + (IF x.user = u THEN Coins[x.pack] ELSE 0)
<1> DEFINE f == [p \in P |-> Coins[p.pack]]
           g == [p \in P \cup {x} |-> Coins[p.pack]]
           A == {p \in P : p.user = u}
<1>1. IsFiniteSet(A) /\ A \subseteq P /\ x \notin A
  BY FS_Subset
<1>2. \A p \in Posting : Coins[p.pack] \in Nat
  BY PurchaseConstants DEF Posting
<1>3. /\ \A p \in A : f[p] \in Nat /\ g[p] \in Nat /\ f[p] = g[p]
      /\ g[x] = Coins[x.pack] /\ g[x] \in Nat
  BY <1>2
<1> DEFINE B == {p \in P \cup {x} : p.user = u}
<1>4. B = IF x.user = u THEN A \cup {x} ELSE A
  OBVIOUS
<1>5. Credits(P, u) = SumFunctionOnSet(f, A) /\ Credits(P \cup {x}, u) = SumFunctionOnSet(g, B)
  BY DEF Credits
<1> HIDE DEF f, g, A, B
<1>6. SumFunctionOnSet(f, A) \in Nat
  BY <1>1, <1>3, SumType
<1>7. SumFunctionOnSet(f, A) = SumFunctionOnSet(g, A)
  BY <1>1, <1>3, SumSame
<1>8. SumFunctionOnSet(g, A \cup {x}) = SumFunctionOnSet(g, A) + g[x]
  BY <1>1, <1>3, SumAdd
<1> QED BY <1>3, <1>4, <1>5, <1>6, <1>7, <1>8

LEMMA CreditsType ==
  ASSUME NEW P \in SUBSET Posting, IsFiniteSet(P), NEW u \in Users
  PROVE  Credits(P, u) \in Nat
<1> DEFINE f == [p \in P |-> Coins[p.pack]]
           A == {p \in P : p.user = u}
<1>1. IsFiniteSet(A) /\ \A p \in A : f[p] \in Nat
  BY FS_Subset, PurchaseConstants DEF Posting
<1>2. Credits(P, u) = SumFunctionOnSet(f, A)
  BY DEF Credits
<1> HIDE DEF f, A
<1> QED BY <1>1, <1>2, SumType

LEMMA CountStarts == Init => CountInv
<1> SUFFICES ASSUME Init PROVE CountInv
  OBVIOUS
<1>1. AtCount(pc) = {} /\ posted = {}
  BY DEF Init, AtCount
<1>2. Counters
  BY <1>1, FS_EmptySet, PurchaseConstants DEF Init, Counters, Holding, Fresh
<1>3. ReadBack
  BY PurchaseConstants DEF Init, ReadBack, Fresh
<1>4. \A u \in Users : Owes(pc, mine, u) = 0 /\ Credits(posted, u) = 0
  <2> TAKE u \in Users
  <2>1. Of(AtCount(pc), u) = {} /\ {p \in posted : p.user = u} = {}
    BY <1>1 DEF Of
  <2> QED BY <2>1, SumEmpty DEF Owes, Credits
<1>5. Accounted
  BY <1>4 DEF Accounted, Init
<1>6. UnlocksEarned
  <2>1. levelFor(0) \in Nat \ {0}
    BY LevelsGrow
  <2> QED BY <1>4, <2>1, Unfolds DEF UnlocksEarned, Init
<1> QED BY <1>2, <1>3, <1>5, <1>6 DEF CountInv

\* What one request may do to its stage, to what it holds and to the counters.
Moves(r) ==
    /\ pc' \in [Requests -> {"idle"} \cup Working \cup Over] /\ crashes' \in Nat
    /\ mine' \in [Requests -> Holding] /\ total' \in [Users -> Nat] /\ unlocked' \in [Users -> Nat]
    /\ posted' = posted /\ (crashes' = 0 => crashes = 0)
    /\ OnlyMoves(r, pc, pc', mine, mine')
    /\ pc'[r] \notin {"count", "level", "unlock"} => mine'[r] = Fresh
    /\ \A u \in Users : total'[u] >= total[u]
    /\ mine'[r].total <= total'[UserOf[r]]
    /\ \A u \in Users :
          /\ total'[u] + Term(pc', mine', r, u) <= total[u] + Term(pc, mine, r, u)
          /\ crashes' = 0 =>
               total'[u] + Term(pc', mine', r, u) = total[u] + Term(pc, mine, r, u)
          /\ \/ unlocked'[u] = unlocked[u]
             \/ u = UserOf[r] /\ unlocked'[u] \in {unlocked[u], levelFor(mine[r].total)}

LEMMA RequestKeeps ==
  ASSUME CountInv, NEW r \in Requests, Moves(r)
  PROVE  CountInv'
<1> USE DEF CountInv, Moves
<1>1. /\ IsFiniteSet(AtCount(pc'))
      /\ \A u \in Users :
           /\ Owes(pc, mine, u) \in Nat /\ Owes(pc', mine', u) \in Nat
           /\ Term(pc, mine, r, u) \in Nat /\ Term(pc', mine', r, u) \in Nat
           /\ Squared(r, pc, pc', mine, mine', u)
  <2>1. IsFiniteSet(AtCount(pc)) /\ mine \in [Requests -> Holding]
    BY DEF Counters
  <2>2. r \in Requests /\ OnlyMoves(r, pc, pc', mine, mine') /\ mine' \in [Requests -> Holding]
    OBVIOUS
  <2> HIDE DEF CountInv, Moves
  <2>3. IsFiniteSet(AtCount(pc'))
    BY <2>1, <2>2, OwedMoves
  <2>4. ASSUME NEW u \in Users
        PROVE  /\ Owes(pc, mine, u) \in Nat /\ Owes(pc', mine', u) \in Nat
               /\ Term(pc, mine, r, u) \in Nat /\ Term(pc', mine', r, u) \in Nat
    BY <2>1, <2>2, OwedMoves
  <2>5. ASSUME NEW u \in Users
        PROVE Squared(r, pc, pc', mine, mine', u)
    BY <2>1, <2>2, <2>4, OwedMoves
  <2> QED BY <2>3, <2>4, <2>5
<1>2. AtCount(pc)' = AtCount(pc') /\ \A u \in Users : Owes(pc, mine, u)' = Owes(pc', mine', u)
  BY DEF AtCount, Owes, Of, Increments
<1>3. Counters'
  BY <1>1, <1>2 DEF Counters
<1>4. ReadBack'
  <2> SUFFICES ASSUME NEW s \in Requests
               PROVE  /\ pc'[s] \notin {"count", "level", "unlock"} => mine'[s] = Fresh
                      /\ mine'[s].total <= total'[UserOf[s]]
    BY DEF ReadBack
  <2> USE DEF OnlyMoves
  <2>1. UserOf[s] \in Users /\ mine[s].total \in Nat /\ mine[s].total <= total[UserOf[s]]
    BY PurchaseConstants DEF Counters, Holding, ReadBack
  <2> QED BY <2>1 DEF ReadBack, Counters
<1>5. \A u \in Users : total[u] \in Nat /\ total'[u] \in Nat /\ Credits(posted, u)' = Credits(posted, u)
  BY DEF Counters, Credits
<1>6. Accounted'
  <2> SUFFICES ASSUME NEW u \in Users
               PROVE  /\ total'[u] + Owes(pc', mine', u) <= Credits(posted, u)
                      /\ crashes' = 0 => total'[u] + Owes(pc', mine', u) = Credits(posted, u)
    BY <1>2, <1>5 DEF Accounted
  <2>1. IsFiniteSet(posted) /\ posted \subseteq Posting
    BY DEF Counters
  <2>2. Credits(posted, u) \in Nat
    BY <2>1, CreditsType
  <2>3. /\ total[u] + Owes(pc, mine, u) <= Credits(posted, u)
        /\ crashes = 0 => total[u] + Owes(pc, mine, u) = Credits(posted, u)
    BY DEF Accounted
  <2>4. /\ Owes(pc, mine, u) \in Nat /\ Owes(pc', mine', u) \in Nat
        /\ Term(pc, mine, r, u) \in Nat /\ Term(pc', mine', r, u) \in Nat
        /\ Squared(r, pc, pc', mine, mine', u)
        /\ total[u] \in Nat /\ total'[u] \in Nat
    BY <1>1, <1>5 DEF Squared
  <2>5. /\ total'[u] + Term(pc', mine', r, u) <= total[u] + Term(pc, mine, r, u)
        /\ crashes' = 0 => /\ crashes = 0
                           /\ total'[u] + Term(pc', mine', r, u) = total[u] + Term(pc, mine, r, u)
    OBVIOUS
  <2> QED BY <2>2, <2>3, <2>4, <2>5 DEF Squared
<1>7. UnlocksEarned'
  <2> SUFFICES ASSUME NEW u \in Users PROVE unlocked'[u] <= levelFor(Credits(posted, u))
    <3>1. \A u \in Users : CreditsOf(u)' = CreditsOf(u) /\ CreditsOf(u) = Credits(posted, u)
      BY Unfolds DEF CreditsOf
    <3> QED BY <3>1 DEF UnlocksEarned, levelFor
  <2>1. unlocked[u] <= levelFor(Credits(posted, u))
    BY Unfolds DEF UnlocksEarned
  <2>2. Credits(posted, u) \in Nat
    BY CreditsType DEF Counters
  <2>3. levelFor(Credits(posted, u)) \in Nat
    BY <2>2, LevelsGrow
  <2>4. unlocked[u] \in Nat /\ unlocked'[u] \in Nat
    BY DEF Counters
  <2>5. u = UserOf[r] => levelFor(mine[r].total) \in Nat /\ levelFor(mine[r].total) <= levelFor(Credits(posted, u))
    <3> SUFFICES ASSUME u = UserOf[r]
                 PROVE levelFor(mine[r].total) \in Nat /\ levelFor(mine[r].total) <= levelFor(Credits(posted, u))
      OBVIOUS
    <3>1. mine[r].total \in Nat /\ mine[r].total <= total[u] /\ total[u] \in Nat
      BY DEF Counters, Holding, ReadBack
    <3>2. total[u] + Owes(pc, mine, u) <= Credits(posted, u)
      BY DEF Accounted
    <3>3. mine[r].total <= Credits(posted, u)
      BY <1>1, <2>2, <3>1, <3>2
    <3> QED BY <2>2, <3>1, <3>3, LevelsGrow
  <2> QED BY <2>1, <2>3, <2>4, <2>5
<1> QED BY <1>3, <1>4, <1>6, <1>7

\* The posting itself: credited and to be counted grow by the same coins.
LEMMA PostingKeeps ==
  ASSUME CountInv, NEW r \in Requests, Post(r), PriorPost(r) = {}
  PROVE  CountInv'
<1> USE DEF CountInv
<1> DEFINE x == [key |-> LedgerKey(r), receipt |-> ReceiptOf[r], user |-> UserOf[r], pack |-> PackOf[r]]
<1>1. /\ pc[r] = "post" /\ posted' = posted \cup {x} /\ pc' = [pc EXCEPT ![r] = "count"]
      /\ UNCHANGED <<mine, crashes, total, unlocked>>
  BY DEF Post, Goto
<1>2. /\ x \in Posting /\ x \notin posted /\ x.user = UserOf[r] /\ x.pack = PackOf[r]
  BY PurchaseConstants DEF Posting, LedgerKey, PriorPost
<1> HIDE DEF x
<1>3. /\ pc \in [Requests -> {"idle"} \cup Working \cup Over] /\ crashes \in Nat
      /\ mine \in [Requests -> Holding] /\ total \in [Users -> Nat] /\ unlocked \in [Users -> Nat]
      /\ posted \in SUBSET Posting /\ IsFiniteSet(posted) /\ IsFiniteSet(AtCount(pc))
  BY DEF Counters
<1>4. /\ pc' \in [Requests -> {"idle"} \cup Working \cup Over] /\ pc'[r] = "count"
      /\ mine' \in [Requests -> Holding] /\ OnlyMoves(r, pc, pc', mine, mine')
  BY <1>1, <1>3 DEF Working, OnlyMoves
<1>5. /\ IsFiniteSet(AtCount(pc'))
      /\ \A u \in Users : /\ Owes(pc, mine, u) \in Nat /\ Owes(pc', mine', u) \in Nat
                           /\ Squared(r, pc, pc', mine, mine', u)
  BY <1>3, <1>4, OwedMoves
<1>6. \A u \in Users :
        /\ Credits(posted, u) \in Nat /\ Coins[x.pack] \in Nat
        /\ Credits(posted', u) = Credits(posted, u) + (IF x.user = u THEN Coins[x.pack] ELSE 0)
  BY <1>1, <1>2, <1>3, CreditsGrow
<1>7. \A u \in Users : /\ Term(pc, mine, r, u) = 0
                       /\ Term(pc', mine', r, u) = IF x.user = u THEN Coins[x.pack] ELSE 0
  <2>1. mine[r].replayed = FALSE
    BY <1>1 DEF ReadBack, Fresh
  <2> QED BY <1>1, <1>2, <1>4, <2>1 DEF Term, Increments
<1>8. /\ AtCount(pc)' = AtCount(pc')
      /\ \A u \in Users : /\ Owes(pc, mine, u)' = Owes(pc', mine', u)
                           /\ Credits(posted, u)' = Credits(posted', u)
  BY DEF AtCount, Owes, Of, Increments, Credits
<1>9. Counters'
  <2>1. IsFiniteSet(posted')
    BY <1>1, <1>3, FS_AddElement
  <2> QED BY <1>1, <1>2, <1>3, <1>4, <1>5, <1>8, <2>1 DEF Counters
<1>10. ReadBack'
  BY <1>1, <1>3, <1>4 DEF ReadBack
<1>11. ASSUME NEW u \in Users
       PROVE  /\ Owes(pc', mine', u) = Owes(pc, mine, u) + (IF x.user = u THEN Coins[x.pack] ELSE 0)
              /\ Owes(pc, mine, u) \in Nat /\ Owes(pc', mine', u) \in Nat
              /\ Credits(posted, u) \in Nat /\ Credits(posted', u) \in Nat
              /\ Credits(posted, u) <= Credits(posted', u)
  <2>1. (IF x.user = u THEN Coins[x.pack] ELSE 0) \in Nat
    BY <1>6
  <2> QED BY <1>5, <1>6, <1>7, <2>1 DEF Squared
<1>12. Accounted'
  <2> SUFFICES ASSUME NEW u \in Users
               PROVE  /\ total[u] + Owes(pc', mine', u) <= Credits(posted', u)
                      /\ crashes = 0 => total[u] + Owes(pc', mine', u) = Credits(posted', u)
    BY <1>1, <1>8 DEF Accounted
  <2>1. /\ total[u] + Owes(pc, mine, u) <= Credits(posted, u)
        /\ crashes = 0 => total[u] + Owes(pc, mine, u) = Credits(posted, u)
        /\ total[u] \in Nat
    BY <1>3 DEF Accounted
  <2>2. (IF x.user = u THEN Coins[x.pack] ELSE 0) \in Nat
    BY <1>6
  <2> QED BY <1>6, <1>11, <2>1, <2>2
<1>13. UnlocksEarned'
  <2> SUFFICES ASSUME NEW u \in Users PROVE unlocked[u] <= levelFor(Credits(posted', u))
    <3>1. \A u \in Users : CreditsOf(u)' = Credits(posted', u)
      BY DEF CreditsOf, Credits
    <3> QED BY <1>1, <3>1 DEF UnlocksEarned, levelFor
  <2>1. unlocked[u] <= levelFor(Credits(posted, u)) /\ unlocked[u] \in Nat
    BY <1>3, Unfolds DEF UnlocksEarned
  <2>2. /\ levelFor(Credits(posted, u)) \in Nat /\ levelFor(Credits(posted', u)) \in Nat
        /\ levelFor(Credits(posted, u)) <= levelFor(Credits(posted', u))
    <3>1. Credits(posted', u) <= Credits(posted', u)
      BY <1>11
    <3> QED BY <1>11, <3>1, LevelsGrow
  <2> QED BY <2>1, <2>2
<1> QED BY <1>9, <1>10, <1>12, <1>13

LEMMA CountKeeps ==
  ASSUME CountInv, [Next]_vars
  PROVE  CountInv'
<1> USE DEF CountInv
<1>0. /\ crashes \in Nat /\ pc \in [Requests -> {"idle"} \cup Working \cup Over]
      /\ mine \in [Requests -> Holding] /\ total \in [Users -> Nat] /\ unlocked \in [Users -> Nat]
  BY DEF Counters
<1>1. ASSUME NEW r \in Requests, Check(r) \/ Record(r) PROVE CountInv'
  <2>1. PICK goal \in {"already_bought", "record", "post", "receipt_used"} :
           /\ pc' = [pc EXCEPT ![r] = goal] /\ pc[r] \in {"idle", "record"} \cup Over
           /\ UNCHANGED <<crashes, mine, posted, total, unlocked>>
    BY <1>1 DEF Check, Record, Goto
  <2>2. pc' \in [Requests -> {"idle"} \cup Working \cup Over] /\ pc'[r] = goal
    BY <1>0, <2>1 DEF Working, Over
  <2>3. mine[r] = Fresh /\ mine[r].total <= total[UserOf[r]]
    BY <2>1 DEF ReadBack, Over
  <2>4. \A u \in Users : Term(pc', mine', r, u) = 0 /\ Term(pc, mine, r, u) = 0
    BY <2>1, <2>2 DEF Term, Over
  <2>5. OnlyMoves(r, pc, pc', mine, mine')
    BY <1>0, <2>1 DEF OnlyMoves
  <2>6. \A u \in Users : total[u] \in Nat /\ total[u] >= total[u]
    BY <1>0
  <2>7. /\ crashes' \in Nat /\ mine' \in [Requests -> Holding] /\ total' \in [Users -> Nat]
        /\ unlocked' \in [Users -> Nat] /\ posted' = posted /\ (crashes' = 0 => crashes = 0)
        /\ mine'[r] = Fresh /\ mine'[r].total <= total'[UserOf[r]]
        /\ \A u \in Users : unlocked'[u] = unlocked[u] /\ total'[u] = total[u]
    BY <1>0, <2>1, <2>3
  <2>8. Moves(r)
    BY <2>2, <2>4, <2>5, <2>6, <2>7 DEF Moves
  <2> QED BY <2>8, RequestKeeps
<1>2. ASSUME NEW r \in Requests, Post(r) PROVE CountInv'
  <2>1. CASE PriorPost(r) = {}
    BY <1>2, <2>1, PostingKeeps
  <2>2. CASE PriorPost(r) # {}
    <3>1. /\ pc[r] = "post" /\ UNCHANGED <<crashes, posted, total, unlocked>>
          /\ \/ pc' = [pc EXCEPT ![r] = "error"] /\ mine' = mine
             \/ pc' = [pc EXCEPT ![r] = "count"] /\ mine' = [mine EXCEPT ![r].replayed = TRUE]
      BY <1>2, <2>2 DEF Post, Goto
    <3>2. mine[r] = Fresh /\ mine[r].total <= total[UserOf[r]]
      BY <3>1 DEF ReadBack
    <3>3. /\ pc' \in [Requests -> {"idle"} \cup Working \cup Over]
          /\ mine' \in [Requests -> Holding] /\ OnlyMoves(r, pc, pc', mine, mine')
          /\ mine'[r].total <= total'[UserOf[r]]
          /\ pc'[r] \notin {"count", "level", "unlock"} => mine'[r] = Fresh
      <4>1. CASE pc' = [pc EXCEPT ![r] = "error"] /\ mine' = mine
        BY <1>0, <3>1, <3>2, <4>1 DEF Over, OnlyMoves
      <4>2. CASE pc' = [pc EXCEPT ![r] = "count"] /\ mine' = [mine EXCEPT ![r].replayed = TRUE]
        <5>1. [mine[r] EXCEPT !.replayed = TRUE] \in Holding
              /\ [mine[r] EXCEPT !.replayed = TRUE].total = mine[r].total
          BY <1>0 DEF Holding
        <5> QED BY <1>0, <3>1, <3>2, <4>2, <5>1 DEF Working, OnlyMoves
      <4> QED BY <3>1, <4>1, <4>2
    <3>4. \A u \in Users : Term(pc', mine', r, u) = 0 /\ Term(pc, mine, r, u) = 0
      <4>1. Increments(mine')[r] = 0 \/ pc'[r] # "count"
        BY <1>0, <3>1 DEF Increments, Holding
      <4> QED BY <3>1, <4>1 DEF Term
    <3>5. \A u \in Users : total'[u] \in Nat /\ total'[u] = total[u] /\ unlocked'[u] = unlocked[u]
      BY <1>0, <3>1
    <3>6. Moves(r)
      BY <1>0, <3>1, <3>3, <3>4, <3>5 DEF Moves
    <3> QED BY <3>6, RequestKeeps
  <2> QED BY <2>1, <2>2
<1>3. ASSUME NEW r \in Requests, Count(r) PROVE CountInv'
  <2> DEFINE v == UserOf[r]
             i == Increment(r)
  <2>1. /\ pc[r] = "count" /\ UNCHANGED <<crashes, posted, unlocked>>
        /\ pc' = [pc EXCEPT ![r] = "level"]
        /\ total' = [total EXCEPT ![v] = total[v] + i]
        /\ mine' = [mine EXCEPT ![r].total = total'[v]]
    BY <1>3 DEF Count, Goto
  <2>2. v \in Users /\ i \in Nat /\ i = Increments(mine)[r]
    <3>1. v \in Users /\ Coins[PackOf[r]] \in Nat /\ mine[r].replayed \in BOOLEAN
      BY <1>0, PurchaseConstants DEF Holding
    <3> QED BY <3>1 DEF Increment, Increments
  <2> HIDE DEF v, i
  <2>3. total' \in [Users -> Nat] /\ total'[v] = total[v] + i /\ total'[v] \in Nat
        /\ \A u \in Users : total[u] \in Nat /\ (u # v => total'[u] = total[u])
    BY <1>0, <2>1, <2>2
  <2>4. /\ pc' \in [Requests -> {"idle"} \cup Working \cup Over]
        /\ mine' \in [Requests -> Holding] /\ mine'[r].total = total'[v] /\ pc'[r] = "level"
        /\ OnlyMoves(r, pc, pc', mine, mine')
    BY <1>0, <2>1, <2>3 DEF Working, Holding, OnlyMoves
  <2>5. \A u \in Users : /\ Term(pc', mine', r, u) = 0
                         /\ Term(pc, mine, r, u) = IF u = v THEN i ELSE 0
    BY <2>1, <2>2, <2>4 DEF Term, v
  <2>6. \A u \in Users : total'[u] >= total[u]
                         /\ total'[u] + Term(pc', mine', r, u) = total[u] + Term(pc, mine, r, u)
                         /\ total'[u] + Term(pc', mine', r, u) <= total[u] + Term(pc, mine, r, u)
    BY <2>2, <2>3, <2>5
  <2>7. mine'[r].total <= total'[UserOf[r]]
    BY <2>3, <2>4 DEF v
  <2>8. Moves(r)
    BY <1>0, <2>1, <2>3, <2>4, <2>6, <2>7 DEF Moves
  <2> QED BY <2>8, RequestKeeps
<1>4. ASSUME NEW r \in Requests, SetLevel(r) \/ Unlock(r) PROVE CountInv'
  <2>1. /\ pc[r] \in {"level", "unlock"} /\ UNCHANGED <<crashes, posted, total>>
        /\ \/ pc' = [pc EXCEPT ![r] = "unlock"] /\ mine' = mine
           \/ pc' = [pc EXCEPT ![r] = "done"] /\ mine' = [mine EXCEPT ![r] = Fresh]
    BY <1>4 DEF SetLevel, Unlock, Goto
  <2>2. /\ pc' \in [Requests -> {"idle"} \cup Working \cup Over]
        /\ mine' \in [Requests -> Holding] /\ OnlyMoves(r, pc, pc', mine, mine')
        /\ pc'[r] # "count" /\ (pc'[r] \notin {"count", "level", "unlock"} => mine'[r] = Fresh)
    <3>1. CASE pc' = [pc EXCEPT ![r] = "unlock"] /\ mine' = mine
      BY <1>0, <2>1, <3>1 DEF Working, OnlyMoves
    <3>2. CASE pc' = [pc EXCEPT ![r] = "done"] /\ mine' = [mine EXCEPT ![r] = Fresh]
      <4>1. Fresh \in Holding
        BY DEF Fresh, Holding
      <4> QED BY <1>0, <2>1, <3>2, <4>1 DEF Over, OnlyMoves
    <3> QED BY <2>1, <3>1, <3>2
  <2>3. UserOf[r] \in Users /\ mine[r].total \in Nat
    BY <1>0, PurchaseConstants DEF Holding
  <2>4. mine'[r].total <= total'[UserOf[r]]
    <3>1. mine[r].total <= total[UserOf[r]] /\ total[UserOf[r]] \in Nat
      BY <1>0, <2>3 DEF ReadBack
    <3> QED BY <1>0, <2>1, <3>1 DEF Fresh
  <2>5. /\ unlocked' \in [Users -> Nat]
        /\ \A u \in Users :
              \/ unlocked'[u] = unlocked[u]
              \/ u = UserOf[r] /\ unlocked'[u] \in {unlocked[u], levelFor(mine[r].total)}
    <3> DEFINE k == Max({unlocked[UserOf[r]], levelFor(mine[r].total)})
    <3>1. unlocked' = [unlocked EXCEPT ![UserOf[r]] = k] \/ unlocked' = unlocked
      BY <1>4 DEF SetLevel, Unlock
    <3>2. levelFor(mine[r].total) \in Nat /\ unlocked[UserOf[r]] \in Nat
      BY <1>0, <2>3, LevelsGrow
    <3>3. k \in {unlocked[UserOf[r]], levelFor(mine[r].total)}
      BY <3>2 DEF Max
    <3> HIDE DEF k
    <3> QED BY <1>0, <2>3, <3>1, <3>2, <3>3
  <2>6. \A u \in Users : Term(pc', mine', r, u) = 0 /\ Term(pc, mine, r, u) = 0
    BY <2>1, <2>2 DEF Term
  <2>7. \A u \in Users : total'[u] \in Nat /\ total'[u] = total[u]
    BY <1>0, <2>1
  <2>8. Moves(r)
    BY <1>0, <2>1, <2>2, <2>4, <2>5, <2>6, <2>7 DEF Moves
  <2> QED BY <2>8, RequestKeeps
<1>5. ASSUME NEW r \in Requests, Crash(r) PROVE CountInv'
  <2>1. /\ pc' = [pc EXCEPT ![r] = "idle"] /\ mine' = [mine EXCEPT ![r] = Fresh]
        /\ crashes' = crashes + 1 /\ UNCHANGED <<posted, total, unlocked>>
    BY <1>5 DEF Crash, Goto
  <2>2. /\ pc' \in [Requests -> {"idle"} \cup Working \cup Over] /\ pc'[r] = "idle"
        /\ mine' \in [Requests -> Holding] /\ OnlyMoves(r, pc, pc', mine, mine')
        /\ mine'[r] = Fresh /\ crashes' \in Nat /\ crashes' # 0
    BY <1>0, <2>1 DEF Working, Holding, OnlyMoves, Fresh
  <2>3. \A u \in Users : total'[u] \in Nat /\ total'[u] = total[u] /\ unlocked'[u] = unlocked[u]
    BY <1>0, <2>1
  <2>4. mine'[r].total <= total'[UserOf[r]]
    <3>1. UserOf[r] \in Users
      BY PurchaseConstants
    <3> QED BY <2>2, <2>3, <3>1 DEF Fresh
  <2>5. \A u \in Users : Term(pc', mine', r, u) = 0 /\ Term(pc, mine, r, u) \in Nat
    <3>1. IsFiniteSet(AtCount(pc)) /\ OnlyMoves(r, pc, pc', mine, mine') /\ mine' \in [Requests -> Holding]
      BY <2>2 DEF Counters
    <3>2. \A u \in Users : Term(pc, mine, r, u) \in Nat
      BY <1>0, <3>1, OwedMoves
    <3> QED BY <2>2, <3>2 DEF Term
  <2>6. \A u \in Users : total'[u] + Term(pc', mine', r, u) <= total[u] + Term(pc, mine, r, u)
    BY <2>3, <2>5
  <2>7. \A u \in Users : total'[u] >= total[u]
    BY <2>3
  <2>8. unlocked' \in [Users -> Nat] /\ total' \in [Users -> Nat] /\ posted' = posted
    BY <1>0, <2>1
  <2>9. Moves(r)
    BY <2>2, <2>3, <2>4, <2>6, <2>7, <2>8 DEF Moves
  <2> QED BY <2>9, RequestKeeps
<1>6. CASE UNCHANGED <<pc, crashes, mine, posted, total, unlocked>>
  BY <1>6, Unfolds DEF Counters, ReadBack, Accounted, UnlocksEarned, AtCount, Owes, Of, Increments, Credits, CreditsOf, levelFor
<1> QED BY <1>1, <1>2, <1>3, <1>4, <1>5, <1>6 DEF Next, Serve, PurgeAnswer, vars

LEMMA CountTells == CountInv => CountersFollowLedger
<1> SUFFICES ASSUME CountInv PROVE CountersFollowLedger
  OBVIOUS
<1>1. CountersNotInflated
  BY Unfolds DEF CountInv, Accounted, CountersNotInflated
<1>2. CountersComplete
  <2> SUFFICES ASSUME crashes = 0, Quiet, NEW u \in Users PROVE total[u] = CreditsOf(u)
    BY DEF CountersComplete
  <2>1. Of(AtCount(pc), u) = {}
    BY DEF Quiet, Of, AtCount, Over
  <2>2. Owes(pc, mine, u) = 0
    BY <2>1, SumEmpty DEF Owes
  <2>3. total[u] \in Nat
    BY DEF CountInv, Counters
  <2> QED BY <2>2, <2>3, Unfolds DEF CountInv, Accounted
<1> QED BY <1>1, <1>2 DEF CountInv, CountersFollowLedger

\* Lifetime coins never exceed what the ledger credited, equal it when no process
\* died, and cosmetics are granted up to the level they reached: for any number of
\* requests, accounts and packs, any overlap of them, replays, crashes and purges.
THEOREM CountersTrue == Spec => []CountersFollowLedger
<1>1. CountInv /\ [Next]_vars => CountInv'
  BY CountKeeps
<1> QED BY CountStarts, CountTells, <1>1, PTL DEF Spec

\* What the invariants above leave of the types: the tries, the crashes, the
\* purged answers and the level.
LEMMA PurchaseStep ==
  ASSUME TypeOK, CreditInv', CountInv, CountInv', [Next]_vars
  PROVE  TypeOK'
<1> USE PurchaseConstants
<1>1. /\ pc' \in [Requests -> {"idle"} \cup Working \cup Over]
      /\ mine' \in [Requests -> [replayed : BOOLEAN, total : Nat]]
      /\ total' \in [Users -> Nat] /\ unlocked' \in [Users -> Nat]
      /\ posted' \subseteq [key : Receipts \cup Requests, receipt : Receipts,
                            user : Users, pack : Packs]
  BY DEF CountInv, Counters, Holding, Posting
<1>2. \A c \in Receipts : purchases'[c] = NoRow \/ purchases'[c] \in
        [status : {"pending", "credited"}, user : Users, pack : Packs]
  BY DEF CreditInv, CreditShaped, PurchaseRow
<1>3. tries' \in [Requests -> Nat]
  <2>1. CASE \E r \in Requests : Check(r)
    BY <2>1 DEF TypeOK, Check
  <2>2. CASE tries' = tries
    BY <2>2 DEF TypeOK
  <2> QED
    BY <2>1, <2>2 DEF Next, Serve, Record, Post, Count, SetLevel, Unlock, Crash, PurgeAnswer, vars
<1>4. crashes' \in 0..MaxCrashes
  <2>1. CASE \E r \in Requests : Crash(r)
    BY <2>1 DEF TypeOK, Crash
  <2>2. CASE crashes' = crashes
    BY <2>2 DEF TypeOK
  <2> QED
    BY <2>1, <2>2 DEF Next, Check, Serve, Record, Post, Count, SetLevel, Unlock, PurgeAnswer, vars
<1>5. purged' \subseteq posted'
  BY DEF TypeOK, Next, Check, Serve, Record, Post, Count, SetLevel, Unlock, Crash, PurgeAnswer, vars
<1>6. level' \in [Users -> Nat]
  <2>1. ASSUME NEW r \in Requests, SetLevel(r)
        PROVE  level' \in [Users -> Nat]
    <3>1. mine[r].total \in Nat
      BY DEF CountInv, Counters, Holding
    <3>2. levelFor(mine[r].total) \in Nat
      BY <3>1, LevelsGrow
    <3> QED BY <2>1, <3>2 DEF SetLevel, TypeOK
  <2>2. CASE level' = level
    BY <2>2 DEF TypeOK
  <2> QED
    BY <2>1, <2>2 DEF Next, Check, Serve, Record, Post, Count, Unlock, Crash, PurgeAnswer, vars
<1> QED BY <1>1, <1>2, <1>3, <1>4, <1>5, <1>6 DEF TypeOK

\* The purchase rows, the counters and every request of creditPurchase keep their
\* types, for any packs, accounts and receipts, any overlap, replays, crashes and
\* purges: what the ledger still answers for was posted, levels stay natural.
THEOREM PurchasesTyped == Spec => []TypeOK
<1>1. Init => TypeOK
  <2> SUFFICES ASSUME Init PROVE TypeOK
    OBVIOUS
  <2>1. CountInv
    BY CountStarts
  <2> QED BY <2>1, PurchaseConstants DEF Init, TypeOK, Fresh, CountInv, Counters
<1>2. CreditInv /\ [Next]_vars => CreditInv'
  BY RowsStay, StagesKeep, CreditsKeep DEF CreditInv, CreditShaped
<1>3. CountInv /\ [Next]_vars => CountInv'
  BY CountKeeps
<1>4. TypeOK /\ CreditInv /\ CountInv /\ [Next]_vars => TypeOK'
  BY <1>2, <1>3, PurchaseStep
<1> QED BY CreditStarts, CountStarts, <1>1, <1>2, <1>3, <1>4, PTL DEF Spec

-----------------------------------------------------------------------------
(* Caps and pauses                                                         *)

IsRow(r) == r = NoControls \/ r \in Row

\* A pending cap is a raise: setSpendControls writes a lower cap at once.
PendingIsRaise == HasPending(row) => row.pending > row.cap

\* What a setting in progress read is still so when it writes it back, but for a
\* raise whose time came.
FreshRead(r) ==
    /\ row.until = r.until /\ row.forever = r.forever /\ row.there = r.there
    /\ row.cap >= r.cap

OneSetter ==
    ~overlapped =>
        \A s \in Setters : setter[s].at = "write" =>
            /\ FreshRead(setter[s].read)
            /\ \A z \in Setters : setter[z].at = "write" => z = s

Typed ==
    /\ IsRow(row) /\ now \in Nat
    /\ setter \in [Setters -> [at : {"idle", "write"}, cap : Caps, pause : Pauses,
                               read : Row \cup {NoControls}]]

BrakeInv == Typed /\ PendingIsRaise /\ OneSetter

-----------------------------------------------------------------------------
LEMMA CapsAreNumbers == ASSUME SpendConstants PROVE Caps \subseteq Int
BY DEF SpendConstants, Caps

LEMMA RowFields ==
  ASSUME SpendConstants, NEW r, IsRow(r)
  PROVE  /\ r.cap \in Int /\ r.pending \in Int /\ r.at \in Int /\ r.until \in Nat
         /\ r.cap \in Caps /\ r.forever \in BOOLEAN
<1>1. NoCap \in Caps
  BY DEF Caps
<1>2. CASE r \in Row
  BY <1>2, CapsAreNumbers DEF Row
<1>3. CASE r = NoControls
  <2>1. r.cap = NoCap /\ r.pending = NoCap /\ r.at = -1 /\ r.until = 0 /\ r.forever = FALSE
    BY <1>3 DEF NoControls
  <2>2. r.forever \in BOOLEAN
    BY <2>1, Zenon
  <2> QED BY <1>1, <2>1, <2>2, CapsAreNumbers
<1> QED BY <1>2, <1>3 DEF IsRow

\* loadControls changes nothing but a cap whose raise is due.
LEMMA Loading ==
  ASSUME SpendConstants, IsRow(row), now \in Nat, PendingIsRaise
  PROVE  /\ IsRow(Loaded)
         /\ Loaded.until = row.until /\ Loaded.forever = row.forever
         /\ Loaded.there = row.there /\ Loaded.cap >= row.cap
         /\ HasPending(Loaded) => Loaded.pending > Loaded.cap
         /\ Loaded.cap > row.cap => row.at # -1 /\ row.at <= now /\ Loaded.cap = row.pending
<1>1. CASE Due(row)
  <2>1. row \in Row
    BY <1>1 DEF IsRow, Due, HasPending, NoControls
  <2>2. Loaded = [row EXCEPT !.cap = row.pending, !.pending = NoCap, !.at = -1]
    BY <1>1 DEF Loaded
  <2>3. NoCap \in Caps
    BY DEF Caps
  <2>4. Loaded \in Row
    <3>1. row.pending \in Caps /\ -1 \in Int
      BY <2>1 DEF Row
    <3> QED BY <2>1, <2>2, <2>3, <3>1 DEF Row
  <2>5. row.cap \in Int /\ row.pending \in Int /\ row.pending > row.cap
    BY <1>1, <2>1, CapsAreNumbers DEF Row, Due, PendingIsRaise
  <2>6. Loaded.cap = row.pending /\ Loaded.at = -1 /\ Loaded.until = row.until
        /\ Loaded.forever = row.forever /\ Loaded.there = row.there
    BY <2>1, <2>2 DEF Row
  <2> QED BY <1>1, <2>4, <2>5, <2>6 DEF IsRow, Due, HasPending
<1>2. CASE ~Due(row)
  <2>1. Loaded = row
    BY <1>2 DEF Loaded
  <2>2. row.cap \in Int
    BY RowFields
  <2> QED BY <2>1, <2>2 DEF PendingIsRaise
<1> QED BY <1>1, <1>2

LEMMA BrakeStarts == ASSUME SpendConstants, SpendInit PROVE BrakeInv
<1>1. setter \in [Setters -> [at : {"idle", "write"}, cap : Caps, pause : Pauses,
                             read : Row \cup {NoControls}]]
  BY DEF SpendInit, Unused, Caps, Pauses
<1> QED BY <1>1 DEF SpendInit, BrakeInv, Typed, IsRow, PendingIsRaise, HasPending, OneSetter, NoControls, Unused

\* A setting's read: the row, loaded, is what it remembers.
LEMMA AskKeeps ==
  ASSUME SpendConstants, BrakeInv, NEW s \in Setters, NEW a \in Asks, BeginSetting(s, a.cap, a.pause)
  PROVE  BrakeInv' /\ BrakeHeld
<1> USE DEF BrakeInv, Typed
<1>1. /\ setter[s].at = "idle" /\ row' = Loaded /\ now' = now
      /\ setter' = [setter EXCEPT ![s] = [at |-> "write", cap |-> a.cap, pause |-> a.pause,
                                         read |-> Loaded]]
      /\ overlapped' = (overlapped \/ \E z \in Setters : setter[z].at = "write")
  BY DEF BeginSetting
<1>2. a.cap \in Caps /\ a.pause \in Pauses
  BY DEF Caps, SpendConstants
<1>3. Typed'
  BY <1>1, <1>2, Loading DEF IsRow
<1>4. PendingIsRaise'
  BY <1>1, Loading DEF PendingIsRaise, HasPending
<1>5. OneSetter'
  <2>1. Loaded.cap >= Loaded.cap
    BY Loading, RowFields
  <2> QED BY <1>1, <2>1 DEF OneSetter, FreshRead
<1>6. BrakeHeld
  <2>1. row.until \in Int
    BY RowFields
  <2> QED BY <1>1, <2>1, Loading DEF BrakeHeld, RaiseWaited, PauseKept
<1> QED BY <1>3, <1>4, <1>5, <1>6

\* A gift's check: only a raise that was due changes the row.
LEMMA CheckKeeps ==
  ASSUME SpendConstants, BrakeInv, NEW g \in Gifters, CheckGift(g)
  PROVE  BrakeInv' /\ BrakeHeld
<1> USE DEF BrakeInv, Typed
<1>1. row' = Loaded /\ now' = now /\ setter' = setter /\ overlapped' = overlapped
  BY DEF CheckGift
<1>2. Typed' /\ PendingIsRaise'
  BY <1>1, Loading DEF IsRow, PendingIsRaise, HasPending
<1>3. OneSetter'
  <2> SUFFICES ASSUME ~overlapped, NEW s \in Setters, setter[s].at = "write"
               PROVE  /\ FreshRead(setter[s].read)'
                      /\ \A z \in Setters : setter[z].at = "write" => z = s
    BY <1>1 DEF OneSetter
  <2>1. /\ setter[s].read.cap \in Int /\ row.cap \in Int /\ Loaded.cap \in Int
    <3>1. IsRow(setter[s].read)
      BY DEF IsRow
    <3> QED BY <3>1, Loading, RowFields
  <2> QED BY <1>1, <2>1, Loading DEF OneSetter, FreshRead
<1>4. BrakeHeld
  <2>1. row.until \in Int
    BY RowFields
  <2> QED BY <1>1, <2>1, Loading DEF BrakeHeld, RaiseWaited, PauseKept
<1> QED BY <1>2, <1>3, <1>4

\* A setting's answer, written over what it read.
LEMMA WriteKeeps ==
  ASSUME SpendConstants, BrakeInv, NEW s \in Setters, Write(s)
  PROVE  BrakeInv' /\ BrakeHeld
<1> USE DEF BrakeInv, Typed
<1> DEFINE r == setter[s].read
<1>1. /\ setter[s].at = "write" /\ now' = now /\ overlapped' = overlapped
      /\ row' = IF Forbidden(s) THEN row ELSE Decided(s)
      /\ setter' = [setter EXCEPT ![s] = Unused]
  BY DEF Write
<1>2. /\ IsRow(r) /\ r.cap \in Int /\ r.until \in Nat /\ r.cap \in Caps
      /\ setter[s].cap \in Caps /\ setter[s].cap \in Int
      /\ setter[s].pause \in Pauses
      /\ row.cap \in Int /\ row.until \in Nat /\ r.forever \in BOOLEAN
  <2>1. IsRow(r) /\ setter[s].cap \in Caps /\ setter[s].pause \in Pauses
    BY DEF IsRow
  <2> QED BY <2>1, RowFields, CapsAreNumbers
<1> HIDE DEF r
<1>3. /\ Decided(s) \in Row /\ (HasPending(Decided(s)) => Decided(s).pending > Decided(s).cap)
  <2>1. NoCap \in Caps /\ -1 \in Int /\ now + Delay \in Int /\ Proposed(s) \in Nat
        /\ PauseUntil(r) \in Nat
    BY <1>2 DEF Caps, SpendConstants, Proposed, PauseUntil
  <2>2. Decided(s) = [cap     |-> IF Raises(s) THEN r.cap ELSE setter[s].cap,
                      pending |-> IF Raises(s) THEN setter[s].cap ELSE NoCap,
                      at      |-> IF Raises(s) THEN now + Delay ELSE -1,
                      until   |-> IF setter[s].pause \in {"30d", "90d"} THEN Proposed(s)
                                  ELSE PauseUntil(r),
                      forever |-> r.forever \/ setter[s].pause = "permanent",
                      there   |-> TRUE]
    BY DEF Decided, r
  <2>3. Decided(s) \in Row
    BY <1>2, <2>1, <2>2 DEF Row
  <2>4. CASE Raises(s)
    BY <2>2, <2>3, <2>4 DEF Raises, r, HasPending
  <2>5. CASE ~Raises(s)
    <3>1. Decided(s).at = -1
      BY <2>2, <2>5
    <3> QED BY <2>3, <3>1 DEF HasPending
  <2> QED BY <2>3, <2>4, <2>5
<1>4. Typed'
  <2>1. Unused \in [at : {"idle", "write"}, cap : Caps, pause : Pauses, read : Row \cup {NoControls}]
    BY DEF Unused, Caps, Pauses
  <2> QED BY <1>1, <1>3, <2>1 DEF IsRow
<1>5. PendingIsRaise'
  BY <1>1, <1>3 DEF PendingIsRaise, HasPending
<1>6. OneSetter'
  <2> SUFFICES ASSUME ~overlapped PROVE \A z \in Setters : setter'[z].at # "write"
    BY <1>1 DEF OneSetter
  <2>1. \A z \in Setters \ {s} : setter[z].at # "write"
    BY <1>1 DEF OneSetter
  <2> QED BY <1>1, <2>1 DEF Unused
<1>7. BrakeHeld
  <2> SUFFICES ASSUME ~overlapped PROVE RaiseWaited /\ PauseKept
    BY DEF BrakeHeld
  <2>1. FreshRead(r)
    BY <1>1 DEF OneSetter, r
  <2>2. CASE Forbidden(s)
    BY <1>1, <1>2, <2>2 DEF RaiseWaited, PauseKept
  <2>3. CASE ~Forbidden(s)
    <3>1. row' = Decided(s)
      BY <1>1, <2>3
    <3>2. RaiseWaited
      <4>1. CASE Raises(s)
        BY <1>2, <2>1, <3>1, <4>1 DEF Decided, r, FreshRead, RaiseWaited
      <4>2. CASE ~Raises(s)
        BY <1>2, <2>1, <3>1, <4>2 DEF Decided, r, FreshRead, RaiseWaited, Raises
      <4> QED BY <4>1, <4>2
    <3>3. row.forever => row'.forever
      BY <2>1, <3>1 DEF Decided, r, FreshRead
    <3>4. row.until > now => row'.until >= row.until
      <4>1. CASE setter[s].pause \in {"30d", "90d"}
        BY <1>2, <2>1, <2>3, <3>1, <4>1, SpendConstants
           DEF Decided, r, FreshRead, Forbidden, PauseUntil, Proposed, SpendConstants
      <4>2. CASE setter[s].pause \notin {"30d", "90d"}
        BY <1>2, <2>1, <3>1, <4>2 DEF Decided, r, FreshRead, PauseUntil
      <4> QED BY <4>1, <4>2
    <3> QED BY <3>2, <3>3, <3>4 DEF PauseKept
  <2> QED BY <2>2, <2>3
<1> QED BY <1>4, <1>5, <1>6, <1>7

\* Every step keeps the invariant and the two rules.
LEMMA BrakeStep ==
  ASSUME SpendConstants, BrakeInv, [SpendNext]_spendVars
  PROVE  BrakeInv' /\ [BrakeHeld]_spendVars
<1>1. ASSUME NEW g \in Gifters, CheckGift(g) PROVE BrakeInv' /\ BrakeHeld
  BY <1>1, CheckKeeps
<1>2. ASSUME NEW s \in Setters, Write(s) PROVE BrakeInv' /\ BrakeHeld
  BY <1>2, WriteKeeps
<1>3. ASSUME NEW s \in Setters, NEW a \in Asks, BeginSetting(s, a.cap, a.pause)
      PROVE  BrakeInv' /\ BrakeHeld
  BY <1>3, AskKeeps
<1>4. CASE (\E g \in Gifters : Sum(g) \/ PostGift(g)) \/ Tick \/ UNCHANGED spendVars
  <2>1. row' = row /\ setter' = setter /\ overlapped' = overlapped /\ now' \in Nat
    <3>1. now \in Nat
      BY DEF BrakeInv, Typed
    <3>2. ASSUME NEW g \in Gifters, Sum(g) \/ PostGift(g)
          PROVE  row' = row /\ setter' = setter /\ overlapped' = overlapped /\ now' = now
      BY <3>2 DEF Sum, PostGift
    <3>3. CASE Tick
      BY <3>1, <3>3 DEF Tick
    <3>4. CASE UNCHANGED spendVars
      BY <3>1, <3>4 DEF spendVars
    <3> QED BY <1>4, <3>1, <3>2, <3>3, <3>4
  <2>2. row.cap \in Int /\ row.until \in Int
    BY RowFields DEF BrakeInv, Typed
  <2>3. BrakeInv'
    BY <2>1 DEF BrakeInv, Typed, IsRow, PendingIsRaise, HasPending, OneSetter, FreshRead
  <2>4. BrakeHeld
    BY <2>1, <2>2 DEF BrakeHeld, RaiseWaited, PauseKept
  <2> QED BY <2>3, <2>4
<1> QED BY <1>1, <1>2, <1>3, <1>4 DEF SpendNext

LEMMA Larger ==
  ASSUME NEW a \in Nat, NEW b \in Nat
  PROVE  Max({a, b}) \in Nat /\ Max({a, b}) >= a /\ Max({a, b}) >= b /\ (b <= a => Max({a, b}) = a)
<1>1. \E x \in {a, b} : \A y \in {a, b} : x >= y
  BY \A x \in Nat : x >= x
<1>2. Max({a, b}) \in {a, b} /\ \A y \in {a, b} : Max({a, b}) >= y
  BY <1>1 DEF Max
<1> QED BY <1>2

\* What a gift that is checked holds, and what the highest cap and the most gifts
\* at once become.
LEMMA CheckTypes ==
  ASSUME SpendConstants, BrakeInv, SpendTypeOK, NEW g \in Gifters,
         CheckGift(g) \/ Sum(g) \/ PostGift(g)
  PROVE  /\ gifter' \in [Gifters -> [at : {"idle", "sum", "post", "over"}, cap : Caps]]
         /\ paid' \subseteq Gifters /\ peak' \in Nat /\ most' \in Nat
<1>1. Loaded.cap \in Caps /\ NoCap \in Caps /\ Caps \subseteq Nat
  BY Loading, RowFields DEF BrakeInv, Typed, Caps, SpendConstants
<1>2. gifter' \in [Gifters -> [at : {"idle", "sum", "post", "over"}, cap : Caps]]
  <2>1. CASE CheckGift(g)
    BY <1>1, <2>1 DEF CheckGift, Move, Answered, SpendTypeOK
  <2>2. CASE Sum(g) \/ PostGift(g)
    BY <1>1, <2>2 DEF Sum, PostGift, Move, Answered, SpendTypeOK
  <2> QED BY <2>1, <2>2
<1>3. paid' \subseteq Gifters
  BY DEF CheckGift, Sum, PostGift, SpendTypeOK
<1>4. peak \in Nat /\ most \in Nat
  BY DEF SpendTypeOK
<1>5. peak' \in Nat
  <2>1. peak' \in {peak, Max({peak, Loaded.cap})}
    BY DEF CheckGift, Sum, PostGift
  <2>2. Loaded.cap \in Nat
    BY <1>1
  <2> QED BY <1>4, <2>1, <2>2, Larger
<1>6. most' \in Nat
  <2> DEFINE P == {h \in Gifters : gifter'[h].at = "post"}
  <2>1. Cardinality(P) \in Nat
    BY FS_Subset, FS_CardinalityType DEF SpendConstants
  <2>2. most' \in {most, Max({most, Cardinality(P)})}
    BY DEF CheckGift, Sum, PostGift
  <2> HIDE DEF P
  <2> QED BY <1>4, <2>1, <2>2, Larger
<1> QED BY <1>2, <1>3, <1>5, <1>6

LEMMA SpendTypes ==
  ASSUME SpendConstants, BrakeInv, BrakeInv', SpendTypeOK, [SpendNext]_spendVars
  PROVE  SpendTypeOK'
<1>1. /\ row' = NoControls \/ row' \in Row
      /\ \A s \in Setters :
            /\ setter'[s].at \in {"idle", "write"} /\ setter'[s].cap \in Caps
            /\ setter'[s].pause \in Pauses /\ (setter'[s].read = NoControls \/ setter'[s].read \in Row)
  BY DEF BrakeInv, Typed, IsRow
<1>2. now' \in 0..MaxNow
  <2>1. CASE Tick
    BY <2>1 DEF Tick, SpendTypeOK, SpendConstants
  <2>2. CASE now' = now
    BY <2>2 DEF SpendTypeOK
  <2> QED BY <2>1, <2>2 DEF SpendNext, CheckGift, Sum, PostGift, BeginSetting, Write, spendVars
<1>3. asked' \in 0..MaxAsks /\ overlapped' \in BOOLEAN
  <2>1. ASSUME NEW s \in Setters, NEW a \in Asks, BeginSetting(s, a.cap, a.pause)
        PROVE  asked' \in 0..MaxAsks /\ overlapped' \in BOOLEAN
    <3>1. asked' \in 0..MaxAsks
      BY <2>1 DEF BeginSetting, SpendTypeOK, SpendConstants
    <3>2. overlapped' = (overlapped \/ \E z \in Setters : setter[z].at = "write")
      BY <2>1 DEF BeginSetting
    <3>3. overlapped' \in BOOLEAN
      BY <3>2, Zenon
    <3> QED BY <3>1, <3>3
  <2>2. CASE UNCHANGED <<asked, overlapped>>
    BY <2>2 DEF SpendTypeOK
  <2> QED BY <2>1, <2>2 DEF SpendNext, CheckGift, Sum, PostGift, Write, Tick, spendVars
<1>4. /\ gifter' \in [Gifters -> [at : {"idle", "sum", "post", "over"}, cap : Caps]]
      /\ paid' \subseteq Gifters /\ peak' \in Nat /\ most' \in Nat
  <2>1. CASE UNCHANGED <<gifter, paid, peak, most>>
    BY <2>1 DEF SpendTypeOK
  <2> QED BY <2>1, CheckTypes DEF SpendNext, BeginSetting, Write, Tick, spendVars
<1> QED BY <1>1, <1>2, <1>3, <1>4 DEF SpendTypeOK

\* The types, and migration 036's two rules, for any number of gifts, settings,
\* amounts and delays.
THEOREM BrakesAlwaysHold == ASSUME SpendConstants PROVE SpendSpec => BrakesHold
<1>1. SpendInit => BrakeInv
  BY BrakeStarts
<1>2. SpendInit => SpendTypeOK
  <2> SUFFICES ASSUME SpendInit PROVE SpendTypeOK
    OBVIOUS
  <2>1. NoCap \in Caps /\ "keep" \in Pauses
    BY DEF Caps, Pauses
  <2>2. /\ gifter = [g \in Gifters |-> [at |-> "idle", cap |-> NoCap]]
        /\ setter = [s \in Setters |-> Unused] /\ row = NoControls
        /\ now = 0 /\ paid = {} /\ asked = 0 /\ overlapped = FALSE /\ peak = 0 /\ most = 0
    BY DEF SpendInit
  <2>3. gifter \in [Gifters -> [at : {"idle", "sum", "post", "over"}, cap : Caps]]
    BY <2>1, <2>2
  <2>4. \A s \in Setters :
          /\ setter[s].at \in {"idle", "write"} /\ setter[s].cap \in Caps
          /\ setter[s].pause \in Pauses /\ setter[s].read = NoControls
    BY <2>1, <2>2 DEF Unused
  <2>5. now \in 0..MaxNow /\ asked \in 0..MaxAsks /\ peak \in Nat /\ most \in Nat
    BY <2>2 DEF SpendConstants
  <2>6. paid \subseteq Gifters /\ overlapped \in BOOLEAN
    BY <2>2, Zenon
  <2> QED BY <2>2, <2>3, <2>4, <2>5, <2>6 DEF SpendTypeOK
<1>3. BrakeInv /\ [SpendNext]_spendVars => BrakeInv' /\ [BrakeHeld]_spendVars
  BY BrakeStep
<1>4. SpendTypeOK /\ BrakeInv /\ [SpendNext]_spendVars => SpendTypeOK'
  BY <1>3, SpendTypes
<1> QED BY <1>1, <1>2, <1>3, <1>4, PTL DEF SpendSpec, BrakesHold

-----------------------------------------------------------------------------
(* How far a cap is passed                                                 *)

Dearest == Max({Cost[g] : g \in Gifters})
PastOf(f) == {g \in Gifters : f[g].at = "post"}
Gift == [at : {"idle", "sum", "post", "over"}, cap : Caps]

\* What is spent and what is past its check stay within the highest cap, but for
\* the gifts that passed it together.
Within(f, p, k, m) ==
    LET P == PastOf(f)
    IN  /\ Cardinality(P) <= m
        /\ p \cup P # {} =>
             SumFunctionOnSet(Cost, p) + SumFunctionOnSet(Cost, P) <= k + (m - 1) * Dearest

GiftsTyped ==
    /\ gifter \in [Gifters -> Gift] /\ paid \subseteq Gifters /\ peak \in Nat /\ most \in Nat
    /\ \A g \in paid : gifter[g].at = "over"
    /\ \A g \in Gifters : gifter[g].at = "sum" => gifter[g].cap <= peak

OverInv == BrakeInv /\ GiftsTyped /\ Within(gifter, paid, peak, most)

-----------------------------------------------------------------------------
LEMMA DearestIs ==
  ASSUME SpendConstants, NoCapIsAboveAll, Gifters # {}
  PROVE  Dearest \in Nat /\ \A g \in Gifters : Cost[g] <= Dearest
<1>1. \A g \in Gifters : Cost[g] \in Nat
  BY DEF SpendConstants
<1>2. IsFiniteSet(Gifters)
  BY DEF SpendConstants
<1>3. PICK m \in Gifters : \A g \in Gifters : Cost[m] >= Cost[g]
  BY <1>1, <1>2, Greatest
<1>4. \A y \in {Cost[g] : g \in Gifters} : Cost[m] >= y
  BY <1>3
<1>5. Cost[m] \in {Cost[g] : g \in Gifters}
  OBVIOUS
<1> DEFINE C == {Cost[g] : g \in Gifters}
<1>6. Dearest = CHOOSE x \in C : \A y \in C : x >= y
  BY DEF Dearest, Max
<1>7. Dearest \in C /\ \A y \in C : Dearest >= y
  BY <1>4, <1>5, <1>6
<1> QED BY <1>1, <1>7

\* The costs of sets of gifts.
LEMMA Costs ==
  ASSUME SpendConstants, NoCapIsAboveAll, NEW A \in SUBSET Gifters
  PROVE  /\ IsFiniteSet(A) /\ Cardinality(A) \in Nat /\ SumFunctionOnSet(Cost, A) \in Nat
         /\ \A g \in Gifters : Cost[g] \in Nat
         /\ \A g \in Gifters \ A : SumFunctionOnSet(Cost, A \cup {g}) = SumFunctionOnSet(Cost, A) + Cost[g]
         /\ \A g \in A : SumFunctionOnSet(Cost, A) = Cost[g] + SumFunctionOnSet(Cost, A \ {g})
<1>1. \A g \in Gifters : Cost[g] \in Nat
  BY DEF SpendConstants
<1>2. IsFiniteSet(A) /\ Cardinality(A) \in Nat
  BY FS_Subset, FS_CardinalityType DEF SpendConstants
<1>3. SumFunctionOnSet(Cost, A) \in Nat
  BY <1>1, <1>2, SumType
<1>4. ASSUME NEW g \in Gifters \ A
      PROVE SumFunctionOnSet(Cost, A \cup {g}) = SumFunctionOnSet(Cost, A) + Cost[g]
  BY <1>1, <1>2, SumAdd
<1>5. \A g \in A : SumFunctionOnSet(Cost, A) = Cost[g] + SumFunctionOnSet(Cost, A \ {g})
  <2>1. \A g \in A : Cost[g] \in Int
    BY <1>1
  <2> QED BY <1>2, <2>1, SumAny
<1> QED BY <1>1, <1>2, <1>3, <1>4, <1>5

\* Two sets without a gift in common cost no more together than all gifts.
LEMMA Together ==
  ASSUME SpendConstants, NoCapIsAboveAll, NEW A \in SUBSET Gifters, NEW B \in SUBSET Gifters, A \cap B = {}
  PROVE  SumFunctionOnSet(Cost, A) + SumFunctionOnSet(Cost, B) <= NoCap
<1>1. SumFunctionOnSet(Cost, A \cup B) = SumFunctionOnSet(Cost, A) + SumFunctionOnSet(Cost, B)
  <2> DEFINE F == {s \in SUBSET B : SumFunctionOnSet(Cost, A \cup s) = SumFunctionOnSet(Cost, A) + SumFunctionOnSet(Cost, s)}
  <2>1. {} \in F
    <3>1. A \cup {} = A
      OBVIOUS
    <3> QED BY <3>1, Costs, SumEmpty
  <2>2. ASSUME NEW s \in SUBSET B, NEW x \in B, s \in F PROVE s \cup {x} \in F
    <3>1. CASE x \in s
      <4>1. s \cup {x} = s
        BY <3>1
      <4> QED BY <2>2, <4>1
    <3>2. CASE x \notin s
      <4>1. /\ A \cup (s \cup {x}) = (A \cup s) \cup {x} /\ x \in Gifters \ (A \cup s) /\ x \in Gifters \ s
            /\ A \cup s \in SUBSET Gifters /\ s \in SUBSET Gifters
        BY <3>2
      <4>2. /\ SumFunctionOnSet(Cost, (A \cup s) \cup {x}) = SumFunctionOnSet(Cost, A \cup s) + Cost[x]
            /\ SumFunctionOnSet(Cost, s \cup {x}) = SumFunctionOnSet(Cost, s) + Cost[x]
            /\ SumFunctionOnSet(Cost, s) \in Nat /\ SumFunctionOnSet(Cost, A) \in Nat /\ Cost[x] \in Nat
        BY <4>1, Costs
      <4>3. SumFunctionOnSet(Cost, A \cup s) = SumFunctionOnSet(Cost, A) + SumFunctionOnSet(Cost, s)
        BY <2>2
      <4>4. SumFunctionOnSet(Cost, A \cup (s \cup {x}))
              = SumFunctionOnSet(Cost, A) + SumFunctionOnSet(Cost, s \cup {x})
        <5>1. SumFunctionOnSet(Cost, A \cup (s \cup {x})) = SumFunctionOnSet(Cost, (A \cup s) \cup {x})
          BY <4>1
        <5> QED BY <5>1, <4>2, <4>3
      <4> QED BY <4>4
    <3> QED BY <3>1, <3>2
  <2> HIDE DEF F
  <2>3. B \in F
    <3>1. IsFiniteSet(B)
      BY Costs
    <3> QED BY <2>1, <2>2, <3>1, SetInduction
  <2> QED BY <2>3 DEF F
<1>2. SumFunctionOnSet(Cost, A \cup B) <= SumFunctionOnSet(Cost, Gifters)
  <2>1. \A g \in Gifters : Cost[g] \in Nat
    BY DEF SpendConstants
  <2>2. IsFiniteSet(Gifters) /\ A \cup B \in SUBSET Gifters
    BY DEF SpendConstants
  <2> QED BY <2>1, <2>2, SumSubset
<1>3. /\ SumFunctionOnSet(Cost, A) \in Nat /\ SumFunctionOnSet(Cost, B) \in Nat
      /\ SumFunctionOnSet(Cost, Gifters) \in Nat /\ NoCap \in Nat
  <2>1. Gifters \in SUBSET Gifters
    OBVIOUS
  <2> QED BY <2>1, Costs DEF SpendConstants
<1> QED BY <1>1, <1>2, <1>3 DEF NoCapIsAboveAll

\* A greater factor, a greater product.
LEMMA Products ==
  ASSUME NEW a \in Nat, NEW b \in Nat, a <= b, NEW c \in Nat
  PROVE  a * c \in Nat /\ b * c \in Nat /\ a * c <= b * c
<1>1. PICK d \in Nat : b = a + d
  <2>1. b - a \in Nat /\ b = a + (b - a)
    OBVIOUS
  <2> QED BY <2>1
<1>2. (a + d) * c = a * c + d * c /\ a * c \in Nat /\ d * c \in Nat
  OBVIOUS
<1> QED BY <1>1, <1>2

\* A gift that passed its check: within the cap with what was spent, and beside it
\* only gifts that are not posted yet.
LEMMA PassKeeps ==
  ASSUME SpendConstants, NoCapIsAboveAll, NEW p \in SUBSET Gifters, NEW P \in SUBSET Gifters, p \cap P = {},
         NEW g \in P, NEW k \in Nat, NEW m \in Nat, Cardinality(P) <= m,
         \/ SumFunctionOnSet(Cost, p) + Cost[g] <= k
         \/ NoCap <= k
  PROVE  SumFunctionOnSet(Cost, p) + SumFunctionOnSet(Cost, P) <= k + (m - 1) * Dearest
<1>1. /\ Dearest \in Nat /\ \A h \in Gifters : Cost[h] <= Dearest
  BY DearestIs
<1>2. /\ SumFunctionOnSet(Cost, p) \in Nat /\ SumFunctionOnSet(Cost, P) \in Nat
      /\ Cost[g] \in Nat /\ NoCap \in Nat
      /\ SumFunctionOnSet(Cost, P) = Cost[g] + SumFunctionOnSet(Cost, P \ {g})
  BY Costs DEF SpendConstants
<1>3. IsFiniteSet(P \ {g}) /\ Cardinality(P \ {g}) = Cardinality(P) - 1 /\ Cardinality(P) \in Nat
      /\ Cardinality(P) - 1 \in Nat
  <2>1. IsFiniteSet(P)
    BY Costs
  <2> QED BY <2>1, Fewer
<1>4. SumFunctionOnSet(Cost, P \ {g}) <= Cardinality(P \ {g}) * Dearest
      /\ SumFunctionOnSet(Cost, P \ {g}) \in Nat
  <2>1. \A h \in P \ {g} : Cost[h] \in Nat /\ Cost[h] <= Dearest
    BY <1>1 DEF SpendConstants
  <2>2. P \ {g} \in SUBSET Gifters
    OBVIOUS
  <2> QED BY <1>1, <1>3, <2>1, <2>2, SumBounded, Costs
<1>5. /\ (Cardinality(P) - 1) * Dearest \in Nat /\ (m - 1) * Dearest \in Nat
      /\ (Cardinality(P) - 1) * Dearest <= (m - 1) * Dearest
  <2>1. m - 1 \in Nat /\ Cardinality(P) - 1 <= m - 1
    BY <1>3
  <2> QED BY <1>1, <1>3, <2>1, Products
<1>6. CASE SumFunctionOnSet(Cost, p) + Cost[g] <= k
  BY <1>2, <1>3, <1>4, <1>5, <1>6
<1>7. CASE NoCap <= k
  <2>1. SumFunctionOnSet(Cost, p) + SumFunctionOnSet(Cost, P) <= NoCap
    BY Together
  <2> QED BY <1>2, <1>5, <1>7, <2>1
<1> QED BY <1>6, <1>7

\* What a gift's own step may do, past its check or not.
Steps(g, goal, cap) ==
    /\ goal \in {"sum", "post", "over"} /\ cap \in Caps
    /\ gifter[g].at \in {"idle", "sum"} /\ gifter' = [gifter EXCEPT ![g] = [at |-> goal, cap |-> cap]]
    /\ paid' = paid /\ peak' \in Nat /\ peak' >= peak
    /\ most' = Max({most, Cardinality(PastOf(gifter'))})
    /\ goal = "sum" => cap <= peak'
    /\ goal = "post" => SumFunctionOnSet(Cost, paid) + Cost[g] <= peak' \/ NoCap <= peak'

LEMMA GiftKeeps ==
  ASSUME SpendConstants, NoCapIsAboveAll, OverInv, BrakeInv', NEW g \in Gifters,
         NEW goal, NEW cap, Steps(g, goal, cap)
  PROVE  OverInv'
<1> USE DEF OverInv, Steps
<1>1. /\ gifter \in [Gifters -> Gift] /\ paid \in SUBSET Gifters /\ peak \in Nat /\ most \in Nat
      /\ \A h \in paid : gifter[h].at = "over"
  BY DEF GiftsTyped
<1>2. PICK f \in [Gifters -> Gift] :
        /\ f = gifter' /\ f[g].at = goal /\ f[g].cap = cap
        /\ \A h \in Gifters \ {g} : f[h] = gifter[h]
  <2>1. [at |-> goal, cap |-> cap] \in Gift
    BY DEF Gift
  <2>2. /\ gifter' \in [Gifters -> Gift] /\ gifter'[g] = [at |-> goal, cap |-> cap]
        /\ \A h \in Gifters \ {g} : gifter'[h] = gifter[h]
    BY <1>1, <2>1
  <2> QED BY <2>2
<1>3. PastOf(f) = IF goal = "post" THEN PastOf(gifter) \cup {g} ELSE PastOf(gifter)
  BY <1>2 DEF PastOf
<1>4. /\ PastOf(f) \in SUBSET Gifters /\ PastOf(gifter) \in SUBSET Gifters
      /\ Cardinality(PastOf(f)) \in Nat /\ Cardinality(PastOf(gifter)) \in Nat
  <2>1. PastOf(f) \in SUBSET Gifters /\ PastOf(gifter) \in SUBSET Gifters
    BY DEF PastOf
  <2> QED BY <2>1, Costs
<1>5. most' \in Nat /\ most' >= most /\ Cardinality(PastOf(f)) <= most'
      /\ (Cardinality(PastOf(f)) <= most => most' = most)
  BY <1>1, <1>2, <1>4, Larger
<1>6. GiftsTyped'
  <2>1. \A h \in paid : h # g /\ f[h].at = "over"
    BY <1>1, <1>2
  <2>2. \A h \in Gifters : f[h].at = "sum" => f[h].cap <= peak'
    <3> SUFFICES ASSUME NEW h \in Gifters, f[h].at = "sum" PROVE f[h].cap <= peak'
      OBVIOUS
    <3>1. CASE h = g
      BY <1>2, <3>1
    <3>2. CASE h # g
      <4>1. gifter[h].cap <= peak /\ f[h].cap = gifter[h].cap
        BY <1>2, <3>2 DEF GiftsTyped
      <4>2. gifter[h].cap \in Int
        BY <1>1, CapsAreNumbers DEF Gift
      <4> QED BY <1>1, <4>1, <4>2
    <3> QED BY <3>1, <3>2
  <2> QED BY <1>1, <1>2, <1>5, <2>1, <2>2 DEF GiftsTyped
<1>7. Within(f, paid, peak', most')
  <2>1. CASE goal = "post"
    <3>1. g \in PastOf(f) /\ paid \cap PastOf(f) = {}
      BY <1>1, <1>2, <1>3, <2>1 DEF PastOf
    <3>2. SumFunctionOnSet(Cost, paid) + SumFunctionOnSet(Cost, PastOf(f)) <= peak' + (most' - 1) * Dearest
      BY <1>1, <1>4, <1>5, <2>1, <3>1, PassKeeps
    <3> QED BY <1>5, <3>2 DEF Within
  <2>2. CASE goal # "post"
    <3>1. PastOf(f) = PastOf(gifter) /\ Cardinality(PastOf(gifter)) <= most
      BY <1>3, <2>2 DEF Within
    <3>2. most' = most
      BY <1>5, <3>1
    <3>3. ASSUME paid \cup PastOf(f) # {}
          PROVE  SumFunctionOnSet(Cost, paid) + SumFunctionOnSet(Cost, PastOf(f)) <= peak' + (most' - 1) * Dearest
      <4>1. SumFunctionOnSet(Cost, paid) + SumFunctionOnSet(Cost, PastOf(f)) <= peak + (most - 1) * Dearest
        BY <3>1, <3>3 DEF Within
      <4>2. SumFunctionOnSet(Cost, paid) \in Nat /\ SumFunctionOnSet(Cost, PastOf(f)) \in Nat
        BY <1>1, <1>4, Costs
      <4>3. Dearest \in Nat
        BY DearestIs
      <4>4. PICK d \in Int : d = (most - 1) * Dearest
        BY <1>1, <4>3
      <4> QED BY <1>1, <3>2, <4>1, <4>2, <4>4
    <3> QED BY <1>5, <3>3 DEF Within
  <2> QED BY <2>1, <2>2
<1>8. Within(gifter, paid, peak, most)'
  BY <1>2, <1>7 DEF Within, PastOf
<1> QED BY <1>6, <1>8

LEMMA PostGiftKeeps ==
  ASSUME SpendConstants, NoCapIsAboveAll, OverInv, BrakeInv', NEW g \in Gifters, PostGift(g)
  PROVE  OverInv'
<1> USE DEF OverInv
<1>1. /\ gifter \in [Gifters -> Gift] /\ paid \in SUBSET Gifters /\ peak \in Nat /\ most \in Nat
      /\ \A h \in paid : gifter[h].at = "over"
  BY DEF GiftsTyped
<1>2. /\ gifter[g].at = "post" /\ paid' \in {paid, paid \cup {g}} /\ peak' = peak /\ most' = most
  BY DEF PostGift
<1>3. PICK f \in [Gifters -> Gift] :
        /\ f = gifter' /\ f[g].at = "over" /\ \A h \in Gifters \ {g} : f[h] = gifter[h]
  <2>1. Answered \in Gift /\ Answered.at = "over"
    BY DEF Answered, Gift, Caps
  <2>2. gifter' = [gifter EXCEPT ![g] = Answered]
    BY DEF PostGift, Move
  <2> QED BY <1>1, <2>1, <2>2
<1>4. /\ PastOf(f) = PastOf(gifter) \ {g} /\ g \in PastOf(gifter) /\ g \notin paid
      /\ PastOf(gifter) \in SUBSET Gifters /\ PastOf(f) \in SUBSET Gifters
  BY <1>1, <1>2, <1>3 DEF PastOf
<1>5. GiftsTyped'
  BY <1>1, <1>2, <1>3 DEF GiftsTyped
<1>6. /\ Cardinality(PastOf(f)) = Cardinality(PastOf(gifter)) - 1 /\ Cardinality(PastOf(gifter)) \in Nat
  <2>1. IsFiniteSet(PastOf(gifter))
    BY <1>4, Costs
  <2> QED BY <1>4, <2>1, Fewer
<1>7. SumFunctionOnSet(Cost, paid') + SumFunctionOnSet(Cost, PastOf(f))
        <= SumFunctionOnSet(Cost, paid) + SumFunctionOnSet(Cost, PastOf(gifter))
  <2>1. /\ SumFunctionOnSet(Cost, PastOf(gifter)) = Cost[g] + SumFunctionOnSet(Cost, PastOf(f))
        /\ SumFunctionOnSet(Cost, PastOf(f)) \in Nat /\ Cost[g] \in Nat
    BY <1>4, Costs
  <2>2. /\ SumFunctionOnSet(Cost, paid \cup {g}) = SumFunctionOnSet(Cost, paid) + Cost[g]
        /\ SumFunctionOnSet(Cost, paid) \in Nat
    BY <1>1, <1>4, Costs
  <2>3. SumFunctionOnSet(Cost, paid') \in {SumFunctionOnSet(Cost, paid), SumFunctionOnSet(Cost, paid) + Cost[g]}
    BY <1>2, <2>2
  <2> QED BY <2>1, <2>2, <2>3
<1>8. Within(f, paid', peak, most)
  <2>1. SumFunctionOnSet(Cost, paid) + SumFunctionOnSet(Cost, PastOf(gifter)) <= peak + (most - 1) * Dearest
        /\ Cardinality(PastOf(gifter)) <= most
    BY <1>4 DEF Within
  <2>2. /\ SumFunctionOnSet(Cost, paid) \in Nat /\ SumFunctionOnSet(Cost, PastOf(gifter)) \in Nat
        /\ SumFunctionOnSet(Cost, paid') \in Nat /\ SumFunctionOnSet(Cost, PastOf(f)) \in Nat
    <3>1. paid' \in SUBSET Gifters
      BY <1>1, <1>2
    <3> QED BY <1>1, <1>4, <3>1, Costs
  <2>3. Dearest \in Nat
    BY DearestIs
  <2>4. PICK d \in Int : d = (most - 1) * Dearest
    BY <1>1, <2>3
  <2>5. SumFunctionOnSet(Cost, paid') + SumFunctionOnSet(Cost, PastOf(f)) <= peak + (most - 1) * Dearest
    BY <1>1, <1>7, <2>1, <2>2, <2>4
  <2> QED BY <1>1, <1>6, <2>1, <2>5 DEF Within
<1>9. Within(gifter, paid, peak, most)'
  BY <1>2, <1>3, <1>8 DEF Within, PastOf
<1> QED BY <1>5, <1>9

LEMMA OverStep ==
  ASSUME SpendConstants, NoCapIsAboveAll, OverInv, [SpendNext]_spendVars
  PROVE  OverInv'
<1>1. BrakeInv'
  BY BrakeStep DEF OverInv
<1>2. /\ gifter \in [Gifters -> Gift] /\ peak \in Nat /\ most \in Nat /\ IsRow(row) /\ IsRow(Loaded)
      /\ NoCap \in Nat /\ Caps \subseteq Nat
  <2>1. NoCap \in Nat /\ Caps \subseteq Nat
    BY DEF SpendConstants, Caps
  <2> QED BY <2>1, Loading DEF OverInv, GiftsTyped, BrakeInv, Typed
<1>3. ASSUME NEW g \in Gifters, CheckGift(g) PROVE OverInv'
  <2>1. Loaded.cap \in Caps /\ NoCap \in Caps
    BY <1>2, RowFields DEF Caps
  <2>2. gifter[g].at = "idle" /\ paid' = paid /\ most' = Max({most, Cardinality(PastOf(gifter'))})
    BY <1>3 DEF CheckGift, PastOf
  <2>3. CASE Paused(Loaded)
    <3>1. gifter' = [gifter EXCEPT ![g] = [at |-> "over", cap |-> NoCap]] /\ peak' = peak
      BY <1>3, <2>3 DEF CheckGift, Move, Answered
    <3>2. Steps(g, "over", NoCap)
      BY <1>2, <2>1, <2>2, <3>1 DEF Steps
    <3> QED BY <1>1, <3>2, GiftKeeps
  <2>4. CASE ~Paused(Loaded)
    <3> DEFINE goal == IF Loaded.cap = NoCap THEN "post" ELSE "sum"
    <3>1. gifter' = [gifter EXCEPT ![g] = [at |-> goal, cap |-> Loaded.cap]] /\ peak' = Max({peak, Loaded.cap})
      BY <1>3, <2>4 DEF CheckGift
    <3>2. peak' \in Nat /\ peak' >= peak /\ Loaded.cap <= peak'
      BY <1>2, <2>1, <3>1, Larger
    <3>3. /\ goal \in {"sum", "post", "over"} /\ (goal = "post" => NoCap <= peak')
          /\ (goal = "sum" => Loaded.cap <= peak')
      BY <3>2
    <3> HIDE DEF goal
    <3>4. Steps(g, goal, Loaded.cap)
      BY <2>1, <2>2, <3>1, <3>2, <3>3 DEF Steps
    <3> QED BY <1>1, <3>4, GiftKeeps
  <2> QED BY <2>3, <2>4
<1>4. ASSUME NEW g \in Gifters, Sum(g) PROVE OverInv'
  <2>1. /\ gifter[g].at = "sum" /\ paid' = paid /\ peak' = peak
        /\ most' = Max({most, Cardinality(PastOf(gifter'))})
    BY <1>4 DEF Sum, PastOf
  <2>2. gifter[g].cap \in Caps /\ NoCap \in Caps /\ gifter[g].cap <= peak
    BY <1>2, <2>1 DEF Caps, Gift, OverInv, GiftsTyped
  <2>3. CASE Fits(g)
    <3>1. gifter' = [gifter EXCEPT ![g] = [at |-> "post", cap |-> gifter[g].cap]]
      <4>1. gifter' = [gifter EXCEPT ![g] = [gifter[g] EXCEPT !.at = "post"]]
        BY <1>4, <2>3 DEF Sum, Move
      <4>2. [gifter[g] EXCEPT !.at = "post"] = [at |-> "post", cap |-> gifter[g].cap]
        BY <1>2 DEF Gift
      <4> QED BY <4>1, <4>2
    <3>2. SumFunctionOnSet(Cost, paid) + Cost[g] <= peak
      <4>1. SumFunctionOnSet(Cost, paid) + Cost[g] <= gifter[g].cap
        BY <2>3 DEF Fits, Spent
      <4>2. SumFunctionOnSet(Cost, paid) \in Nat /\ Cost[g] \in Nat
        BY Costs DEF OverInv, GiftsTyped
      <4>3. gifter[g].cap \in Nat
        BY <1>2, <2>2
      <4> QED BY <1>2, <2>2, <4>1, <4>2, <4>3
    <3>3. Steps(g, "post", gifter[g].cap)
      BY <1>2, <2>1, <2>2, <3>1, <3>2 DEF Steps
    <3> QED BY <1>1, <3>3, GiftKeeps
  <2>4. CASE ~Fits(g)
    <3>1. gifter' = [gifter EXCEPT ![g] = [at |-> "over", cap |-> NoCap]]
      BY <1>4, <2>4 DEF Sum, Move, Answered
    <3>2. Steps(g, "over", NoCap)
      BY <1>2, <2>1, <2>2, <3>1 DEF Steps
    <3> QED BY <1>1, <3>2, GiftKeeps
  <2> QED BY <2>3, <2>4
<1>5. ASSUME NEW g \in Gifters, PostGift(g) PROVE OverInv'
  BY <1>1, <1>5, PostGiftKeeps
<1>6. CASE UNCHANGED <<gifter, paid, peak, most>>
  BY <1>1, <1>6 DEF OverInv, GiftsTyped, Within, PastOf
<1> QED BY <1>3, <1>4, <1>5, <1>6 DEF SpendNext, Write, BeginSetting, Tick, spendVars

LEMMA OverStarts ==
  ASSUME SpendConstants, NoCapIsAboveAll, SpendInit
  PROVE  OverInv
<1>1. BrakeInv
  BY BrakeStarts
<1>2. PastOf(gifter) = {} /\ paid = {} /\ Cardinality(PastOf(gifter)) = 0
  <2>1. PastOf(gifter) = {}
    BY DEF SpendInit, PastOf
  <2> QED BY <2>1, FS_EmptySet DEF SpendInit
<1>3. GiftsTyped
  BY DEF SpendInit, GiftsTyped, Gift, Caps
<1>4. Within(gifter, paid, peak, most)
  BY <1>2 DEF Within, SpendInit
<1> QED BY <1>1, <1>3, <1>4 DEF OverInv

LEMMA OverTells ==
  ASSUME SpendConstants, NoCapIsAboveAll, OverInv
  PROVE  OvershootBounded
<1> SUFFICES ASSUME paid # {} PROVE Spent <= peak + (most - 1) * Dearest
  BY DEF OvershootBounded, Dearest
<1>1. SumFunctionOnSet(Cost, paid) + SumFunctionOnSet(Cost, PastOf(gifter)) <= peak + (most - 1) * Dearest
  BY DEF OverInv, Within
<1>2. SumFunctionOnSet(Cost, paid) \in Nat /\ SumFunctionOnSet(Cost, PastOf(gifter)) \in Nat
  <2>1. paid \in SUBSET Gifters /\ PastOf(gifter) \in SUBSET Gifters
    BY DEF OverInv, GiftsTyped, PastOf
  <2> QED BY <2>1, Costs
<1>3. Gifters # {} /\ Dearest \in Nat
  BY DearestIs DEF OverInv, GiftsTyped
<1>4. PICK d \in Int : d = (most - 1) * Dearest
  BY <1>3 DEF OverInv, GiftsTyped
<1>5. peak \in Nat
  BY DEF OverInv, GiftsTyped
<1> QED BY <1>1, <1>2, <1>4, <1>5 DEF Spent

\* A cap may be passed only by gifts whose checks were over before the others were
\* posted, each by its price: for any number of gifts, prices and settings at once.
THEOREM OvershootAlwaysBounded ==
  ASSUME SpendConstants, NoCapIsAboveAll PROVE SpendSpec => []OvershootBounded
<1>1. SpendInit => OverInv
  BY OverStarts
<1>2. OverInv /\ [SpendNext]_spendVars => OverInv'
  BY OverStep
<1>3. OverInv => OvershootBounded
  BY OverTells
<1> QED BY <1>1, <1>2, <1>3, PTL DEF SpendSpec

-----------------------------------------------------------------------------
(* Gifts: a viewer pays for what he wished, and is told the truth          *)

TapRow   == [gift : Gifts, key : Nat, heard : {"waiting", "ok", "refused", "unknown"}]
SendRow  == [tap : Nat, stage : Under \cup {"ok", "refused", "dead"}]
Charges  == [gift : Gifts, key : Nat]
KeysFor(T, g) == {T[i].key : i \in {j \in 1..Len(T) : T[j].gift = g}}
CoinsOf(C)    == SumFunctionOnSet([c \in C |-> Price[c.gift]], C)

GiftsShaped ==
    /\ taps \in Seq(TapRow) /\ sends \in Seq(SendRow) /\ Len(taps) <= MaxTaps
    /\ \A i \in TapIds : taps[i].key \in 1..Len(taps)
    /\ \A a \in SendIds : sends[a].tap \in TapIds
    /\ charged \in SUBSET Charges /\ IsFiniteSet(charged)
    /\ stage \in {"open", "closed"} /\ muddled \in BOOLEAN
    /\ wished \in [Gifts -> Nat] /\ failed \in [Gifts -> Nat] /\ crossed \subseteq 1..MaxTaps

\* A key is of one gift, whoever uses it again; the slot and the charges hold keys of taps.
KeysAreOfGifts ==
    /\ \A i, j \in TapIds : taps[i].key = taps[j].key => taps[i].gift = taps[j].gift
    /\ retry = NoRetry \/ \E i \in TapIds : retry = [gift |-> taps[i].gift, key |-> taps[i].key]
    /\ \A c \in charged : \E i \in TapIds : taps[i].key = c.key /\ taps[i].gift = c.gift

\* Every tap sent a request, and was told what one of its requests was told.
AnswersStand ==
    /\ \A i \in TapIds : \E a \in SendIds : sends[a].tap = i
    /\ \A i \in TapIds : taps[i].heard \in {"ok", "refused"} =>
           \E a \in SendIds : sends[a].tap = i /\ sends[a].stage = taps[i].heard
    /\ \A a \in SendIds : sends[a].stage = "ok" => Charge(a) \in charged

\* Requests of a key run one at a time, unless they cross.
OneRuns ==
    \A a, b \in SendIds :
        sends[a].stage \in Under /\ sends[b].stage \in Under /\ KeyOf(a) = KeyOf(b) /\ a # b =>
            KeyOf(a) \in crossed

NotCharged(k) == \A c \in charged : c.key # k

\* What is past its replay check was not posted.
PastReplay ==
    \A a \in SendIds :
        sends[a].stage \in {"validate", "post"} /\ KeyOf(a) \notin crossed => NotCharged(KeyOf(a))

\* What was refused stays refused: the purse only shrinks, and what is closed stays so.
Barred(a) ==
    \/ CoinsOf(charged) + Price[GiftOf(a)] > Purse
    \/ /\ stage = "closed"
       /\ \A b \in SendIds : KeyOf(b) = KeyOf(a) => sends[b].stage # "post"

RefusalStands ==
    \A a \in SendIds :
        sends[a].stage = "refused" /\ KeyOf(a) \notin crossed => NotCharged(KeyOf(a)) /\ Barred(a)

\* One failure at most is known and not tapped again, and the slot is for it.
FailureIsRemembered ==
    ~muddled =>
        /\ \A g \in Gifts : failed[g] = 0 \/ (failed[g] = 1 /\ retry.gift = g)
        /\ \A i \in TapIds : taps[i].heard = "waiting" => taps[i].key # retry.key

\* A new key is a new wish.
KeysAreWished == ~muddled => \A g \in Gifts : Cardinality(KeysFor(taps, g)) <= wished[g]

GiftInv ==
    /\ GiftsShaped /\ KeysAreOfGifts /\ AnswersStand /\ OneRuns /\ PastReplay /\ RefusalStands
    /\ FailureIsRemembered /\ KeysAreWished

-----------------------------------------------------------------------------
(* Largest keys, and sums of prices                                        *)

LEMMA MaxIs ==
  ASSUME NEW S \in SUBSET Nat, IsFiniteSet(S), S # {}
  PROVE  Max(S) \in S /\ \A y \in S : Max(S) >= y
<1> DEFINE f == [x \in S |-> x]
<1>1. \A x \in S : f[x] = x /\ f[x] \in Int
  OBVIOUS
<1> HIDE DEF f
<1>2. \E m \in S : \A y \in S : f[m] >= f[y]
  BY <1>1, Greatest
<1>3. \E m \in S : \A y \in S : m >= y
  BY <1>1, <1>2
<1> QED BY <1>3 DEF Max

LEMMA CoinsGrow ==
  ASSUME GiftingConstants, NEW C \in SUBSET Charges, IsFiniteSet(C), NEW x \in Charges
  PROVE  /\ CoinsOf(C) \in Nat /\ CoinsOf(C \cup {x}) \in Nat
         /\ CoinsOf(C) <= CoinsOf(C \cup {x})
<1>1. CASE x \notin C
  <2> DEFINE f == [c \in C |-> Price[c.gift]]
             h == [c \in C \cup {x} |-> Price[c.gift]]
  <2>1. \A c \in Charges : Price[c.gift] \in Nat
    BY DEF GiftingConstants, Charges
  <2>2. /\ \A c \in C : f[c] \in Nat /\ h[c] \in Nat /\ f[c] = h[c]
        /\ h[x] \in Nat
    BY <2>1
  <2>3. CoinsOf(C) = SumFunctionOnSet(f, C) /\ CoinsOf(C \cup {x}) = SumFunctionOnSet(h, C \cup {x})
    BY DEF CoinsOf
  <2> HIDE DEF f, h
  <2>4. SumFunctionOnSet(f, C) \in Nat /\ SumFunctionOnSet(f, C) = SumFunctionOnSet(h, C)
    BY <2>2, SumType, SumSame
  <2>5. SumFunctionOnSet(h, C \cup {x}) = SumFunctionOnSet(h, C) + h[x]
    BY <1>1, <2>2, SumAdd
  <2> QED BY <2>2, <2>3, <2>4, <2>5
<1>2. CASE x \in C
  <2> DEFINE f == [c \in C |-> Price[c.gift]]
  <2>1. \A c \in C : f[c] \in Nat
    BY DEF GiftingConstants, Charges
  <2>2. C \cup {x} = C /\ CoinsOf(C) = SumFunctionOnSet(f, C)
    BY <1>2 DEF CoinsOf
  <2> HIDE DEF f
  <2>3. SumFunctionOnSet(f, C) \in Nat
    BY <2>1, SumType
  <2> QED BY <2>2, <2>3
<1> QED BY <1>1, <1>2

LEMMA KeysFinite ==
  ASSUME NEW T \in Seq(TapRow), NEW g
  PROVE  IsFiniteSet(KeysFor(T, g)) /\ Cardinality(KeysFor(T, g)) \in Nat
<1> DEFINE J == {j \in 1..Len(T) : T[j].gift = g}
           f == [i \in J |-> T[i].key]
<1>1. IsFiniteSet(1..Len(T)) /\ J \subseteq 1..Len(T)
  BY FS_Interval
<1>2. IsFiniteSet(J)
  BY <1>1, FS_Subset
<1>3. f \in Surjection(J, KeysFor(T, g))
  BY DEF Surjection, KeysFor
<1> QED BY <1>2, <1>3, FS_Surjection, FS_CardinalityType

-----------------------------------------------------------------------------
(* The server's steps                                                      *)

LEMMA GiftsStart == ASSUME GiftingConstants, GiftingInit PROVE GiftInv
<1> USE DEF GiftingInit
<1>1. TapIds = {} /\ SendIds = {} /\ charged = {}
  BY DEF TapIds, SendIds
<1>2. GiftsShaped
  <2>1. taps \in Seq(TapRow) /\ sends \in Seq(SendRow) /\ Len(taps) = 0
    OBVIOUS
  <2>2. wished \in [Gifts -> Nat] /\ failed \in [Gifts -> Nat]
    OBVIOUS
  <2>3. Len(taps) <= MaxTaps
    BY <2>1 DEF GiftingConstants
  <2>4. IsFiniteSet(charged) /\ charged \in SUBSET Charges /\ crossed \subseteq 1..MaxTaps
    BY FS_EmptySet
  <2>5. /\ \A i \in TapIds : taps[i].key \in 1..Len(taps)
        /\ \A a \in SendIds : sends[a].tap \in TapIds
    BY <1>1
  <2> QED BY <2>1, <2>2, <2>3, <2>4, <2>5 DEF GiftsShaped
<1>3. KeysAreOfGifts /\ AnswersStand /\ OneRuns /\ PastReplay /\ RefusalStands
  BY <1>1 DEF KeysAreOfGifts, AnswersStand, OneRuns, PastReplay, RefusalStands
<1>4. FailureIsRemembered
  BY <1>1 DEF FailureIsRemembered
<1>5. KeysAreWished
  <2>1. \A g : KeysFor(taps, g) = {}
    BY DEF KeysFor
  <2> QED BY <2>1, FS_EmptySet DEF KeysAreWished
<1> QED BY <1>2, <1>3, <1>4, <1>5 DEF GiftInv

\* A step of one request leaves the others and all keys alone.
LEMMA BecomesFacts ==
  ASSUME GiftInv, NEW a \in SendIds, NEW s \in Under \cup {"ok", "refused", "dead"}, Becomes(a, s)
  PROVE  /\ UNCHANGED <<taps, retry, stage, wished, failed, crossed, muddled, TapIds>>
         /\ sends' \in Seq(SendRow) /\ SendIds' = SendIds /\ Len(sends') = Len(sends)
         /\ \A b \in SendIds : /\ sends'[b].tap = sends[b].tap
                               /\ KeyOf(b)' = KeyOf(b) /\ GiftOf(b)' = GiftOf(b)
                               /\ sends'[b].stage = IF b = a THEN s ELSE sends[b].stage
<1>1. sends \in Seq(SendRow) /\ sends' = [sends EXCEPT ![a].stage = s] /\ sends[a] \in SendRow
  BY DEF GiftInv, GiftsShaped, Becomes, SendIds
<1> DEFINE e == [sends[a] EXCEPT !.stage = s]
<1>2. e \in SendRow /\ e.tap = sends[a].tap /\ e.stage = s
  BY <1>1 DEF SendRow
<1>3. sends' = [sends EXCEPT ![a] = e]
  BY <1>1
<1> HIDE DEF e
<1>4. /\ sends' \in Seq(SendRow) /\ Len(sends') = Len(sends) /\ sends'[a] = e
      /\ \A b \in SendIds : b # a => sends'[b] = sends[b]
  BY <1>1, <1>2, <1>3 DEF SendIds
<1>5. UNCHANGED <<taps, retry, stage, wished, failed, crossed, muddled>>
  BY DEF Becomes
<1> QED BY <1>2, <1>4, <1>5 DEF KeyOf, GiftOf, SendIds, TapIds

\* What bars a request after a step, in terms of the keys before it.
LEMMA BarredNext ==
  ASSUME NEW b \in SendIds, SendIds' = SendIds, GiftOf(b)' = GiftOf(b), stage' = stage,
         \A d \in SendIds : KeyOf(d)' = KeyOf(d),
         \/ CoinsOf(charged)' + Price[GiftOf(b)] > Purse
         \/ stage = "closed" /\ \A d \in SendIds : KeyOf(d) = KeyOf(b) => sends'[d].stage # "post"
  PROVE  Barred(b)'
BY DEF Barred

\* A request goes on, or ends, and nothing is posted.
LEMMA QuietRequest ==
  ASSUME GiftingConstants, GiftInv, NEW a \in SendIds, sends[a].stage \in Under,
         NEW s \in {"validate", "post", "ok", "refused", "dead"}, Becomes(a, s), UNCHANGED charged,
         s = "ok" => Charge(a) \in charged,
         s = "post" => stage = "open",
         s \in {"validate", "post", "refused"} /\ KeyOf(a) \notin crossed => NotCharged(KeyOf(a)),
         s = "refused" =>
             stage = "closed" \/ CoinsOf(charged) + Price[GiftOf(a)] > Purse
  PROVE  GiftInv'
<1>1. /\ UNCHANGED <<taps, retry, stage, wished, failed, crossed, muddled, TapIds>>
      /\ sends' \in Seq(SendRow) /\ SendIds' = SendIds /\ Len(sends') = Len(sends)
      /\ \A b \in SendIds : /\ sends'[b].tap = sends[b].tap
                            /\ KeyOf(b)' = KeyOf(b) /\ GiftOf(b)' = GiftOf(b)
                            /\ sends'[b].stage = IF b = a THEN s ELSE sends[b].stage
  BY BecomesFacts DEF Under
<1>2. GiftsShaped'
  BY <1>1 DEF GiftInv, GiftsShaped
<1>3. KeysAreOfGifts' /\ FailureIsRemembered' /\ KeysAreWished'
  BY <1>1 DEF GiftInv, KeysAreOfGifts, FailureIsRemembered, KeysAreWished
<1>4. AnswersStand'
  <2>1. \A i \in TapIds : \E b \in SendIds : sends'[b].tap = i
    BY <1>1 DEF GiftInv, AnswersStand
  <2>2. ASSUME NEW i \in TapIds, taps[i].heard \in {"ok", "refused"}
        PROVE  \E b \in SendIds : sends'[b].tap = i /\ sends'[b].stage = taps[i].heard
    <3>1. PICK b \in SendIds : sends[b].tap = i /\ sends[b].stage = taps[i].heard
      BY <2>2 DEF GiftInv, AnswersStand
    <3>2. b # a
      BY <2>2, <3>1 DEF Under
    <3> QED BY <1>1, <3>1, <3>2
  <2>3. ASSUME NEW b \in SendIds, sends'[b].stage = "ok" PROVE Charge(b)' \in charged
    <3>1. Charge(b)' = Charge(b)
      BY <1>1 DEF Charge
    <3> QED BY <1>1, <2>3, <3>1 DEF GiftInv, AnswersStand
  <2> QED BY <1>1, <2>1, <2>2, <2>3 DEF AnswersStand
<1>5. OneRuns'
  <2> SUFFICES ASSUME NEW b \in SendIds, NEW d \in SendIds, sends'[b].stage \in Under,
                      sends'[d].stage \in Under, KeyOf(b) = KeyOf(d), b # d
               PROVE  KeyOf(b) \in crossed
    BY <1>1 DEF OneRuns
  <2>1. sends[b].stage \in Under /\ sends[d].stage \in Under
    BY <1>1
  <2> QED BY <2>1 DEF GiftInv, OneRuns
<1>6. PastReplay'
  <2> SUFFICES ASSUME NEW b \in SendIds, sends'[b].stage \in {"validate", "post"}, KeyOf(b) \notin crossed
               PROVE  NotCharged(KeyOf(b))
    BY <1>1 DEF PastReplay, NotCharged
  <2> QED BY <1>1 DEF GiftInv, PastReplay
<1>7. RefusalStands'
  <2> SUFFICES ASSUME NEW b \in SendIds, sends'[b].stage = "refused", KeyOf(b) \notin crossed
               PROVE  /\ NotCharged(KeyOf(b))
                      /\ \/ CoinsOf(charged) + Price[GiftOf(b)] > Purse
                         \/ /\ stage = "closed"
                            /\ \A d \in SendIds : KeyOf(d) = KeyOf(b) => sends'[d].stage # "post"
    <3>1. CoinsOf(charged)' = CoinsOf(charged) /\ \A k : NotCharged(k)' <=> NotCharged(k)
      BY DEF CoinsOf, NotCharged
    <3> QED BY <1>1, <3>1, BarredNext DEF RefusalStands
  <2>1. CASE b = a
    <3>1. s = "refused"
      BY <1>1, <2>1
    <3>2. \A d \in SendIds : KeyOf(d) = KeyOf(a) => sends'[d].stage # "post"
      <4> SUFFICES ASSUME NEW d \in SendIds, KeyOf(d) = KeyOf(a), sends'[d].stage = "post" PROVE FALSE
        OBVIOUS
      <4>1. d # a /\ sends[d].stage = "post"
        BY <1>1, <3>1
      <4> QED BY <2>1, <4>1 DEF GiftInv, OneRuns, Under
    <3> QED BY <2>1, <3>1, <3>2
  <2>2. CASE b # a
    <3>1. sends[b].stage = "refused"
      BY <1>1, <2>2
    <3>2. NotCharged(KeyOf(b)) /\ Barred(b)
      BY <3>1 DEF GiftInv, RefusalStands
    <3>3. stage = "closed" => s # "post"
      OBVIOUS
    <3> QED BY <1>1, <3>2, <3>3 DEF Barred
  <2> QED BY <2>1, <2>2
<1> QED BY <1>2, <1>3, <1>4, <1>5, <1>6, <1>7 DEF GiftInv

\* What was posted under the key of a request was posted for its gift.
LEMMA PostedIsDone ==
  ASSUME GiftInv, NEW a \in SendIds
  PROVE  /\ ~Done(a) => PostedBy(a) = {} /\ NotCharged(KeyOf(a))
         /\ GiftOf(a) \in Gifts /\ KeyOf(a) \in 1..Len(taps) /\ sends[a].tap \in TapIds
<1>1. /\ sends[a].tap \in TapIds /\ taps \in Seq(TapRow) /\ charged \in SUBSET Charges
      /\ taps[sends[a].tap].key \in 1..Len(taps)
  BY DEF GiftInv, GiftsShaped
<1>2. taps[sends[a].tap] \in TapRow
  BY <1>1 DEF TapIds
<1>3. ASSUME NEW c \in charged, c.key = KeyOf(a) PROVE Done(a)
  <2>1. PICK i \in TapIds : taps[i].key = c.key /\ taps[i].gift = c.gift
    BY DEF GiftInv, KeysAreOfGifts
  <2>2. c.gift = GiftOf(a)
    BY <1>1, <1>3, <2>1 DEF GiftInv, KeysAreOfGifts, KeyOf, GiftOf
  <2>3. c = Charge(a)
    BY <1>1, <1>3, <2>2 DEF Charge, Charges
  <2> QED BY <2>3 DEF Done
<1> QED BY <1>1, <1>2, <1>3 DEF NotCharged, PostedBy, GiftOf, KeyOf, TapRow

LEMMA ReplayKeeps ==
  ASSUME GiftingConstants, GiftInv, NEW a \in SendIds, Replay(a) \/ Validate(a) \/ LoseSend(a)
  PROVE  GiftInv'
<1>1. CASE Replay(a)
  <2>1. CASE Done(a)
    BY <1>1, <2>1, QuietRequest DEF Replay, Done, Under
  <2>2. CASE ~Done(a)
    <3>1. PostedBy(a) = {} /\ NotCharged(KeyOf(a))
      BY <2>2, PostedIsDone
    <3> QED BY <1>1, <2>2, <3>1, QuietRequest DEF Replay, Under
  <2> QED BY <2>1, <2>2
<1>2. CASE Validate(a)
  <2>1. sends[a].stage = "validate" /\ (KeyOf(a) \notin crossed => NotCharged(KeyOf(a)))
    BY <1>2 DEF Validate, GiftInv, PastReplay
  <2>2. stage = "open" \/ stage = "closed"
    BY DEF GiftInv, GiftsShaped
  <2> QED BY <1>2, <2>1, <2>2, QuietRequest DEF Validate, Under
<1>3. CASE LoseSend(a)
  BY <1>3, QuietRequest DEF LoseSend
<1> QED BY <1>1, <1>2, <1>3

\* A request posts its charge.
LEMMA ChargeKeeps ==
  ASSUME GiftingConstants, GiftInv, NEW a \in SendIds, sends[a].stage = "post", Becomes(a, "ok"),
         charged' = charged \cup {Charge(a)}, ~(CoinsOf(charged) + Price[GiftOf(a)] > Purse)
  PROVE  GiftInv'
<1> DEFINE x == Charge(a)
<1>1. /\ UNCHANGED <<taps, retry, stage, wished, failed, crossed, muddled, TapIds>>
      /\ sends' \in Seq(SendRow) /\ SendIds' = SendIds /\ Len(sends') = Len(sends)
      /\ \A b \in SendIds : /\ sends'[b].tap = sends[b].tap
                            /\ KeyOf(b)' = KeyOf(b) /\ GiftOf(b)' = GiftOf(b)
                            /\ sends'[b].stage = IF b = a THEN "ok" ELSE sends[b].stage
  BY BecomesFacts
<1>2. GiftOf(a) \in Gifts /\ KeyOf(a) \in 1..Len(taps) /\ sends[a].tap \in TapIds
  BY PostedIsDone
<1>3. x \in Charges /\ x.key = KeyOf(a) /\ x.gift = GiftOf(a)
  BY <1>2 DEF Charge, Charges
<1>4. charged \in SUBSET Charges /\ IsFiniteSet(charged)
  BY DEF GiftInv, GiftsShaped
<1>5. /\ CoinsOf(charged) \in Nat /\ CoinsOf(charged') \in Nat
      /\ CoinsOf(charged) <= CoinsOf(charged')
  BY <1>3, <1>4, CoinsGrow
<1>6. GiftsShaped'
  <2>1. charged' \in SUBSET Charges /\ IsFiniteSet(charged')
    BY <1>3, <1>4, FS_AddElement
  <2> QED BY <1>1, <2>1 DEF GiftInv, GiftsShaped
<1>7. KeysAreOfGifts'
  <2>1. \E i \in TapIds : taps[i].key = x.key /\ taps[i].gift = x.gift
    BY <1>2, <1>3 DEF KeyOf, GiftOf
  <2> QED BY <1>1, <2>1 DEF GiftInv, KeysAreOfGifts
<1>8. FailureIsRemembered' /\ KeysAreWished'
  BY <1>1 DEF GiftInv, FailureIsRemembered, KeysAreWished
<1>9. AnswersStand'
  <2>1. \A i \in TapIds : \E b \in SendIds : sends'[b].tap = i
    BY <1>1 DEF GiftInv, AnswersStand
  <2>2. ASSUME NEW i \in TapIds, taps[i].heard \in {"ok", "refused"}
        PROVE  \E b \in SendIds : sends'[b].tap = i /\ sends'[b].stage = taps[i].heard
    <3>1. PICK b \in SendIds : sends[b].tap = i /\ sends[b].stage = taps[i].heard
      BY <2>2 DEF GiftInv, AnswersStand
    <3>2. b # a
      BY <2>2, <3>1
    <3> QED BY <1>1, <3>1, <3>2
  <2>3. ASSUME NEW b \in SendIds, sends'[b].stage = "ok" PROVE Charge(b)' \in charged'
    <3>1. Charge(b)' = Charge(b)
      BY <1>1 DEF Charge
    <3> QED BY <1>1, <2>3, <3>1 DEF GiftInv, AnswersStand
  <2> QED BY <1>1, <2>1, <2>2, <2>3 DEF AnswersStand
<1>10. OneRuns'
  <2> SUFFICES ASSUME NEW b \in SendIds, NEW d \in SendIds, sends'[b].stage \in Under,
                      sends'[d].stage \in Under, KeyOf(b) = KeyOf(d), b # d
               PROVE  KeyOf(b) \in crossed
    BY <1>1 DEF OneRuns
  <2>1. sends[b].stage \in Under /\ sends[d].stage \in Under
    BY <1>1 DEF Under
  <2> QED BY <2>1 DEF GiftInv, OneRuns
<1>11. ASSUME NEW b \in SendIds, sends'[b].stage \in {"validate", "post", "refused"},
              KeyOf(b) \notin crossed
       PROVE  NotCharged(KeyOf(b))' /\ KeyOf(b) # KeyOf(a)
  <2>1. b # a /\ sends[b].stage \in {"validate", "post", "refused"}
    BY <1>1, <1>11
  <2>2. NotCharged(KeyOf(b))
    BY <1>11, <2>1 DEF GiftInv, PastReplay, RefusalStands
  <2>3. KeyOf(b) # KeyOf(a)
    <3>1. CASE sends[b].stage \in {"validate", "post"}
      BY <1>11, <2>1, <3>1 DEF GiftInv, OneRuns, Under
    <3>2. CASE sends[b].stage = "refused"
      <4> SUFFICES ASSUME KeyOf(b) = KeyOf(a) PROVE FALSE
        OBVIOUS
      <4>1. GiftOf(b) = GiftOf(a)
        BY PostedIsDone DEF GiftInv, KeysAreOfGifts, KeyOf, GiftOf
      <4>2. Barred(b)
        BY <1>11, <3>2 DEF GiftInv, RefusalStands
      <4> QED BY <4>1, <4>2 DEF Barred
    <3> QED BY <2>1, <3>1, <3>2
  <2> QED BY <1>1, <1>3, <2>2, <2>3 DEF NotCharged
<1>12. PastReplay'
  BY <1>1, <1>11 DEF PastReplay, NotCharged
<1>13. RefusalStands'
  <2> SUFFICES ASSUME NEW b \in SendIds, sends'[b].stage = "refused", KeyOf(b) \notin crossed
               PROVE  \/ CoinsOf(charged') + Price[GiftOf(b)] > Purse
                      \/ /\ stage = "closed"
                         /\ \A d \in SendIds : KeyOf(d) = KeyOf(b) => sends'[d].stage # "post"
    <3>1. CoinsOf(charged)' = CoinsOf(charged')
      BY DEF CoinsOf
    <3> QED BY <1>1, <1>11, <3>1, BarredNext DEF RefusalStands
  <2>1. Barred(b)
    BY <1>1 DEF GiftInv, RefusalStands
  <2>2. Price[GiftOf(b)] \in Nat /\ Purse \in Nat
    BY PostedIsDone DEF GiftingConstants
  <2>3. CASE CoinsOf(charged) + Price[GiftOf(b)] > Purse
    BY <1>5, <2>2, <2>3
  <2>4. CASE ~(CoinsOf(charged) + Price[GiftOf(b)] > Purse)
    BY <1>1, <2>1, <2>4 DEF Barred
  <2> QED BY <2>3, <2>4
<1> QED BY <1>6, <1>7, <1>8, <1>9, <1>10, <1>12, <1>13 DEF GiftInv

LEMMA PostKeeps ==
  ASSUME GiftingConstants, GiftInv, NEW a \in SendIds, PostSend(a)
  PROVE  GiftInv'
<1>1. sends[a].stage = "post" /\ "post" \in Under
  BY DEF PostSend, Under
<1>2. CASE Done(a)
  BY <1>1, <1>2, QuietRequest DEF PostSend, Done
<1>3. CASE ~Done(a) /\ CoinsCharged + Price[GiftOf(a)] > Purse
  <2>1. PostedBy(a) = {} /\ NotCharged(KeyOf(a))
    BY <1>3, PostedIsDone
  <2> QED BY <1>1, <1>3, <2>1, QuietRequest DEF PostSend, CoinsCharged, CoinsOf
<1>4. CASE ~Done(a) /\ ~(CoinsCharged + Price[GiftOf(a)] > Purse)
  <2>1. PostedBy(a) = {} /\ NotCharged(KeyOf(a)) /\ GiftOf(a) \in Gifts /\ KeyOf(a) \in 1..Len(taps)
        /\ sends[a].tap \in TapIds
    BY <1>4, PostedIsDone
  <2>2. Becomes(a, "ok") /\ charged' = charged \cup {Charge(a)}
    BY <1>4, <2>1 DEF PostSend
  <2>3. ~(CoinsOf(charged) + Price[GiftOf(a)] > Purse)
    BY <1>4 DEF CoinsCharged, CoinsOf
  <2> QED BY <1>1, <2>1, <2>2, <2>3, ChargeKeeps
<1> QED BY <1>2, <1>3, <1>4

-----------------------------------------------------------------------------
(* The app's steps                                                         *)

\* A tap's key is of a request of the same gift whose outcome is unknown, or new.
LEMMA KeyChosen ==
  ASSUME GiftingConstants, GiftInv, NEW g \in Gifts
  PROVE  /\ KeyFor(g) \in 1..(Len(taps) + 1)
         /\ retry.gift = g => \E i \in TapIds : taps[i].key = KeyFor(g) /\ taps[i].gift = g
         /\ retry.gift # g => \A i \in TapIds : taps[i].key # KeyFor(g)
<1> DEFINE S == KeysUsed \cup {0}
<1>1. /\ \A i \in TapIds : taps[i].key \in 1..Len(taps)
      /\ Len(taps) \in Nat
  BY DEF GiftInv, GiftsShaped
<1>2. S \in SUBSET (0..Len(taps)) /\ 0 \in S
  BY <1>1 DEF KeysUsed
<1>3. IsFiniteSet(S) /\ S \in SUBSET Nat /\ S # {}
  <2>1. IsFiniteSet(0..Len(taps)) /\ 0..Len(taps) \subseteq Nat
    BY <1>1, FS_Interval
  <2> QED BY <1>2, <2>1, FS_Subset
<1>4. \A i \in TapIds : taps[i].key \in S
  BY DEF KeysUsed
<1> HIDE DEF S
<1>5. Max(S) \in S /\ \A y \in S : Max(S) >= y
  BY <1>3, MaxIs
<1>6. NewKey = Max(S) + 1
  BY DEF NewKey, S
<1>7. NewKey \in 1..(Len(taps) + 1) /\ \A i \in TapIds : taps[i].key # NewKey
  <2>1. Max(S) \in 0..Len(taps)
    BY <1>2, <1>5
  <2>2. ASSUME NEW i \in TapIds PROVE taps[i].key # Max(S) + 1
    <3>1. Max(S) >= taps[i].key /\ taps[i].key \in 1..Len(taps)
      BY <1>1, <1>4, <1>5
    <3> QED BY <1>1, <2>1, <3>1
  <2>3. Max(S) + 1 \in 1..(Len(taps) + 1)
    BY <1>1, <2>1
  <2> QED BY <1>6, <2>2, <2>3
<1>8. CASE retry.gift = g
  <2>1. PICK i \in TapIds : retry = [gift |-> taps[i].gift, key |-> taps[i].key]
    BY <1>8 DEF GiftInv, KeysAreOfGifts, GiftingConstants
  <2>2. KeyFor(g) = taps[i].key /\ taps[i].gift = g
    BY <1>8, <2>1 DEF KeyFor
  <2> QED BY <1>1, <1>8, <2>2
<1>9. CASE retry.gift # g
  BY <1>7, <1>9 DEF KeyFor
<1> QED BY <1>8, <1>9

\* A request is sent for the tap i, which may be the one just made.
LEMMA SendMoves ==
  ASSUME GiftInv, NEW i \in TapIds', NEW k, Send(i, k), UNCHANGED <<charged, stage>>, TapIds \subseteq TapIds',
         \A j \in TapIds : taps'[j].key = taps[j].key /\ taps'[j].gift = taps[j].gift,
         taps'[i].key = k
  PROVE  /\ sends' \in Seq(SendRow) /\ \A b \in SendIds' : sends'[b].tap \in TapIds'
         /\ SendIds \subseteq SendIds' /\ crossed \subseteq crossed' /\ crossed' \subseteq crossed \cup {k}
         /\ \A b \in SendIds : sends'[b] = sends[b]
         /\ \E b \in SendIds' : sends'[b].tap = i
         /\ \A b \in SendIds' : sends'[b].stage = "ok" => Charge(b)' \in charged'
         /\ OneRuns' /\ PastReplay' /\ RefusalStands'
<1>0. PICK n : n = Len(sends) + 1
  OBVIOUS
<1> DEFINE x == [tap |-> i, stage |-> "find"]
<1>1. /\ sends \in Seq(SendRow) /\ Len(sends) \in Nat /\ i \in Nat
      /\ \A b \in SendIds : sends[b].tap \in TapIds
  BY DEF GiftInv, GiftsShaped, TapIds
<1>2. x \in SendRow
  BY <1>1 DEF SendRow, Under
<1>3. sends' = Append(sends, x)
  BY DEF Send
<1>4. /\ sends' \in Seq(SendRow) /\ Len(sends') = n /\ sends'[n] = x
      /\ \A b \in SendIds : sends'[b] = sends[b]
  BY <1>0, <1>1, <1>2, <1>3 DEF SendIds
<1>5. n \notin SendIds /\ SendIds' = SendIds \cup {n}
  BY <1>0, <1>1, <1>4 DEF SendIds
<1>6. sends'[n].tap = i /\ sends'[n].stage = "find"
  BY <1>4
<1> HIDE DEF x
<1>7. \A b \in SendIds : KeyOf(b)' = KeyOf(b) /\ GiftOf(b)' = GiftOf(b) /\ sends'[b].stage = sends[b].stage
  BY <1>1, <1>4 DEF KeyOf, GiftOf
<1>8. KeyOf(n)' = k
  BY <1>6 DEF KeyOf
<1>9. /\ crossed \subseteq crossed' /\ crossed' \subseteq crossed \cup {k}
      /\ Running(k) => k \in crossed'
  BY DEF Send
<1>10. \A b \in SendIds : sends[b].stage \in Under /\ KeyOf(b) = k => k \in crossed'
  BY <1>9 DEF Running, KeyOf
<1>11. \A b \in SendIds' : sends'[b].tap \in TapIds'
  BY <1>1, <1>4, <1>5, <1>6
<1>12. \A b \in SendIds' : sends'[b].stage = "ok" => Charge(b)' \in charged'
  <2> SUFFICES ASSUME NEW b \in SendIds', sends'[b].stage = "ok" PROVE Charge(b)' \in charged
    OBVIOUS
  <2>1. b \in SendIds
    BY <1>5, <1>6
  <2>2. Charge(b)' = Charge(b)
    BY <1>7, <2>1 DEF Charge
  <2> QED BY <1>7, <2>1, <2>2 DEF GiftInv, AnswersStand
<1>13. OneRuns'
  <2> SUFFICES ASSUME NEW b \in SendIds', NEW d \in SendIds', sends'[b].stage \in Under,
                      sends'[d].stage \in Under, KeyOf(b)' = KeyOf(d)', b # d
               PROVE  KeyOf(b)' \in crossed'
    BY DEF OneRuns
  <2>1. CASE b \in SendIds /\ d \in SendIds
    BY <1>7, <1>9, <2>1 DEF GiftInv, OneRuns
  <2>2. CASE b = n
    BY <1>5, <1>7, <1>8, <1>10, <2>2
  <2>3. CASE d = n
    BY <1>5, <1>7, <1>8, <1>10, <2>3
  <2> QED BY <1>5, <2>1, <2>2, <2>3
<1>14. PastReplay'
  <2> SUFFICES ASSUME NEW b \in SendIds', sends'[b].stage \in {"validate", "post"}, KeyOf(b)' \notin crossed'
               PROVE  NotCharged(KeyOf(b)')
    BY DEF PastReplay, NotCharged
  <2>1. b \in SendIds
    BY <1>5, <1>6
  <2> QED BY <1>7, <1>9, <2>1 DEF GiftInv, PastReplay
<1>15. RefusalStands'
  <2> SUFFICES ASSUME NEW b \in SendIds', sends'[b].stage = "refused", KeyOf(b)' \notin crossed'
               PROVE  NotCharged(KeyOf(b)') /\ Barred(b)'
    BY DEF RefusalStands, NotCharged
  <2>1. b \in SendIds
    BY <1>5, <1>6
  <2>2. NotCharged(KeyOf(b)) /\ Barred(b)
    BY <1>7, <1>9, <2>1 DEF GiftInv, RefusalStands
  <2>3. CASE CoinsOf(charged) + Price[GiftOf(b)] > Purse
    <3>1. CoinsOf(charged)' = CoinsOf(charged)
      BY DEF CoinsOf
    <3> QED BY <1>7, <2>1, <2>2, <2>3, <3>1 DEF Barred
  <2>4. CASE stage = "closed" /\ \A d \in SendIds : KeyOf(d) = KeyOf(b) => sends[d].stage # "post"
    <3>1. \A d \in SendIds' : KeyOf(d)' = KeyOf(b)' => sends'[d].stage # "post"
      BY <1>5, <1>6, <1>7, <2>1, <2>4
    <3> QED BY <1>7, <2>1, <2>2, <2>4, <3>1 DEF Barred
  <2> QED BY <2>2, <2>3, <2>4 DEF Barred
<1> QED BY <1>4, <1>5, <1>6, <1>9, <1>11, <1>12, <1>13, <1>14, <1>15

LEMMA ResendKeeps ==
  ASSUME GiftingConstants, GiftInv, NEW i \in TapIds, Resend(i)
  PROVE  GiftInv'
<1>1. /\ UNCHANGED <<taps, retry, charged, stage, wished, failed, muddled, TapIds>>
      /\ Send(i, taps[i].key)
  BY DEF Resend, TapIds
<1>2. /\ sends' \in Seq(SendRow) /\ \A b \in SendIds' : sends'[b].tap \in TapIds'
      /\ SendIds \subseteq SendIds' /\ crossed \subseteq crossed'
      /\ crossed' \subseteq crossed \cup {taps[i].key}
      /\ \A b \in SendIds : sends'[b] = sends[b]
      /\ \A b \in SendIds' : sends'[b].stage = "ok" => Charge(b)' \in charged'
      /\ OneRuns' /\ PastReplay' /\ RefusalStands'
  BY <1>1, SendMoves
<1>3. taps[i].key \in 1..MaxTaps
  BY DEF GiftInv, GiftsShaped, GiftingConstants, TapIds
<1>4. GiftsShaped'
  BY <1>1, <1>2, <1>3 DEF GiftInv, GiftsShaped
<1>5. KeysAreOfGifts' /\ FailureIsRemembered' /\ KeysAreWished'
  BY <1>1 DEF GiftInv, KeysAreOfGifts, FailureIsRemembered, KeysAreWished
<1>6. AnswersStand'
  BY <1>1, <1>2 DEF GiftInv, AnswersStand
<1> QED BY <1>2, <1>4, <1>5, <1>6 DEF GiftInv

LEMMA KeysForMore ==
  ASSUME NEW T \in Seq(TapRow), NEW x \in TapRow, NEW h
  PROVE  KeysFor(Append(T, x), h) = IF x.gift = h THEN KeysFor(T, h) \cup {x.key} ELSE KeysFor(T, h)
<1> DEFINE n == Len(T) + 1
           A == Append(T, x)
<1>1. Len(A) = n /\ A[n] = x /\ n \notin 1..Len(T) /\ 1..Len(A) = (1..Len(T)) \cup {n}
      /\ \A i \in 1..Len(T) : A[i] = T[i]
  OBVIOUS
<1> HIDE DEF n, A
<1>2. KeysFor(A, h) = IF x.gift = h THEN KeysFor(T, h) \cup {x.key} ELSE KeysFor(T, h)
  BY <1>1 DEF KeysFor
<1> QED BY <1>2 DEF A

LEMMA TapKeeps ==
  ASSUME GiftingConstants, GiftInv, NEW g \in Gifts, Tap(g)
  PROVE  GiftInv'
<1> DEFINE k == KeyFor(g)
           m == Len(taps) + 1
           x == [gift |-> g, key |-> k, heard |-> "waiting"]
<1>1. /\ taps \in Seq(TapRow) /\ Len(taps) \in Nat /\ Len(taps) < MaxTaps /\ MaxTaps \in Nat
      /\ \A i \in TapIds : taps[i].key \in 1..Len(taps)
  BY DEF GiftInv, GiftsShaped, Tap, GiftingConstants
<1>2. k \in 1..m /\ k \in Nat /\ x \in TapRow
  BY <1>1, KeyChosen DEF TapRow
<1>3. taps' = Append(taps, x)
  BY DEF Tap
<1>4. /\ taps' \in Seq(TapRow) /\ Len(taps') = m /\ taps'[m] = x
      /\ \A i \in TapIds : taps'[i] = taps[i]
      /\ m \notin TapIds /\ TapIds' = TapIds \cup {m}
  BY <1>1, <1>2, <1>3 DEF TapIds
<1>5. /\ UNCHANGED <<charged, stage, muddled>> /\ Send(m, k)
      /\ retry' = (IF retry.gift = g THEN NoRetry ELSE retry)
      /\ IF failed[g] > 0
         THEN failed' = [failed EXCEPT ![g] = @ - 1] /\ UNCHANGED wished
         ELSE wished' = [wished EXCEPT ![g] = @ + 1] /\ UNCHANGED failed
  BY DEF Tap
<1>6. /\ sends' \in Seq(SendRow) /\ \A b \in SendIds' : sends'[b].tap \in TapIds'
      /\ SendIds \subseteq SendIds' /\ crossed' \subseteq crossed \cup {k}
      /\ \A b \in SendIds : sends'[b] = sends[b]
      /\ \E b \in SendIds' : sends'[b].tap = m
      /\ \A b \in SendIds' : sends'[b].stage = "ok" => Charge(b)' \in charged'
      /\ OneRuns' /\ PastReplay' /\ RefusalStands'
  BY <1>4, <1>5, SendMoves
<1>7. /\ x.gift = g /\ x.key = k /\ x.heard = "waiting"
      /\ retry.gift = g => \E i \in TapIds : taps[i].key = k /\ taps[i].gift = g
      /\ retry.gift # g => \A i \in TapIds : taps[i].key # k
  BY KeyChosen
<1>8. /\ wished \in [Gifts -> Nat] /\ failed \in [Gifts -> Nat]
      /\ wished' \in [Gifts -> Nat] /\ failed' \in [Gifts -> Nat]
  <2>1. wished \in [Gifts -> Nat] /\ failed \in [Gifts -> Nat]
    BY DEF GiftInv, GiftsShaped
  <2>2. failed[g] \in Nat /\ wished[g] \in Nat
    BY <2>1
  <2>3. CASE failed[g] > 0
    <3>1. failed[g] - 1 \in Nat
      BY <2>2, <2>3
    <3> QED BY <1>5, <2>1, <2>3, <3>1
  <2>4. CASE ~(failed[g] > 0)
    <3>1. wished[g] + 1 \in Nat
      BY <2>2
    <3> QED BY <1>5, <2>1, <2>4, <3>1
  <2> QED BY <2>1, <2>3, <2>4
<1> HIDE DEF k, m, x
<1>9. GiftsShaped'
  <2>1. m <= MaxTaps /\ 1..m \subseteq 1..MaxTaps /\ \A i \in TapIds : taps[i].key \in 1..m
    BY <1>1 DEF m
  <2>2. crossed' \subseteq 1..MaxTaps
    BY <1>2, <1>6, <2>1 DEF GiftInv, GiftsShaped
  <2>3. \A i \in TapIds' : taps'[i].key \in 1..m
    BY <1>2, <1>4, <1>7, <2>1
  <2> QED BY <1>4, <1>5, <1>6, <1>8, <2>1, <2>2, <2>3 DEF GiftInv, GiftsShaped
<1>10. KeysAreOfGifts'
  <2>1. \A i, j \in TapIds' : taps'[i].key = taps'[j].key => taps'[i].gift = taps'[j].gift
    BY <1>4, <1>7 DEF GiftInv, KeysAreOfGifts
  <2>2. retry' = NoRetry \/ \E i \in TapIds' : retry' = [gift |-> taps'[i].gift, key |-> taps'[i].key]
    BY <1>4, <1>5 DEF GiftInv, KeysAreOfGifts
  <2>3. \A c \in charged' : \E i \in TapIds' : taps'[i].key = c.key /\ taps'[i].gift = c.gift
    BY <1>4, <1>5 DEF GiftInv, KeysAreOfGifts
  <2> QED BY <2>1, <2>2, <2>3 DEF KeysAreOfGifts
<1>11. AnswersStand'
  <2>1. \A i \in TapIds' : \E b \in SendIds' : sends'[b].tap = i
    BY <1>4, <1>6 DEF GiftInv, AnswersStand
  <2>2. \A i \in TapIds' : taps'[i].heard \in {"ok", "refused"} =>
            \E b \in SendIds' : sends'[b].tap = i /\ sends'[b].stage = taps'[i].heard
    BY <1>4, <1>6, <1>7 DEF GiftInv, AnswersStand
  <2> QED BY <1>6, <2>1, <2>2 DEF AnswersStand
<1>12. ASSUME ~muddled
       PROVE  /\ \A h \in Gifts : failed'[h] = 0 \/ (failed'[h] = 1 /\ retry'.gift = h)
              /\ \A i \in TapIds' : taps'[i].heard = "waiting" => taps'[i].key # retry'.key
  <2>1. /\ \A h \in Gifts : failed[h] = 0 \/ (failed[h] = 1 /\ retry.gift = h)
        /\ \A i \in TapIds : taps[i].heard = "waiting" => taps[i].key # retry.key
    BY <1>12 DEF GiftInv, FailureIsRemembered
  <2>2. \A i \in TapIds' : taps'[i].key # 0
    BY <1>9 DEF GiftsShaped
  <2>3. CASE retry.gift = g
    <3>1. retry'.key = 0
      BY <1>5, <2>3 DEF NoRetry
    <3>2. ASSUME NEW h \in Gifts PROVE failed'[h] = 0
      <4>1. h # g => failed[h] = 0
        BY <2>1, <2>3
      <4>2. CASE failed[g] > 0
        <5>1. failed[g] = 1
          BY <2>1, <4>2
        <5> QED BY <1>5, <1>8, <4>1, <4>2, <5>1
      <4>3. CASE ~(failed[g] > 0)
        BY <1>5, <1>8, <2>1, <4>1, <4>3
      <4> QED BY <4>2, <4>3
    <3> QED BY <2>2, <3>1, <3>2
  <2>4. CASE retry.gift # g
    <3>1. failed[g] = 0
      BY <2>1, <2>4
    <3>2. failed' = failed /\ retry' = retry
      BY <1>5, <2>4, <3>1
    <3>3. k # retry.key
      <4>1. CASE retry = NoRetry
        BY <1>2, <4>1 DEF NoRetry
      <4>2. CASE retry # NoRetry
        BY <1>7, <2>4, <4>2 DEF GiftInv, KeysAreOfGifts
      <4> QED BY <4>1, <4>2
    <3> QED BY <1>4, <1>7, <2>1, <3>2, <3>3
  <2> QED BY <2>3, <2>4
<1>13. FailureIsRemembered'
  BY <1>5, <1>12 DEF FailureIsRemembered
<1>14. KeysAreWished'
  <2> SUFFICES ASSUME ~muddled, NEW h \in Gifts PROVE Cardinality(KeysFor(taps', h)) <= wished'[h]
    BY <1>5 DEF KeysAreWished, KeysFor
  <2>1. Cardinality(KeysFor(taps, h)) <= wished[h]
    BY DEF GiftInv, KeysAreWished
  <2>2. IsFiniteSet(KeysFor(taps, h)) /\ Cardinality(KeysFor(taps, h)) \in Nat
    BY <1>1, KeysFinite
  <2>3. KeysFor(taps', h) = IF g = h THEN KeysFor(taps, h) \cup {k} ELSE KeysFor(taps, h)
    BY <1>1, <1>2, <1>3, <1>7, KeysForMore
  <2>4. CASE g # h
    <3>1. wished'[h] = wished[h]
      BY <1>5, <1>8, <2>4
    <3> QED BY <2>1, <2>3, <2>4, <3>1
  <2>5. CASE g = h /\ failed[g] = 0
    <3>1. wished'[h] = wished[h] + 1 /\ wished[h] \in Nat
      BY <1>5, <1>8, <2>5
    <3>2. Cardinality(KeysFor(taps, h) \cup {k}) <= Cardinality(KeysFor(taps, h)) + 1
      BY <2>2, FS_AddElement
    <3>3. Cardinality(KeysFor(taps, h) \cup {k}) \in Nat
      BY <2>2, FS_AddElement, FS_CardinalityType
    <3> QED BY <2>1, <2>2, <2>3, <2>5, <3>1, <3>2, <3>3
  <2>6. CASE g = h /\ failed[g] # 0
    <3>1. retry.gift = g /\ failed[g] = 1
      BY <2>6 DEF GiftInv, FailureIsRemembered
    <3>2. k \in KeysFor(taps, h)
      BY <1>7, <2>6, <3>1 DEF KeysFor, TapIds
    <3>3. wished'[h] = wished[h] /\ KeysFor(taps', h) = KeysFor(taps, h)
      BY <1>5, <2>3, <3>1, <3>2
    <3> QED BY <2>1, <3>3
  <2> QED BY <2>4, <2>5, <2>6
<1> QED BY <1>6, <1>9, <1>10, <1>11, <1>13, <1>14 DEF GiftInv

\* What a tap is told changes nothing else about it.
LEMMA HeardFacts ==
  ASSUME GiftInv, NEW i \in TapIds, NEW s \in {"ok", "refused", "unknown"},
         taps' = [taps EXCEPT ![i].heard = s]
  PROVE  /\ taps' \in Seq(TapRow) /\ Len(taps') = Len(taps) /\ TapIds' = TapIds
         /\ \A j \in TapIds : /\ taps'[j].key = taps[j].key /\ taps'[j].gift = taps[j].gift
                              /\ taps'[j].heard = IF j = i THEN s ELSE taps[j].heard
         /\ \A h : KeysFor(taps', h) = KeysFor(taps, h)
<1>1. taps \in Seq(TapRow) /\ taps[i] \in TapRow
  BY DEF GiftInv, GiftsShaped, TapIds
<1> DEFINE x == [taps[i] EXCEPT !.heard = s]
<1>2. x \in TapRow /\ x.key = taps[i].key /\ x.gift = taps[i].gift /\ x.heard = s
  BY <1>1 DEF TapRow
<1>3. taps' = [taps EXCEPT ![i] = x]
  BY <1>1
<1> HIDE DEF x
<1>4. /\ taps' \in Seq(TapRow) /\ Len(taps') = Len(taps) /\ taps'[i] = x
      /\ \A j \in TapIds : j # i => taps'[j] = taps[j]
  BY <1>1, <1>2, <1>3 DEF TapIds
<1>5. \A j \in TapIds : /\ taps'[j].key = taps[j].key /\ taps'[j].gift = taps[j].gift
                        /\ taps'[j].heard = IF j = i THEN s ELSE taps[j].heard
  BY <1>2, <1>4
<1>6. \A h : KeysFor(taps', h) = KeysFor(taps, h)
  BY <1>4, <1>5 DEF KeysFor, TapIds
<1> QED BY <1>4, <1>5, <1>6 DEF TapIds

\* A tap hears something: what is known of requests stays.
LEMMA HeardKeeps ==
  ASSUME GiftInv, NEW i \in TapIds, NEW s \in {"ok", "refused", "unknown"},
         taps' = [taps EXCEPT ![i].heard = s], UNCHANGED <<sends, charged, stage, wished, crossed>>,
         s # "unknown" => \E a \in SendIds : sends[a].tap = i /\ sends[a].stage = s
  PROVE  AnswersStand' /\ OneRuns' /\ PastReplay' /\ RefusalStands'
<1>1. /\ TapIds' = TapIds /\ SendIds' = SendIds
      /\ \A j \in TapIds : /\ taps'[j].key = taps[j].key /\ taps'[j].gift = taps[j].gift
                           /\ taps'[j].heard = IF j = i THEN s ELSE taps[j].heard
  BY HeardFacts DEF SendIds
<1>2. \A b \in SendIds : KeyOf(b)' = KeyOf(b) /\ GiftOf(b)' = GiftOf(b) /\ Charge(b)' = Charge(b)
  BY <1>1 DEF KeyOf, GiftOf, Charge, GiftInv, GiftsShaped
<1>3. AnswersStand'
  BY <1>1, <1>2 DEF GiftInv, AnswersStand
<1>4. OneRuns' /\ PastReplay'
  BY <1>1, <1>2 DEF GiftInv, OneRuns, PastReplay, NotCharged
<1>5. RefusalStands'
  <2> SUFFICES ASSUME NEW b \in SendIds, sends[b].stage = "refused", KeyOf(b) \notin crossed
               PROVE  NotCharged(KeyOf(b)) /\ Barred(b)'
    BY <1>1, <1>2 DEF RefusalStands, NotCharged
  <2>1. NotCharged(KeyOf(b)) /\ Barred(b)
    BY DEF GiftInv, RefusalStands
  <2>2. CoinsOf(charged)' = CoinsOf(charged)
    BY DEF CoinsOf
  <2> QED BY <1>1, <1>2, <2>1, <2>2 DEF Barred
<1> QED BY <1>3, <1>4, <1>5

LEMMA HearKeeps ==
  ASSUME GiftingConstants, GiftInv, NEW i \in TapIds, HearAnswer(i)
  PROVE  GiftInv'
<1> DEFINE S == {a \in SendIds : sends[a].tap = i}
           s == sends[LastSend(i)].stage
<1>1. LastSend(i) \in S
  <2>1. S # {}
    BY DEF GiftInv, AnswersStand
  <2>2. IsFiniteSet(S) /\ S \in SUBSET Nat
    <3>1. IsFiniteSet(SendIds) /\ SendIds \subseteq Nat
      <4>1. Len(sends) \in Nat
        BY DEF GiftInv, GiftsShaped
      <4> QED BY <4>1, FS_Interval DEF SendIds
    <3> QED BY <3>1, FS_Subset
  <2> QED BY <2>1, <2>2, MaxIs DEF LastSend
<1>2. /\ taps' = [taps EXCEPT ![i].heard = s] /\ s \in {"ok", "refused"}
      /\ taps[i].heard = "waiting" /\ retry' = (IF retry.key = taps[i].key THEN NoRetry ELSE retry)
      /\ UNCHANGED <<sends, charged, stage, wished, failed, crossed, muddled>>
  BY DEF HearAnswer
<1>3. \E a \in SendIds : sends[a].tap = i /\ sends[a].stage = s
  BY <1>1
<1> HIDE DEF s
<1>4. AnswersStand' /\ OneRuns' /\ PastReplay' /\ RefusalStands'
  BY <1>2, <1>3, HeardKeeps
<1>5. /\ taps' \in Seq(TapRow) /\ Len(taps') = Len(taps) /\ TapIds' = TapIds /\ SendIds' = SendIds
      /\ \A j \in TapIds : /\ taps'[j].key = taps[j].key /\ taps'[j].gift = taps[j].gift
                           /\ taps'[j].heard = IF j = i THEN s ELSE taps[j].heard
      /\ \A h : KeysFor(taps', h) = KeysFor(taps, h)
  <2>1. s \in {"ok", "refused", "unknown"} /\ SendIds' = SendIds
    BY <1>2 DEF SendIds
  <2> QED BY <1>2, <2>1, HeardFacts
<1>6. GiftsShaped'
  BY <1>2, <1>5 DEF GiftInv, GiftsShaped
<1>7. KeysAreOfGifts'
  BY <1>2, <1>5 DEF GiftInv, KeysAreOfGifts
<1>8. FailureIsRemembered'
  <2>1. ~muddled => retry' = retry
    BY <1>2 DEF GiftInv, FailureIsRemembered
  <2> QED BY <1>2, <1>5, <2>1 DEF GiftInv, FailureIsRemembered
<1>9. KeysAreWished'
  BY <1>2, <1>5 DEF GiftInv, KeysAreWished
<1> QED BY <1>4, <1>6, <1>7, <1>8, <1>9 DEF GiftInv

LEMMA FailureKeeps ==
  ASSUME GiftingConstants, GiftInv, NEW i \in TapIds, ShowFailure(i)
  PROVE  GiftInv'
<1> DEFINE g == taps[i].gift
<1>1. /\ taps' = [taps EXCEPT ![i].heard = "unknown"] /\ taps[i].heard = "waiting"
      /\ retry' = [gift |-> g, key |-> taps[i].key]
      /\ failed' = [failed EXCEPT ![g] = @ + 1]
      /\ UNCHANGED <<sends, charged, stage, wished, crossed>>
      /\ muddled' = (muddled \/ (\E h \in Gifts : failed[h] > 0)
                             \/ (\E j \in TapIds \ {i} : taps[j].heard = "waiting"))
  BY DEF ShowFailure, Settle
<1>2. AnswersStand' /\ OneRuns' /\ PastReplay' /\ RefusalStands'
  BY <1>1, HeardKeeps
<1>3. /\ taps' \in Seq(TapRow) /\ Len(taps') = Len(taps) /\ TapIds' = TapIds /\ SendIds' = SendIds
      /\ \A j \in TapIds : /\ taps'[j].key = taps[j].key /\ taps'[j].gift = taps[j].gift
                           /\ taps'[j].heard = IF j = i THEN "unknown" ELSE taps[j].heard
      /\ \A h : KeysFor(taps', h) = KeysFor(taps, h)
  BY <1>1, HeardFacts DEF SendIds
<1>4. g \in Gifts /\ failed \in [Gifts -> Nat] /\ failed[g] \in Nat /\ failed[g] + 1 \in Nat
  <2>1. taps[i] \in TapRow /\ failed \in [Gifts -> Nat]
    BY DEF GiftInv, GiftsShaped, TapIds
  <2>2. g \in Gifts
    BY <2>1 DEF TapRow
  <2>3. failed[g] \in Nat
    BY <2>1, <2>2
  <2> QED BY <2>1, <2>2, <2>3
<1>5. GiftsShaped'
  <2>1. failed' \in [Gifts -> Nat] /\ muddled' \in BOOLEAN
    BY <1>1, <1>4 DEF GiftInv, GiftsShaped
  <2> QED BY <1>1, <1>3, <2>1 DEF GiftInv, GiftsShaped
<1>6. KeysAreOfGifts'
  <2>1. \E j \in TapIds' : retry' = [gift |-> taps'[j].gift, key |-> taps'[j].key]
    BY <1>1, <1>3
  <2> QED BY <1>1, <1>3, <2>1 DEF GiftInv, KeysAreOfGifts
<1>7. FailureIsRemembered'
  <2> SUFFICES ASSUME ~muddled'
               PROVE  /\ \A h \in Gifts : failed'[h] = 0 \/ (failed'[h] = 1 /\ retry'.gift = h)
                      /\ \A j \in TapIds' : taps'[j].heard = "waiting" => taps'[j].key # retry'.key
    BY DEF FailureIsRemembered
  <2>1. /\ ~muddled /\ \A h \in Gifts : ~(failed[h] > 0)
        /\ \A j \in TapIds : j # i => taps[j].heard # "waiting"
    <3> DEFINE D == muddled \/ (\E h \in Gifts : failed[h] > 0)
                            \/ (\E j \in TapIds \ {i} : taps[j].heard = "waiting")
    <3>1. muddled' = D
      BY <1>1
    <3>2. ~D
      <4> HIDE DEF D
      <4> QED BY <3>1
    <3> QED BY <3>2
  <2>2. \A h \in Gifts : failed[h] = 0
    BY <1>4, <2>1
  <2>3. \A h \in Gifts : failed'[h] = 0 \/ (failed'[h] = 1 /\ h = g)
    BY <1>1, <1>4, <2>2
  <2> QED BY <1>1, <1>3, <2>1, <2>3
<1>8. KeysAreWished'
  <2>1. ~muddled' => ~muddled
    BY <1>1
  <2> QED BY <1>1, <1>3, <2>1 DEF GiftInv, KeysAreWished
<1> QED BY <1>2, <1>5, <1>6, <1>7, <1>8 DEF GiftInv

LEMMA RestKeeps ==
  ASSUME GiftInv, Forget \/ CloseStage \/ UNCHANGED giftVars
  PROVE  GiftInv'
<1>1. /\ UNCHANGED <<taps, sends, charged, wished, failed, crossed, TapIds, SendIds>>
      /\ (retry' = NoRetry /\ muddled' = TRUE) \/ UNCHANGED <<retry, muddled>>
      /\ stage' \in {"open", "closed"} /\ (stage = "closed" => stage' = "closed")
  BY DEF Forget, CloseStage, giftVars, TapIds, SendIds, GiftInv, GiftsShaped
<1>2. \A b : KeyOf(b)' = KeyOf(b) /\ GiftOf(b)' = GiftOf(b) /\ Charge(b)' = Charge(b)
  BY <1>1 DEF KeyOf, GiftOf, Charge
<1>3. GiftsShaped'
  BY <1>1 DEF GiftInv, GiftsShaped
<1>4. KeysAreOfGifts' /\ FailureIsRemembered' /\ KeysAreWished'
  BY <1>1 DEF GiftInv, KeysAreOfGifts, FailureIsRemembered, KeysAreWished, KeysFor
<1>5. AnswersStand' /\ OneRuns' /\ PastReplay'
  BY <1>1, <1>2 DEF GiftInv, AnswersStand, OneRuns, PastReplay, NotCharged
<1>6. RefusalStands'
  <2> SUFFICES ASSUME NEW b \in SendIds, sends[b].stage = "refused", KeyOf(b) \notin crossed
               PROVE  NotCharged(KeyOf(b)) /\ Barred(b)'
    BY <1>1, <1>2 DEF RefusalStands, NotCharged
  <2>1. NotCharged(KeyOf(b)) /\ Barred(b)
    BY DEF GiftInv, RefusalStands
  <2>2. CoinsOf(charged)' = CoinsOf(charged)
    BY <1>1 DEF CoinsOf
  <2> QED BY <1>1, <1>2, <2>1, <2>2 DEF Barred
<1> QED BY <1>3, <1>4, <1>5, <1>6 DEF GiftInv

-----------------------------------------------------------------------------
LEMMA GiftStep ==
  ASSUME GiftingConstants, GiftInv, [GiftingNext]_giftVars
  PROVE  GiftInv'
BY TapKeeps, ResendKeeps, FailureKeeps, HearKeeps, ReplayKeeps, PostKeeps, RestKeeps DEF GiftingNext

\* Distinct charges of a gift are under distinct keys of its taps.
LEMMA ChargesAreWished == ASSUME GiftInv, ~muddled, NEW g \in Gifts PROVE ChargesFor(g) <= wished[g]
<1> DEFINE C == {c \in charged : c.gift = g}
           K == KeysFor(taps, g)
           f == [c \in C |-> c.key]
<1>1. taps \in Seq(TapRow) /\ charged \in SUBSET Charges
  BY DEF GiftInv, GiftsShaped
<1>2. \A c \in C : c.key \in K
  BY DEF GiftInv, KeysAreOfGifts, KeysFor, TapIds
<1>3. \A c, d \in C : c.key = d.key => c = d
  BY <1>1 DEF Charges
<1>4. IsFiniteSet(K) /\ Cardinality(K) \in Nat /\ Cardinality(K) <= wished[g]
  BY <1>1, KeysFinite DEF GiftInv, KeysAreWished
<1>5. f \in Injection(C, K)
  BY <1>2, <1>3 DEF Injection, IsInjective
<1> HIDE DEF f, K, C
<1>6. IsFiniteSet(C) /\ Cardinality(C) <= Cardinality(K)
  BY <1>4, <1>5, FS_Injection
<1>7. Cardinality(C) \in Nat
  BY <1>6, FS_CardinalityType
<1>8. wished[g] \in Nat
  BY DEF GiftInv, GiftsShaped
<1> QED BY <1>4, <1>6, <1>7, <1>8 DEF ChargesFor, C

LEMMA GiftsTypes == ASSUME GiftingConstants, GiftInv PROVE GiftingTypeOK
<1>1. /\ taps \in Seq(TapRow) /\ Len(taps) \in Nat /\ Len(taps) <= MaxTaps /\ MaxTaps \in Nat
      /\ \A i \in TapIds : taps[i].key \in 1..Len(taps)
  BY DEF GiftInv, GiftsShaped, GiftingConstants
<1>2. \A k \in 1..Len(taps) : k \in 1..MaxTaps
  BY <1>1
<1>3. \A i \in TapIds : taps[i] \in [gift : Gifts, key : 1..MaxTaps,
                                     heard : {"waiting", "ok", "refused", "unknown"}]
  <2> SUFFICES ASSUME NEW i \in TapIds
               PROVE  taps[i] \in [gift : Gifts, key : 1..MaxTaps,
                                   heard : {"waiting", "ok", "refused", "unknown"}]
    OBVIOUS
  <2>1. taps[i] \in TapRow
    BY <1>1 DEF TapIds
  <2>2. taps[i].key \in 1..MaxTaps
    BY <1>1, <1>2
  <2> QED BY <2>1, <2>2 DEF TapRow
<1>4. retry = NoRetry \/ retry \in [gift : Gifts, key : 1..MaxTaps]
  BY <1>3 DEF GiftInv, KeysAreOfGifts
<1>5. \A a \in SendIds : sends[a] \in [tap : TapIds, stage : Under \cup {"ok", "refused", "dead"}]
  <2> SUFFICES ASSUME NEW a \in SendIds
               PROVE  sends[a] \in [tap : TapIds, stage : Under \cup {"ok", "refused", "dead"}]
    OBVIOUS
  <2>1. sends[a] \in SendRow /\ sends[a].tap \in TapIds
    BY DEF GiftInv, GiftsShaped, SendIds
  <2> QED BY <2>1 DEF SendRow
<1>6. charged \subseteq [gift : Gifts, key : 1..MaxTaps]
  <2>1. charged \subseteq Charges
    BY DEF GiftInv, GiftsShaped
  <2>2. \A c \in charged : c.key \in 1..MaxTaps
    BY <1>3 DEF GiftInv, KeysAreOfGifts
  <2> QED BY <2>1, <2>2 DEF Charges
<1> QED BY <1>3, <1>4, <1>5, <1>6 DEF GiftInv, GiftsShaped, GiftingTypeOK

\* For any number of taps and requests, however they are repeated, lost and
\* overtaken, and any prices: the types hold, a viewer pays for what he wished to
\* send, and what he is shown, sent or refused, is true.
THEOREM GiftsAlwaysHold == ASSUME GiftingConstants PROVE GiftingSpec => []GiftsHold
<1>1. GiftingInit => GiftInv
  BY GiftsStart
<1>2. GiftInv /\ [GiftingNext]_giftVars => GiftInv'
  BY GiftStep
<1>3. GiftInv => GiftsHold
  <2> SUFFICES ASSUME GiftInv PROVE GiftsHold
    OBVIOUS
  <2>1. PaidAsWished
    BY ChargesAreWished DEF PaidAsWished
  <2>2. ShownWasSent
    <3> SUFFICES ASSUME NEW i \in TapIds, taps[i].heard = "ok"
                 PROVE  \E c \in charged : c.key = taps[i].key /\ c.gift = taps[i].gift
      BY DEF ShownWasSent
    <3>1. PICK a \in SendIds : sends[a].tap = i /\ Charge(a) \in charged
      BY DEF GiftInv, AnswersStand
    <3> QED BY <3>1 DEF Charge, KeyOf, GiftOf
  <2>3. RefusedWasNotCharged
    <3> SUFFICES ASSUME NEW i \in TapIds, taps[i].heard = "refused", taps[i].key \notin crossed
                 PROVE  NotCharged(taps[i].key)
      BY DEF RefusedWasNotCharged, NotCharged
    <3>1. PICK a \in SendIds : sends[a].tap = i /\ sends[a].stage = "refused"
      BY DEF GiftInv, AnswersStand
    <3> QED BY <3>1 DEF GiftInv, RefusalStands, KeyOf
  <2>4. GiftingTypeOK
    BY GiftsTypes
  <2> QED BY <2>1, <2>2, <2>3, <2>4 DEF GiftsHold, AnswersAreTrue
<1> QED BY <1>1, <1>2, <1>3, PTL DEF GiftingSpec
===============================================================================
