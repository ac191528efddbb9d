---------------------------- MODULE ProgressProofs ----------------------------
(***************************************************************************)
(* What goes on by itself.                                                 *)
(*                                                                         *)
(* PK battles (games/pk.service.ts).  For any hosts, requests and bounds:  *)
(* an answer and a result are final, no host is on one side of two live    *)
(* battles, each accepted invitation has a battle of its own, a result     *)
(* counts its window's gifts, and the statistics tell the results; and all *)
(* of it has its type, the queue included, whose filter is a recursion.    *)
(*                                                                         *)
(* The outbox (infra/outbox.ts, workers/jobs/outboxShipper.ts).  For any   *)
(* number of events, shippers, attempts and mishaps: consumers act only on *)
(* committed events, once unless something went wrong, and what is marked  *)
(* published was handled.                                                  *)
(***************************************************************************)
EXTENDS Progress, Sums, SequenceTheorems

IsBattle(x) ==
    \E h, a, s, d, c, w, k :
        x = [home |-> h, away |-> a, state |-> s, due |-> d, score |-> c, winner |-> w, rank |-> k]
IsInvite(x) ==
    \E f, o, s, l : x = [from |-> f, to |-> o, state |-> s, late |-> l]
IsTx(x) ==
    \E a, i, m, h, w : x = [at |-> a, inv |-> i, moot |-> m, home |-> h, away |-> w]

\* The two tables and the open transactions have their columns.
Shaped ==
    /\ Len(battles) \in Nat /\ DOMAIN battles = 1..Len(battles)
    /\ \A b \in DOMAIN battles : IsBattle(battles[b])
    /\ Len(invites) \in Nat /\ DOMAIN invites = 1..Len(invites)
    /\ \A j \in DOMAIN invites : IsInvite(invites[j])
    /\ DOMAIN tx = Txns /\ \A t \in Txns : IsTx(tx[t])

\* A row an open transaction has locked is pending, and no other has it locked.
LocksHold ==
    \A t \in Txns, j \in DOMAIN invites :
        HoldsInvite(t, j) =>
            /\ Pending(j)
            /\ \A s \in Txns : HoldsInvite(s, j) => s = t

\* Nothing holds an invitation that is not there, and the sweep holds none.
HoldsOwn ==
    \A t \in Txns :
        tx[t].at # "idle" =>
            IF t = Matcher THEN tx[t].inv = 0 /\ tx[t].moot = {} /\ tx[t].at # "moot"
            ELSE /\ tx[t].inv \in DOMAIN invites /\ tx[t].moot \subseteq DOMAIN invites
                 /\ tx[t].home.host = invites[tx[t].inv].from
                 /\ tx[t].away.host = invites[tx[t].inv].to

\* A row inserted and not yet committed clashes with none, committed or not.
NoClash ==
    \A t \in Txns :
        tx[t].at = "inserted" =>
            /\ ~Clashes(t)
            /\ \A s \in Txns \ {t} : tx[s].at = "inserted" => ~SameKey(tx[s], tx[t])

StartInv == Shaped /\ LocksHold /\ HoldsOwn /\ NoClash /\ OnePerSide

-----------------------------------------------------------------------------
\* The row settle writes.
Frozen(x, s, w, c, k) == [x EXCEPT !.state = s, !.winner = w, !.score = c, !.rank = k]

LEMMA BattleFields ==
  ASSUME NEW x, IsBattle(x), NEW s, NEW w, NEW c, NEW k
  PROVE  /\ IsBattle(Frozen(x, s, w, c, k))
         /\ Frozen(x, s, w, c, k).home = x.home /\ Frozen(x, s, w, c, k).away = x.away
         /\ Frozen(x, s, w, c, k).state = s /\ Frozen(x, s, w, c, k).winner = w
         /\ Frozen(x, s, w, c, k).score = c /\ Frozen(x, s, w, c, k).rank = k
<1>1. PICK h, a, s0, d, c0, w0, k0 :
        x = [home |-> h, away |-> a, state |-> s0, due |-> d, score |-> c0, winner |-> w0, rank |-> k0]
  BY DEF IsBattle
<1> DEFINE y == Frozen(x, s, w, c, k)
<1>2. y = [x EXCEPT !.state = s, !.winner = w, !.score = c, !.rank = k]
  BY DEF Frozen
<1> HIDE DEF y
<1>3. y = [home |-> h, away |-> a, state |-> s, due |-> d, score |-> c, winner |-> w, rank |-> k]
  BY <1>1, <1>2
<1>4. IsBattle(y)
  BY <1>3 DEF IsBattle
<1>5. /\ y.home = x.home /\ y.away = x.away /\ y.state = s /\ y.winner = w /\ y.score = c
      /\ y.rank = k
  BY <1>1, <1>3
<1> QED BY <1>4, <1>5 DEF y

LEMMA BattleDue ==
  ASSUME NEW x, IsBattle(x), NEW y, y = [x EXCEPT !.due = TRUE]
  PROVE  /\ IsBattle(y) /\ y.home = x.home /\ y.away = x.away /\ y.state = x.state
         /\ y.score = x.score /\ y.winner = x.winner /\ y.rank = x.rank
         /\ y = [x EXCEPT !.due = y.due]
<1>1. PICK h, a, s, d, c, w, k :
        x = [home |-> h, away |-> a, state |-> s, due |-> d, score |-> c, winner |-> w, rank |-> k]
  BY DEF IsBattle
<1>2. y = [home |-> h, away |-> a, state |-> s, due |-> TRUE, score |-> c, winner |-> w, rank |-> k]
  BY <1>1
<1> QED BY <1>1, <1>2 DEF IsBattle

LEMMA InviteFields ==
  ASSUME NEW x, IsInvite(x), NEW s, NEW y, y = [x EXCEPT !.state = s]
  PROVE  IsInvite(y) /\ y.from = x.from /\ y.to = x.to /\ y.state = s
<1>1. PICK f, o, s0, l : x = [from |-> f, to |-> o, state |-> s0, late |-> l]
  BY DEF IsInvite
<1>2. y = [from |-> f, to |-> o, state |-> s, late |-> l]
  BY <1>1
<1> QED BY <1>1, <1>2 DEF IsInvite

LEMMA InviteLate ==
  ASSUME NEW x, IsInvite(x), NEW y, y = [x EXCEPT !.late = TRUE]
  PROVE  IsInvite(y) /\ y.from = x.from /\ y.to = x.to /\ y.state = x.state
<1>1. PICK f, o, s, l : x = [from |-> f, to |-> o, state |-> s, late |-> l]
  BY DEF IsInvite
<1>2. y = [from |-> f, to |-> o, state |-> s, late |-> TRUE]
  BY <1>1
<1> QED BY <1>1, <1>2 DEF IsInvite

\* A battle that is there keeps its two sides; once settled, only its ends_at passes.
Kept(x, y) ==
    /\ y.home = x.home /\ y.away = x.away
    /\ y.state = "live" => x.state = "live"
    /\ x.state # "live" => y = [x EXCEPT !.due = y.due]

LEMMA KeptAsIs == ASSUME NEW x, IsBattle(x) PROVE Kept(x, x)
BY DEF Kept, IsBattle

\* What a step does to pk_battles: add the row of a transaction that had inserted
\* it, or settle or close what is there.
BattlesAdd(t) ==
    /\ battles' = Append(battles, [home |-> tx[t].home, away |-> tx[t].away, state |-> "live",
                                due |-> FALSE, score |-> <<0, 0>>, winner |-> Nobody, rank |-> 0])
    /\ tx[t].at = "inserted" /\ tx'[t].at = "idle" /\ \A s \in Txns \ {t} : tx'[s] = tx[s]

BattlesStay ==
    /\ DOMAIN battles' = DOMAIN battles /\ Len(battles') = Len(battles)
    /\ \A b \in DOMAIN battles : IsBattle(battles'[b]) /\ Kept(battles[b], battles'[b])

LEMMA Settling ==
  ASSUME Shaped, NEW b \in DOMAIN battles, NEW s \in {"ended", "cancelled"}, Settle(b, s)
  PROVE  BattlesStay
<1>1. CASE Running(b)
  <2> DEFINE y == Frozen(battles[b], s, Winner(b),
                         <<Score(b, battles[b].home.host), Score(b, battles[b].away.host)>>, Rank)
  <2>1. battles' = [battles EXCEPT ![b] = y]
    BY <1>1 DEF Settle, Freeze, Frozen
  <2>2. IsBattle(battles[b])
    BY DEF Shaped
  <2>6. IsBattle(y) /\ y.home = battles[b].home /\ y.away = battles[b].away /\ y.state = s
    BY <2>2, BattleFields
  <2> HIDE DEF y
  <2>3. Kept(battles[b], y)
    BY <1>1, <2>6 DEF Kept, Running
  <2>4. \A z \in DOMAIN battles \ {b} : Kept(battles[z], battles[z]) /\ IsBattle(battles[z])
    BY KeptAsIs DEF Shaped
  <2>5. DOMAIN battles' = DOMAIN battles /\ Len(battles') = Len(battles)
    BY <2>1 DEF Shaped
  <2> QED BY <2>1, <2>3, <2>4, <2>5, <2>6 DEF BattlesStay
<1>2. CASE ~Running(b)
  BY <1>2, KeptAsIs DEF Settle, BattlesStay, Shaped
<1> QED BY <1>1, <1>2

LEMMA Closing ==
  ASSUME Shaped, NEW b \in DOMAIN battles, WindowCloses(b)
  PROVE  BattlesStay
<1> DEFINE y == [battles[b] EXCEPT !.due = TRUE]
<1>1. battles' = [battles EXCEPT ![b] = y]
  BY DEF WindowCloses
<1>2. IsBattle(y) /\ Kept(battles[b], y)
  BY BattleDue DEF Shaped, Kept
<1> HIDE DEF y
<1>3. \A c \in DOMAIN battles \ {b} : Kept(battles[c], battles[c]) /\ IsBattle(battles[c])
  BY KeptAsIs DEF Shaped
<1>4. DOMAIN battles' = DOMAIN battles /\ Len(battles') = Len(battles)
  BY <1>1 DEF Shaped
<1> QED BY <1>1, <1>2, <1>3, <1>4 DEF BattlesStay

LEMMA BattlesMove ==
  ASSUME Shaped, [PkNext]_pkVars
  PROVE  BattlesStay \/ \E t \in Txns : BattlesAdd(t)
<1>1. CASE UNCHANGED battles
  BY <1>1, KeptAsIs DEF BattlesStay, Shaped
<1>2. ASSUME NEW b \in DOMAIN battles, SettleDue(b) \/ Forfeit(b) \/ SettleDoomed(b)
      PROVE  BattlesStay
  BY <1>2, Settling DEF SettleDue, Forfeit, SettleDoomed
<1>3. ASSUME NEW t \in Txns, CommitAccept(t) PROVE BattlesAdd(t)
  BY <1>3 DEF CommitAccept, AddBattle, BattlesAdd, End, Open, Closed, Shaped
<1>4. CASE CommitMatch
  BY <1>4 DEF CommitMatch, AddBattle, BattlesAdd, End, Open, Closed, Shaped, Txns
<1> QED
  BY <1>1, <1>2, <1>3, <1>4, Closing
     DEF PkNext, pkVars, GoLive, CloseRoom, CheckInvite, InsertInvite, CheckJoin, InsertQueueRow,
         LeaveQueue, SendGift, ListBattles, Crash, DeclineInvite, GrowLate, ExpireInvite, Accept,
         MootOthers, InsertBattle, Rollback, Sweep, Pair, CommitGift, Txns

\* What a step does to pk_invites: a row keeps its pair, and once answered its
\* answer; a row added is pending.
InvitesStay ==
    /\ Len(invites') \in Nat /\ DOMAIN invites' = 1..Len(invites')
    /\ DOMAIN invites \subseteq DOMAIN invites'
    /\ \A j \in DOMAIN invites' : IsInvite(invites'[j])
    /\ \A j \in DOMAIN invites :
         /\ invites'[j].from = invites[j].from /\ invites'[j].to = invites[j].to
         /\ ~Pending(j) => invites'[j].state = invites[j].state
    /\ \A j \in DOMAIN invites' \ DOMAIN invites : invites'[j].state = "pending"

\* A pending row that changes was held by no transaction but those that commit.
ChangesFree(ts) ==
    \A j \in DOMAIN invites, s \in Txns \ ts :
        HoldsInvite(s, j) => invites'[j].state = invites[j].state

LEMMA OneAnswer ==
  ASSUME Shaped, NEW j \in DOMAIN invites, NEW s \in {"declined", "expired"},
         Pending(j), FreeInvite(j), Answer(j, s)
  PROVE  InvitesStay /\ ChangesFree({})
<1> DEFINE y == [invites[j] EXCEPT !.state = s]
<1>1. invites' = [invites EXCEPT ![j] = y]
  BY DEF Answer
<1>2. IsInvite(invites[j])
  BY DEF Shaped
<1>3. IsInvite(y) /\ y.from = invites[j].from /\ y.to = invites[j].to
  BY <1>2, InviteFields
<1> HIDE DEF y
<1>4. DOMAIN invites' = DOMAIN invites /\ Len(invites') = Len(invites)
  BY <1>1 DEF Shaped
<1>5. InvitesStay
  BY <1>1, <1>3, <1>4 DEF InvitesStay, Shaped
<1>6. ChangesFree({})
  BY <1>1 DEF ChangesFree, FreeInvite
<1> QED BY <1>5, <1>6

LEMMA Growing ==
  ASSUME Shaped, NEW j \in DOMAIN invites, GrowLate(j)
  PROVE  InvitesStay /\ ChangesFree({})
<1> DEFINE y == [invites[j] EXCEPT !.late = TRUE]
<1>1. invites' = [invites EXCEPT ![j] = y]
  BY DEF GrowLate
<1>2. IsInvite(invites[j])
  BY DEF Shaped
<1>3. IsInvite(y) /\ y.from = invites[j].from /\ y.to = invites[j].to /\ y.state = invites[j].state
  BY <1>2, InviteLate
<1> HIDE DEF y
<1>4. DOMAIN invites' = DOMAIN invites /\ Len(invites') = Len(invites)
  BY <1>1 DEF Shaped
<1>5. InvitesStay
  BY <1>1, <1>3, <1>4 DEF InvitesStay, Shaped
<1>6. ChangesFree({})
  BY <1>1, <1>3 DEF ChangesFree
<1> QED BY <1>5, <1>6

LEMMA Inviting ==
  ASSUME Shaped, NEW h \in Hosts, InsertInvite(h)
  PROVE  InvitesStay /\ ChangesFree({})
<1>1. CASE invites' = invites
  BY <1>1 DEF InvitesStay, ChangesFree, Shaped
<1>2. ASSUME invites' # invites PROVE InvitesStay /\ ChangesFree({})
  <2> DEFINE y == [from |-> h, to |-> draft[h].to, state |-> "pending", late |-> FALSE]
  <2>1. invites' = Append(invites, y)
    BY <1>2 DEF InsertInvite
  <2>2. IsInvite(y)
    BY DEF IsInvite
  <2>3. y.state = "pending"
    OBVIOUS
  <2> HIDE DEF y
  <2>4. /\ Len(invites') = Len(invites) + 1 /\ DOMAIN invites' = 1..(Len(invites) + 1)
        /\ \A j \in DOMAIN invites : invites'[j] = invites[j]
        /\ invites'[Len(invites) + 1] = y
    BY <2>1 DEF Shaped
  <2> QED BY <2>2, <2>3, <2>4 DEF InvitesStay, ChangesFree, Shaped
<1> QED BY <1>1, <1>2

\* The commit of acceptInvite answers what it holds: its own invitation is
\* accepted, the others of either host are expired.
LEMMA Accepting ==
  ASSUME Shaped, LocksHold, NEW t \in Txns, tx[t].at # "idle", AnswerAll(t)
  PROVE  /\ InvitesStay /\ ChangesFree({t}) /\ DOMAIN invites' = DOMAIN invites
         /\ \A j \in DOMAIN invites : (invites'[j].state = "accepted")
               <=> (invites[j].state = "accepted" \/ j = tx[t].inv)
<1> DEFINE s(j) == IF j = tx[t].inv THEN "accepted" ELSE "expired"
           y(j) == [invites[j] EXCEPT !.state = s(j)]
           held == {tx[t].inv} \cup tx[t].moot
<1>1. invites' = [j \in DOMAIN invites |-> IF j \in held THEN y(j) ELSE invites[j]]
  BY DEF AnswerAll
<1>2. ASSUME NEW j \in DOMAIN invites
      PROVE  /\ IsInvite(y(j)) /\ y(j).state = s(j)
             /\ y(j).from = invites[j].from /\ y(j).to = invites[j].to
  <2>1. IsInvite(invites[j])
    BY DEF Shaped
  <2> QED BY <2>1, InviteFields
<1>3. \A j \in DOMAIN invites : j \in held <=> HoldsInvite(t, j)
  BY DEF HoldsInvite
<1> HIDE DEF y
<1>4. DOMAIN invites' = DOMAIN invites
  BY <1>1
<1>5. Len(invites') = Len(invites)
  BY <1>4 DEF Shaped
<1>6. \A j \in DOMAIN invites : invites'[j] = IF j \in held THEN y(j) ELSE invites[j]
  BY <1>1
<1> HIDE DEF held
<1>7. InvitesStay
  BY <1>2, <1>3, <1>4, <1>5, <1>6 DEF InvitesStay, Shaped, LocksHold
<1>8. ChangesFree({t})
  BY <1>3, <1>6 DEF ChangesFree, LocksHold
<1>9. ASSUME NEW j \in DOMAIN invites
      PROVE  (invites'[j].state = "accepted") <=> (invites[j].state = "accepted" \/ j = tx[t].inv)
  <2>1. CASE j \in held
    <3>1. invites'[j].state = s(j) /\ invites[j].state = "pending"
      BY <1>2, <1>3, <1>6, <2>1 DEF LocksHold, Pending
    <3> QED BY <3>1
  <2>2. CASE j \notin held
    BY <1>6, <2>2 DEF held
  <2> QED BY <2>1, <2>2
<1> QED BY <1>4, <1>7, <1>8, <1>9

LEMMA InvitesMove ==
  ASSUME Shaped, LocksHold, [PkNext]_pkVars
  PROVE  /\ InvitesStay
         /\ \/ ChangesFree({})
            \/ \E t \in Txns : ChangesFree({t}) /\ CommitAccept(t)
<1>1. CASE UNCHANGED invites
  BY <1>1 DEF InvitesStay, ChangesFree, Shaped
<1>2. ASSUME NEW j \in DOMAIN invites, DeclineInvite(j) \/ ExpireInvite(j)
      PROVE  InvitesStay /\ ChangesFree({})
  BY <1>2, OneAnswer DEF DeclineInvite, ExpireInvite
<1>3. ASSUME NEW t \in Txns, CommitAccept(t) PROVE InvitesStay /\ ChangesFree({t})
  BY <1>3, Accepting DEF CommitAccept
<1> QED
  BY <1>1, <1>2, <1>3, Growing, Inviting
     DEF PkNext, pkVars, GoLive, CloseRoom, CheckInvite, CheckJoin, InsertQueueRow, LeaveQueue,
         SendGift, ListBattles, Crash, Accept, MootOthers, InsertBattle, CommitMatch, Rollback,
         Sweep, Pair, CommitGift, WindowCloses, SettleDue, Forfeit, SettleDoomed

-----------------------------------------------------------------------------
(* The open transactions                                                   *)

\* A transaction goes on: what it holds and whom it pairs stay as they are.
GoesOn(s) ==
    /\ tx'[s].inv = tx[s].inv /\ tx'[s].moot = tx[s].moot
    /\ tx'[s].home = tx[s].home /\ tx'[s].away = tx[s].away
    /\ tx[s].at # "idle" /\ (tx'[s].at = "moot" => tx[s].at = "moot")

\* It stays at its stage, ends, or goes on to have inserted its battle.
Waits(s)  == tx'[s] = tx[s]
Ends(s)   == tx'[s].at = "idle"
Inserts(s) == /\ GoesOn(s) /\ tx'[s].at = "inserted" /\ IndexFree(s) /\ ~Clashes(s)
              /\ \A z \in Txns \ {s} : Waits(z)
              /\ UNCHANGED <<battles, invites>>
Tidy == /\ DOMAIN tx' = Txns
        /\ \A s \in Txns : IsTx(tx'[s]) /\ (Waits(s) \/ Ends(s) \/ Inserts(s))

LEMMA ClosedIsTx == IsTx(Closed) /\ Closed.at = "idle"
BY DEF Closed, IsTx

LEMMA Ending ==
  ASSUME Shaped, NEW t \in Txns, End(t)
  PROVE  Tidy
BY ClosedIsTx DEF End, Open, Tidy, Waits, Ends, Shaped

LEMMA TxAt ==
  ASSUME NEW x, IsTx(x), NEW a, NEW y, y = [x EXCEPT !.at = a]
  PROVE  /\ IsTx(y) /\ y.at = a /\ y.inv = x.inv /\ y.moot = x.moot
         /\ y.home = x.home /\ y.away = x.away
<1>1. PICK b, i, n, h, w : x = [at |-> b, inv |-> i, moot |-> n, home |-> h, away |-> w]
  BY DEF IsTx
<1>2. y = [at |-> a, inv |-> i, moot |-> n, home |-> h, away |-> w]
  BY <1>1
<1> QED BY <1>1, <1>2 DEF IsTx

\* What expiring the others makes of an accept.
Mooted(x, m) == [x EXCEPT !.at = "insert", !.moot = m]

LEMMA TxMoot ==
  ASSUME NEW x, IsTx(x), NEW m
  PROVE  /\ IsTx(Mooted(x, m)) /\ Mooted(x, m).at = "insert" /\ Mooted(x, m).inv = x.inv
         /\ Mooted(x, m).moot = m /\ Mooted(x, m).home = x.home /\ Mooted(x, m).away = x.away
<1>1. PICK b, i, n, h, w : x = [at |-> b, inv |-> i, moot |-> n, home |-> h, away |-> w]
  BY DEF IsTx
<1> DEFINE y == Mooted(x, m)
<1>2. y = [x EXCEPT !.at = "insert", !.moot = m]
  BY DEF Mooted
<1> HIDE DEF y
<1>3. y = [at |-> "insert", inv |-> i, moot |-> m, home |-> h, away |-> w]
  BY <1>1, <1>2
<1>4. IsTx(y)
  BY <1>3 DEF IsTx
<1>5. /\ y.at = "insert" /\ y.inv = x.inv /\ y.moot = m
      /\ y.home = x.home /\ y.away = x.away
  BY <1>1, <1>3
<1> QED BY <1>4, <1>5 DEF y

LEMMA Inserting ==
  ASSUME Shaped, NEW t \in Txns, InsertBattle(t)
  PROVE  Tidy
<1>1. CASE Clashes(t)
  BY <1>1, Ending DEF InsertBattle
<1>2. CASE ~Clashes(t)
  <2> DEFINE y == [tx[t] EXCEPT !.at = "inserted"]
  <2>1. tx' = [tx EXCEPT ![t] = y] /\ tx[t].at = "insert" /\ UNCHANGED <<battles, invites>>
    BY <1>2 DEF InsertBattle, Open
  <2>2. IsTx(tx[t])
    BY DEF Shaped
  <2>3. /\ IsTx(y) /\ y.at = "inserted" /\ y.inv = tx[t].inv /\ y.moot = tx[t].moot
        /\ y.home = tx[t].home /\ y.away = tx[t].away
    BY <2>2, TxAt
  <2> HIDE DEF y
  <2>4. DOMAIN tx' = Txns /\ tx'[t] = y /\ \A s \in Txns \ {t} : tx'[s] = tx[s]
    BY <2>1 DEF Shaped
  <2>5. IndexFree(t)
    BY DEF InsertBattle
  <2>6. Inserts(t)
    BY <1>2, <2>1, <2>3, <2>4, <2>5 DEF Inserts, GoesOn, Waits
  <2> QED BY <2>3, <2>4, <2>6 DEF Tidy, Waits, Shaped
<1> QED BY <1>1, <1>2

LEMMA TxMove ==
  ASSUME Shaped, [PkNext]_pkVars
  PROVE  \/ Tidy
         \/ \E t \in Taps, j \in DOMAIN invites : Accept(t, j)
         \/ \E t \in Txns : MootOthers(t)
         \/ Pair
<1>1. CASE UNCHANGED tx
  BY <1>1 DEF Tidy, Waits, Shaped
<1>2. ASSUME NEW t \in Txns, CommitAccept(t) \/ Rollback(t) PROVE Tidy
  BY <1>2, Ending DEF CommitAccept, Rollback
<1>3. CASE CommitMatch
  BY <1>3, Ending DEF CommitMatch, Txns
<1> QED
  BY <1>1, <1>2, <1>3, Inserting
     DEF PkNext, pkVars, GoLive, CloseRoom, CheckInvite, InsertInvite, CheckJoin, InsertQueueRow,
         LeaveQueue, SendGift, ListBattles, Crash, DeclineInvite, GrowLate, ExpireInvite,
         Sweep, CommitGift, WindowCloses, SettleDue, Forfeit, SettleDoomed, Txns

LEMMA HoldsKeep ==
  ASSUME Shaped, LocksHold, HoldsOwn, [PkNext]_pkVars
  PROVE  LocksHold' /\ HoldsOwn'
<1>0. InvitesStay
  BY InvitesMove
<1>1. CASE Tidy
  <2>1. ASSUME NEW s \in Txns, ~Ends(s)
        PROVE  /\ tx[s].at # "idle" \/ tx'[s] = tx[s]
               /\ tx'[s].inv = tx[s].inv /\ tx'[s].moot = tx[s].moot
               /\ tx'[s].home = tx[s].home /\ tx'[s].away = tx[s].away
               /\ tx'[s].at = "moot" => tx[s].at = "moot"
    BY <1>1, <2>1 DEF Tidy, Waits, Inserts, GoesOn
  <2>2. ASSUME NEW s \in Txns, ~Ends(s) PROVE tx[s].at # "idle"
    BY <1>1, <2>1, <2>2 DEF Ends
  <2>3. HoldsOwn'
    <3> SUFFICES ASSUME NEW s \in Txns, tx'[s].at # "idle"
                 PROVE  IF s = Matcher
                        THEN tx'[s].inv = 0 /\ tx'[s].moot = {} /\ tx'[s].at # "moot"
                        ELSE /\ tx'[s].inv \in DOMAIN invites'
                             /\ tx'[s].moot \subseteq DOMAIN invites'
                             /\ tx'[s].home.host = invites'[tx'[s].inv].from
                             /\ tx'[s].away.host = invites'[tx'[s].inv].to
      BY DEF HoldsOwn
    <3>1. ~Ends(s)
      BY DEF Ends
    <3> QED BY <1>0, <2>1, <2>2, <3>1 DEF HoldsOwn, InvitesStay
  <2>4. ASSUME NEW s \in Txns, NEW j \in DOMAIN invites', HoldsInvite(s, j)'
        PROVE  HoldsInvite(s, j) /\ ~Ends(s) /\ j \in DOMAIN invites
    <3>1. ~Ends(s)
      BY <2>4 DEF HoldsInvite, Ends
    <3>2. HoldsInvite(s, j)
      BY <2>1, <2>2, <2>4, <3>1 DEF HoldsInvite
    <3>3. j # 0
      BY <1>0 DEF InvitesStay
    <3> QED BY <3>1, <3>2, <3>3 DEF HoldsOwn, HoldsInvite
  <2>5. ASSUME NEW s \in Txns, NEW j \in DOMAIN invites', HoldsInvite(s, j)'
        PROVE  Pending(j)'
    <3>1. HoldsInvite(s, j) /\ ~Ends(s) /\ j \in DOMAIN invites
      BY <2>4, <2>5
    <3>2. CASE ChangesFree({})
      BY <3>1, <3>2 DEF ChangesFree, LocksHold, Pending
    <3>3. ASSUME NEW t \in Txns, ChangesFree({t}), CommitAccept(t) PROVE Pending(j)'
      <4>1. Ends(t)
        BY <3>3 DEF CommitAccept, End, Open, Closed, Ends, Shaped
      <4> QED BY <3>1, <3>3, <4>1 DEF ChangesFree, LocksHold, Pending
    <3> QED BY <3>2, <3>3, InvitesMove
  <2>6. LocksHold'
    BY <2>4, <2>5 DEF LocksHold
  <2> QED BY <2>3, <2>6
<1>2. ASSUME NEW t \in Taps, NEW j \in DOMAIN invites, Accept(t, j) PROVE LocksHold' /\ HoldsOwn'
  <2>1. /\ invites' = invites /\ t \in Txns /\ t # Matcher /\ tx[t].at = "idle"
        /\ tx' = [tx EXCEPT ![t] = [at |-> "moot", inv |-> j, moot |-> {},
                home |-> Side(invites[j].from), away |-> Side(invites[j].to)]]
    BY <1>2, PkConstants DEF Accept, Open, Txns
  <2>2. /\ tx'[t].at = "moot" /\ tx'[t].inv = j /\ tx'[t].moot = {}
        /\ tx'[t].home.host = invites[j].from /\ tx'[t].away.host = invites[j].to
        /\ \A s \in Txns \ {t} : tx'[s] = tx[s]
    BY <2>1 DEF Shaped, Side
  <2>3. HoldsOwn'
    BY <2>1, <2>2 DEF HoldsOwn
  <2>4. \A s \in Txns, i \in DOMAIN invites : HoldsInvite(s, i)'
           <=> IF s = t THEN i = j ELSE HoldsInvite(s, i)
    BY <2>1, <2>2 DEF HoldsInvite
  <2>5. Pending(j) /\ \A s \in Txns : ~HoldsInvite(s, j)
    BY <1>2 DEF Accept, FreeInvite
  <2>6. \A i \in DOMAIN invites : Pending(i)' <=> Pending(i)
    BY <2>1 DEF Pending
  <2> QED BY <2>1, <2>3, <2>4, <2>5, <2>6 DEF LocksHold
<1>3. ASSUME NEW t \in Txns, MootOthers(t) PROVE LocksHold' /\ HoldsOwn'
  <2> DEFINE others == {j \in DOMAIN invites \ {tx[t].inv} :
                 Pending(j) /\ {invites[j].from, invites[j].to} \cap HostsOf(tx[t]) # {}}
             y == Mooted(tx[t], others)
  <2>1. /\ invites' = invites /\ tx[t].at = "moot" /\ t # Matcher
        /\ tx' = [tx EXCEPT ![t] = y]
        /\ \A s \in Txns \ {t}, j \in others : ~HoldsInvite(s, j)
    BY <1>3 DEF MootOthers, Open, HoldsOwn, Mooted
  <2>2. others \subseteq DOMAIN invites /\ \A j \in others : Pending(j)
    OBVIOUS
  <2> HIDE DEF others
  <2>4. IsTx(tx[t])
    BY DEF Shaped
  <2>5. /\ y.at = "insert" /\ y.inv = tx[t].inv /\ y.moot = others
        /\ y.home = tx[t].home /\ y.away = tx[t].away
    BY <2>4, TxMoot
  <2> HIDE DEF y
  <2>6. tx'[t] = y /\ \A s \in Txns \ {t} : tx'[s] = tx[s]
    BY <2>1 DEF Shaped
  <2>7. HoldsOwn'
    BY <2>1, <2>2, <2>5, <2>6 DEF HoldsOwn
  <2>8. \A s \in Txns, i \in DOMAIN invites : HoldsInvite(s, i)'
           => HoldsInvite(s, i) \/ (s = t /\ i \in others)
    BY <2>1, <2>5, <2>6 DEF HoldsInvite
  <2>9. \A i \in DOMAIN invites : Pending(i)' <=> Pending(i)
    BY <2>1 DEF Pending
  <2> QED BY <2>1, <2>2, <2>7, <2>8, <2>9 DEF LocksHold
<1>4. CASE Pair
  <2>1. CASE tx' = tx
    BY <1>4, <2>1 DEF Pair, LocksHold, HoldsOwn, HoldsInvite, Pending
  <2>2. ASSUME tx' # tx PROVE LocksHold' /\ HoldsOwn'
    <3>1. /\ tx' = [tx EXCEPT ![Matcher] = [Closed EXCEPT !.at = "insert", !.home = waiting[1],
                                                          !.away = waiting[2]]]
          /\ invites' = invites /\ Matcher \in Txns
      BY <1>4, <2>2 DEF Pair, Open, Txns
    <3>2. /\ tx'[Matcher].inv = 0 /\ tx'[Matcher].moot = {} /\ tx'[Matcher].at = "insert"
          /\ \A s \in Txns \ {Matcher} : tx'[s] = tx[s]
      BY <3>1 DEF Shaped, Closed
    <3>3. HoldsOwn'
      BY <3>1, <3>2 DEF HoldsOwn
    <3>4. \A s \in Txns, i \in DOMAIN invites : HoldsInvite(s, i)' => HoldsInvite(s, i)
      BY <3>1, <3>2 DEF HoldsInvite, Shaped
    <3> QED BY <3>1, <3>3, <3>4 DEF LocksHold, Pending
  <2> QED BY <2>1, <2>2
<1> QED BY <1>1, <1>2, <1>3, <1>4, TxMove

\* What the sweep opens for two hosts.
Paired(h, w) == [Closed EXCEPT !.at = "insert", !.home = h, !.away = w]

LEMMA PairedIsTx == ASSUME NEW h, NEW w PROVE IsTx(Paired(h, w)) /\ Paired(h, w).at # "inserted"
<1> DEFINE y == Paired(h, w)
           c == [at |-> "idle", inv |-> 0, moot |-> {}, home |-> Nobody, away |-> Nobody]
<1>1. y = [c EXCEPT !.at = "insert", !.home = h, !.away = w]
  BY DEF Paired, Closed
<1> HIDE DEF y
<1>2. y = [at |-> "insert", inv |-> 0, moot |-> {}, home |-> h, away |-> w]
  BY <1>1
<1>3. IsTx(y)
  BY <1>2 DEF IsTx
<1>4. y.at # "inserted"
  BY <1>2
<1> QED BY <1>3, <1>4 DEF y

\* A transaction found to have inserted had done so, or does it now.
LEMMA TxKeeps ==
  ASSUME Shaped, [PkNext]_pkVars
  PROVE  /\ DOMAIN tx' = Txns /\ \A s \in Txns : IsTx(tx'[s])
         /\ \A s \in Txns : tx'[s].at = "inserted" => Waits(s) \/ Inserts(s)
<1>1. CASE Tidy
  BY <1>1 DEF Tidy, Ends
<1>2. ASSUME NEW t \in Txns, NEW x, Open(t, x), IsTx(x), x.at # "inserted"
      PROVE  /\ DOMAIN tx' = Txns /\ \A s \in Txns : IsTx(tx'[s])
             /\ \A s \in Txns : tx'[s].at = "inserted" => Waits(s) \/ Inserts(s)
  BY <1>2 DEF Open, Shaped, Waits
<1>3. ASSUME NEW t \in Taps, NEW j \in DOMAIN invites, Accept(t, j)
      PROVE  \E x : Open(t, x) /\ IsTx(x) /\ x.at # "inserted"
  <2> DEFINE x == [at |-> "moot", inv |-> j, moot |-> {},
                   home |-> Side(invites[j].from), away |-> Side(invites[j].to)]
  <2>1. Open(t, x) /\ x.at # "inserted"
    BY <1>3 DEF Accept
  <2>2. IsTx(x)
    BY DEF IsTx
  <2> QED BY <2>1, <2>2
<1>4. ASSUME NEW t \in Txns, MootOthers(t)
      PROVE  \E x : Open(t, x) /\ IsTx(x) /\ x.at # "inserted"
  <2>1. PICK m : Open(t, Mooted(tx[t], m))
    BY <1>4 DEF MootOthers, Mooted
  <2>2. IsTx(tx[t])
    BY DEF Shaped
  <2>3. IsTx(Mooted(tx[t], m)) /\ Mooted(tx[t], m).at # "inserted"
    BY <2>2, TxMoot
  <2> QED BY <2>1, <2>3
<1>5. ASSUME Pair, ~Tidy
      PROVE  \E x : Open(Matcher, x) /\ IsTx(x) /\ x.at # "inserted"
  <2>1. Open(Matcher, Paired(waiting[1], waiting[2]))
    BY <1>5 DEF Pair, Tidy, Waits, Shaped, Paired
  <2> QED BY <2>1, PairedIsTx
<1> QED BY <1>1, <1>2, <1>3, <1>4, <1>5, TxMove DEF Txns

LEMMA ShapeKeeps ==
  ASSUME Shaped, LocksHold, [PkNext]_pkVars
  PROVE  Shaped'
<1>1. Len(battles') \in Nat /\ DOMAIN battles' = 1..Len(battles')
      /\ \A b \in DOMAIN battles' : IsBattle(battles'[b])
  <2>1. CASE BattlesStay
    BY <2>1 DEF BattlesStay, Shaped
  <2>2. ASSUME NEW t \in Txns, BattlesAdd(t)
        PROVE  Len(battles') \in Nat /\ DOMAIN battles' = 1..Len(battles')
               /\ \A b \in DOMAIN battles' : IsBattle(battles'[b])
    <3> DEFINE y == [home |-> tx[t].home, away |-> tx[t].away, state |-> "live",
                     due |-> FALSE, score |-> <<0, 0>>, winner |-> Nobody, rank |-> 0]
    <3>1. battles' = Append(battles, y)
      BY <2>2 DEF BattlesAdd
    <3>2. IsBattle(y)
      BY DEF IsBattle
    <3> HIDE DEF y
    <3> QED BY <3>1, <3>2 DEF Shaped
  <2> QED BY <2>1, <2>2, BattlesMove
<1>2. InvitesStay
  BY InvitesMove
<1> QED BY <1>1, <1>2, TxKeeps DEF Shaped, InvitesStay

LEMMA AddedRow ==
  ASSUME Shaped, NEW t \in Txns, BattlesAdd(t)
  PROVE  /\ DOMAIN battles' = 1..(Len(battles) + 1)
         /\ \A b \in DOMAIN battles : battles'[b] = battles[b]
         /\ battles'[Len(battles) + 1].home = tx[t].home
         /\ battles'[Len(battles) + 1].away = tx[t].away
         /\ DOMAIN battles' = DOMAIN battles \cup {Len(battles) + 1}
         /\ Len(battles) + 1 \notin DOMAIN battles
<1>1. /\ DOMAIN battles' = 1..(Len(battles) + 1)
      /\ \A b \in DOMAIN battles : battles'[b] = battles[b]
      /\ battles'[Len(battles) + 1].home = tx[t].home
      /\ battles'[Len(battles) + 1].away = tx[t].away
  BY DEF Shaped, BattlesAdd
<1>2. /\ 1..(Len(battles) + 1) = DOMAIN battles \cup {Len(battles) + 1}
      /\ Len(battles) + 1 \notin DOMAIN battles
  BY DEF Shaped
<1> QED BY <1>1, <1>2

LEMMA SidesKeep ==
  ASSUME Shaped, LocksHold, NoClash, OnePerSide, [PkNext]_pkVars
  PROVE  NoClash' /\ OnePerSide'
<1>1. CASE BattlesStay
  <2>1. ASSUME NEW b \in DOMAIN battles'
        PROVE  /\ b \in DOMAIN battles /\ (Running(b)' => Running(b))
               /\ battles'[b].home = battles[b].home /\ battles'[b].away = battles[b].away
    BY <1>1, <2>1 DEF BattlesStay, Kept, Running
  <2>2. OnePerSide'
    BY <2>1 DEF OnePerSide, SameKey
  <2>3. ASSUME NEW t \in Txns, tx'[t].at = "inserted"
        PROVE  ~Clashes(t) /\ tx'[t].home = tx[t].home /\ tx'[t].away = tx[t].away
    BY <2>3, TxKeeps DEF Waits, Inserts, GoesOn, NoClash
  <2>4. ASSUME NEW t \in Txns, tx'[t].at = "inserted" PROVE ~Clashes(t)'
    BY <2>1, <2>3, <2>4 DEF Clashes, SameKey
  <2>5. ASSUME NEW t \in Txns, NEW s \in Txns \ {t}, tx'[t].at = "inserted", tx'[s].at = "inserted"
        PROVE  ~SameKey(tx'[s], tx'[t])
    <3>1. CASE Waits(s) /\ Waits(t)
      BY <2>5, <3>1 DEF Waits, NoClash
    <3>2. CASE Inserts(t)
      <4>1. tx'[s] = tx[s] /\ IndexFree(t)
        BY <2>5, <3>2 DEF Inserts, Waits
      <4> QED BY <2>3, <2>5, <4>1 DEF IndexFree, SameKey
    <3>3. CASE Inserts(s)
      <4>1. tx'[t] = tx[t] /\ IndexFree(s)
        BY <2>5, <3>3 DEF Inserts, Waits
      <4> QED BY <2>3, <2>5, <4>1 DEF IndexFree, SameKey
    <3> QED BY <2>5, <3>1, <3>2, <3>3, TxKeeps
  <2> QED BY <2>2, <2>4, <2>5 DEF NoClash
<1>2. ASSUME NEW t \in Txns, BattlesAdd(t) PROVE NoClash' /\ OnePerSide'
  <2> DEFINE n == Len(battles) + 1
  <2>1. /\ DOMAIN battles' = DOMAIN battles \cup {n} /\ n \notin DOMAIN battles
        /\ \A b \in DOMAIN battles : battles'[b] = battles[b]
        /\ battles'[n].home = tx[t].home /\ battles'[n].away = tx[t].away
    BY <1>2, AddedRow
  <2> HIDE DEF n
  <2>2. tx[t].at = "inserted" /\ tx'[t].at = "idle" /\ \A s \in Txns \ {t} : tx'[s] = tx[s]
    BY <1>2 DEF BattlesAdd
  <2>3. \A b \in DOMAIN battles : Running(b)' <=> Running(b)
    BY <2>1 DEF Running
  <2>4. \A b \in DOMAIN battles : Running(b) => ~SameKey(battles[b], tx[t])
    BY <2>2 DEF NoClash, Clashes
  <2>5. OnePerSide'
    BY <2>1, <2>3, <2>4 DEF OnePerSide, SameKey
  <2>6. ASSUME NEW s \in Txns, tx'[s].at = "inserted"
        PROVE  /\ s # t /\ tx'[s] = tx[s] /\ ~Clashes(s) /\ ~SameKey(tx[t], tx[s])
               /\ \A z \in Txns \ {s} : tx[z].at = "inserted" => ~SameKey(tx[z], tx[s])
    BY <2>2, <2>6 DEF NoClash
  <2>7. ASSUME NEW s \in Txns, tx'[s].at = "inserted" PROVE ~Clashes(s)'
    BY <2>1, <2>3, <2>6, <2>7 DEF Clashes, SameKey
  <2> QED BY <2>2, <2>5, <2>6, <2>7 DEF NoClash
<1> QED BY <1>1, <1>2, BattlesMove

-----------------------------------------------------------------------------
(* Accepted invitations and their battles                                  *)

AcceptedOf(f, o) == {j \in DOMAIN invites : invites[j].state = "accepted"
                        /\ invites[j].from = f /\ invites[j].to = o}
StartedOf(f, o)  == {b \in DOMAIN battles : battles[b].home.host = f
                        /\ battles[b].away.host = o}

LEMMA Finite ==
  ASSUME Shaped, NEW f, NEW o
  PROVE  /\ IsFiniteSet(AcceptedOf(f, o)) /\ Cardinality(AcceptedOf(f, o)) \in Nat
         /\ IsFiniteSet(StartedOf(f, o)) /\ Cardinality(StartedOf(f, o)) \in Nat
<1>1. IsFiniteSet(DOMAIN invites) /\ IsFiniteSet(DOMAIN battles)
  BY FS_Interval DEF Shaped
<1>2. AcceptedOf(f, o) \in SUBSET DOMAIN invites /\ StartedOf(f, o) \in SUBSET DOMAIN battles
  BY DEF AcceptedOf, StartedOf
<1>3. IsFiniteSet(AcceptedOf(f, o)) /\ IsFiniteSet(StartedOf(f, o))
  BY <1>1, <1>2, FS_Subset
<1> QED BY <1>3, FS_CardinalityType

\* Only acceptInvite's commit makes an invitation accepted.
LEMMA NoneAccepted ==
  ASSUME Shaped, [PkNext]_pkVars, \A t \in Txns : ~CommitAccept(t),
         NEW j \in DOMAIN invites', invites'[j].state = "accepted"
  PROVE  j \in DOMAIN invites /\ invites[j].state = "accepted"
<1>1. CASE UNCHANGED invites
  BY <1>1
<1>2. ASSUME NEW i \in DOMAIN invites, NEW y, invites' = [invites EXCEPT ![i] = y],
             y.state # "accepted" \/ y.state = invites[i].state
      PROVE  j \in DOMAIN invites /\ invites[j].state = "accepted"
  BY <1>2
<1>3. ASSUME NEW i \in DOMAIN invites, DeclineInvite(i) \/ ExpireInvite(i) \/ GrowLate(i)
      PROVE  \E y : /\ invites' = [invites EXCEPT ![i] = y]
                    /\ y.state # "accepted" \/ y.state = invites[i].state
  <2>1. IsInvite(invites[i])
    BY DEF Shaped
  <2>2. CASE GrowLate(i)
    <3> DEFINE y == [invites[i] EXCEPT !.late = TRUE]
    <3>1. y.state = invites[i].state
      BY <2>1, InviteLate
    <3>2. invites' = [invites EXCEPT ![i] = y]
      BY <2>2 DEF GrowLate
    <3> QED BY <3>1, <3>2
  <2>3. ASSUME NEW s \in {"declined", "expired"}, Answer(i, s)
        PROVE  \E y : invites' = [invites EXCEPT ![i] = y] /\ y.state # "accepted"
    <3> DEFINE y == [invites[i] EXCEPT !.state = s]
    <3>1. y.state = s
      BY <2>1, InviteFields
    <3>2. invites' = [invites EXCEPT ![i] = y]
      BY <2>3 DEF Answer
    <3> QED BY <3>1, <3>2
  <2> QED BY <1>3, <2>2, <2>3 DEF DeclineInvite, ExpireInvite
<1>4. ASSUME NEW h \in Hosts, InsertInvite(h)
      PROVE  j \in DOMAIN invites /\ invites[j].state = "accepted"
  <2> DEFINE y == [from |-> h, to |-> draft[h].to, state |-> "pending", late |-> FALSE]
  <2>1. invites' = invites \/ invites' = Append(invites, y)
    BY <1>4 DEF InsertInvite
  <2>2. y.state = "pending"
    OBVIOUS
  <2> HIDE DEF y
  <2> QED BY <2>1, <2>2 DEF Shaped
<1> QED
  BY <1>1, <1>2, <1>3, <1>4
     DEF PkNext, pkVars, GoLive, CloseRoom, CheckInvite, CheckJoin, InsertQueueRow, LeaveQueue,
         SendGift, ListBattles, Crash, Accept, MootOthers, InsertBattle, CommitMatch, Rollback,
         Sweep, Pair, CommitGift, WindowCloses, SettleDue, Forfeit, SettleDoomed

\* A step accepts no invitation, or the one whose battle it starts.
LEMMA AcceptedKeeps ==
  ASSUME Shaped, LocksHold, HoldsOwn, [PkNext]_pkVars, NEW f \in Hosts, NEW o \in Hosts,
         Cardinality(AcceptedOf(f, o)) <= Cardinality(StartedOf(f, o))
  PROVE  Cardinality(AcceptedOf(f, o))' <= Cardinality(StartedOf(f, o))'
<1>0. InvitesStay
  BY InvitesMove
<1>1. ASSUME NEW t \in Txns, CommitAccept(t)
      PROVE  Cardinality(AcceptedOf(f, o))' <= Cardinality(StartedOf(f, o))'
  <2> DEFINE n == Len(battles) + 1
             i == tx[t].inv
  <2>1. /\ BattlesAdd(t) /\ AnswerAll(t) /\ tx[t].at # "idle" /\ t # Matcher
    BY <1>1, PkConstants DEF CommitAccept, AddBattle, BattlesAdd, End, Open, Closed, Shaped
  <2>2. /\ i \in DOMAIN invites
        /\ tx[t].home.host = invites[i].from /\ tx[t].away.host = invites[i].to
        /\ invites[i].state = "pending"
    BY <2>1 DEF HoldsOwn, LocksHold, HoldsInvite, Pending
  <2>3. /\ DOMAIN invites' = DOMAIN invites
        /\ \A j \in DOMAIN invites : (invites'[j].state = "accepted")
               <=> (invites[j].state = "accepted" \/ j = i)
    BY <2>1, Accepting
  <2>4. /\ DOMAIN battles' = DOMAIN battles \cup {n} /\ n \notin DOMAIN battles
        /\ \A b \in DOMAIN battles : battles'[b] = battles[b]
        /\ battles'[n].home = tx[t].home /\ battles'[n].away = tx[t].away
    BY <2>1, AddedRow
  <2> HIDE DEF n, i
  <2>5. CASE invites[i].from = f /\ invites[i].to = o
    <3>1. AcceptedOf(f, o)' = AcceptedOf(f, o) \cup {i} /\ i \notin AcceptedOf(f, o)
      BY <1>0, <2>2, <2>3, <2>5 DEF AcceptedOf, InvitesStay
    <3>2. StartedOf(f, o)' = StartedOf(f, o) \cup {n} /\ n \notin StartedOf(f, o)
      BY <2>2, <2>4, <2>5 DEF StartedOf
    <3>3. /\ Cardinality(AcceptedOf(f, o) \cup {i}) = Cardinality(AcceptedOf(f, o)) + 1
          /\ Cardinality(StartedOf(f, o) \cup {n}) = Cardinality(StartedOf(f, o)) + 1
      BY <3>1, <3>2, Finite, FS_AddElement
    <3> QED BY <3>1, <3>2, <3>3, Finite
  <2>6. CASE ~(invites[i].from = f /\ invites[i].to = o)
    <3>1. AcceptedOf(f, o)' = AcceptedOf(f, o)
      BY <1>0, <2>2, <2>3, <2>6 DEF AcceptedOf, InvitesStay
    <3>2. StartedOf(f, o)' = StartedOf(f, o)
      BY <2>2, <2>4, <2>6 DEF StartedOf
    <3> QED BY <3>1, <3>2
  <2> QED BY <2>5, <2>6
<1>2. ASSUME \A t \in Txns : ~CommitAccept(t)
      PROVE  Cardinality(AcceptedOf(f, o))' <= Cardinality(StartedOf(f, o))'
  <2>1. AcceptedOf(f, o)' = AcceptedOf(f, o)
    <3>1. \A j \in DOMAIN invites' : invites'[j].state = "accepted"
             => j \in DOMAIN invites /\ invites[j].state = "accepted"
      BY <1>2, NoneAccepted
    <3>2. \A j \in DOMAIN invites : invites[j].state = "accepted" => invites'[j].state = "accepted"
      BY <1>0 DEF InvitesStay, Pending
    <3> QED BY <1>0, <3>1, <3>2 DEF AcceptedOf, InvitesStay
  <2>2. CASE BattlesStay
    <3>1. StartedOf(f, o)' = StartedOf(f, o)
      BY <2>2 DEF StartedOf, BattlesStay, Kept
    <3> QED BY <2>1, <3>1
  <2>3. ASSUME NEW t \in Txns, BattlesAdd(t)
        PROVE  Cardinality(AcceptedOf(f, o))' <= Cardinality(StartedOf(f, o))'
    <3> DEFINE n == Len(battles) + 1
    <3>1. /\ DOMAIN battles' = DOMAIN battles \cup {n} /\ n \notin DOMAIN battles
          /\ \A b \in DOMAIN battles : battles'[b] = battles[b]
      BY <2>3, AddedRow
    <3> HIDE DEF n
    <3>2. StartedOf(f, o)' = StartedOf(f, o) \/ StartedOf(f, o)' = StartedOf(f, o) \cup {n}
      <4>1. StartedOf(f, o) \subseteq StartedOf(f, o)'
        BY <3>1 DEF StartedOf
      <4>2. \A b \in StartedOf(f, o)' : b \in StartedOf(f, o) \cup {n}
        BY <3>1 DEF StartedOf
      <4> QED BY <4>1, <4>2
    <3>3. Cardinality(StartedOf(f, o) \cup {n}) >= Cardinality(StartedOf(f, o))
      <4>1. Cardinality(StartedOf(f, o) \cup {n})
              \in {Cardinality(StartedOf(f, o)), Cardinality(StartedOf(f, o)) + 1}
        BY Finite, FS_AddElement, Zenon
      <4>2. Cardinality(StartedOf(f, o)) \in Nat
        BY Finite
      <4> QED BY <4>1, <4>2
    <3>4. /\ Cardinality(AcceptedOf(f, o)) \in Nat /\ Cardinality(StartedOf(f, o)) \in Nat
          /\ Cardinality(StartedOf(f, o) \cup {n}) \in Nat
      BY Finite, FS_AddElement, FS_CardinalityType, Zenon
    <3>5. CASE StartedOf(f, o)' = StartedOf(f, o)
      BY <2>1, <3>5
    <3>6. CASE StartedOf(f, o)' = StartedOf(f, o) \cup {n}
      BY <2>1, <3>3, <3>4, <3>6
    <3> QED BY <3>2, <3>5, <3>6
  <2> QED BY <2>2, <2>3, BattlesMove
<1> QED BY <1>1, <1>2

-----------------------------------------------------------------------------
(* The theorems                                                            *)

PkInv == Shaped /\ LocksHold /\ HoldsOwn /\ NoClash /\ OnePerSide /\ AcceptedHasBattle

LEMMA PkInvStarts == PkInit => PkInv
<1> SUFFICES ASSUME PkInit PROVE PkInv
  OBVIOUS
<1>1. /\ invites = <<>> /\ battles = <<>> /\ tx = [t \in Txns |-> Closed]
      /\ DOMAIN invites = {} /\ DOMAIN battles = {}
  BY DEF PkInit, Quiet
<1>2. Shaped
  BY <1>1, ClosedIsTx DEF Shaped
<1>3. LocksHold /\ HoldsOwn /\ NoClash /\ OnePerSide
  BY <1>1, ClosedIsTx DEF LocksHold, HoldsOwn, NoClash, OnePerSide
<1>4. AcceptedHasBattle
  <2>1. ASSUME NEW f \in Hosts, NEW o \in Hosts
        PROVE  /\ AcceptedOf(f, o) = {} /\ StartedOf(f, o) = {}
    BY <1>1 DEF AcceptedOf, StartedOf
  <2>2. \A f, o \in Hosts : Cardinality(AcceptedOf(f, o)) <= Cardinality(StartedOf(f, o))
    BY <2>1, FS_EmptySet
  <2> QED BY <2>2 DEF AcceptedHasBattle, AcceptedOf, StartedOf
<1> QED BY <1>2, <1>3, <1>4 DEF PkInv

LEMMA PkInvKeeps == PkInv /\ [PkNext]_pkVars => PkInv'
<1> SUFFICES ASSUME PkInv, [PkNext]_pkVars PROVE PkInv'
  OBVIOUS
<1>1. \A f, o \in Hosts : Cardinality(AcceptedOf(f, o)) <= Cardinality(StartedOf(f, o))
  BY DEF PkInv, AcceptedHasBattle, AcceptedOf, StartedOf
<1>2. \A f, o \in Hosts : Cardinality(AcceptedOf(f, o))' <= Cardinality(StartedOf(f, o))'
  BY <1>1, AcceptedKeeps DEF PkInv
<1>3. AcceptedHasBattle'
  BY <1>2 DEF AcceptedHasBattle, AcceptedOf, StartedOf
<1> QED BY <1>3, ShapeKeeps, HoldsKeep, SidesKeep DEF PkInv

\* Whatever accepts, sweeps and rollbacks interleave, no host is twice the home
\* side or twice the away side of live battles, and each accepted invitation has
\* a battle of its own between its two hosts, in that order.
THEOREM StartsAlwaysSound == PkSpec => []StartsAreSound
<1>1. PkInv => StartsAreSound
  BY DEF PkInv, StartsAreSound
<1> QED BY <1>1, PkInvStarts, PkInvKeeps, PTL DEF PkSpec

\* An invitation once accepted, declined or expired stays so: its row is changed
\* only while pending, and only by who has it locked.
THEOREM AnswersAreFinal == PkSpec => AnswerIsFinal
<1>1. PkInv /\ [PkNext]_pkVars => [\A j \in DOMAIN invites :
         ~Pending(j) => invites'[j].state = invites[j].state]_pkVars
  BY InvitesMove DEF PkInv, InvitesStay
<1> QED BY <1>1, PkInvStarts, PkInvKeeps, PTL DEF PkSpec, AnswerIsFinal

\* A settled battle never changes: sweeps, forfeits and closing rooms that reach
\* it later find it no longer live.
THEOREM ResultsAreFinal == PkSpec => ResultIsFinal
<1>1. PkInv /\ [PkNext]_pkVars => [\A b \in DOMAIN battles :
         ~Running(b) => battles'[b] = [battles[b] EXCEPT !.due = battles'[b].due]]_pkVars
  <2> SUFFICES ASSUME PkInv, [PkNext]_pkVars, NEW b \in DOMAIN battles, ~Running(b)
               PROVE  battles'[b] = [battles[b] EXCEPT !.due = battles'[b].due]
    OBVIOUS
  <2>1. CASE BattlesStay
    BY <2>1 DEF BattlesStay, Kept, Running
  <2>2. ASSUME NEW t \in Txns, BattlesAdd(t)
        PROVE  battles'[b] = [battles[b] EXCEPT !.due = battles'[b].due]
    <3>1. battles'[b] = battles[b]
      BY <2>2, AddedRow DEF PkInv
    <3>2. Kept(battles[b], battles[b])
      BY KeptAsIs DEF PkInv, Shaped
    <3> QED BY <3>1, <3>2 DEF Kept, Running
  <2> QED BY <2>1, <2>2, BattlesMove DEF PkInv
<1> QED BY <1>1, PkInvStarts, PkInvKeeps, PTL DEF PkSpec, ResultIsFinal

-----------------------------------------------------------------------------
(* Results and statistics                                                  *)

\* The gifts and the results have their columns; settled battles are ranked, and
\* the statistics are numbers.
IsGift(x) == \E t, w, d : d \in BOOLEAN /\ x = [to |-> t, during |-> w, done |-> d]

GiftsShaped ==
    /\ Len(gifts) \in Nat /\ DOMAIN gifts = 1..Len(gifts)
    /\ \A g \in DOMAIN gifts : IsGift(gifts[g])

Settled == {b \in DOMAIN battles : ~Running(b)}

RanksRise ==
    \A b \in Settled :
        battles[b].score \in Nat \X Nat /\ battles[b].rank \in 1..Cardinality(Settled)

Mine(h)   == {b \in DOMAIN battles : ~Running(b) /\ h \in HostsOf(battles[b])}
Won(h)    == {b \in Mine(h) : battles[b].winner = h}
Drawn(h)  == {b \in Mine(h) : battles[b].winner = Nobody}
Latest(h) == {b \in Won(h) : \A c \in Mine(h) \ Won(h) : battles[c].rank < battles[b].rank}

Told(h) ==
    /\ stats[h].wins = Cardinality(Won(h)) /\ stats[h].draws = Cardinality(Drawn(h))
    /\ stats[h].losses = Cardinality(Mine(h) \ (Won(h) \cup Drawn(h)))
    /\ stats[h].streak = Cardinality(Latest(h))
    /\ stats[h].best >= stats[h].streak

HistoryInv ==
    /\ GiftsShaped /\ RanksRise /\ stats \in [Hosts -> Stat]
    /\ ResultIsTheWindows /\ StatsTellHistory

-----------------------------------------------------------------------------
(* Gifts                                                                   *)

\* A gift, once sent, keeps its host and its windows.
GiftsKeep ==
    /\ DOMAIN gifts \subseteq DOMAIN gifts'
    /\ \A g \in DOMAIN gifts : gifts'[g].to = gifts[g].to /\ gifts'[g].during = gifts[g].during

LEMMA GiftFields ==
  ASSUME NEW x, IsGift(x), NEW y, y = [x EXCEPT !.done = TRUE]
  PROVE  IsGift(y) /\ y.to = x.to /\ y.during = x.during
<1>1. PICK t, w, d : d \in BOOLEAN /\ x = [to |-> t, during |-> w, done |-> d]
  BY DEF IsGift
<1>2. y = [to |-> t, during |-> w, done |-> TRUE]
  BY <1>1
<1> QED BY <1>1, <1>2 DEF IsGift

LEMMA GiftsMove ==
  ASSUME GiftsShaped, [PkNext]_pkVars
  PROVE  GiftsShaped' /\ GiftsKeep
<1>1. CASE UNCHANGED gifts
  BY <1>1 DEF GiftsShaped, GiftsKeep
<1>2. ASSUME NEW h \in Hosts, SendGift(h) PROVE GiftsShaped' /\ GiftsKeep
  <2> DEFINE y == [to |-> h, done |-> FALSE, during |-> {b \in DOMAIN battles : ~battles[b].due}]
  <2>1. gifts' = Append(gifts, y)
    BY <1>2 DEF SendGift
  <2>2. IsGift(y)
    BY DEF IsGift
  <2> HIDE DEF y
  <2>3. /\ Len(gifts') = Len(gifts) + 1 /\ DOMAIN gifts' = 1..(Len(gifts) + 1)
        /\ \A g \in DOMAIN gifts : gifts'[g] = gifts[g]
        /\ gifts'[Len(gifts) + 1] = y
    BY <2>1 DEF GiftsShaped
  <2> QED BY <2>2, <2>3 DEF GiftsShaped, GiftsKeep
<1>3. ASSUME NEW g \in DOMAIN gifts, CommitGift(g) PROVE GiftsShaped' /\ GiftsKeep
  <2> DEFINE y == [gifts[g] EXCEPT !.done = TRUE]
  <2>1. gifts' = [gifts EXCEPT ![g] = y]
    BY <1>3 DEF CommitGift
  <2>2. IsGift(gifts[g])
    BY DEF GiftsShaped
  <2>4. IsGift(y) /\ y.to = gifts[g].to /\ y.during = gifts[g].during
    BY <2>2, GiftFields
  <2> HIDE DEF y
  <2>5. DOMAIN gifts' = DOMAIN gifts /\ Len(gifts') = Len(gifts)
    BY <2>1 DEF GiftsShaped
  <2> QED BY <2>1, <2>4, <2>5 DEF GiftsShaped, GiftsKeep
<1> QED
  BY <1>1, <1>2, <1>3
     DEF PkNext, pkVars, GoLive, CloseRoom, CheckInvite, InsertInvite, CheckJoin, InsertQueueRow,
         LeaveQueue, ListBattles, Crash, DeclineInvite, GrowLate, ExpireInvite, Accept,
         MootOthers, InsertBattle, Rollback, Sweep, Pair, CommitAccept, CommitMatch,
         WindowCloses, SettleDue, Forfeit, SettleDoomed

LEMMA ReceivedCounts ==
  ASSUME GiftsShaped, NEW b, NEW h
  PROVE  /\ Received(b, h, BOOLEAN) \in Nat
         /\ Score(b, h) \in Nat /\ Score(b, h) <= Received(b, h, BOOLEAN)
<1> DEFINE all   == {g \in DOMAIN gifts : gifts[g].to = h /\ b \in gifts[g].during
                                           /\ gifts[g].done \in BOOLEAN}
           these == {g \in DOMAIN gifts : /\ gifts[g].done /\ gifts[g].to = h
                                          /\ b \in gifts[g].during}
<1>1. IsFiniteSet(DOMAIN gifts)
  BY FS_Interval DEF GiftsShaped
<1>2. \A g \in DOMAIN gifts : gifts[g].done \in BOOLEAN
  BY DEF GiftsShaped, IsGift
<1>3. these \in SUBSET all /\ all \in SUBSET DOMAIN gifts
  BY <1>2
<1>4. Received(b, h, BOOLEAN) = Cardinality(all) /\ Score(b, h) = Cardinality(these)
  BY DEF Received, Score
<1> HIDE DEF all, these
<1>5. IsFiniteSet(all)
  BY <1>1, <1>3, FS_Subset
<1>6. IsFiniteSet(these) /\ Cardinality(these) <= Cardinality(all)
  BY <1>3, <1>5, FS_Subset
<1> QED BY <1>4, <1>5, <1>6, FS_CardinalityType

\* What a window has received never shrinks.
LEMMA ReceivedGrows ==
  ASSUME GiftsShaped, [PkNext]_pkVars, NEW b, NEW h
  PROVE  /\ Received(b, h, BOOLEAN)' \in Nat
         /\ Received(b, h, BOOLEAN) <= Received(b, h, BOOLEAN)'
<1>1. GiftsShaped' /\ GiftsKeep
  BY GiftsMove
<1> DEFINE old == {g \in DOMAIN gifts : gifts[g].to = h /\ b \in gifts[g].during
                                           /\ gifts[g].done \in BOOLEAN}
           new == {g \in DOMAIN gifts' : gifts'[g].to = h /\ b \in gifts'[g].during
                                           /\ gifts'[g].done \in BOOLEAN}
<1>2. IsFiniteSet(DOMAIN gifts')
  BY <1>1, FS_Interval DEF GiftsShaped
<1>3. \A g \in DOMAIN gifts' : gifts'[g].done \in BOOLEAN
  BY <1>1 DEF GiftsShaped, IsGift
<1>4. old \in SUBSET new /\ new \in SUBSET DOMAIN gifts'
  BY <1>1, <1>3 DEF GiftsKeep
<1>5. Received(b, h, BOOLEAN) = Cardinality(old) /\ Received(b, h, BOOLEAN)' = Cardinality(new)
  BY DEF Received
<1> HIDE DEF old, new
<1>6. IsFiniteSet(new)
  BY <1>2, <1>4, FS_Subset
<1>7. Cardinality(old) <= Cardinality(new)
  BY <1>4, <1>6, FS_Subset
<1> QED BY <1>5, <1>6, <1>7, FS_CardinalityType

-----------------------------------------------------------------------------
(* Results                                                                 *)

\* A step that settles nothing: settled battles keep what was settled.
SettlesNone ==
    /\ UNCHANGED stats /\ DOMAIN battles \subseteq DOMAIN battles'
    /\ \A b \in DOMAIN battles' :
         IF b \in DOMAIN battles
         THEN /\ battles'[b].state = battles[b].state /\ battles'[b].rank = battles[b].rank
              /\ battles'[b].home = battles[b].home /\ battles'[b].away = battles[b].away
              /\ battles'[b].score = battles[b].score /\ battles'[b].winner = battles[b].winner
         ELSE battles'[b].state = "live"

SettlesOne(b) == Running(b) /\ \E s \in {"ended", "cancelled"} : Freeze(b, s)

LEMMA HistoryMoves ==
  ASSUME Shaped, [PkNext]_pkVars
  PROVE  SettlesNone \/ \E b \in DOMAIN battles : SettlesOne(b)
<1>1. CASE UNCHANGED <<battles, stats>>
  BY <1>1 DEF SettlesNone
<1>2. ASSUME NEW b \in DOMAIN battles, SettleDue(b) \/ Forfeit(b) \/ SettleDoomed(b)
      PROVE  SettlesNone \/ SettlesOne(b)
  <2>1. PICK s \in {"ended", "cancelled"} : Settle(b, s)
    BY <1>2 DEF SettleDue, Forfeit, SettleDoomed
  <2>2. CASE Running(b)
    BY <2>1, <2>2 DEF Settle, SettlesOne
  <2>3. CASE ~Running(b)
    BY <2>1, <2>3 DEF Settle, SettlesNone
  <2> QED BY <2>2, <2>3
<1>3. ASSUME NEW b \in DOMAIN battles, WindowCloses(b) PROVE SettlesNone
  <2> DEFINE y == [battles[b] EXCEPT !.due = TRUE]
  <2>1. battles' = [battles EXCEPT ![b] = y] /\ UNCHANGED stats
    BY <1>3 DEF WindowCloses
  <2>2. IsBattle(battles[b])
    BY DEF Shaped
  <2>3. /\ y.state = battles[b].state /\ y.rank = battles[b].rank
        /\ y.home = battles[b].home /\ y.away = battles[b].away
        /\ y.score = battles[b].score /\ y.winner = battles[b].winner
    BY <2>2, BattleDue
  <2> HIDE DEF y
  <2>4. DOMAIN battles' = DOMAIN battles
    BY <2>1
  <2> QED BY <2>1, <2>3, <2>4 DEF SettlesNone
<1>4. ASSUME NEW t \in Txns, AddBattle(t), UNCHANGED stats PROVE SettlesNone
  <2> DEFINE y == [home |-> tx[t].home, away |-> tx[t].away, state |-> "live",
                   due |-> FALSE, score |-> <<0, 0>>, winner |-> Nobody, rank |-> 0]
  <2>1. battles' = Append(battles, y)
    BY <1>4 DEF AddBattle
  <2>2. y.state = "live"
    OBVIOUS
  <2> HIDE DEF y
  <2>3. /\ DOMAIN battles' = 1..(Len(battles) + 1)
        /\ \A b \in DOMAIN battles : battles'[b] = battles[b]
        /\ battles'[Len(battles) + 1] = y
    BY <2>1 DEF Shaped
  <2> QED BY <1>4, <2>2, <2>3 DEF SettlesNone, Shaped
<1> QED
  BY <1>1, <1>2, <1>3, <1>4
     DEF PkNext, pkVars, GoLive, CloseRoom, CheckInvite, InsertInvite, CheckJoin, InsertQueueRow,
         LeaveQueue, SendGift, ListBattles, Crash, DeclineInvite, GrowLate, ExpireInvite, Accept,
         MootOthers, InsertBattle, Rollback, Sweep, Pair, CommitAccept, CommitMatch, CommitGift,
         Txns

\* The row that settle writes, field by field, and what it leaves alone.
LEMMA SettledRow ==
  ASSUME Shaped, NEW b \in DOMAIN battles, SettlesOne(b)
  PROVE  /\ DOMAIN battles' = DOMAIN battles /\ Running(b) /\ battles'[b].state # "live"
         /\ \A c \in DOMAIN battles \ {b} : battles'[c] = battles[c]
         /\ battles'[b].home = battles[b].home /\ battles'[b].away = battles[b].away
         /\ battles'[b].winner = Winner(b) /\ battles'[b].rank = Rank
         /\ battles'[b].score = <<Score(b, battles[b].home.host), Score(b, battles[b].away.host)>>
         /\ stats' = [h \in Hosts |-> IF h \in HostsOf(battles[b])
                           THEN Bump(stats[h], Winner(b) = h, Winner(b) = Nobody) ELSE stats[h]]
<1>1. PICK s \in {"ended", "cancelled"} : Freeze(b, s)
  BY DEF SettlesOne
<1> DEFINE c0 == <<Score(b, battles[b].home.host), Score(b, battles[b].away.host)>>
           y  == Frozen(battles[b], s, Winner(b), c0, Rank)
<1>2. battles' = [battles EXCEPT ![b] = y]
  BY <1>1 DEF Freeze, Frozen
<1>3. /\ y.home = battles[b].home /\ y.away = battles[b].away /\ y.state = s
      /\ y.winner = Winner(b) /\ y.rank = Rank /\ y.score = c0
  <2>1. IsBattle(battles[b])
    BY DEF Shaped
  <2> QED BY <2>1, BattleFields
<1> HIDE DEF y
<1> QED BY <1>1, <1>2, <1>3 DEF SettlesOne, Freeze

\* A row's result, told from what its two windows have received.
ToldFrom(x, p, q) ==
    /\ x.score[1] <= p /\ x.score[2] <= q
    /\ x.winner = IF x.score[1] = x.score[2] THEN Nobody
                  ELSE IF x.score[1] > x.score[2] THEN x.home.host ELSE x.away.host

LEMMA ResultsTold ==
  ResultIsTheWindows <=>
    \A b \in DOMAIN battles : ~Running(b) => \A h, a :
        battles[b].home.host = h /\ battles[b].away.host = a
          => ToldFrom(battles[b], Received(b, h, BOOLEAN), Received(b, a, BOOLEAN))
BY DEF ResultIsTheWindows, ToldFrom

\* A result is what the windows held when it was settled, and they only grow.
LEMMA ResultsKeep ==
  ASSUME Shaped, HistoryInv, [PkNext]_pkVars
  PROVE  ResultIsTheWindows'
<1>1. SUFFICES ASSUME NEW c \in DOMAIN battles', ~Running(c)', NEW h, NEW a,
                      battles'[c].home.host = h, battles'[c].away.host = a
               PROVE  ToldFrom(battles'[c], Received(c, h, BOOLEAN)', Received(c, a, BOOLEAN)')
  BY DEF ResultIsTheWindows, ToldFrom
<1>2. ASSUME NEW i
      PROVE  /\ Received(c, i, BOOLEAN)' \in Nat /\ Received(c, i, BOOLEAN) \in Nat
             /\ Received(c, i, BOOLEAN) <= Received(c, i, BOOLEAN)'
             /\ Score(c, i) \in Nat /\ Score(c, i) <= Received(c, i, BOOLEAN)
  BY ReceivedCounts, ReceivedGrows DEF HistoryInv
<1> DEFINE p0 == Received(c, h, BOOLEAN)
           q0 == Received(c, a, BOOLEAN)
<1>3. ASSUME c \in DOMAIN battles, ~Running(c), battles'[c].score = battles[c].score,
             battles'[c].home = battles[c].home, battles'[c].away = battles[c].away,
             battles'[c].winner = battles[c].winner
      PROVE  ToldFrom(battles'[c], Received(c, h, BOOLEAN)', Received(c, a, BOOLEAN)')
  <2>1. battles[c].score[1] \in Nat /\ battles[c].score[2] \in Nat
    BY <1>3 DEF HistoryInv, RanksRise, Settled
  <2>2. ToldFrom(battles[c], Received(c, h, BOOLEAN), Received(c, a, BOOLEAN))
    BY <1>1, <1>3, ResultsTold DEF HistoryInv
  <2> QED BY <1>2, <1>3, <2>1, <2>2 DEF ToldFrom
<1>4. CASE SettlesNone
  BY <1>1, <1>3, <1>4 DEF SettlesNone, Running
<1>5. ASSUME NEW b \in DOMAIN battles, SettlesOne(b), c # b
      PROVE  ToldFrom(battles'[c], Received(c, h, BOOLEAN)', Received(c, a, BOOLEAN)')
  <2>1. c \in DOMAIN battles /\ battles'[c] = battles[c]
    BY <1>5, SettledRow
  <2>2. ~Running(c)
    BY <1>1, <2>1 DEF Running
  <2> QED BY <1>3, <2>1, <2>2
<1>6. ASSUME NEW b \in DOMAIN battles, SettlesOne(b), c = b
      PROVE  ToldFrom(battles'[c], Received(c, h, BOOLEAN)', Received(c, a, BOOLEAN)')
  <2>1. battles[c].home.host = h /\ battles[c].away.host = a
    BY <1>1, <1>6, SettledRow
  <2>2. /\ battles'[c].score = <<Score(c, h), Score(c, a)>> /\ battles'[c].winner = Winner(c)
        /\ battles'[c].home.host = h /\ battles'[c].away.host = a
    BY <1>1, <1>6, <2>1, SettledRow
  <2>3. Winner(c) = IF Score(c, h) = Score(c, a) THEN Nobody
                    ELSE IF Score(c, h) > Score(c, a) THEN h ELSE a
    BY <2>1 DEF Winner
  <2>4. /\ Received(c, h, BOOLEAN)' \in Nat /\ Received(c, a, BOOLEAN)' \in Nat
        /\ Score(c, h) \in Nat /\ Score(c, h) <= Received(c, h, BOOLEAN)'
        /\ Score(c, a) \in Nat /\ Score(c, a) <= Received(c, a, BOOLEAN)'
    BY <1>2
  <2> QED BY <2>2, <2>3, <2>4 DEF ToldFrom
<1> QED BY <1>4, <1>5, <1>6, HistoryMoves

-----------------------------------------------------------------------------
(* Statistics                                                              *)

Lost(h) == Mine(h) \ (Won(h) \cup Drawn(h))

LEMMA AllTold == StatsTellHistory <=> \A h \in Hosts : Told(h)
BY DEF StatsTellHistory, Told, Mine, Won, Drawn, Latest

LEMMA MineFinite ==
  ASSUME Shaped, NEW h
  PROVE  /\ IsFiniteSet(Settled) /\ IsFiniteSet(Won(h)) /\ IsFiniteSet(Drawn(h))
         /\ IsFiniteSet(Lost(h)) /\ IsFiniteSet(Latest(h))
         /\ Cardinality(Settled) \in Nat /\ Cardinality(Won(h)) \in Nat
         /\ Cardinality(Drawn(h)) \in Nat /\ Cardinality(Lost(h)) \in Nat
         /\ Cardinality(Latest(h)) \in Nat
<1>1. IsFiniteSet(DOMAIN battles)
  BY FS_Interval DEF Shaped
<1>2. /\ Settled \in SUBSET DOMAIN battles /\ Won(h) \in SUBSET DOMAIN battles
      /\ Drawn(h) \in SUBSET DOMAIN battles /\ Lost(h) \in SUBSET DOMAIN battles
      /\ Latest(h) \in SUBSET DOMAIN battles
  BY DEF Settled, Mine, Won, Drawn, Lost, Latest
<1>3. /\ IsFiniteSet(Settled) /\ IsFiniteSet(Won(h)) /\ IsFiniteSet(Drawn(h))
      /\ IsFiniteSet(Lost(h)) /\ IsFiniteSet(Latest(h))
  BY <1>1, <1>2, FS_Subset
<1> QED BY <1>3, FS_CardinalityType

\* Two steps apart: the sets a step leaves alone ...
LEMMA SetsStay ==
  ASSUME NEW h, Mine(h)' = Mine(h), 
         \A b \in Mine(h) : battles'[b].winner = battles[b].winner /\ battles'[b].rank = battles[b].rank
  PROVE  /\ Won(h)' = Won(h) /\ Drawn(h)' = Drawn(h) /\ Lost(h)' = Lost(h)
         /\ Latest(h)' = Latest(h)
<1>1. Won(h)' = Won(h) /\ Drawn(h)' = Drawn(h)
  BY DEF Won, Drawn
<1>2. Won(h) \subseteq Mine(h)
  BY DEF Won
<1> QED BY <1>1, <1>2 DEF Lost, Latest

\* ... and what they gain by a battle settled last.
LEMMA SetsGain ==
  ASSUME NEW h, NEW b, b \notin Mine(h), Mine(h)' = Mine(h) \cup {b},
         \A c \in Mine(h) :
             /\ battles'[c].winner = battles[c].winner /\ battles'[c].rank = battles[c].rank
             /\ battles[c].rank \in Nat /\ battles[c].rank < battles'[b].rank,
         battles'[b].rank \in Nat
  PROVE  /\ Won(h)' = IF battles'[b].winner = h THEN Won(h) \cup {b} ELSE Won(h)
         /\ Drawn(h)' = IF battles'[b].winner = Nobody THEN Drawn(h) \cup {b} ELSE Drawn(h)
         /\ Lost(h)' = IF battles'[b].winner \in {h, Nobody} THEN Lost(h) ELSE Lost(h) \cup {b}
         /\ Latest(h)' = IF battles'[b].winner = h THEN Latest(h) \cup {b} ELSE {}
<1>1. Won(h)' = IF battles'[b].winner = h THEN Won(h) \cup {b} ELSE Won(h)
  BY DEF Won
<1>2. Drawn(h)' = IF battles'[b].winner = Nobody THEN Drawn(h) \cup {b} ELSE Drawn(h)
  BY DEF Drawn
<1>3. Won(h) \subseteq Mine(h) /\ Drawn(h) \subseteq Mine(h)
  BY DEF Won, Drawn
<1>4. Lost(h)' = IF battles'[b].winner \in {h, Nobody} THEN Lost(h) ELSE Lost(h) \cup {b}
  BY <1>1, <1>2, <1>3 DEF Lost
<1>5. CASE battles'[b].winner = h
  <2>1. Won(h)' = Won(h) \cup {b} /\ Mine(h)' \ Won(h)' = Mine(h) \ Won(h)
    BY <1>1, <1>3, <1>5
  <2>2. Latest(h)' = Latest(h) \cup {b}
    BY <1>3, <2>1 DEF Latest
  <2> QED BY <1>1, <1>2, <1>4, <1>5, <2>2
<1>6. CASE battles'[b].winner # h
  <2>1. Won(h)' = Won(h) /\ b \in Mine(h)' \ Won(h)'
    BY <1>1, <1>3, <1>6
  <2>2. Latest(h)' = {}
    BY <1>3, <2>1 DEF Latest
  <2> QED BY <1>1, <1>2, <1>4, <1>6, <2>2
<1> QED BY <1>5, <1>6

LEMMA StatsKeep ==
  ASSUME Shaped, Shaped', HistoryInv, [PkNext]_pkVars
  PROVE  RanksRise' /\ (stats \in [Hosts -> Stat])' /\ StatsTellHistory'
<1>1. \A h \in Hosts : Told(h)
  BY AllTold DEF HistoryInv
<1>2. ASSUME NEW h PROVE Mine(h) \subseteq Settled
  BY DEF Mine, Settled
<1>3. SUFFICES RanksRise' /\ stats' \in [Hosts -> Stat] /\ \A h \in Hosts : Told(h)'
  BY DEF StatsTellHistory, Told, Mine, Won, Drawn, Latest
<1>4. CASE SettlesNone
  <2>1. Settled' = Settled
    BY <1>4 DEF Settled, SettlesNone, Running
  <2>2. RanksRise'
    BY <1>4, <2>1 DEF RanksRise, HistoryInv, SettlesNone, Settled
  <2>3. ASSUME NEW h \in Hosts PROVE Told(h)'
    <3>1. Mine(h)' = Mine(h)
      BY <1>4, <2>1 DEF Mine, Settled, SettlesNone, Running, HostsOf
    <3>2. \A b \in Mine(h) : battles'[b].winner = battles[b].winner
                             /\ battles'[b].rank = battles[b].rank
      BY <1>4 DEF Mine, SettlesNone
    <3>3. /\ Won(h)' = Won(h) /\ Drawn(h)' = Drawn(h) /\ Lost(h)' = Lost(h)
          /\ Latest(h)' = Latest(h)
      BY <3>1, <3>2, SetsStay
    <3> QED BY <1>1, <1>4, <3>3 DEF Told, SettlesNone, Lost
  <2> QED BY <1>4, <2>2, <2>3 DEF SettlesNone, HistoryInv
<1>5. ASSUME NEW b \in DOMAIN battles, SettlesOne(b)
      PROVE  RanksRise' /\ stats' \in [Hosts -> Stat] /\ \A h \in Hosts : Told(h)'
  <2> DEFINE w == Winner(b)
  <2>1. /\ DOMAIN battles' = DOMAIN battles /\ Running(b) /\ battles'[b].state # "live"
        /\ \A c \in DOMAIN battles \ {b} : battles'[c] = battles[c]
        /\ HostsOf(battles'[b]) = HostsOf(battles[b])
        /\ battles'[b].winner = w /\ battles'[b].rank = Rank
        /\ battles'[b].score = <<Score(b, battles[b].home.host), Score(b, battles[b].away.host)>>
        /\ stats' = [h \in Hosts |-> IF h \in HostsOf(battles[b])
                                     THEN Bump(stats[h], w = h, w = Nobody) ELSE stats[h]]
    BY <1>5, SettledRow DEF HostsOf
  <2> HIDE DEF w
  <2>2. Settled' = Settled \cup {b} /\ b \notin Settled
    BY <2>1 DEF Settled, Running
  <2>3. Rank = 1 + Cardinality(Settled) /\ Cardinality(Settled) \in Nat
    BY MineFinite DEF Rank, Settled
  <2>4. Cardinality(Settled') = Cardinality(Settled) + 1
    BY <2>2, MineFinite, FS_AddElement
  <2>5. \A c \in Settled : battles[c].rank \in 1..Cardinality(Settled)
                          /\ battles'[c] = battles[c]
    BY <2>1, <2>2 DEF HistoryInv, RanksRise, Settled
  <2>6. RanksRise'
    <3>1. battles'[b].score \in Nat \X Nat
      BY <2>1, ReceivedCounts DEF HistoryInv
    <3>2. \A c \in Settled : battles'[c].score \in Nat \X Nat
      BY <2>5 DEF HistoryInv, RanksRise
    <3>3. \A c \in Settled' : battles'[c].rank \in 1..Cardinality(Settled')
      BY <2>1, <2>2, <2>3, <2>4, <2>5
    <3> QED BY <2>2, <3>1, <3>2, <3>3 DEF RanksRise
  <2>7. ASSUME NEW h \in Hosts PROVE stats'[h] \in Stat /\ Told(h)'
    <3>1. stats[h] \in Stat
      BY DEF HistoryInv
    <3>2. \A c \in Mine(h) : /\ c # b /\ battles'[c] = battles[c]
                             /\ battles[c].rank \in 1..Cardinality(Settled)
      BY <1>2, <2>2, <2>5
    <3>3. CASE h \notin HostsOf(battles[b])
      <4>1. Mine(h)' = Mine(h)
        BY <2>1, <2>2, <3>3 DEF Mine, Running
      <4>2. /\ Won(h)' = Won(h) /\ Drawn(h)' = Drawn(h) /\ Lost(h)' = Lost(h)
            /\ Latest(h)' = Latest(h)
        BY <3>2, <4>1, SetsStay
      <4>3. stats'[h] = stats[h]
        BY <2>1, <3>3
      <4> QED BY <1>1, <3>1, <4>2, <4>3 DEF Told, Lost
    <3>4. CASE h \in HostsOf(battles[b])
      <4>1. Mine(h)' = Mine(h) \cup {b} /\ b \notin Mine(h)
        BY <2>1, <2>2, <3>4 DEF Mine, Running
      <4>2. /\ Won(h)' = IF w = h THEN Won(h) \cup {b} ELSE Won(h)
            /\ Drawn(h)' = IF w = Nobody THEN Drawn(h) \cup {b} ELSE Drawn(h)
            /\ Lost(h)' = IF w \in {h, Nobody} THEN Lost(h) ELSE Lost(h) \cup {b}
            /\ Latest(h)' = IF w = h THEN Latest(h) \cup {b} ELSE {}
        <5>1. /\ battles'[b].rank \in Nat
              /\ \A c \in Mine(h) :
                   /\ battles'[c].winner = battles[c].winner /\ battles'[c].rank = battles[c].rank
                   /\ battles[c].rank \in Nat /\ battles[c].rank < battles'[b].rank
          BY <2>1, <2>3, <3>2
        <5> QED BY <2>1, <4>1, <5>1, SetsGain
      <4>3. /\ Cardinality(Won(h) \cup {b}) = Cardinality(Won(h)) + 1
            /\ Cardinality(Drawn(h) \cup {b}) = Cardinality(Drawn(h)) + 1
            /\ Cardinality(Lost(h) \cup {b}) = Cardinality(Lost(h)) + 1
            /\ Cardinality(Latest(h) \cup {b}) = Cardinality(Latest(h)) + 1
        <5>1. b \notin Won(h) /\ b \notin Drawn(h) /\ b \notin Lost(h) /\ b \notin Latest(h)
          BY <4>1 DEF Won, Drawn, Lost, Latest
        <5> QED BY <5>1, MineFinite, FS_AddElement
      <4>4. stats'[h] = Bump(stats[h], w = h, w = Nobody)
        BY <2>1, <3>4
      <4>5. stats[h].wins = Cardinality(Won(h)) /\ stats[h].draws = Cardinality(Drawn(h))
            /\ stats[h].losses = Cardinality(Lost(h)) /\ stats[h].streak = Cardinality(Latest(h))
            /\ stats[h].best >= stats[h].streak
        BY <1>1 DEF Told, Lost
      <4>6. /\ stats'[h].wins = Cardinality(Won(h)') /\ stats'[h].draws = Cardinality(Drawn(h)')
            /\ stats'[h].losses = Cardinality(Lost(h)') /\ stats'[h].streak = Cardinality(Latest(h)')
            /\ stats'[h].best >= stats'[h].streak /\ stats'[h] \in Stat
        <5>1. CASE w = h
          BY <3>1, <4>2, <4>3, <4>4, <4>5, <5>1 DEF Bump, Stat
        <5>2. CASE w # h
          BY <3>1, <4>2, <4>3, <4>4, <4>5, <5>2, FS_EmptySet DEF Bump, Stat
        <5> QED BY <5>1, <5>2
      <4> QED BY <4>6 DEF Told, Lost
    <3> QED BY <3>3, <3>4
  <2> QED BY <2>1, <2>6, <2>7
<1> QED BY <1>4, <1>5, HistoryMoves

-----------------------------------------------------------------------------
LEMMA HistoryStarts == PkInit => HistoryInv
<1> SUFFICES ASSUME PkInit PROVE HistoryInv
  OBVIOUS
<1>1. /\ battles = <<>> /\ gifts = <<>> /\ DOMAIN battles = {} /\ DOMAIN gifts = {}
      /\ stats = [h \in Hosts |-> [streak |-> 0, best |-> 0, wins |-> 0, losses |-> 0, draws |-> 0]]
  BY DEF PkInit, Quiet
<1>2. GiftsShaped /\ RanksRise /\ stats \in [Hosts -> Stat] /\ ResultIsTheWindows
  BY <1>1 DEF GiftsShaped, RanksRise, Settled, Stat, ResultIsTheWindows
<1>3. ASSUME NEW h \in Hosts PROVE Told(h)
  <2>1. Mine(h) = {} /\ Won(h) = {} /\ Drawn(h) = {} /\ Lost(h) = {} /\ Latest(h) = {}
    BY <1>1 DEF Mine, Won, Drawn, Lost, Latest
  <2> QED BY <1>1, <2>1, FS_EmptySet DEF Told, Lost
<1> QED BY <1>2, <1>3, AllTold DEF HistoryInv

LEMMA HistoryKeeps == PkInv /\ HistoryInv /\ [PkNext]_pkVars => HistoryInv'
BY PkInvKeeps, GiftsMove, ResultsKeep, StatsKeep DEF PkInv, HistoryInv

\* A settled result counts the gifts of the battle's own window and names the
\* host with more of them, whatever gifts commit late and rooms close early.
THEOREM ResultsAlwaysTrue == PkSpec => []ResultIsTheWindows
<1>1. PkInv /\ HistoryInv => ResultIsTheWindows
  BY DEF HistoryInv
<1> QED BY <1>1, PkInvStarts, PkInvKeeps, HistoryStarts, HistoryKeeps, PTL DEF PkSpec

\* pk_host_stats is the history of the settled battles: wins, losses, draws, and
\* the run of wins since the last battle that was not one.
THEOREM StatsAlwaysTell == PkSpec => []StatsTellHistory
<1>1. PkInv /\ HistoryInv => StatsTellHistory
  BY DEF HistoryInv
<1> QED BY <1>1, PkInvStarts, PkInvKeeps, HistoryStarts, HistoryKeeps, PTL DEF PkSpec

-----------------------------------------------------------------------------
(* What the rows picked from a queue are.                                  *)

\* What a function g must be to give, for each n, the first n rows' picks.
Picks(q, rows, g, last) ==
    g = [n \in 0..last |-> IF n = 0 THEN <<>>
                           ELSE IF q[n] \in rows THEN Append(g[n - 1], q[n])
                           ELSE g[n - 1]]

LEMMA PicksExist ==
  ASSUME NEW q, NEW rows
  PROVE  \A last \in Nat : \E g : Picks(q, rows, g, last)
<1> DEFINE P == {n \in Nat : \E g : Picks(q, rows, g, n)}
<1>1. 0 \in P
  <2> DEFINE g == [n \in 0..0 |-> <<>>]
  <2>1. Picks(q, rows, g, 0)
    BY DEF Picks
  <2> QED BY <2>1
<1>2. ASSUME NEW n \in Nat, n \in P PROVE n + 1 \in P
  <2>1. PICK g : Picks(q, rows, g, n)
    BY <1>2
  <2> DEFINE next == IF q[n + 1] \in rows THEN Append(g[n], q[n + 1]) ELSE g[n]
             h == [i \in 0..(n + 1) |-> IF i = n + 1 THEN next ELSE g[i]]
  <2>2. ASSUME NEW i \in 0..(n + 1)
        PROVE  h[i] = IF i = 0 THEN <<>>
                      ELSE IF q[i] \in rows THEN Append(h[i - 1], q[i])
                      ELSE h[i - 1]
    <3>1. CASE i = n + 1
      <4>1. i # 0 /\ i - 1 = n /\ h[i] = next /\ h[i - 1] = g[n] /\ n \in 0..(n + 1) /\ n # n + 1
        BY <3>1
      <4> QED BY <3>1, <4>1
    <3>2. CASE i # n + 1
      <4>1. i \in 0..n /\ h[i] = g[i] /\ (i # 0 => i - 1 \in 0..n /\ i - 1 # n + 1 /\ h[i - 1] = g[i - 1])
        BY <3>2
      <4>2. g[i] = IF i = 0 THEN <<>>
                   ELSE IF q[i] \in rows THEN Append(g[i - 1], q[i])
                   ELSE g[i - 1]
        BY <2>1, <4>1 DEF Picks
      <4> QED BY <4>1, <4>2
    <3> QED BY <3>1, <3>2
  <2>3. h = [i \in 0..(n + 1) |-> h[i]]
    OBVIOUS
  <2> HIDE DEF h
  <2>4. Picks(q, rows, h, n + 1)
    BY <2>2, <2>3 DEF Picks
  <2> QED BY <2>4
<1> HIDE DEF P
<1>3. \A n \in Nat : n \in P
  BY <1>1, <1>2, Counting
<1> QED BY <1>3 DEF P

LEMMA PicksEnd ==
  ASSUME NEW q, NEW rows, Len(q) \in Nat
  PROVE  \E g : Picks(q, rows, g, Len(q)) /\ Those(q, rows) = g[Len(q)]
<1> DEFINE g == CHOOSE f : Picks(q, rows, f, Len(q))
<1>1. Picks(q, rows, g, Len(q))
  BY PicksExist
<1>2. Those(q, rows) = g[Len(q)]
  BY DEF Those, Picks
<1> QED BY <1>1, <1>2

LEMMA ThoseOf ==
  ASSUME NEW S, NEW q \in Seq(S), NEW rows
  PROVE  Those(q, rows) \in Seq(S)
<1>1. PICK g : Picks(q, rows, g, Len(q)) /\ Those(q, rows) = g[Len(q)]
  BY PicksEnd
<1> DEFINE P == {n \in Nat : n <= Len(q) => g[n] \in Seq(S)}
<1>2. 0 \in P
  BY <1>1 DEF Picks
<1>3. ASSUME NEW n \in Nat, n \in P PROVE n + 1 \in P
  <2> SUFFICES ASSUME n + 1 <= Len(q) PROVE g[n + 1] \in Seq(S)
    OBVIOUS
  <2>1. n + 1 \in 0..Len(q) /\ n + 1 # 0 /\ (n + 1) - 1 = n /\ g[n] \in Seq(S)
    BY <1>3
  <2>2. g[n + 1] = IF q[n + 1] \in rows THEN Append(g[n], q[n + 1]) ELSE g[n]
    BY <1>1, <2>1 DEF Picks
  <2>3. q[n + 1] \in S
    BY <2>1
  <2> QED BY <2>1, <2>2, <2>3
<1> HIDE DEF P
<1>4. \A n \in Nat : n \in P
  BY <1>2, <1>3, Counting
<1> QED BY <1>1, <1>4 DEF P

-----------------------------------------------------------------------------
(* The types of the battles.                                               *)

Draft  == {NoDraft} \cup [op : {"invite"}, to : Hosts] \cup [op : {"join"}, room : Rooms]
Invite == [from : Hosts, to : Hosts, late : BOOLEAN,
           state : {"pending", "accepted", "declined", "expired"}]

AirTyped ==
    /\ onAir \in [Hosts -> 0..MaxShows] /\ shows \in [Hosts -> 0..MaxShows]
    /\ closing \subseteq Rooms
InvitesTyped == \A j \in DOMAIN invites : invites[j] \in Invite
DraftsTyped  == draft \in [Hosts -> Draft]

\* The sweep reads its pairs two by two.
QueueTyped == queue \in Seq(Entry) /\ waiting \in Seq(Entry) /\ Len(waiting) % 2 = 0

Stages == {"idle", "moot", "insert", "inserted"}
TxTyped ==
    \A t \in Txns : /\ tx[t].at \in Stages
                    /\ tx[t].at # "idle" => tx[t].home \in Entry /\ tx[t].away \in Entry
BattlesTyped ==
    \A b \in DOMAIN battles :
        /\ battles[b].home \in Entry /\ battles[b].away \in Entry
        /\ battles[b].state \in {"live", "ended", "cancelled"}
        /\ battles[b].winner \in Hosts \cup {Nobody}
GiftsTyped ==
    /\ doomed \subseteq DOMAIN battles
    /\ \A g \in DOMAIN gifts : gifts[g].to \in Hosts /\ gifts[g].during \subseteq DOMAIN battles

PkTyped ==
    /\ AirTyped /\ InvitesTyped /\ DraftsTyped /\ QueueTyped /\ TxTyped /\ BattlesTyped
    /\ GiftsTyped

LEMMA SideTyped ==
  ASSUME AirTyped, NEW h \in Hosts, onAir[h] # 0
  PROVE  RoomOf(h) \in Rooms /\ Side(h) \in Entry
<1>1. onAir[h] \in 1..MaxShows
  BY PkConstants DEF AirTyped, PkConstants
<1> QED BY <1>1 DEF RoomOf, Side, Rooms, Entry

LEMMA AirKeeps ==
  ASSUME AirTyped, [PkNext]_pkVars
  PROVE  AirTyped'
<1>1. CASE UNCHANGED <<onAir, shows, closing>>
  BY <1>1 DEF AirTyped
<1>2. ASSUME NEW h \in Hosts, GoLive(h) PROVE AirTyped'
  <2>1. shows[h] \in 0..MaxShows /\ shows[h] < MaxShows /\ MaxShows \in Nat
    BY <1>2, PkConstants DEF AirTyped, GoLive, PkConstants
  <2>2. shows[h] + 1 \in 0..MaxShows
    BY <2>1
  <2> QED BY <1>2, <2>2 DEF AirTyped, GoLive
<1>3. ASSUME NEW h \in Hosts, CloseRoom(h) PROVE AirTyped'
  <2>1. RoomOf(h) \in Rooms
    BY <1>3, SideTyped DEF CloseRoom
  <2>2. 0 \in 0..MaxShows
    BY PkConstants DEF PkConstants
  <2> QED BY <1>3, <2>1, <2>2 DEF AirTyped, CloseRoom
<1>4. ASSUME NEW r \in closing, ListBattles(r) PROVE AirTyped'
  BY <1>4 DEF AirTyped, ListBattles
<1>5. CASE Crash
  BY <1>5 DEF AirTyped, Crash
<1> QED
  BY <1>1, <1>2, <1>3, <1>4, <1>5
     DEF PkNext, pkVars, CheckInvite, InsertInvite, CheckJoin, InsertQueueRow,
         LeaveQueue, SendGift, DeclineInvite, GrowLate, ExpireInvite, Accept, CommitAccept,
         MootOthers, InsertBattle, CommitMatch, Rollback, Sweep, Pair, CommitGift, WindowCloses,
         SettleDue, Forfeit, SettleDoomed

LEMMA DraftsKeep ==
  ASSUME AirTyped, DraftsTyped, [PkNext]_pkVars
  PROVE  DraftsTyped'
<1>1. CASE UNCHANGED draft
  BY <1>1 DEF DraftsTyped
<1>2. ASSUME NEW h \in Hosts, NEW d \in Draft, draft' = [draft EXCEPT ![h] = d]
      PROVE  DraftsTyped'
  BY <1>2 DEF DraftsTyped
<1>3. NoDraft \in Draft /\ \A to \in Hosts : [op |-> "invite", to |-> to] \in Draft
  BY DEF Draft
<1>4. ASSUME NEW h \in Hosts, CheckJoin(h) PROVE DraftsTyped'
  <2>1. [op |-> "join", room |-> RoomOf(h)] \in Draft
    BY <1>4, SideTyped DEF CheckJoin, Draft
  <2> QED BY <1>2, <1>4, <2>1 DEF CheckJoin
<1>5. ASSUME NEW h \in Hosts, NEW to \in Hosts, CheckInvite(h, to) PROVE DraftsTyped'
  BY <1>2, <1>3, <1>5 DEF CheckInvite
<1>6. ASSUME NEW h \in Hosts, InsertInvite(h) \/ InsertQueueRow(h) PROVE DraftsTyped'
  BY <1>2, <1>3, <1>6 DEF InsertInvite, InsertQueueRow
<1> QED
  BY <1>1, <1>4, <1>5, <1>6
     DEF PkNext, pkVars, GoLive, CloseRoom, ListBattles, Crash,
         LeaveQueue, SendGift, DeclineInvite, GrowLate, ExpireInvite, Accept, CommitAccept,
         MootOthers, InsertBattle, CommitMatch, Rollback, Sweep, Pair, CommitGift, WindowCloses,
         SettleDue, Forfeit, SettleDoomed

LEMMA InvitesTypedKeep ==
  ASSUME Shaped, DraftsTyped, InvitesTyped, [PkNext]_pkVars
  PROVE  InvitesTyped'
<1>1. CASE UNCHANGED invites
  BY <1>1 DEF InvitesTyped
<1>2. ASSUME NEW x \in Invite, NEW s \in {"accepted", "declined", "expired"}
      PROVE  [x EXCEPT !.state = s] \in Invite /\ [x EXCEPT !.late = TRUE] \in Invite
  BY DEF Invite
<1>3. ASSUME NEW j \in DOMAIN invites, DeclineInvite(j) \/ ExpireInvite(j) \/ GrowLate(j)
      PROVE  InvitesTyped'
  <2>1. PICK y \in Invite : invites' = [invites EXCEPT ![j] = y]
    BY <1>2, <1>3 DEF DeclineInvite, ExpireInvite, GrowLate, Answer, InvitesTyped
  <2> QED BY <2>1 DEF InvitesTyped
<1>4. ASSUME NEW h \in Hosts, InsertInvite(h), invites' # invites
      PROVE  InvitesTyped'
  <2> DEFINE y == [from |-> h, to |-> draft[h].to, state |-> "pending", late |-> FALSE]
  <2>1. draft[h].to \in Hosts
    <3>1. draft[h].op = "invite" /\ draft[h] \in Draft
      BY <1>4 DEF InsertInvite, DraftsTyped
    <3> QED BY <3>1 DEF Draft, NoDraft
  <2>2. y \in Invite
    BY <2>1 DEF Invite
  <2>3. invites' = Append(invites, y)
    BY <1>4 DEF InsertInvite
  <2> HIDE DEF y
  <2>4. /\ DOMAIN invites' = 1..(Len(invites) + 1) /\ invites'[Len(invites) + 1] = y
        /\ \A j \in DOMAIN invites : invites'[j] = invites[j]
    BY <2>3 DEF Shaped
  <2>5. \A j \in 1..(Len(invites) + 1) : j = Len(invites) + 1 \/ j \in DOMAIN invites
    BY DEF Shaped
  <2> QED BY <2>2, <2>4, <2>5 DEF InvitesTyped
<1>5. ASSUME NEW t \in Txns, CommitAccept(t) PROVE InvitesTyped'
  <2>1. /\ DOMAIN invites' = DOMAIN invites
        /\ \A j \in DOMAIN invites : \/ invites'[j] = invites[j]
                                     \/ invites'[j] = [invites[j] EXCEPT !.state = "accepted"]
                                     \/ invites'[j] = [invites[j] EXCEPT !.state = "expired"]
    BY <1>5 DEF CommitAccept, AnswerAll
  <2>2. ASSUME NEW j \in DOMAIN invites PROVE invites'[j] \in Invite
    <3>1. invites[j] \in Invite
      BY DEF InvitesTyped
    <3>2. /\ [invites[j] EXCEPT !.state = "accepted"] \in Invite
          /\ [invites[j] EXCEPT !.state = "expired"] \in Invite
      BY <1>2, <3>1
    <3> QED BY <2>1, <3>1, <3>2
  <2> QED BY <2>1, <2>2 DEF InvitesTyped
<1> QED
  BY <1>1, <1>3, <1>4, <1>5
     DEF PkNext, pkVars, GoLive, CloseRoom, CheckInvite, CheckJoin, InsertQueueRow, ListBattles,
         Crash, LeaveQueue, SendGift, Accept, MootOthers, InsertBattle, CommitMatch, Rollback,
         Sweep, Pair, CommitGift, WindowCloses, SettleDue, Forfeit, SettleDoomed

-----------------------------------------------------------------------------
LEMMA EvenTyped ==
  ASSUME NEW q \in Seq(Entry)
  PROVE  Even(q) \in Seq(Entry) /\ Len(Even(q)) % 2 = 0
<1> DEFINE n == Len(q) - (Len(q) % 2)
<1>1. Len(q) \in Nat /\ Len(q) % 2 \in 0..1 /\ n \in Nat /\ n <= Len(q) /\ n % 2 = 0
  OBVIOUS
<1>2. \A i \in 1..n : q[i] \in Entry
  BY <1>1
<1> HIDE DEF n
<1>3. /\ SubSeq(q, 1, n) \in Seq(Entry)
      /\ Len(SubSeq(q, 1, n)) = IF 1 <= n THEN n - 1 + 1 ELSE 0
  BY <1>1, <1>2, SubSeqProperties
<1>4. Len(SubSeq(q, 1, n)) = n
  BY <1>1, <1>3
<1> QED BY <1>1, <1>3, <1>4 DEF Even, n

LEMMA NextTyped ==
  ASSUME QueueTyped, NEW t, NextPair(t)
  PROVE  waiting' \in Seq(Entry) /\ Len(waiting') % 2 = 0
<1>1. CASE waiting' = waiting
  BY <1>1 DEF QueueTyped
<1>2. CASE waiting' = SubSeq(waiting, 3, Len(waiting))
  <2>1. PICK n \in Nat : n = Len(waiting) /\ n % 2 = 0
    BY DEF QueueTyped
  <2>2. /\ waiting' \in Seq(Entry) /\ Len(waiting') = IF 3 <= n THEN n - 3 + 1 ELSE 0
    <3>1. \A i \in 3..n : waiting[i] \in Entry
      BY <2>1 DEF QueueTyped
    <3> QED BY <1>2, <2>1, <3>1, SubSeqProperties
  <2>3. Len(waiting') = n - 2 \/ Len(waiting') = 0
    BY <2>1, <2>2
  <2>4. (n - 2) % 2 = 0 /\ 0 % 2 = 0
    BY <2>1
  <2>5. Len(waiting') % 2 = 0
    BY <2>3, <2>4
  <2> QED BY <2>2, <2>5
<1> QED BY <1>1, <1>2 DEF NextPair

LEMMA QueueKeeps ==
  ASSUME AirTyped, DraftsTyped, QueueTyped, [PkNext]_pkVars
  PROVE  QueueTyped'
<1>1. CASE UNCHANGED <<queue, waiting>>
  BY <1>1 DEF QueueTyped
<1>2. ASSUME NEW hs, queue' = Without(queue, hs) PROVE queue' \in Seq(Entry)
  BY <1>2, ThoseOf DEF Without, QueueTyped
<1>3. ASSUME NEW h \in Hosts, InsertQueueRow(h) PROVE QueueTyped'
  <2> DEFINE mine == [host |-> h, room |-> draft[h].room]
  <2>1. mine \in Entry
    <3>1. draft[h].op = "join" /\ draft[h] \in Draft
      BY <1>3 DEF InsertQueueRow, DraftsTyped
    <3>2. draft[h].room \in Rooms
      BY <3>1 DEF Draft, NoDraft
    <3> QED BY <3>2 DEF Entry
  <2>2. UNCHANGED waiting
        /\ queue' = IF Queued(h)
                    THEN [k \in DOMAIN queue |-> IF queue[k].host = h THEN mine ELSE queue[k]]
                    ELSE Append(queue, mine)
    BY <1>3 DEF InsertQueueRow
  <2> HIDE DEF mine
  <2> QED BY <2>1, <2>2 DEF QueueTyped
<1>4. ASSUME NEW h \in Hosts, LeaveQueue(h) PROVE QueueTyped'
  BY <1>2, <1>4 DEF LeaveQueue, QueueTyped
<1>5. ASSUME NEW t \in Txns, CommitAccept(t) PROVE QueueTyped'
  BY <1>2, <1>5 DEF CommitAccept, QueueTyped
<1>6. CASE CommitMatch
  BY <1>2, <1>6, NextTyped DEF CommitMatch, QueueTyped
<1>7. ASSUME NEW t \in Txns, InsertBattle(t) \/ Rollback(t) PROVE QueueTyped'
  BY <1>7, NextTyped DEF InsertBattle, Rollback, QueueTyped
<1>8. ASSUME NEW n \in 0..Len(queue), Sweep(n) PROVE QueueTyped'
  <2> DEFINE rest == SubSeq(queue, n + 1, Len(queue))
             kept == Those(rest, {Side(h) : h \in Hosts})
             free == Those(kept, {e \in Range(kept) : ~InBattle(e.host)})
  <2>1. rest \in Seq(Entry)
    <3>1. n + 1 \in Int /\ Len(queue) \in Int /\ \A i \in (n + 1)..Len(queue) : queue[i] \in Entry
      BY DEF QueueTyped
    <3> QED BY <3>1, SubSeqProperties
  <2>2. kept \in Seq(Entry)
    BY <2>1, ThoseOf
  <2>3. free \in Seq(Entry)
    BY <2>2, ThoseOf
  <2>4. queue' = kept /\ waiting' = Even(free)
    BY <1>8 DEF Sweep
  <2> HIDE DEF kept, free
  <2> QED BY <2>2, <2>3, <2>4, EvenTyped DEF QueueTyped
<1>9. CASE Pair
  BY <1>2, <1>9, NextTyped DEF Pair, QueueTyped
<1> QED
  BY <1>1, <1>3, <1>4, <1>5, <1>6, <1>7, <1>8, <1>9
     DEF PkNext, pkVars, GoLive, CloseRoom, ListBattles, Crash, CheckInvite, InsertInvite,
         CheckJoin, SendGift, DeclineInvite, GrowLate, ExpireInvite, Accept,
         MootOthers, CommitGift, WindowCloses, SettleDue, Forfeit, SettleDoomed

-----------------------------------------------------------------------------
LEMMA PairTyped ==
  ASSUME QueueTyped, waiting # <<>>
  PROVE  waiting[1] \in Entry /\ waiting[2] \in Entry
<1>1. Len(waiting) \in Nat /\ Len(waiting) # 0 /\ Len(waiting) % 2 = 0
  BY DEF QueueTyped
<1>2. Len(waiting) # 1
  <2>1. 1 % 2 # 0
    OBVIOUS
  <2> QED BY <1>1, <2>1
<1>3. 1 \in 1..Len(waiting) /\ 2 \in 1..Len(waiting)
  BY <1>1, <1>2
<1> QED BY <1>3 DEF QueueTyped

\* What a transaction writes has its type.
RowTyped(x) == x.at \in Stages /\ (x.at # "idle" => x.home \in Entry /\ x.away \in Entry)

LEMMA OneRow ==
  ASSUME Shaped, TxTyped, NEW t \in Txns, NEW x, RowTyped(x), Open(t, x)
  PROVE  TxTyped'
BY DEF Shaped, TxTyped, RowTyped, Open

LEMMA TxTypedKeep ==
  ASSUME Shaped, AirTyped, QueueTyped, InvitesTyped, TxTyped, [PkNext]_pkVars
  PROVE  TxTyped'
<1>1. CASE UNCHANGED tx
  BY <1>1 DEF TxTyped
<1>2. RowTyped(Closed)
  BY DEF RowTyped, Closed, Stages
<1>3. ASSUME NEW t \in Txns, End(t) PROVE TxTyped'
  BY <1>2, <1>3, OneRow DEF End
<1>4. ASSUME NEW t \in Taps, NEW j \in DOMAIN invites, Accept(t, j) PROVE TxTyped'
  <2> DEFINE x == [at |-> "moot", inv |-> j, moot |-> {},
                   home |-> Side(invites[j].from), away |-> Side(invites[j].to)]
  <2>1. invites[j].from \in Hosts /\ invites[j].to \in Hosts
    BY DEF InvitesTyped, Invite
  <2>2. Side(invites[j].from) \in Entry /\ Side(invites[j].to) \in Entry
    BY <1>4, <2>1, SideTyped DEF Accept
  <2>3. RowTyped(x)
    BY <2>2 DEF RowTyped, Stages
  <2>4. Open(t, x) /\ t \in Txns
    BY <1>4 DEF Accept, Txns
  <2> HIDE DEF x
  <2> QED BY <2>3, <2>4, OneRow
<1>5. ASSUME NEW t \in Txns, MootOthers(t) PROVE TxTyped'
  <2>1. PICK m : Open(t, Mooted(tx[t], m))
    BY <1>5 DEF MootOthers, Mooted
  <2>2. IsTx(tx[t]) /\ RowTyped(tx[t]) /\ tx[t].at = "moot"
    BY <1>5 DEF Shaped, TxTyped, RowTyped, MootOthers
  <2>3. RowTyped(Mooted(tx[t], m))
    BY <2>2, TxMoot DEF RowTyped, Stages
  <2> QED BY <2>1, <2>3, OneRow
<1>6. ASSUME NEW t \in Txns, InsertBattle(t), ~Clashes(t) PROVE TxTyped'
  <2>1. PICK y : y = [tx[t] EXCEPT !.at = "inserted"]
    OBVIOUS
  <2>2. Open(t, y) /\ tx[t].at = "insert"
    BY <1>6, <2>1 DEF InsertBattle
  <2>3. IsTx(tx[t]) /\ RowTyped(tx[t])
    BY DEF Shaped, TxTyped, RowTyped
  <2>4. RowTyped(y)
    BY <2>1, <2>2, <2>3, TxAt DEF RowTyped, Stages
  <2> QED BY <2>2, <2>4, OneRow
<1>7. ASSUME NEW t \in Txns, InsertBattle(t), Clashes(t) PROVE TxTyped'
  BY <1>3, <1>7 DEF InsertBattle
<1>8. ASSUME NEW t \in Txns, CommitAccept(t) \/ Rollback(t) PROVE TxTyped'
  BY <1>3, <1>8 DEF CommitAccept, Rollback
<1>9. CASE CommitMatch
  BY <1>3, <1>9 DEF CommitMatch, Txns
<1>10. ASSUME Pair, tx' # tx PROVE TxTyped'
  <2>1. Open(Matcher, Paired(waiting[1], waiting[2])) /\ waiting # <<>>
    BY <1>10 DEF Pair, Paired
  <2>2. RowTyped(Paired(waiting[1], waiting[2]))
    <3>1. PICK h, w : h = waiting[1] /\ w = waiting[2]
      OBVIOUS
    <3>2. h \in Entry /\ w \in Entry
      BY <2>1, <3>1, PairTyped
    <3>3. PICK x : x = Paired(h, w)
      OBVIOUS
    <3>4. x = [[at |-> "idle", inv |-> 0, moot |-> {}, home |-> Nobody, away |-> Nobody]
                 EXCEPT !.at = "insert", !.home = h, !.away = w]
      BY <3>3 DEF Paired, Closed
    <3>5. x.at = "insert" /\ x.home = h /\ x.away = w
      BY <3>4
    <3> QED BY <3>1, <3>2, <3>3, <3>5 DEF RowTyped, Stages
  <2> QED BY <2>1, <2>2, OneRow DEF Txns
<1> QED
  BY <1>1, <1>4, <1>5, <1>6, <1>7, <1>8, <1>9, <1>10
     DEF PkNext, pkVars, GoLive, CloseRoom, CheckInvite, InsertInvite, CheckJoin, InsertQueueRow,
         LeaveQueue, SendGift, ListBattles, Crash, DeclineInvite, GrowLate, ExpireInvite,
         Sweep, CommitGift, WindowCloses, SettleDue, Forfeit, SettleDoomed

-----------------------------------------------------------------------------
BattleTyped(x) ==
    /\ x.home \in Entry /\ x.away \in Entry
    /\ x.state \in {"live", "ended", "cancelled"} /\ x.winner \in Hosts \cup {Nobody}

LEMMA OneBattle ==
  ASSUME Shaped, BattlesTyped, NEW b \in DOMAIN battles, NEW x, BattleTyped(x),
         battles' = [battles EXCEPT ![b] = x]
  PROVE  BattlesTyped' /\ DOMAIN battles' = DOMAIN battles
BY DEF BattlesTyped, BattleTyped

LEMMA SettlingTyped ==
  ASSUME Shaped, BattlesTyped, NEW b \in DOMAIN battles, NEW s \in {"ended", "cancelled"},
         Settle(b, s)
  PROVE  BattlesTyped' /\ DOMAIN battles' = DOMAIN battles
<1>1. CASE Running(b)
  <2>1. PICK c : c = <<Score(b, battles[b].home.host), Score(b, battles[b].away.host)>>
    OBVIOUS
  <2>2. PICK x : x = Frozen(battles[b], s, Winner(b), c, Rank)
    OBVIOUS
  <2>3. battles' = [battles EXCEPT ![b] = x]
    BY <1>1, <2>1, <2>2 DEF Settle, Freeze, Frozen
  <2>4. Winner(b) \in Hosts \cup {Nobody}
    <3>1. battles[b].home.host \in Hosts /\ battles[b].away.host \in Hosts
      BY DEF BattlesTyped, Entry
    <3> QED BY <3>1 DEF Winner
  <2>5. /\ x.home = battles[b].home /\ x.away = battles[b].away /\ x.state = s
        /\ x.winner = Winner(b)
    BY <2>2, BattleFields DEF Shaped
  <2>6. BattleTyped(x)
    BY <2>4, <2>5 DEF BattleTyped, BattlesTyped
  <2> QED BY <2>3, <2>6, OneBattle
<1>2. CASE ~Running(b)
  BY <1>2 DEF Settle, BattlesTyped
<1> QED BY <1>1, <1>2

LEMMA BattlesKeep ==
  ASSUME Shaped, BattlesTyped, TxTyped, [PkNext]_pkVars
  PROVE  BattlesTyped' /\ DOMAIN battles \subseteq DOMAIN battles'
<1>1. CASE UNCHANGED battles
  BY <1>1 DEF BattlesTyped
<1>2. ASSUME NEW b \in DOMAIN battles, SettleDue(b) \/ Forfeit(b) \/ SettleDoomed(b)
      PROVE  BattlesTyped' /\ DOMAIN battles' = DOMAIN battles
  BY <1>2, SettlingTyped DEF SettleDue, Forfeit, SettleDoomed
<1>3. ASSUME NEW b \in DOMAIN battles, WindowCloses(b)
      PROVE  BattlesTyped' /\ DOMAIN battles' = DOMAIN battles
  <2>1. PICK y : y = [battles[b] EXCEPT !.due = TRUE]
    OBVIOUS
  <2>2. battles' = [battles EXCEPT ![b] = y]
    BY <1>3, <2>1 DEF WindowCloses
  <2>3. BattleTyped(y)
    BY <2>1, BattleDue DEF Shaped, BattlesTyped, BattleTyped
  <2> QED BY <2>2, <2>3, OneBattle
<1>4. ASSUME NEW t \in Txns, AddBattle(t), tx[t].at = "inserted"
      PROVE  BattlesTyped' /\ DOMAIN battles \subseteq DOMAIN battles'
  <2> DEFINE y == [home |-> tx[t].home, away |-> tx[t].away, state |-> "live",
                   due |-> FALSE, score |-> <<0, 0>>, winner |-> Nobody, rank |-> 0]
  <2>1. battles' = Append(battles, y)
    BY <1>4 DEF AddBattle
  <2>2. BattleTyped(y)
    BY <1>4 DEF BattleTyped, TxTyped
  <2> HIDE DEF y
  <2>3. /\ DOMAIN battles' = 1..(Len(battles) + 1) /\ battles'[Len(battles) + 1] = y
        /\ DOMAIN battles \subseteq DOMAIN battles'
        /\ \A b \in DOMAIN battles : battles'[b] = battles[b]
    BY <2>1 DEF Shaped
  <2>4. \A b \in 1..(Len(battles) + 1) : b = Len(battles) + 1 \/ b \in DOMAIN battles
    BY DEF Shaped
  <2> QED BY <2>2, <2>3, <2>4 DEF BattlesTyped, BattleTyped
<1>5. ASSUME NEW t \in Txns, CommitAccept(t)
      PROVE  BattlesTyped' /\ DOMAIN battles \subseteq DOMAIN battles'
  BY <1>4, <1>5 DEF CommitAccept
<1>6. CASE CommitMatch
  BY <1>4, <1>6 DEF CommitMatch, Txns
<1> QED
  BY <1>1, <1>2, <1>3, <1>5, <1>6
     DEF PkNext, pkVars, GoLive, CloseRoom, CheckInvite, InsertInvite, CheckJoin, InsertQueueRow,
         LeaveQueue, SendGift, ListBattles, Crash, DeclineInvite, GrowLate, ExpireInvite, Accept,
         MootOthers, InsertBattle, Rollback, Sweep, Pair, CommitGift

LEMMA GiftsTypedKeep ==
  ASSUME GiftsShaped, GiftsTyped, DOMAIN battles \subseteq DOMAIN battles', [PkNext]_pkVars
  PROVE  GiftsTyped'
<1>1. doomed' \subseteq DOMAIN battles'
  <2>1. doomed' \subseteq doomed \/ \E r \in closing : ListBattles(r)
    BY DEF PkNext, pkVars, GoLive, CloseRoom, CheckInvite, InsertInvite, CheckJoin,
         InsertQueueRow, LeaveQueue, SendGift, Crash, DeclineInvite, GrowLate, ExpireInvite,
         Accept, CommitAccept, MootOthers, InsertBattle, CommitMatch, Rollback, Sweep, Pair,
         CommitGift, WindowCloses, SettleDue, Forfeit, SettleDoomed
  <2> QED BY <2>1 DEF GiftsTyped, ListBattles
<1>2. ASSUME GiftsKeep, DOMAIN gifts' = DOMAIN gifts
      PROVE  GiftsTyped'
  BY <1>1, <1>2 DEF GiftsTyped, GiftsKeep
<1>3. GiftsKeep
  BY GiftsMove
<1>4. ASSUME NEW h \in Hosts, SendGift(h) PROVE GiftsTyped'
  <2> DEFINE y == [to |-> h, done |-> FALSE, during |-> {b \in DOMAIN battles : ~battles[b].due}]
  <2>1. gifts' = Append(gifts, y)
    BY <1>4 DEF SendGift
  <2>2. y.to \in Hosts /\ y.during \subseteq DOMAIN battles
    OBVIOUS
  <2> HIDE DEF y
  <2>3. /\ DOMAIN gifts' = 1..(Len(gifts) + 1) /\ gifts'[Len(gifts) + 1] = y
        /\ \A g \in 1..(Len(gifts) + 1) : g = Len(gifts) + 1 \/ g \in DOMAIN gifts
    BY <2>1 DEF GiftsShaped
  <2>4. ASSUME NEW g \in DOMAIN gifts'
        PROVE  gifts'[g].to \in Hosts /\ gifts'[g].during \subseteq DOMAIN battles'
    <3>1. CASE g = Len(gifts) + 1
      BY <2>2, <2>3, <3>1
    <3>2. CASE g \in DOMAIN gifts
      BY <1>3, <3>2 DEF GiftsKeep, GiftsTyped
    <3> QED BY <2>3, <3>1, <3>2
  <2> QED BY <1>1, <2>4 DEF GiftsTyped
<1>5. ASSUME NEW g \in DOMAIN gifts, CommitGift(g) PROVE DOMAIN gifts' = DOMAIN gifts
  BY <1>5 DEF CommitGift
<1>6. CASE UNCHANGED gifts
  BY <1>2, <1>3, <1>6
<1> QED
  BY <1>2, <1>3, <1>4, <1>5, <1>6
     DEF PkNext, pkVars, GoLive, CloseRoom, ListBattles, Crash, CheckInvite, InsertInvite,
         CheckJoin, InsertQueueRow, LeaveQueue, DeclineInvite, GrowLate, ExpireInvite, Accept,
         CommitAccept, MootOthers, InsertBattle, CommitMatch, Rollback, Sweep, Pair, WindowCloses,
         SettleDue, Forfeit, SettleDoomed

-----------------------------------------------------------------------------
LEMMA PkTypedStarts == PkInit => PkTyped
<1> SUFFICES ASSUME PkInit PROVE PkTyped
  OBVIOUS
<1>1. AirTyped
  <2>1. 0 \in 0..MaxShows /\ 1 \in 0..MaxShows
    BY PkConstants DEF PkConstants
  <2> QED BY <2>1 DEF PkInit, Quiet, AirTyped
<1>2. InvitesTyped /\ DraftsTyped /\ QueueTyped
  <2>1. Len(<<>>) % 2 = 0
    OBVIOUS
  <2> QED BY <2>1 DEF PkInit, Quiet, InvitesTyped, DraftsTyped, QueueTyped, Draft
<1>3. TxTyped /\ BattlesTyped /\ GiftsTyped
  BY DEF PkInit, Quiet, TxTyped, BattlesTyped, GiftsTyped, Closed, Stages
<1> QED BY <1>1, <1>2, <1>3 DEF PkTyped

LEMMA PkTypedKeeps ==
  PkInv /\ HistoryInv /\ PkTyped /\ [PkNext]_pkVars => PkTyped'
<1> SUFFICES ASSUME PkInv, HistoryInv, PkTyped, [PkNext]_pkVars PROVE PkTyped'
  OBVIOUS
<1>1. AirTyped' /\ DraftsTyped' /\ InvitesTyped' /\ QueueTyped' /\ TxTyped'
  BY AirKeeps, DraftsKeep, InvitesTypedKeep, QueueKeeps, TxTypedKeep DEF PkTyped, PkInv
<1>2. BattlesTyped' /\ GiftsTyped'
  BY BattlesKeep, GiftsTypedKeep DEF PkTyped, PkInv, HistoryInv
<1> QED BY <1>1, <1>2 DEF PkTyped

LEMMA PkTypes == PkInv /\ HistoryInv /\ PkTyped => PkTypeOK
<1> SUFFICES ASSUME PkInv, HistoryInv, PkTyped PROVE PkTypeOK
  OBVIOUS
<1>1. \A q \in {queue, waiting} : \A k \in DOMAIN q : q[k] \in Entry
  BY DEF PkTyped, QueueTyped
<1>2. \A h \in Hosts : draft[h] = NoDraft \/ draft[h] \in [op : {"invite"}, to : Hosts]
                       \/ draft[h] \in [op : {"join"}, room : Rooms]
  BY DEF PkTyped, DraftsTyped, Draft
<1>3. ASSUME NEW g \in DOMAIN gifts
      PROVE  gifts[g] \in [to : Hosts, during : SUBSET (DOMAIN battles), done : BOOLEAN]
  <2>1. IsGift(gifts[g]) /\ gifts[g].to \in Hosts /\ gifts[g].during \subseteq DOMAIN battles
    BY DEF HistoryInv, GiftsShaped, PkTyped, GiftsTyped
  <2>2. PICK t, w, d : d \in BOOLEAN /\ gifts[g] = [to |-> t, during |-> w, done |-> d]
    BY <2>1 DEF IsGift
  <2> QED BY <2>1, <2>2
<1>4. \A t \in Txns : /\ tx[t].at \in {"idle", "moot", "insert", "inserted"}
                      /\ tx[t].at # "idle" => {tx[t].home, tx[t].away} \subseteq Entry
  BY DEF PkTyped, TxTyped, Stages
<1>5. \A b \in DOMAIN battles :
        /\ {battles[b].home, battles[b].away} \subseteq Entry
        /\ battles[b].state \in {"live", "ended", "cancelled"}
        /\ battles[b].winner \in Hosts \cup {Nobody}
  BY DEF PkTyped, BattlesTyped
<1>6. /\ onAir \in [Hosts -> 0..MaxShows] /\ shows \in [Hosts -> 0..MaxShows]
      /\ closing \subseteq Rooms /\ doomed \subseteq DOMAIN battles /\ stats \in [Hosts -> Stat]
      /\ \A k \in DOMAIN invites :
           invites[k] \in [from : Hosts, to : Hosts, late : BOOLEAN,
                           state : {"pending", "accepted", "declined", "expired"}]
  BY DEF PkTyped, AirTyped, GiftsTyped, HistoryInv, InvitesTyped, Invite
<1> QED BY <1>1, <1>2, <1>3, <1>4, <1>5, <1>6 DEF PkTypeOK

-----------------------------------------------------------------------------
(* The outbox.                                                             *)

\* A sequence of events has events for elements, and Append adds one.
LEMMA Elements ==
  ASSUME NEW S, NEW q \in Seq(S)
  PROVE  /\ Range(q) \subseteq S
         /\ \A i \in DOMAIN q : q[i] \in Range(q) /\ q[i] \in S
         /\ Len(q) \in Nat /\ DOMAIN q = 1..Len(q)
BY DEF Range

LEMMA Appending ==
  ASSUME NEW S, NEW q \in Seq(S), NEW x \in S
  PROVE  /\ Append(q, x) \in Seq(S)
         /\ Range(Append(q, x)) = Range(q) \cup {x}
         /\ DOMAIN Append(q, x) = DOMAIN q \cup {Len(q) + 1}
         /\ \A i \in DOMAIN q : Append(q, x)[i] = q[i] /\ i # Len(q) + 1
         /\ Append(q, x)[Len(q) + 1] = x
<1> DEFINE r == Append(q, x)
<1>1. /\ r \in Seq(S) /\ DOMAIN r = 1..(Len(q) + 1) /\ DOMAIN q = 1..Len(q) /\ Len(q) \in Nat
      /\ \A i \in 1..Len(q) : r[i] = q[i]
      /\ r[Len(q) + 1] = x
  OBVIOUS
<1> HIDE DEF r
<1>2. DOMAIN r = DOMAIN q \cup {Len(q) + 1} /\ \A i \in DOMAIN q : r[i] = q[i] /\ i # Len(q) + 1
  BY <1>1
<1>3. Range(r) = Range(q) \cup {x}
  BY <1>1, <1>2 DEF Range
<1> QED BY <1>1, <1>2, <1>3 DEF r

\* Where a shipper is in its batch.
LEMMA InBatch ==
  ASSUME OutboxTypeOK, NEW s \in Shippers
  PROVE  /\ ship[s].batch \in Seq(Events) /\ ship[s].pos \in Nat
         /\ Range(ship[s].batch) \subseteq Events
         /\ AtEvent(s) => ship[s].pos \in DOMAIN ship[s].batch /\ ship[s].at # "idle"
         /\ ship[s].pos \in DOMAIN ship[s].batch =>
              Current(s) \in Events /\ Current(s) \in Range(ship[s].batch)
<1>1. ship[s].batch \in Seq(Events) /\ ship[s].pos \in Nat \ {0}
  BY DEF OutboxTypeOK, ShipOK, Shipper
<1> QED BY <1>1, Elements DEF AtEvent, Current

\* Going on in a batch changes nobody's batch, and puts one more event behind.
LEMMA Advancing ==
  ASSUME OutboxTypeOK, NEW s \in Shippers, Advance(s), ship[s].pos \in DOMAIN ship[s].batch,
         ship[s].at # "idle"
  PROVE  /\ \A t \in Shippers : ship'[t].batch = ship[t].batch
         /\ \A t \in Shippers \ {s} : ship'[t] = ship[t] /\ Past(t)' = Past(t)
         /\ ship'[s].at = "consume" /\ Past(s)' = Past(s) \cup {ship[s].pos}
         /\ claimed \subseteq claimed' => ShipOK'
<1>1. /\ \A t \in Shippers \ {s} : ship'[t] = ship[t]
      /\ ship'[s].at = "consume" /\ ship'[s].pos = ship[s].pos + 1
      /\ ship'[s].batch = ship[s].batch
      /\ ship' \in [Shippers -> Shipper]
  <2> DEFINE one == [ship EXCEPT ![s].at = "consume"]
  <2>1. ship' = [one EXCEPT ![s].pos = @ + 1]
    BY DEF Advance
  <2>2. /\ one \in [Shippers -> Shipper] /\ \A t \in Shippers \ {s} : one[t] = ship[t]
        /\ one[s].at = "consume" /\ one[s].pos = ship[s].pos /\ one[s].batch = ship[s].batch
    BY DEF OutboxTypeOK, ShipOK, Shipper
  <2> HIDE DEF one
  <2> QED BY <2>1, <2>2 DEF Shipper
<1>2. /\ ship[s].batch \in Seq(Events) /\ ship[s].pos \in Nat
      /\ DOMAIN ship[s].batch = 1..Len(ship[s].batch) /\ Len(ship[s].batch) \in Nat
  BY InBatch, Elements
<1>3. \A t \in Shippers : ship'[t].batch = ship[t].batch
  BY <1>1
<1>4. \A t \in Shippers \ {s} : Past(t)' = Past(t)
  BY <1>1 DEF Past
<1>5. Past(s)' = Past(s) \cup {ship[s].pos}
  BY <1>1, <1>2 DEF Past
<1>6. ASSUME claimed \subseteq claimed' PROVE ShipOK'
  <2>1. ship'[s].pos \in 1..(Len(ship'[s].batch) + 1) /\ ship'[s].at = "consume"
    BY <1>1, <1>2
  <2>2. \A t \in Shippers \ {s} :
          /\ ship'[t].pos \in 1..(Len(ship'[t].batch) + 1)
          /\ ship'[t].at = "idle" => ship'[t] = Idle
          /\ ship'[t].at = "work" =>
               ship'[t].pos \in DOMAIN ship'[t].batch /\ ship'[t].batch[ship'[t].pos] \in claimed'
    BY <1>1, <1>6 DEF OutboxTypeOK, ShipOK
  <2> QED BY <1>1, <2>1, <2>2 DEF ShipOK
<1> QED BY <1>1, <1>3, <1>4, <1>5, <1>6

\* Putting a batch down leaves the others as they were.
LEMMA Stopping ==
  ASSUME OutboxTypeOK, NEW s \in Shippers, ship' = [ship EXCEPT ![s] = Idle]
  PROVE  /\ \A t \in Shippers \ {s} : ship'[t] = ship[t] /\ Past(t)' = Past(t)
         /\ ship'[s] = Idle /\ DOMAIN ship'[s].batch = {} /\ Range(ship'[s].batch) = {}
         /\ Past(s)' = {}
         /\ claimed \subseteq claimed' => ShipOK'
<1>1. /\ \A t \in Shippers \ {s} : ship'[t] = ship[t]
      /\ ship'[s] = Idle /\ Idle.batch = <<>> /\ Idle.pos = 1 /\ Idle.at = "idle"
      /\ ship' \in [Shippers -> Shipper]
  BY DEF OutboxTypeOK, ShipOK, Shipper, Idle
<1>2. DOMAIN ship'[s].batch = {} /\ Range(ship'[s].batch) = {}
  BY <1>1 DEF Range
<1>3. Past(s)' = {} /\ \A t \in Shippers \ {s} : Past(t)' = Past(t)
  BY <1>1, <1>2 DEF Past
<1>4. claimed \subseteq claimed' => ShipOK'
  BY <1>1 DEF OutboxTypeOK, ShipOK
<1> QED BY <1>1, <1>2, <1>3, <1>4

-----------------------------------------------------------------------------
(* Steps                                                                   *)

\* Writers: a row appears with its commit, and only rows that shipped go.
LEMMA WritersStep ==
  ASSUME OutboxInv, NEW e \in Events, Enqueue(e) \/ CommitTxn(e) \/ AbortTxn(e) \/ Purge(e)
  PROVE  OutboxInv'
<1> USE DEF OutboxInv
<1>0. /\ ship' = ship /\ attempts' = attempts /\ claimed' = claimed /\ acted' = acted
      /\ mishaps' = mishaps
  BY DEF Enqueue, CommitTxn, AbortTxn, Purge
<1>1. /\ \A d \in Events \ {e} : txn'[d] = txn[d] /\ row'[d] = row[d]
      /\ txn[e] = "committed" => txn'[e] = "committed"
      /\ \/ row'[e] = row[e]
         \/ row'[e] = "ready" /\ txn[e] = "open" /\ txn'[e] = "committed"
         \/ row[e] = "published" /\ row'[e] = "purged" /\ txn' = txn
      /\ txn' \in [Events -> {"none", "open", "committed", "aborted"}]
      /\ row' \in [Events -> {"absent", "ready", "published", "purged"}]
  BY DEF OutboxTypeOK, Enqueue, CommitTxn, AbortTxn, Purge, EndTxn
<1>2. OutboxTypeOK'
  BY <1>0, <1>1 DEF OutboxTypeOK, ShipOK
<1>3. RowsCommitted'
  BY <1>1 DEF RowsCommitted
<1>4. BatchesApart'
  BY <1>0 DEF BatchesApart
<1>5. \A s \in Shippers : Range(ship[s].batch) \subseteq Events
  BY InBatch
<1>6. row[e] # "absent" => txn[e] = "committed"
  BY DEF RowsCommitted
<1>7. row[e] = "ready" => row'[e] = "ready"
  BY <1>1, <1>6
<1>8. BatchesPending'
  BY <1>0, <1>1, <1>5, <1>7 DEF BatchesPending
<1>9. PastIsHandled'
  BY <1>0 DEF PastIsHandled, Past, Handled, Current
<1>10. Range(acted) \subseteq Events
  BY Elements DEF OutboxTypeOK
<1>11. \A d \in Events : Shipped(d) <=> Shipped(d)'
  BY <1>1, <1>6 DEF Shipped
<1>12. ActedIsPast'
  BY <1>0, <1>10, <1>11 DEF ActedIsPast, Smooth, Past
<1>13. NoPhantom'
  BY <1>0, <1>1, <1>10 DEF NoPhantom
<1>14. ShippedWasHandled'
  BY <1>0, <1>11 DEF ShippedWasHandled, Handled
<1>15. OnceUnlessMishap'
  BY <1>0 DEF OnceUnlessMishap, Smooth
<1> QED BY <1>2, <1>3, <1>4, <1>8, <1>9, <1>12, <1>13, <1>14, <1>15

\* A new batch is of rows that no other shipper holds.
LEMMA FetchStep ==
  ASSUME OutboxConstants, OutboxInv, NEW s \in Shippers, Fetch(s)
  PROVE  OutboxInv'
<1> USE DEF OutboxInv
<1>1. PICK q \in Batches : ship' = [ship EXCEPT ![s] = [at |-> "consume", batch |-> q, pos |-> 1]]
  BY DEF Fetch
<1>2. PICK n \in 1..BatchSize : q \in [1..n -> {e \in Events : Eligible(e)}]
  BY DEF Batches
<1>3. BatchSize \in Nat
  BY DEF OutboxConstants
<1>4. /\ q \in Seq(Events) /\ DOMAIN q = 1..n /\ n \in Nat
      /\ \A i \in DOMAIN q : Eligible(q[i]) /\ q[i] \in Events
      /\ \A i, j \in DOMAIN q : i < j => q[i] < q[j]
  BY <1>2, <1>3 DEF Batches
<1>5. \A i, j \in DOMAIN q : q[i] = q[j] => i = j
  <2>1. \A i, j \in DOMAIN q : i = j \/ i < j \/ j < i
    BY <1>4
  <2>2. \A i \in DOMAIN q : q[i] \in Int
    BY <1>4 DEF Events, OutboxConstants
  <2> QED BY <1>4, <2>1, <2>2
<1>6. /\ \A t \in Shippers \ {s} : ship'[t] = ship[t]
      /\ ship'[s].at = "consume" /\ ship'[s].batch = q /\ ship'[s].pos = 1
      /\ ship' \in [Shippers -> Shipper]
  BY <1>1, <1>4 DEF OutboxTypeOK, ShipOK, Shipper
<1>7. UNCHANGED <<txn, row, attempts, claimed, acted, mishaps>> /\ ship[s].at = "idle"
  BY DEF Fetch
<1>8. ShipOK'
  <2>1. ship'[s].pos \in 1..(Len(ship'[s].batch) + 1)
    BY <1>4, <1>6
  <2> QED BY <1>6, <1>7, <2>1 DEF OutboxTypeOK, ShipOK
<1>9. OutboxTypeOK'
  BY <1>7, <1>8 DEF OutboxTypeOK
<1>10. \A e \in Range(q) : e \in Events /\ Eligible(e)
  BY <1>4 DEF Range
<1>11. BatchesApart'
  <2>1. \A t \in Shippers, e \in Range(q) : e \notin Range(ship[t].batch)
    BY <1>10 DEF Eligible, Locked
  <2> QED BY <1>5, <1>6, <2>1 DEF BatchesApart
<1>12. BatchesPending'
  BY <1>6, <1>7, <1>10 DEF BatchesPending, Eligible
<1>13. /\ Past(s)' = {} /\ \A t \in Shippers \ {s} : Past(t)' = Past(t)
  BY <1>4, <1>6 DEF Past
<1>14. Past(s) = {}
  BY <1>7 DEF OutboxTypeOK, ShipOK, Past, Idle
<1>15. PastIsHandled'
  BY <1>6, <1>7, <1>13 DEF PastIsHandled, Handled, Current
<1>16. ActedIsPast'
  BY <1>6, <1>7, <1>13, <1>14 DEF ActedIsPast, Smooth, Shipped
<1>17. RowsCommitted' /\ NoPhantom' /\ ShippedWasHandled' /\ OnceUnlessMishap'
  BY <1>7 DEF RowsCommitted, NoPhantom, ShippedWasHandled, Shipped, Handled, OnceUnlessMishap, Smooth
<1> QED BY <1>9, <1>11, <1>12, <1>15, <1>16, <1>17

\* An event is acted on: it is committed, still pending, and if nothing went
\* wrong nobody has acted on it.
LEMMA ActStep ==
  ASSUME OutboxInv, NEW s \in Shippers, ship[s].pos \in DOMAIN ship[s].batch, ship[s].at # "idle",
         Advance(s), acted' = Append(acted, Current(s)),
         UNCHANGED <<txn, row, attempts, claimed, mishaps>>,
         KindOf[Current(s)] # "push" => Current(s) \in claimed
  PROVE  OutboxInv'
<1> USE DEF OutboxInv
<1>0. PICK e : e = Current(s)
  OBVIOUS
<1>1. /\ e \in Events /\ e \in Range(ship[s].batch) /\ acted \in Seq(Events)
      /\ e = ship[s].batch[ship[s].pos]
  BY <1>0, InBatch DEF OutboxTypeOK, Current
<1>2. /\ \A t \in Shippers : ship'[t].batch = ship[t].batch
      /\ \A t \in Shippers \ {s} : ship'[t] = ship[t] /\ Past(t)' = Past(t)
      /\ ship'[s].at = "consume" /\ Past(s)' = Past(s) \cup {ship[s].pos}
      /\ ShipOK'
  BY Advancing
<1>3. /\ acted' \in Seq(Events) /\ Range(acted') = Range(acted) \cup {e}
      /\ DOMAIN acted' = DOMAIN acted \cup {Len(acted) + 1}
      /\ \A i \in DOMAIN acted : acted'[i] = acted[i] /\ i # Len(acted) + 1
      /\ acted'[Len(acted) + 1] = e
  BY <1>0, <1>1, Appending
<1>4. OutboxTypeOK'
  BY <1>2, <1>3 DEF OutboxTypeOK
<1>5. RowsCommitted' /\ BatchesApart' /\ BatchesPending'
  BY <1>2 DEF RowsCommitted, BatchesApart, BatchesPending
<1>6. row[e] = "ready" /\ txn[e] = "committed"
  BY <1>1 DEF BatchesPending, RowsCommitted
<1>7. NoPhantom'
  BY <1>3, <1>6 DEF NoPhantom
<1>8. \A d \in Events : Handled(d) => Handled(d)'
  BY <1>3 DEF Handled
<1>9. Handled(e)'
  BY <1>0, <1>1, <1>3 DEF Handled
<1>10. \A t \in Shippers : \A i \in Past(t) : ship[t].batch[i] \in Events
  BY InBatch, Elements DEF Past
<1>11. PastIsHandled'
  <2>1. ASSUME NEW t \in Shippers, NEW i \in Past(t)' 
        PROVE  Handled(ship[t].batch[i])'
    <3>1. PICK d \in Events : d = ship'[t].batch[i]
      BY <1>1, <1>2, <1>10, <2>1
    <3>2. Handled(d)'
      BY <1>1, <1>2, <1>8, <1>9, <2>1, <3>1 DEF PastIsHandled
    <3> QED BY <3>1, <3>2 DEF Handled
  <2>2. ASSUME NEW t \in Shippers, ship'[t].at = "work" PROVE (KindOf[Current(t)] = "claim")'
    BY <1>2, <2>2 DEF PastIsHandled, Current
  <2> QED BY <2>1, <2>2 DEF PastIsHandled
<1>12. ShippedWasHandled'
  BY <1>8 DEF ShippedWasHandled, Shipped
<1>13. ActedIsPast'
  BY <1>1, <1>2, <1>3 DEF ActedIsPast, Smooth, Shipped
<1>14. Smooth => e \notin Range(acted)
  <2> SUFFICES ASSUME Smooth, e \in Range(acted) PROVE FALSE
    OBVIOUS
  <2>1. ~Shipped(e)
    BY <1>6 DEF Shipped
  <2>2. PICK t \in Shippers : \E i \in Past(t) : ship[t].batch[i] = e
    BY <2>1 DEF ActedIsPast
  <2>3. PICK i \in Past(t) : ship[t].batch[i] = e
    BY <2>2
  <2>4. i \in DOMAIN ship[t].batch /\ i < ship[t].pos /\ e \in Range(ship[t].batch)
    BY <2>3 DEF Past, Range
  <2>5. t = s
    BY <1>1, <2>4 DEF BatchesApart
  <2>6. i = ship[s].pos
    BY <1>1, <2>3, <2>4, <2>5 DEF BatchesApart
  <2> QED BY <2>4, <2>5, <2>6, InBatch
<1>15. OnceUnlessMishap'
  <2>1. \A i \in DOMAIN acted : acted[i] \in Range(acted)
    BY <1>1, Elements
  <2> QED BY <1>3, <1>14, <2>1 DEF OnceUnlessMishap, Smooth
<1> QED BY <1>4, <1>5, <1>7, <1>11, <1>12, <1>13, <1>15

\* A claim commits; the event is handled whether or not it was new.
LEMMA ClaimStep ==
  ASSUME OutboxInv, NEW s \in Shippers, Claim(s)
  PROVE  OutboxInv'
<1> USE DEF OutboxInv
<1>a. PICK e : e = Current(s)
  OBVIOUS
<1>0. /\ ship[s].pos \in DOMAIN ship[s].batch /\ ship[s].at # "idle"
      /\ e \in Events /\ e \in Range(ship[s].batch)
      /\ e = ship[s].batch[ship[s].pos] /\ KindOf[e] = "claim"
      /\ claimed' = claimed \cup {e} /\ UNCHANGED <<txn, row, attempts, acted, mishaps>>
      /\ IF e \in claimed THEN Advance(s) ELSE ship' = [ship EXCEPT ![s].at = "work"]
  BY <1>a, InBatch DEF Claim, Current
<1>1. \A d \in Events : Handled(d) => Handled(d)'
  BY <1>0 DEF Handled
<1>2. Handled(e)'
  BY <1>0 DEF Handled
<1>3. \A t \in Shippers : \A i \in Past(t) : ship[t].batch[i] \in Events
  BY InBatch, Elements DEF Past
<1>4. /\ \A t \in Shippers : ship'[t].batch = ship[t].batch
      /\ \A t \in Shippers : Past(t)' \subseteq Past(t) \/ (t = s /\ Past(t)' = Past(t) \cup {ship[s].pos})
      /\ \A t \in Shippers : Past(t) \subseteq Past(t)'
      /\ \A t \in Shippers \ {s} : ship'[t] = ship[t]
      /\ ship'[s].at = "work" => ship'[s].pos = ship[s].pos
      /\ ShipOK'
  <2>1. CASE e \in claimed
    BY <1>0, <2>1, Advancing
  <2>2. CASE e \notin claimed
    <3>0. ship' = [ship EXCEPT ![s].at = "work"]
      BY <1>0, <2>2
    <3>1. /\ \A t \in Shippers \ {s} : ship'[t] = ship[t]
          /\ ship'[s].at = "work" /\ ship'[s].pos = ship[s].pos /\ ship'[s].batch = ship[s].batch
          /\ ship' \in [Shippers -> Shipper]
      BY <3>0 DEF OutboxTypeOK, ShipOK, Shipper
    <3>2. \A t \in Shippers : Past(t)' = Past(t) /\ ship'[t].batch = ship[t].batch
      BY <3>1 DEF Past
    <3>3. ShipOK'
      BY <1>0, <3>1 DEF OutboxTypeOK, ShipOK
    <3> QED BY <3>1, <3>2, <3>3
  <2> QED BY <2>1, <2>2
<1>5. OutboxTypeOK'
  BY <1>0, <1>4 DEF OutboxTypeOK
<1>6. RowsCommitted' /\ BatchesApart' /\ BatchesPending'
  BY <1>0, <1>4 DEF RowsCommitted, BatchesApart, BatchesPending
<1>7. PastIsHandled'
  <2>1. ASSUME NEW t \in Shippers, NEW i \in Past(t)' 
        PROVE  Handled(ship[t].batch[i])'
    <3>1. PICK d \in Events : d = ship'[t].batch[i]
      BY <1>0, <1>3, <1>4, <2>1
    <3>2. Handled(d)'
      BY <1>0, <1>1, <1>2, <1>4, <2>1, <3>1 DEF PastIsHandled
    <3> QED BY <3>1, <3>2 DEF Handled
  <2>2. ASSUME NEW t \in Shippers, ship'[t].at = "work" PROVE (KindOf[Current(t)] = "claim")'
    BY <1>0, <1>4, <2>2 DEF PastIsHandled, Current
  <2> QED BY <2>1, <2>2 DEF PastIsHandled
<1>8. ActedIsPast'
  BY <1>0, <1>4 DEF ActedIsPast, Smooth, Shipped
<1>9. NoPhantom' /\ OnceUnlessMishap'
  BY <1>0 DEF NoPhantom, OnceUnlessMishap, Smooth
<1>10. ShippedWasHandled'
  BY <1>0, <1>1 DEF ShippedWasHandled, Shipped
<1> QED BY <1>5, <1>6, <1>7, <1>8, <1>9, <1>10

\* A failed batch or a crash: from then on something has gone wrong, and what
\* was handled stays handled.
LEMMA FailStep ==
  ASSUME OutboxConstants, OutboxInv, NEW s \in Shippers, FailBatch(s) \/ Die(s)
  PROVE  OutboxInv'
<1> USE DEF OutboxInv
<1>0. /\ ship' = [ship EXCEPT ![s] = Idle] /\ UNCHANGED <<txn, row, claimed, acted>>
      /\ mishaps' \in {mishaps, mishaps + 1} /\ (mishaps' # mishaps => mishaps < MaxMishaps)
      /\ \/ mishaps' = mishaps + 1
         \/ ship[s].pos \in DOMAIN ship[s].batch
            /\ \A e \in Range(ship[s].batch) : attempts'[e] = attempts[e] + 1
      /\ \/ attempts' = attempts
         \/ attempts' = [e \in Events |-> IF e \in Range(ship[s].batch) THEN attempts[e] + 1
                                                                       ELSE attempts[e]]
  <2>1. \A e \in Range(ship[s].batch) : e \in Events
    BY InBatch
  <2>2. CASE FailBatch(s)
    BY <2>1, <2>2, InBatch DEF FailBatch
  <2>3. CASE Die(s)
    BY <2>3 DEF Die
  <2> QED BY <2>2, <2>3
<1>1. /\ \A t \in Shippers \ {s} : ship'[t] = ship[t] /\ Past(t)' = Past(t)
      /\ ship'[s] = Idle /\ DOMAIN ship'[s].batch = {} /\ Range(ship'[s].batch) = {}
      /\ Past(s)' = {} /\ ShipOK'
  BY <1>0, Stopping
<1>2. MaxAttempts \in Nat /\ MaxMishaps \in Nat
  BY DEF OutboxConstants
<1>3. attempts' \in [Events -> 0..MaxAttempts]
  <2>1. \A e \in Events : attempts[e] \in 0..MaxAttempts
    BY DEF OutboxTypeOK
  <2>2. \A e \in Range(ship[s].batch) : e \in Events /\ attempts[e] + 1 \in 0..MaxAttempts
    BY <1>2, <2>1, InBatch DEF BatchesPending
  <2>3. attempts \in [Events -> 0..MaxAttempts]
    BY DEF OutboxTypeOK
  <2>4. CASE attempts' = attempts
    BY <2>3, <2>4
  <2>5. CASE attempts' = [e \in Events |-> IF e \in Range(ship[s].batch) THEN attempts[e] + 1
                                                                        ELSE attempts[e]]
    <3>1. \A e \in Events : (IF e \in Range(ship[s].batch) THEN attempts[e] + 1 ELSE attempts[e])
                             \in 0..MaxAttempts
      BY <2>1, <2>2
    <3> HIDE DEF OutboxInv
    <3> QED BY <2>5, <3>1
  <2> HIDE DEF OutboxInv
  <2> QED BY <1>0, <2>4, <2>5
<1>4. OutboxTypeOK'
  BY <1>0, <1>1, <1>2, <1>3 DEF OutboxTypeOK
<1>5. RowsCommitted' /\ NoPhantom' /\ ShippedWasHandled'
  BY <1>0 DEF RowsCommitted, NoPhantom, ShippedWasHandled, Shipped, Handled
<1>6. BatchesApart'
  BY <1>1 DEF BatchesApart
<1>7. BatchesPending'
  <2> SUFFICES ASSUME NEW t \in Shippers, NEW e \in Range(ship'[t].batch)
               PROVE  row'[e] = "ready" /\ attempts'[e] < MaxAttempts
    BY DEF BatchesPending
  <2>1. t # s /\ e \in Range(ship[t].batch) /\ e \in Events
    BY <1>1, InBatch
  <2>2. e \notin Range(ship[s].batch)
    BY <2>1 DEF BatchesApart
  <2> QED BY <1>0, <2>1, <2>2 DEF BatchesPending
<1>8. PastIsHandled'
  BY <1>0, <1>1 DEF PastIsHandled, Handled, Current, Idle
<1>9. ~Smooth'
  <2>1. CASE mishaps' = mishaps + 1
    BY <2>1 DEF Smooth, OutboxTypeOK
  <2>2. CASE /\ ship[s].pos \in DOMAIN ship[s].batch
             /\ \A e \in Range(ship[s].batch) : attempts'[e] = attempts[e] + 1
    <3>1. Current(s) \in Events /\ attempts'[Current(s)] = attempts[Current(s)] + 1
      BY <2>2, InBatch
    <3>2. attempts[Current(s)] \in Nat
      BY <1>2, <3>1 DEF OutboxTypeOK
    <3> QED BY <3>1, <3>2 DEF Smooth
  <2> QED BY <1>0, <2>1, <2>2
<1> QED BY <1>4, <1>5, <1>6, <1>7, <1>8, <1>9 DEF ActedIsPast, OnceUnlessMishap

\* A batch is marked published only when its shipper has gone past all of it.
LEMMA PublishStep ==
  ASSUME OutboxInv, NEW s \in Shippers, MarkPublished(s)
  PROVE  OutboxInv'
<1> USE DEF OutboxInv
<1>0. /\ ship' = [ship EXCEPT ![s] = Idle] /\ UNCHANGED <<txn, attempts, claimed, acted, mishaps>>
      /\ row' = [e \in Events |-> IF e \in Range(ship[s].batch) THEN "published" ELSE row[e]]
      /\ ship[s].pos > Len(ship[s].batch)
  BY DEF MarkPublished
<1>1. /\ \A t \in Shippers \ {s} : ship'[t] = ship[t] /\ Past(t)' = Past(t)
      /\ ship'[s] = Idle /\ DOMAIN ship'[s].batch = {} /\ Range(ship'[s].batch) = {}
      /\ Past(s)' = {} /\ ShipOK'
  BY <1>0, Stopping
<1>2. /\ \A e \in Range(ship[s].batch) : e \in Events /\ Shipped(e)'
      /\ \A e \in Events \ Range(ship[s].batch) : row'[e] = row[e]
  BY <1>0, InBatch DEF Shipped
<1>3. OutboxTypeOK'
  BY <1>0, <1>1 DEF OutboxTypeOK
<1>4. RowsCommitted'
  BY <1>0, <1>2 DEF RowsCommitted, BatchesPending
<1>5. BatchesApart'
  BY <1>1 DEF BatchesApart
<1>6. BatchesPending'
  <2> SUFFICES ASSUME NEW t \in Shippers, NEW e \in Range(ship'[t].batch)
               PROVE  row'[e] = "ready" /\ attempts'[e] < MaxAttempts
    BY DEF BatchesPending
  <2>1. t # s /\ e \in Range(ship[t].batch) /\ e \in Events
    BY <1>1, InBatch
  <2>2. e \notin Range(ship[s].batch)
    BY <2>1 DEF BatchesApart
  <2> QED BY <1>0, <1>2, <2>1, <2>2 DEF BatchesPending
<1>7. PastIsHandled'
  BY <1>0, <1>1 DEF PastIsHandled, Handled, Current, Idle
<1>8. \A i \in DOMAIN ship[s].batch : i \in Past(s)
  BY <1>0, InBatch, Elements DEF Past
<1>9. \A e \in Range(ship[s].batch) : Handled(e)
  BY <1>8 DEF PastIsHandled, Range
<1>10. ShippedWasHandled'
  BY <1>0, <1>2, <1>9 DEF ShippedWasHandled, Shipped, Handled
<1>11. ActedIsPast'
  <2> SUFFICES ASSUME Smooth', NEW e \in Range(acted),
                      ~(\E t \in Shippers : \E i \in Past(t)' : ship'[t].batch[i] = e)
               PROVE  Shipped(e)'
    BY <1>0 DEF ActedIsPast
  <2>1. e \in Events
    BY Elements DEF OutboxTypeOK
  <2>2. Shipped(e) \/ \E t \in Shippers : \E i \in Past(t) : ship[t].batch[i] = e
    BY <1>0 DEF ActedIsPast, Smooth
  <2>3. CASE Shipped(e)
    BY <1>2, <2>1, <2>3 DEF Shipped
  <2>4. CASE \E i \in Past(s) : ship[s].batch[i] = e
    <3>1. e \in Range(ship[s].batch)
      BY <2>4 DEF Past, Range
    <3> QED BY <1>2, <3>1
  <2> QED BY <1>1, <2>2, <2>3, <2>4
<1>12. NoPhantom' /\ OnceUnlessMishap'
  BY <1>0 DEF NoPhantom, OnceUnlessMishap, Smooth
<1> QED BY <1>3, <1>4, <1>5, <1>6, <1>7, <1>10, <1>11, <1>12

-----------------------------------------------------------------------------
(* The theorems                                                            *)

LEMMA InitIInv == OutboxConstants /\ OutboxInit => OutboxInv
<1> SUFFICES ASSUME OutboxConstants, OutboxInit PROVE OutboxInv
  OBVIOUS
<1>1. /\ ship = [s \in Shippers |-> Idle] /\ Idle \in Shipper /\ Idle.batch = <<>> /\ Idle.pos = 1
      /\ Idle.at = "idle"
  BY DEF OutboxInit, Idle, Shipper
<1>2. DOMAIN Idle.batch = {} /\ Range(Idle.batch) = {} /\ Range(acted) = {} /\ DOMAIN acted = {}
  BY <1>1 DEF OutboxInit, Range
<1>3. ShipOK
  BY <1>1 DEF ShipOK
<1>4. OutboxTypeOK
  BY <1>3 DEF OutboxTypeOK, OutboxInit, OutboxConstants
<1>5. RowsCommitted /\ NoPhantom /\ ShippedWasHandled /\ OnceUnlessMishap
  BY <1>2 DEF OutboxInit, RowsCommitted, NoPhantom, ShippedWasHandled, Shipped, OnceUnlessMishap
<1>6. BatchesApart /\ BatchesPending /\ PastIsHandled /\ ActedIsPast
  BY <1>1, <1>2 DEF BatchesApart, BatchesPending, PastIsHandled, ActedIsPast, Past
<1> QED BY <1>4, <1>5, <1>6 DEF OutboxInv

LEMMA StepIInv == OutboxConstants /\ OutboxInv /\ [OutboxNext]_outboxVars => OutboxInv'
<1> SUFFICES ASSUME OutboxConstants, OutboxInv, [OutboxNext]_outboxVars PROVE OutboxInv'
  OBVIOUS
<1>1. ASSUME NEW e \in Events, Enqueue(e) \/ CommitTxn(e) \/ AbortTxn(e) \/ Purge(e) PROVE OutboxInv'
  BY <1>1, WritersStep
<1>2. ASSUME NEW s \in Shippers, Fetch(s) PROVE OutboxInv'
  BY <1>2, FetchStep
<1>3. ASSUME NEW s \in Shippers, Consume(s) PROVE OutboxInv'
  <2>1. ship[s].pos \in DOMAIN ship[s].batch /\ ship[s].at # "idle"
    BY <1>3, InBatch DEF Consume, OutboxInv
  <2> QED BY <1>3, <2>1, ActStep DEF Consume
<1>4. ASSUME NEW s \in Shippers, Work(s) PROVE OutboxInv'
  <2>1. /\ ship[s].pos \in DOMAIN ship[s].batch /\ ship[s].at # "idle"
        /\ Current(s) \in claimed
    BY <1>4 DEF Work, OutboxInv, OutboxTypeOK, ShipOK, Current
  <2> QED BY <1>4, <2>1, ActStep DEF Work
<1>5. ASSUME NEW s \in Shippers, Claim(s) PROVE OutboxInv'
  BY <1>5, ClaimStep
<1>6. ASSUME NEW s \in Shippers, FailBatch(s) \/ Die(s) PROVE OutboxInv'
  BY <1>6, FailStep
<1>7. ASSUME NEW s \in Shippers, MarkPublished(s) PROVE OutboxInv'
  BY <1>7, PublishStep
<1>8. CASE UNCHANGED outboxVars
  BY <1>8 DEF outboxVars, OutboxInv, OutboxTypeOK, ShipOK, RowsCommitted, BatchesApart, BatchesPending,
     PastIsHandled, ActedIsPast, NoPhantom, ShippedWasHandled, OnceUnlessMishap, Smooth,
     Shipped, Handled, Past, Current
<1> QED BY <1>1, <1>2, <1>3, <1>4, <1>5, <1>6, <1>7, <1>8 DEF OutboxNext, Step

\* Every variable of the outbox has its type at all times: in particular no row
\* counts more attempts than the limit, however many shippers fail on it.
THEOREM TypeCorrect == ASSUME OutboxConstants PROVE OutboxSpec => []OutboxTypeOK
<1>1. OutboxInit => OutboxInv
  BY InitIInv
<1>2. OutboxInv /\ [OutboxNext]_outboxVars => OutboxInv'
  BY StepIInv
<1>3. OutboxInv => OutboxTypeOK
  BY DEF OutboxInv
<1> QED BY <1>1, <1>2, <1>3, PTL DEF OutboxSpec

\* Consumers act on what was committed and on nothing else; and while no shipper
\* dies and no batch fails they act on it once, though the scheduled job and any
\* number of wakeups ship at the same time.
THEOREM ActsOnlyOnCommitted == ASSUME OutboxConstants PROVE OutboxSpec => []ActsOnCommitted
<1>1. OutboxInit => OutboxInv
  BY InitIInv
<1>2. OutboxInv /\ [OutboxNext]_outboxVars => OutboxInv'
  BY StepIInv
<1>3. OutboxInv => ActsOnCommitted
  BY DEF OutboxInv, ActsOnCommitted
<1> QED BY <1>1, <1>2, <1>3, PTL DEF OutboxSpec

\* No event is marked published, or purged, before its consumer did its work or,
\* if it claims first, claimed it: crashes delay consequences and lose none.
THEOREM NothingLost == ASSUME OutboxConstants PROVE OutboxSpec => []ShippedWasHandled
<1>1. OutboxInit => OutboxInv
  BY InitIInv
<1>2. OutboxInv /\ [OutboxNext]_outboxVars => OutboxInv'
  BY StepIInv
<1>3. OutboxInv => ShippedWasHandled
  BY DEF OutboxInv
<1> QED BY <1>1, <1>2, <1>3, PTL DEF OutboxSpec

\* In every state of the battles and of the outbox each row, transaction, draft and
\* batch has its type: a battle, a queue row and a transaction that starts a battle
\* are of a host in a room he had, what is doomed is a battle, a gift falls in
\* windows of battles there are (pk.service.ts, pk.jobs.ts, outboxShipper.ts).
THEOREM ProgressTyped ==
  ASSUME OutboxConstants
  PROVE  PkSpec /\ OutboxSpec => []ProgressTypeOK
<1>1. PkSpec => []PkTypeOK
  <2>1. PkInit => PkInv /\ HistoryInv /\ PkTyped
    BY PkInvStarts, HistoryStarts, PkTypedStarts
  <2>2. PkInv /\ HistoryInv /\ PkTyped /\ [PkNext]_pkVars => (PkInv /\ HistoryInv /\ PkTyped)'
    BY PkInvKeeps, HistoryKeeps, PkTypedKeeps
  <2>3. PkInv /\ HistoryInv /\ PkTyped => PkTypeOK
    BY PkTypes
  <2> QED BY <2>1, <2>2, <2>3, PTL DEF PkSpec
<1>2. OutboxSpec => []OutboxTypeOK
  BY TypeCorrect
<1>3. PkTypeOK /\ OutboxTypeOK => ProgressTypeOK
  BY DEF ProgressTypeOK
<1> QED BY <1>1, <1>2, <1>3, PTL

===============================================================================
