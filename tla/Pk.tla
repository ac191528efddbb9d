---------------------------------- MODULE Pk ----------------------------------
(***************************************************************************)
(* PK battles (games/pk.service.ts, games/pk.jobs.ts, migration 028): two  *)
(* live hosts, a window, and a score that is a sum over gift_sends.        *)
(*                                                                         *)
(* Invitations, the random queue, the matching sweep, accepting, gifts,    *)
(* forfeits, rooms that close and the settlement sweep run concurrently.   *)
(* Variables hold committed data, except `tx' (open transactions: what     *)
(* they hold follows from their stage) and `draft' (requests between       *)
(* their checks and their INSERT).  All gifts are worth one coin.          *)
(*                                                                         *)
(* X_Fault is X with a fault; nothing here uses it.                        *)
(***************************************************************************)
EXTENDS Integers, Sequences, FiniteSets, SequencesExt

CONSTANTS
    Hosts,
    Taps,         \* concurrent acceptInvite requests
    Matcher,      \* the matchPkQueue sweep: one, it runs under a job lock
    StartOnAir,   \* hosts already live at the start
    Queuers,      \* hosts who use the random queue in this instance
    Gifted,       \* hosts who are sent gifts in this instance
    Closers,      \* hosts whose room may close in this instance
    MaxShows,     \* bound: broadcasts per host
    MaxDrafts,    \* bound: requests between their checks and their INSERT
    MaxInvites,   \* bound: pk_invites rows
    MaxBattles,   \* bound: pk_battles rows, and transactions that may add one
    MaxGifts,     \* bound: gift_sends rows
    CanCrash      \* whether the process closing a room may die

VARIABLES
    onAir,        \* number of the host's open room, 0 when not live
    shows,        \* rooms the host has opened
    invites,      \* pk_invites, in order of creation
    draft,        \* a host's request that has passed its checks
    queue,        \* pk_queue, oldest first
    tx,           \* open transactions that may insert a battle
    waiting,      \* what the sweep has read from the queue and not yet paired
    battles,      \* pk_battles, in order of creation
    closing,      \* rooms just ended, endBattlesForRoom not yet run
    doomed,       \* battles endBattlesForRoom has read and still has to settle
    gifts,        \* gift_sends: to whom, in which windows, committed or not
    stats         \* pk_host_stats

pkVars == <<onAir, shows, invites, draft, queue, tx, waiting, battles, closing,
          doomed, gifts, stats>>

Txns    == Taps \cup {Matcher}
Nobody  == <<>>
NoDraft == [op |-> "none"]
Closed  == [at |-> "idle", inv |-> 0, moot |-> {}, home |-> Nobody, away |-> Nobody]

ASSUME PkConstants ==
    /\ Matcher \notin Taps
    /\ UNION {StartOnAir, Queuers, Gifted, Closers} \subseteq Hosts
    /\ {MaxDrafts, MaxInvites, MaxBattles, MaxGifts} \subseteq Nat
    /\ MaxShows \in Nat \ {0}
    /\ CanCrash \in BOOLEAN

Rooms == Hosts \X (1..MaxShows)
Entry == [host : Hosts, room : Rooms]
Stat  == [streak : Nat, best : Nat, wins : Nat, losses : Nat, draws : Nat]

PkTypeOK ==
    /\ onAir \in [Hosts -> 0..MaxShows] /\ shows \in [Hosts -> 0..MaxShows]
    /\ \A k \in DOMAIN invites :
         invites[k] \in [from : Hosts, to : Hosts, late : BOOLEAN,
                         state : {"pending", "accepted", "declined", "expired"}]
    /\ \A h \in Hosts : draft[h] = NoDraft \/ draft[h] \in [op : {"invite"}, to : Hosts]
                        \/ draft[h] \in [op : {"join"}, room : Rooms]
    /\ \A q \in {queue, waiting} : \A k \in DOMAIN q : q[k] \in Entry
    /\ \A t \in Txns : /\ tx[t].at \in {"idle", "moot", "insert", "inserted"}
                       /\ tx[t].at # "idle" => {tx[t].home, tx[t].away} \subseteq Entry
    /\ \A b \in DOMAIN battles :
         /\ {battles[b].home, battles[b].away} \subseteq Entry
         /\ battles[b].state \in {"live", "ended", "cancelled"}
         /\ battles[b].winner \in Hosts \cup {Nobody}
    /\ closing \subseteq Rooms /\ doomed \subseteq DOMAIN battles
    /\ \A g \in DOMAIN gifts :
         gifts[g] \in [to : Hosts, during : SUBSET (DOMAIN battles), done : BOOLEAN]
    /\ stats \in [Hosts -> Stat]

\* No invitation, battle or gift yet.
Quiet ==
    /\ invites = <<>> /\ draft = [h \in Hosts |-> NoDraft]
    /\ queue = <<>> /\ tx = [t \in Txns |-> Closed] /\ waiting = <<>>
    /\ battles = <<>> /\ closing = {} /\ doomed = {} /\ gifts = <<>>
    /\ stats = [h \in Hosts |-> [streak |-> 0, best |-> 0, wins |-> 0,
                                 losses |-> 0, draws |-> 0]]

PkInit ==
    /\ shows = [h \in Hosts |-> IF h \in StartOnAir THEN 1 ELSE 0] /\ onAir = shows
    /\ Quiet

-----------------------------------------------------------------------------
(* What the statements read and what open transactions lock                *)

RoomOf(h)     == <<h, onAir[h]>>
Side(h)       == [host |-> h, room |-> RoomOf(h)]
HostsOf(b)    == {b.home.host, b.away.host}
Running(b)    == battles[b].state = "live"
RunningWith(h) == {b \in DOMAIN battles : Running(b) /\ h \in HostsOf(battles[b])}
InBattle(h)   == RunningWith(h) # {}          \* assertFree throws on this
Queued(h)     == \E k \in DOMAIN queue : queue[k].host = h
Pending(j)    == invites[j].state = "pending"

\* The rows of q that are in rows, in their order.
Those(q, rows) ==
    LET first[n \in 0..Len(q)] ==
            IF n = 0 THEN <<>>
            ELSE IF q[n] \in rows THEN Append(first[n - 1], q[n])
            ELSE first[n - 1]
    IN  first[Len(q)]
Without(q, hs) == Those(q, {e \in Range(q) : e.host \notin hs})

HoldsInvite(t, j) == tx[t].at # "idle" /\ j \in {tx[t].inv} \cup tx[t].moot
HoldsQueueRow(h)  == /\ tx[Matcher].at \in {"insert", "inserted"}
                     /\ h \in HostsOf(tx[Matcher])
FreeInvite(j) == \A t \in Txns : ~HoldsInvite(t, j)

\* The two partial unique indexes, each on one column.
SameKey(x, y) == x.home.host = y.home.host \/ x.away.host = y.away.host
Clashes(t)    == \E b \in DOMAIN battles : Running(b) /\ SameKey(battles[b], tx[t])

FreeToDraft(h) ==
    draft[h] = NoDraft /\ Cardinality({i \in Hosts : draft[i] # NoDraft}) < MaxDrafts

Open(t, record) == tx' = [tx EXCEPT ![t] = record]
End(t)          == Open(t, Closed)

-----------------------------------------------------------------------------
(* Rooms                                                                   *)

GoLive(h) ==
    /\ onAir[h] = 0 /\ shows[h] < MaxShows
    /\ shows' = [shows EXCEPT ![h] = @ + 1]
    /\ onAir' = [onAir EXCEPT ![h] = shows[h] + 1]
    /\ UNCHANGED <<invites, draft, queue, tx, waiting, battles, closing, doomed, gifts, stats>>

\* closeBroadcast commits the end of the room; its battles come after.
CloseRoom(h) ==
    /\ h \in Closers /\ onAir[h] # 0
    /\ onAir' = [onAir EXCEPT ![h] = 0]
    /\ closing' = closing \cup {RoomOf(h)}
    /\ UNCHANGED <<shows, invites, draft, queue, tx, waiting, battles, doomed, gifts, stats>>

\* endBattlesForRoom: read the room's battles, then settle them one by one.
ListBattles(r) ==
    /\ r \in closing
    /\ closing' = closing \ {r}
    /\ doomed' = doomed \cup {b \in DOMAIN battles :
                     Running(b) /\ r \in {battles[b].home.room, battles[b].away.room}}
    /\ UNCHANGED <<onAir, shows, invites, draft, queue, tx, waiting, battles, gifts, stats>>

Crash ==
    /\ CanCrash /\ (closing # {} \/ doomed # {})
    /\ closing' = {} /\ doomed' = {}
    /\ UNCHANGED <<onAir, shows, invites, draft, queue, tx, waiting, battles, gifts, stats>>

-----------------------------------------------------------------------------
(* Requests that check, then write                                         *)

\* invite: both live, both free.
CheckInvite(h, to) ==
    /\ h # to /\ FreeToDraft(h) /\ Len(invites) < MaxInvites
    /\ onAir[h] # 0 /\ onAir[to] # 0 /\ ~InBattle(h) /\ ~InBattle(to)
    /\ draft' = [draft EXCEPT ![h] = [op |-> "invite", to |-> to]]
    /\ UNCHANGED <<onAir, shows, invites, queue, tx, waiting, battles, closing, doomed, gifts, stats>>

SamePair(h, to) == {j \in DOMAIN invites : /\ Pending(j) /\ invites[j].from = h
                                           /\ invites[j].to = to}

\* The INSERT, which waits for a row of the pair being changed and is refused
\* (PK_INVITE_PENDING) by one still pending.
InsertInvite(h) ==
    /\ draft[h].op = "invite"
    /\ \A j \in SamePair(h, draft[h].to) : FreeInvite(j)
    /\ draft' = [draft EXCEPT ![h] = NoDraft]
    /\ invites' = IF SamePair(h, draft[h].to) # {} \/ Len(invites) = MaxInvites
                  THEN invites
                  ELSE Append(invites, [from |-> h, to |-> draft[h].to,
                                        state |-> "pending", late |-> FALSE])
    /\ UNCHANGED <<onAir, shows, queue, tx, waiting, battles, closing, doomed, gifts, stats>>

\* joinQueue: live and free.
CheckJoin(h) ==
    /\ h \in Queuers /\ FreeToDraft(h) /\ onAir[h] # 0 /\ ~InBattle(h)
    /\ draft' = [draft EXCEPT ![h] = [op |-> "join", room |-> RoomOf(h)]]
    /\ UNCHANGED <<onAir, shows, invites, queue, tx, waiting, battles, closing, doomed, gifts, stats>>

\* INSERT .. ON CONFLICT (user_id) DO UPDATE SET room_id: the place is kept.
InsertQueueRow(h) ==
    /\ draft[h].op = "join" /\ ~HoldsQueueRow(h)
    /\ draft' = [draft EXCEPT ![h] = NoDraft]
    /\ LET row == [host |-> h, room |-> draft[h].room]
       IN  queue' = IF Queued(h)
                    THEN [k \in DOMAIN queue |-> IF queue[k].host = h THEN row ELSE queue[k]]
                    ELSE Append(queue, row)
    /\ UNCHANGED <<onAir, shows, invites, tx, waiting, battles, closing, doomed, gifts, stats>>

LeaveQueue(h) ==
    /\ Queued(h) /\ ~HoldsQueueRow(h)
    /\ queue' = Without(queue, {h})
    /\ UNCHANGED <<onAir, shows, invites, draft, tx, waiting, battles, closing, doomed, gifts, stats>>

-----------------------------------------------------------------------------
(* Invitations                                                             *)

Answer(j, state) == invites' = [invites EXCEPT ![j].state = state]

DeclineInvite_Fault(j) ==
    /\ FreeInvite(j) /\ Answer(j, "declined")
    /\ UNCHANGED <<onAir, shows, draft, queue, tx, waiting, battles, closing, doomed, gifts, stats>>

DeclineInvite(j) ==
    /\ Pending(j) /\ FreeInvite(j)
    /\ Answer(j, "declined")
    /\ UNCHANGED <<onAir, shows, draft, queue, tx, waiting, battles, closing, doomed, gifts, stats>>

\* expires_at passes.
GrowLate(j) ==
    /\ Pending(j) /\ ~invites[j].late
    /\ invites' = [invites EXCEPT ![j].late = TRUE]
    /\ UNCHANGED <<onAir, shows, draft, queue, tx, waiting, battles, closing, doomed, gifts, stats>>

\* expirePkInvites
ExpireInvite(j) ==
    /\ Pending(j) /\ invites[j].late /\ FreeInvite(j)
    /\ Answer(j, "expired")
    /\ UNCHANGED <<onAir, shows, draft, queue, tx, waiting, battles, closing, doomed, gifts, stats>>

RoomForABattle ==
    Len(battles) + Cardinality({t \in Txns : tx[t].at # "idle"}) < MaxBattles

Accept_Fault(t, j) ==
    /\ tx[t].at = "idle" /\ RoomForABattle
    /\ FreeInvite(j) /\ Pending(j) /\ ~invites[j].late
    /\ onAir[invites[j].from] # 0
    /\ Open(t, [at |-> "moot", inv |-> j, moot |-> {},
                home |-> Side(invites[j].from), away |-> Side(invites[j].to)])
    /\ UNCHANGED <<onAir, shows, invites, draft, queue, waiting, battles, closing, doomed, gifts, stats>>

\* acceptInvite, up to its first UPDATE: lock the row, check it, look up both
\* hosts' rooms.  A refusal rolls back, the UPDATE to 'expired' included.
Accept(t, j) ==
    /\ tx[t].at = "idle" /\ RoomForABattle
    /\ FreeInvite(j) /\ Pending(j) /\ ~invites[j].late
    /\ onAir[invites[j].from] # 0 /\ onAir[invites[j].to] # 0
    /\ Open(t, [at |-> "moot", inv |-> j, moot |-> {},
                home |-> Side(invites[j].from), away |-> Side(invites[j].to)])
    /\ UNCHANGED <<onAir, shows, invites, draft, queue, waiting, battles, closing, doomed, gifts, stats>>

\* The UPDATE that expires every other pending invitation of either host.
MootOthers(t) ==
    LET others == {j \in DOMAIN invites \ {tx[t].inv} :
                     Pending(j) /\ {invites[j].from, invites[j].to} \cap HostsOf(tx[t]) # {}}
    IN  /\ tx[t].at = "moot"
        /\ \A s \in Txns \ {t}, j \in others : ~HoldsInvite(s, j)
        /\ Open(t, [tx[t] EXCEPT !.at = "insert", !.moot = others])
        /\ UNCHANGED <<onAir, shows, invites, draft, queue, waiting, battles, closing, doomed,
                       gifts, stats>>

-----------------------------------------------------------------------------
(* INSERT INTO pk_battles and COMMIT, from acceptInvite or matchPkQueue    *)

NextPair(t) == waiting' = IF t = Matcher THEN SubSeq(waiting, 3, Len(waiting)) ELSE waiting

IndexFree_Fault(t) == TRUE

\* No open transaction has inserted a row either unique index would reject.
IndexFree(t) ==
    \A s \in Txns \ {t} : tx[s].at = "inserted" => ~SameKey(tx[s], tx[t])

\* What the transaction does to the invitations it holds, once it commits.
AnswerAll(t) ==
    invites' = [j \in DOMAIN invites |->
        IF j = tx[t].inv THEN [invites[j] EXCEPT !.state = "accepted"]
        ELSE IF j \in tx[t].moot THEN [invites[j] EXCEPT !.state = "expired"]
        ELSE invites[j]]

InsertBattle_Fault(t) ==
    /\ tx[t].at = "insert" /\ IndexFree(t)
    /\ IF Clashes(t) THEN End(t) /\ NextPair(t) /\ AnswerAll(t)
       ELSE Open(t, [tx[t] EXCEPT !.at = "inserted"]) /\ UNCHANGED <<waiting, invites>>
    /\ UNCHANGED <<onAir, shows, draft, queue, battles, closing, doomed, gifts, stats>>

\* A violation rolls the transaction back, invitations and queue rows included.
InsertBattle(t) ==
    /\ tx[t].at = "insert" /\ IndexFree(t)
    /\ IF Clashes(t) THEN End(t) /\ NextPair(t)
       ELSE Open(t, [tx[t] EXCEPT !.at = "inserted"]) /\ UNCHANGED waiting
    /\ UNCHANGED <<onAir, shows, invites, draft, queue, battles, closing, doomed, gifts, stats>>

AddBattle(t) ==
    battles' = Append(battles, [home |-> tx[t].home, away |-> tx[t].away, state |-> "live",
                                due |-> FALSE, score |-> <<0, 0>>, winner |-> Nobody, rank |-> 0])

\* startBattle deletes both hosts' queue rows and acceptInvite commits.
CommitAccept(t) ==
    /\ t \in Taps /\ tx[t].at = "inserted"
    /\ \A h \in HostsOf(tx[t]) : ~HoldsQueueRow(h)
    /\ AddBattle(t) /\ AnswerAll(t) /\ End(t)
    /\ queue' = Without(queue, HostsOf(tx[t]))
    /\ UNCHANGED <<onAir, shows, draft, waiting, closing, doomed, gifts, stats>>

CommitMatch ==
    /\ tx[Matcher].at = "inserted"
    /\ AddBattle(Matcher) /\ End(Matcher) /\ NextPair(Matcher)
    /\ queue' = Without(queue, HostsOf(tx[Matcher]))
    /\ UNCHANGED <<onAir, shows, invites, draft, closing, doomed, gifts, stats>>

\* A deadlock victim, a lost connection, a process that died.
Rollback(t) ==
    /\ tx[t].at # "idle"
    /\ End(t) /\ NextPair(t)
    /\ UNCHANGED <<onAir, shows, invites, draft, queue, battles, closing, doomed, gifts, stats>>

-----------------------------------------------------------------------------
(* matchPkQueue                                                            *)

Even(q) == SubSeq(q, 1, Len(q) - (Len(q) % 2))

\* Delete the rows of ended rooms and the n oldest, past their time; read the
\* rest without the hosts in a battle.
Sweep(n) ==
    LET kept == Those(SubSeq(queue, n + 1, Len(queue)), {Side(h) : h \in Hosts})
    IN  /\ tx[Matcher].at = "idle" /\ waiting = <<>> /\ n \in 0..Len(queue)
        /\ queue' = kept
        /\ waiting' = Even(Those(kept, {e \in Range(kept) : ~InBattle(e.host)}))
        /\ UNCHANGED <<onAir, shows, invites, draft, tx, battles, closing, doomed, gifts, stats>>

\* DELETE both rows; when only one was still there the callback returns null,
\* and withTransaction commits what it deleted.
Pair ==
    LET hs == {waiting[1].host, waiting[2].host}
    IN  /\ tx[Matcher].at = "idle" /\ waiting # <<>>
        /\ IF \A h \in hs : Queued(h)
           THEN /\ RoomForABattle
                /\ Open(Matcher, [Closed EXCEPT !.at = "insert", !.home = waiting[1],
                                                !.away = waiting[2]])
                /\ UNCHANGED <<queue, waiting>>
           ELSE /\ queue' = Without(queue, hs) /\ NextPair(Matcher)
                /\ UNCHANGED tx
        /\ UNCHANGED <<onAir, shows, invites, draft, battles, closing, doomed, gifts, stats>>

-----------------------------------------------------------------------------
(* Gifts and settlement                                                    *)

\* created_at is the start of the gift's transaction; a window is open from
\* started_at to ends_at, whatever became of its battle meanwhile.
SendGift(h) ==
    /\ h \in Gifted /\ Len(gifts) < MaxGifts /\ onAir[h] # 0
    /\ gifts' = Append(gifts, [to |-> h, done |-> FALSE,
                               during |-> {b \in DOMAIN battles : ~battles[b].due}])
    /\ UNCHANGED <<onAir, shows, invites, draft, queue, tx, waiting, battles, closing, doomed, stats>>

CommitGift(g) ==
    /\ ~gifts[g].done
    /\ gifts' = [gifts EXCEPT ![g].done = TRUE]
    /\ UNCHANGED <<onAir, shows, invites, draft, queue, tx, waiting, battles, closing, doomed, stats>>

Score_Fault(b, h) == Cardinality({g \in DOMAIN gifts : gifts[g].done /\ gifts[g].to = h})

\* scores(): the committed gifts to the host in the battle's window.
Score(b, h) ==
    Cardinality({g \in DOMAIN gifts : /\ gifts[g].done /\ gifts[g].to = h
                                      /\ b \in gifts[g].during})

Winner(b) ==
    LET home == battles[b].home.host  away == battles[b].away.host
    IN  IF Score(b, home) = Score(b, away) THEN Nobody
        ELSE IF Score(b, home) > Score(b, away) THEN home ELSE away

Bump_Fault(s, won, draw) ==
    LET run == IF won THEN s.streak + 1 ELSE IF draw THEN s.streak ELSE 0
    IN  [streak |-> run, best |-> IF run > s.best THEN run ELSE s.best,
         wins   |-> s.wins + (IF won THEN 1 ELSE 0),
         losses |-> s.losses + (IF won \/ draw THEN 0 ELSE 1),
         draws  |-> s.draws + (IF draw THEN 1 ELSE 0)]

\* bumpStats: a loss or a draw ends the run.
Bump(s, won, draw) ==
    LET run == IF won THEN s.streak + 1 ELSE 0
    IN  [streak |-> run, best |-> IF run > s.best THEN run ELSE s.best,
         wins   |-> s.wins + (IF won THEN 1 ELSE 0),
         losses |-> s.losses + (IF won \/ draw THEN 0 ELSE 1),
         draws  |-> s.draws + (IF draw THEN 1 ELSE 0)]

Rank == 1 + Cardinality({b \in DOMAIN battles : ~Running(b)})   \* order of settled_at

\* The body of settle once it has the live row.
Freeze(b, state) ==
    LET won   == Winner(b)
        final == <<Score(b, battles[b].home.host), Score(b, battles[b].away.host)>>
    IN  /\ battles' = [battles EXCEPT ![b] = [@ EXCEPT !.state = state, !.winner = won,
                                                      !.score = final, !.rank = Rank]]
        /\ stats' = [h \in Hosts |-> IF h \in HostsOf(battles[b])
                                     THEN Bump(stats[h], won = h, won = Nobody)
                                     ELSE stats[h]]

Settle_Fault(b, state) ==
    IF Running(b) THEN Freeze(b, state)
    ELSE battles' = [battles EXCEPT ![b].state = state] /\ UNCHANGED stats

\* WHERE id = $1 AND state = 'live' FOR UPDATE: otherwise nothing happens.
Settle(b, state) == IF Running(b) THEN Freeze(b, state) ELSE UNCHANGED <<battles, stats>>

\* ends_at passes.
WindowCloses(b) ==
    /\ ~battles[b].due
    /\ battles' = [battles EXCEPT ![b].due = TRUE]
    /\ UNCHANGED <<onAir, shows, invites, draft, queue, tx, waiting, closing, doomed, gifts, stats>>

SettleDue_Fault(b) ==
    /\ Running(b) /\ battles[b].due
    /\ \A e \in {battles[b].home, battles[b].away} : e.room = RoomOf(e.host)
    /\ Settle(b, "ended")
    /\ UNCHANGED <<onAir, shows, invites, draft, queue, tx, waiting, closing, doomed, gifts>>

\* settleDuePkBattles
SettleDue(b) ==
    /\ Running(b) /\ battles[b].due
    /\ Settle(b, "ended")
    /\ UNCHANGED <<onAir, shows, invites, draft, queue, tx, waiting, closing, doomed, gifts>>

\* POST /battles/:battleId/forfeit by one of the two, also on a stale screen.
Forfeit(b) ==
    /\ Settle(b, "cancelled")
    /\ UNCHANGED <<onAir, shows, invites, draft, queue, tx, waiting, closing, doomed, gifts>>

SettleDoomed(b) ==
    /\ b \in doomed
    /\ Settle(b, "cancelled")
    /\ doomed' = doomed \ {b}
    /\ UNCHANGED <<onAir, shows, invites, draft, queue, tx, waiting, closing, gifts>>

-----------------------------------------------------------------------------
PkNext ==
    \/ \E h \in Hosts : \/ GoLive(h) \/ CloseRoom(h)
                        \/ \E to \in Hosts : CheckInvite(h, to)
                        \/ InsertInvite(h) \/ CheckJoin(h) \/ InsertQueueRow(h)
                        \/ LeaveQueue(h) \/ SendGift(h)
    \/ \E r \in closing : ListBattles(r)
    \/ Crash
    \/ \E j \in DOMAIN invites : \/ DeclineInvite(j) \/ GrowLate(j) \/ ExpireInvite(j)
                                 \/ \E t \in Taps : Accept(t, j)
    \/ \E t \in Txns : MootOthers(t) \/ InsertBattle(t) \/ CommitAccept(t) \/ Rollback(t)
    \/ \E n \in 0..Len(queue) : Sweep(n)
    \/ Pair \/ CommitMatch
    \/ \E g \in DOMAIN gifts : CommitGift(g)
    \/ \E b \in DOMAIN battles : \/ WindowCloses(b) \/ SettleDue(b)
                                 \/ Forfeit(b) \/ SettleDoomed(b)

PkSpec == PkInit /\ [][PkNext]_pkVars

\* Time passes and the settlement sweep runs every few seconds; nothing else
\* is owed: hosts may stop acting and a process that closes a room may die.
DueNext(b) == b \in DOMAIN battles /\ (WindowCloses(b) \/ SettleDue(b))

FairSpec == PkSpec /\ \A b \in 1..MaxBattles : WF_pkVars(DueNext(b))

-----------------------------------------------------------------------------
(* Properties                                                              *)

\* Migration 028 and startBattle's comment: "one battle per host at a time,
\* enforced by the database".
OneBattlePerHost == \A h \in Hosts : Cardinality(RunningWith(h)) <= 1

\* What the indexes do give, whatever accepts, matches and rollbacks interleave:
\* no host is twice the home side, or twice the away side, of a live battle.
OnePerSide ==
    \A b, c \in DOMAIN battles :
        b # c /\ Running(b) /\ Running(c) => ~SameKey(battles[b], battles[c])

\* A result is history: once settled, a battle never changes, however many
\* sweeps, forfeits and closing rooms reach it afterwards.  (ends_at may still
\* pass: a forfeit settles early.)
ResultIsFinal ==
    [][\A b \in DOMAIN battles :
         ~Running(b) => battles'[b] = [battles[b] EXCEPT !.due = battles'[b].due]]_pkVars

\* An answered invitation keeps its answer.
AnswerIsFinal ==
    [][\A j \in DOMAIN invites :
         ~Pending(j) => invites'[j].state = invites[j].state]_pkVars

\* acceptInvite is all or nothing: every accepted invitation has its battle.
AcceptedHasBattle ==
    \A f, to \in Hosts :
        Cardinality({j \in DOMAIN invites : invites[j].state = "accepted"
                       /\ invites[j].from = f /\ invites[j].to = to})
          <= Cardinality({b \in DOMAIN battles : battles[b].home.host = f
                            /\ battles[b].away.host = to})

\* Both together: whatever starts battles, each invitation and each side has its own.
StartsAreSound == OnePerSide /\ AcceptedHasBattle

\* Gifts to h in the window of battle b, whoever has seen them.
Received(b, h, done) ==
    Cardinality({g \in DOMAIN gifts : gifts[g].to = h /\ b \in gifts[g].during
                                      /\ gifts[g].done \in done})

\* A settled result counts no gift from outside its window, and names the host
\* with more of them, or nobody on a tie.
ResultIsTheWindows ==
    \A b \in DOMAIN battles : ~Running(b) =>
        LET x == battles[b]
        IN  /\ x.score[1] <= Received(b, x.home.host, BOOLEAN)
            /\ x.score[2] <= Received(b, x.away.host, BOOLEAN)
            /\ x.winner = IF x.score[1] = x.score[2] THEN Nobody
                          ELSE IF x.score[1] > x.score[2] THEN x.home.host ELSE x.away.host

\* pk_host_stats tells each host's settled battles: how many won, lost and
\* drawn, and as streak the wins since the last battle that was not one.
StatsTellHistory ==
    \A h \in Hosts :
        LET mine   == {b \in DOMAIN battles : ~Running(b) /\ h \in HostsOf(battles[b])}
            won    == {b \in mine : battles[b].winner = h}
            drawn  == {b \in mine : battles[b].winner = Nobody}
            latest == {b \in won : \A c \in mine \ won : battles[c].rank < battles[b].rank}
        IN  /\ stats[h].wins = Cardinality(won) /\ stats[h].draws = Cardinality(drawn)
            /\ stats[h].losses = Cardinality(mine \ (won \cup drawn))
            /\ stats[h].streak = Cardinality(latest)
            /\ stats[h].best >= stats[h].streak

\* Every battle is settled, also one whose room closed unnoticed.
EveryBattleEnds ==
    \A b \in 1..MaxBattles : (b \in DOMAIN battles) ~> (b \in DOMAIN battles /\ ~Running(b))
===============================================================================
