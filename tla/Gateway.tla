------------------------------- MODULE Gateway --------------------------------
(***************************************************************************)
(* The room gateway (gateway/server.ts, hub.ts, room.state.ts): sockets,   *)
(* who is in which room, chat, the mic queue, the reward clock; and what   *)
(* the app shows of it (mobile room/useRoomSocket.ts).                     *)
(*                                                                         *)
(* One process: a handler runs until its next await, so every message is a *)
(* process of its own, between whose steps the others and the close        *)
(* handler run.  Other instances, reached over Redis, are not modelled.    *)
(* X_Fault is X with a fault; nothing uses it.                             *)
(***************************************************************************)
EXTENDS Integers, FiniteSets, FiniteSetsExt

CONSTANTS
    Sockets, OwnerOf,       \* a reconnect is a new socket of the same user
    Guests,                 \* sockets whose token is not of an active account
    Rooms, HostOf, Places,  \* Places: the seats other than the host's
    Handlers, Messages,     \* per handler its message [t, from, room, user, yes]; ticks too
    Episodes,               \* bound: of one behaviour, its handlers, who is inside at
                            \* first, who may drop, what happens outside, its last tick
    HistorySize,            \* lines a late arrival gets
    Interval, Accrual, DayLength, \* of the watch reward, in ticks
    MaxRepaid               \* bound: intervals of a socket paid without the gateway's knowing

VARIABLES
    play,         \* the scene
    sock,         \* "open", "closing" (readyState is no longer 1), "closed"
    clients,      \* authenticated sockets
    roomOf,       \* client.roomId
    members,      \* hub: per room, its sockets
    missed,       \* missedHeartbeats
    handling,     \* per message: its stage and what it read
    lines,        \* room_messages: per line stored, the lines stored before it
    screen,       \* per socket: lines put on it (the app keeps the newest MAX_LINES of
                  \* them), viewers shown, the join answered since it last entered a room
    hands,        \* pending room_mic_requests
    held,         \* room_seats
    barred, over, \* room_bans, ended rooms
    clock,        \* client.watch
    time,         \* in ticks
    \* Ghosts: sockets closed under a running handler; what became of raised
    \* hands; intervals paid, and of them those the gateway did not learn of; ticks
    \* spent in the room; returns to it and visits by a timer that came late.
    cut, tally, pays, repaid, spent, lapses

hubVars    == <<sock, clients, roomOf, members, missed, cut>>
seatVars   == <<hands, held, tally>>
clockVars  == <<clock, time, pays, repaid, spent, lapses>>
gatewayVars == <<play, hubVars, handling, lines, screen, seatVars, barred, over, clockVars>>

Nowhere  == "nowhere"
Unseated == "nobody"
NoJoin   == "none"
Persons  == {OwnerOf[s] : s \in Sockets}
Fates    == {"raised", "cancelled", "denied", "seated", "refused"}
MessageKinds == {"auth", "join", "leave", "chat", "request", "cancel", "resolve", "tick"}
NoClock  == [no |-> 0, room |-> Nowhere, accrued |-> 0, at |-> 0, capped |-> -1]

GatewayConstants ==
    /\ OwnerOf \in [Sockets -> STRING] /\ Guests \subseteq Sockets
    /\ HostOf \in [Rooms -> STRING] /\ Nowhere \notin Rooms /\ Unseated \notin Persons
    /\ Messages \in [Handlers -> [t : MessageKinds, from : Sockets, room : Rooms, user : Persons,
                               yes : BOOLEAN]]
    /\ {HistorySize, Interval, Accrual, DayLength} \subseteq Nat \ {0} /\ MaxRepaid \in Nat
    /\ IsFiniteSet(Sockets) /\ IsFiniteSet(Handlers)
    /\ \A x \in Episodes :
         /\ x.calls \subseteq Handlers /\ x.last \in Nat
         /\ DOMAIN x.inside \subseteq Sockets /\ \A s \in DOMAIN x.inside : x.inside[s] \in Rooms

Unread == [at |-> "idle", history |-> {}, before |-> {}, late |-> {}, left |-> Nowhere,
           place |-> 0, visited |-> {}, for |-> {}, time |-> 0]

Stored      == DOMAIN lines
Newer(c, d) == d \in lines[c]

GatewayTypeOK ==
    /\ play \in Episodes /\ clients \subseteq Sockets /\ cut \subseteq Sockets
    /\ sock \in [Sockets -> {"open", "closing", "closed"}]
    /\ roomOf \in [Sockets -> Rooms \cup {Nowhere}] /\ members \in [Rooms -> SUBSET Sockets]
    /\ missed \in [Sockets -> 0..2]
    /\ Stored \subseteq Handlers /\ \A c \in Stored : lines[c] \subseteq Stored \ {c}
    /\ \A c \in play.calls : handling[c].history \subseteq Stored /\ handling[c].visited \subseteq Sockets
    /\ screen \in [Sockets -> [chat : SUBSET Handlers, viewers : 0..Cardinality(Sockets),
                               by : Handlers \cup {NoJoin}]]
    /\ hands \subseteq Rooms \X Persons /\ held \in [Rooms -> [Places -> Persons \cup {Unseated}]]
    /\ tally \in [Persons -> [Fates -> Nat]] /\ barred \subseteq Persons /\ over \subseteq Rooms
    /\ \A s \in Sockets : clock[s].accrued \in Nat /\ clock[s].at <= time
    /\ time \in 0..play.last /\ pays \in [Sockets -> Nat] /\ repaid \in [Sockets -> Nat]
    /\ spent \in [Sockets -> 0..time] /\ lapses \in [Sockets -> Nat]

\* The sockets of scene.inside have authenticated and entered its room before.
GatewayInit ==
    /\ play \in Episodes
    /\ clients = DOMAIN play.inside
    /\ sock = [s \in Sockets |-> "open"] /\ missed = [s \in Sockets |-> 0]
    /\ roomOf = [s \in Sockets |-> IF s \in clients THEN play.inside[s] ELSE Nowhere]
    /\ members = [r \in Rooms |-> {s \in clients : play.inside[s] = r}]
    /\ handling = [c \in play.calls |-> Unread]
    /\ lines = [c \in {} |-> {}] /\ hands = {} /\ barred = {} /\ over = {} /\ cut = {}
    /\ screen = [s \in Sockets |->
                    [chat |-> {}, by |-> NoJoin,
                     viewers |-> IF s \in clients THEN Cardinality(members[roomOf[s]]) ELSE 0]]
    /\ held = [r \in Rooms |-> [i \in Places |-> Unseated]]
    /\ tally = [u \in Persons |-> [f \in Fates |-> 0]]
    /\ clock = [s \in Sockets |->
                   IF s \in clients /\ HostOf[roomOf[s]] # OwnerOf[s]
                   THEN [NoClock EXCEPT !.room = roomOf[s]] ELSE NoClock]
    /\ time = 0 /\ pays = [s \in Sockets |-> 0] /\ repaid = [s \in Sockets |-> 0]
    /\ spent = [s \in Sockets |-> 0] /\ lapses = [s \in Sockets |-> 0]

-----------------------------------------------------------------------------
(* The hub.                                                                *)

Stage(c, a) == handling' = [handling EXCEPT ![c].at = a]
At(c, t, a) == Messages[c].t = t /\ handling[c].at = a
IsOpen(s)     == sock[s] = "open"

Departed_Fault(s) == members
Departed(s) ==
    IF roomOf[s] = Nowhere THEN members ELSE [members EXCEPT ![roomOf[s]] = @ \ {s}]

\* Everyone in room r, as members is after the step, shows how many they are.
Announced(r, scr) ==
    [s \in Sockets |->
        IF s \in members'[r] /\ IsOpen(s) THEN [scr[s] EXCEPT !.viewers = Cardinality(members'[r])]
        ELSE scr[s]]

HearLine(r, c) ==
    [s \in Sockets |->
        IF s \in members[r] /\ IsOpen(s) THEN [screen[s] EXCEPT !.chat = @ \cup {c}]
        ELSE screen[s]]

-----------------------------------------------------------------------------
(* Connections.                                                            *)

\* A message of a socket that is not authenticated: an auth, or its end.
Greet(c) ==
    LET s == Messages[c].from
    IN  /\ Messages[c].t # "tick"
        /\ handling[c].at = "idle" /\ IsOpen(s) /\ s \notin clients
        /\ IF Messages[c].t = "auth" THEN Stage(c, "verifying") /\ UNCHANGED sock
           ELSE Stage(c, "done") /\ sock' = [sock EXCEPT ![s] = "closing"]
        /\ UNCHANGED <<play, clients, roomOf, members, missed, cut, lines, screen, seatVars,
                       barred, over, clockVars>>

\* The token verified, if it does: the socket may have closed meanwhile.
Verify(c) ==
    /\ At(c, "auth", "verifying")
    /\ Stage(c, "done")
    /\ clients' \in {clients, clients \cup {Messages[c].from}}
    /\ UNCHANGED <<play, sock, roomOf, members, missed, cut, lines, screen, seatVars, barred,
                   over, clockVars>>

\* A phone drops, the app leaves the screen, the gateway closes the socket.
Disconnect(s) ==
    /\ IsOpen(s) /\ s \in play.drops
    /\ sock' = [sock EXCEPT ![s] = "closing"]
    /\ UNCHANGED <<play, clients, roomOf, members, missed, cut, handling, lines, screen, seatVars,
                   barred, over, clockVars>>

\* Its handlers that are still waiting.
Waiting(s) == {c \in play.calls : Messages[c].from = s /\ Messages[c].t # "tick"
                                  /\ handling[c].at \notin {"idle", "done", "failed", "spoken"}}

\* The close handler.
SocketCloses(s) ==
    /\ sock[s] = "closing"
    /\ sock' = [sock EXCEPT ![s] = "closed"]
    /\ members' = Departed(s)
    /\ roomOf' = [roomOf EXCEPT ![s] = Nowhere]
    /\ clients' = clients \ {s}
    /\ cut' = IF Waiting(s) # {} THEN cut \cup {s} ELSE cut
    /\ screen' = IF roomOf[s] = Nowhere THEN screen ELSE Announced(roomOf[s], screen)
    /\ UNCHANGED <<play, missed, handling, lines, seatVars, barred, over, clockVars>>

\* A client that had missed two is back, and may have been away a while.
Pong(s) ==
    /\ IsOpen(s) /\ missed[s] > 0
    /\ missed' = [missed EXCEPT ![s] = 0]
    /\ lapses' = IF missed[s] = 2 THEN [lapses EXCEPT ![s] = @ + 1] ELSE lapses
    /\ UNCHANGED <<play, sock, clients, roomOf, members, cut, handling, lines, screen, seatVars,
                   barred, over, clock, time, pays, repaid, spent>>

-----------------------------------------------------------------------------
(* Messages.  What a handler does before its first await is one step.      *)

Spoken  == {c \in play.calls : handling[c].at = "spoken"}
Said(r) == {c \in Stored : Messages[c].room = r /\ Messages[c].yes}

\* recentMessages(): of the lines S, the newest HistorySize.
Backlog_Oldest(h, S) ==
    /\ h \subseteq S /\ Cardinality(h) = Min({HistorySize, Cardinality(S)})
    /\ \A c \in h, d \in S \ h : Newer(d, c)
Backlog(h, S) ==
    /\ h \subseteq S /\ Cardinality(h) = Min({HistorySize, Cardinality(S)})
    /\ \A c \in h, d \in S \ h : Newer(c, d)

Speaks(m) == roomOf[m.from] = m.room /\ m.from \notin Guests

\* Refusals before the first await change nothing.
Receive(c) ==
    LET m == Messages[c]
    IN  /\ m.t \notin {"leave", "tick"}
        /\ handling[c].at = "idle" /\ IsOpen(m.from) /\ m.from \in clients
        /\ Stage(c, IF m.t = "auth" \/ (m.t \in {"chat", "request"} /\ ~Speaks(m)) THEN "done"
                    ELSE "asked")
        /\ UNCHANGED <<play, hubVars, lines, screen, seatVars, barred, over, clockVars>>

\* The room the sender is taken out of without a word to it.
Deserted(m) == IF roomOf[m.from] = m.room THEN Nowhere ELSE roomOf[m.from]

Leave(c) ==
    LET m == Messages[c]
    IN  /\ At(c, "leave", "idle") /\ IsOpen(m.from) /\ m.from \in clients
        /\ handling' = [handling EXCEPT ![c].at = "done", ![c].left = Deserted(m)]
        /\ members' = Departed(m.from)
        /\ roomOf' = [roomOf EXCEPT ![m.from] = Nowhere]
        /\ screen' = Announced(m.room, screen)
        /\ UNCHANGED <<play, sock, clients, missed, cut, lines, seatVars, barred, over, clockVars>>

\* snapshot(): the room lives; seats and backlog are read.
Snapshot(c) ==
    /\ At(c, "join", "asked")
    /\ \/ Messages[c].room \in over /\ Stage(c, "done")
       \/ /\ Messages[c].room \notin over
          /\ \E h \in SUBSET Said(Messages[c].room) :
                 /\ Backlog(h, Said(Messages[c].room))
                 /\ handling' = [handling EXCEPT ![c].at = "checking", ![c].history = h,
                                                 ![c].before = Spoken]
    /\ UNCHANGED <<play, hubVars, lines, screen, seatVars, barred, over, clockVars>>

\* A fresh clock for another room; the same room keeps what was accrued.
FreshClock(s, r) == [NoClock EXCEPT !.no = clock[s].no + 1, !.room = r, !.at = time]

ClockIn(s, r) ==
    IF HostOf[r] = OwnerOf[s] THEN [FreshClock(s, r) EXCEPT !.room = Nowhere]
    ELSE IF clock[s].room = r THEN clock[s]
    ELSE FreshClock(s, r)

\* isBanned(), and without another await, the hub.
EnterRoom(c) ==
    LET m == Messages[c]
    IN  /\ At(c, "join", "checking")
        /\ IF OwnerOf[m.from] \in barred
           THEN Stage(c, "done") /\ UNCHANGED <<members, roomOf, screen, clock, lapses>>
           ELSE /\ handling' = [handling EXCEPT ![c].at = "entered", ![c].left = Deserted(m)]
                /\ screen' = [screen EXCEPT ![m.from].by = NoJoin]
                /\ members' = [Departed(m.from) EXCEPT ![m.room] = @ \cup {m.from}]
                /\ roomOf' = [roomOf EXCEPT ![m.from] = m.room]
                /\ clock' = [clock EXCEPT ![m.from] = ClockIn(m.from, m.room)]
                /\ lapses' = [lapses EXCEPT ![m.from] =
                                  IF clock[m.from].room = m.room THEN @ + 1 ELSE @]
        /\ UNCHANGED <<play, sock, clients, missed, cut, lines, seatVars, barred, over, time, pays,
                       repaid, spent>>

\* joined, sent when the queue, the poll and the pin were read: the app shows
\* what the snapshot held INSTEAD of what it has shown.  Then the presence.
Welcome_Fault(c) == [screen EXCEPT ![Messages[c].from].by = c]
Welcome(c) ==
    LET s == Messages[c].from
    IN  IF IsOpen(s) THEN [screen EXCEPT ![s].chat = handling[c].history, ![s].by = c] ELSE screen

AnswerJoin(c) ==
    /\ At(c, "join", "entered")
    /\ handling' = [handling EXCEPT ![c].at = "done", ![c].late = Spoken]
    /\ UNCHANGED <<play, hubVars, lines, seatVars, barred, over, clockVars>>
    /\ screen' = Announced(Messages[c].room, Welcome(c))

\* A read of the queue, the poll or the pin fails: only an error is sent.
JoinFails(c) ==
    /\ At(c, "join", "entered")
    /\ Stage(c, "failed")
    /\ UNCHANGED <<play, hubVars, lines, screen, seatVars, barred, over, clockVars>>

Store_Fault(c) ==
    /\ At(c, "chat", "asked")
    /\ Stage(c, "recorded")
    /\ UNCHANGED <<play, hubVars, lines, screen, seatVars, barred, over, clockVars>>

\* The line is stored, whatever the verdict (m.yes: not blocked), in one INSERT
\* that stamps it.
Store(c) ==
    /\ At(c, "chat", "asked")
    /\ IF OwnerOf[Messages[c].from] \in barred THEN Stage(c, "done") /\ UNCHANGED lines
       ELSE /\ Stage(c, "recorded")
            /\ lines' = [d \in Stored \cup {c} |-> IF d \in Stored THEN lines[d] ELSE Stored]
    /\ UNCHANGED <<play, hubVars, screen, seatVars, barred, over, clockVars>>

\* And, once its look was read, said to the room as it is then.
Speak(c) ==
    /\ At(c, "chat", "recorded")
    /\ IF Messages[c].yes THEN Stage(c, "spoken") /\ screen' = HearLine(Messages[c].room, c)
       ELSE Stage(c, "done") /\ UNCHANGED screen
    /\ UNCHANGED <<play, hubVars, lines, seatVars, barred, over, clockVars>>

-----------------------------------------------------------------------------
(* The mic queue.  Each handler first awaits the room's snapshot, for the  *)
(* host and for ROOM_ENDED; where nothing here tells the read from what    *)
(* follows it, they are one step.                                          *)

Hand(m, u)      == <<m.room, u>>
Tallied(u, f)     == [tally EXCEPT ![u][f] = @ + 1]
SeatedIn(r)     == {held[r][i] : i \in Places} \ {Unseated}

\* requestMic(), an upsert.
Raise(c) ==
    LET m == Messages[c]
        u == OwnerOf[m.from]
    IN  /\ At(c, "request", "asked")
        /\ Stage(c, "done")
        /\ IF m.room \in over \/ Hand(m, u) \in hands THEN UNCHANGED <<hands, tally>>
           ELSE hands' = hands \cup {Hand(m, u)} /\ tally' = Tallied(u, "raised")
        /\ UNCHANGED <<play, hubVars, lines, screen, held, barred, over, clockVars>>

\* cancelMic(): only what is pending.
Cancel(c) ==
    LET m == Messages[c]
        u == OwnerOf[m.from]
    IN  /\ At(c, "cancel", "asked")
        /\ Stage(c, "done")
        /\ IF m.room \in over \/ Hand(m, u) \notin hands THEN UNCHANGED <<hands, tally>>
           ELSE hands' = hands \ {Hand(m, u)} /\ tally' = Tallied(u, "cancelled")
        /\ UNCHANGED <<play, hubVars, lines, screen, held, barred, over, clockVars>>

\* The room lives and the socket's user is its host.
Admit(c) ==
    LET m == Messages[c]
    IN  /\ At(c, "resolve", "asked")
        /\ Stage(c, IF m.room \notin over /\ HostOf[m.room] = OwnerOf[m.from] THEN "allowed"
                    ELSE "done")
        /\ UNCHANGED <<play, hubVars, lines, screen, seatVars, barred, over, clockVars>>

Pending_Fault(m) == TRUE
Pending(m)       == Hand(m, m.user) \in hands

\* resolveMic(), one conditional UPDATE; a denial is told at once.
Resolve(c) ==
    LET m == Messages[c]
    IN  /\ At(c, "resolve", "allowed")
        /\ IF ~Pending(m) THEN Stage(c, "done") /\ UNCHANGED <<hands, tally>>
           ELSE /\ hands' = hands \ {Hand(m, m.user)}
                /\ IF m.yes THEN Stage(c, "granted") /\ UNCHANGED tally
                   ELSE Stage(c, "done") /\ tally' = Tallied(m.user, "denied")
        /\ UNCHANGED <<play, hubVars, lines, screen, held, barred, over, clockVars>>

\* firstFreeSeat(), or ROOM_FULL; the app never names a seat itself.
PickSeat(c) ==
    LET m    == Messages[c]
        free == {i \in Places : held[m.room][i] = Unseated}
    IN  /\ At(c, "resolve", "granted")
        /\ IF free = {} THEN Stage(c, "done") /\ tally' = Tallied(m.user, "refused")
           ELSE /\ handling' = [handling EXCEPT ![c].at = "picked", ![c].place = Min(free)]
                /\ UNCHANGED tally
        /\ UNCHANGED <<play, hubVars, lines, screen, hands, held, barred, over, clockVars>>

CanSit_Fault(m, i) == m.room \notin over /\ m.user \notin barred
CanSit(m, i) ==
    /\ m.room \notin over /\ m.user \notin barred
    /\ \/ held[m.room][i] = m.user
       \/ held[m.room][i] = Unseated /\ m.user \notin SeatedIn(m.room)

\* takeSeat(), in one step (Seats has its steps): a refusal, a grant that
\* fails and is compensated, or the seat, and then the answers.
Sit(c) ==
    LET m == Messages[c]
        i == handling[c].place
    IN  /\ At(c, "resolve", "picked")
        /\ Stage(c, "done")
        /\ \/ /\ CanSit(m, i)
              /\ held' = [held EXCEPT ![m.room][i] = m.user]
              /\ tally' = Tallied(m.user, "seated")
           \/ /\ tally' = Tallied(m.user, "refused")
              /\ held' = IF held[m.room][i] = m.user THEN [held EXCEPT ![m.room][i] = Unseated]
                         ELSE held
        /\ UNCHANGED <<play, hubVars, lines, screen, hands, barred, over, clockVars>>

-----------------------------------------------------------------------------
(* The watch reward.                                                       *)

\* A timer fires: its moment is kept, the clients are visited one by one.
TimerFires(c) ==
    /\ At(c, "tick", "idle") /\ time > 0
    /\ handling' = [handling EXCEPT ![c].at = "visiting", ![c].time = time]
    /\ UNCHANGED <<play, hubVars, lines, screen, seatVars, barred, over, clockVars>>

Today(c) == handling[c].time \div DayLength

Counts(c, s) ==
    /\ clock[s].room # Nowhere /\ roomOf[s] = clock[s].room /\ s \notin Guests
    /\ missed[s] < 2 /\ IsOpen(s) /\ clock[s].capped # Today(c)

\* What one visit adds: the time since the last, at most Accrual.
Gain_Fault(c, s) == Max({0, handling[c].time - clock[s].at})
Gain(c, s)       == Min({Max({0, handling[c].time - clock[s].at}), Accrual})

\* Up to the await of the reward, which is taken off the clock beforehand.
Visit(c, s) ==
    LET sum  == clock[s].accrued + Gain(c, s)
        gone == [handling EXCEPT ![c].visited = @ \cup {s}]
    IN  /\ At(c, "tick", "visiting") /\ s \in clients \ handling[c].visited
        /\ IF ~Counts(c, s) THEN handling' = gone /\ UNCHANGED <<clock, lapses>>
           ELSE /\ lapses' = [lapses EXCEPT ![s] = IF handling[c].time < time THEN @ + 1 ELSE @]
                /\ clock' = [clock EXCEPT ![s].at = handling[c].time,
                                          ![s].accrued = IF sum < Interval THEN sum
                                                         ELSE sum - Interval]
                /\ handling' = IF sum < Interval THEN gone
                               ELSE [gone EXCEPT ![c].at = "granting", ![c].for = {<<s, clock[s].no>>}]
        /\ UNCHANGED <<play, hubVars, lines, screen, seatVars, barred, over, time, pays, repaid, spent>>

\* The clock object the grant was asked for, if the socket still has it.
Same(c, s) == handling[c].for = {<<s, clock[s].no>>}

\* A grant that threw gives the interval back.
GivenBack(c, s) == IF Same(c, s) THEN [clock EXCEPT ![s].accrued = @ + Interval] ELSE clock

\* Paid; or capped for that day; or it threw.  It may throw when its posting has
\* committed: then the interval is given back all the same, and paid again later.
GrantReward(c) ==
    /\ At(c, "tick", "granting")
    /\ handling' = [handling EXCEPT ![c].at = "visiting", ![c].for = {}]
    /\ \E s \in {x[1] : x \in handling[c].for} :
           \/ pays' = [pays EXCEPT ![s] = @ + 1] /\ UNCHANGED <<clock, repaid>>
           \/ /\ clock' = IF Same(c, s)
                          THEN [clock EXCEPT ![s].capped = Today(c), ![s].accrued = 0] ELSE clock
              /\ UNCHANGED <<pays, repaid>>
           \/ clock' = GivenBack(c, s) /\ UNCHANGED <<pays, repaid>>
           \/ /\ "loses" \in play.outside /\ repaid[s] < MaxRepaid
              /\ clock' = GivenBack(c, s)
              /\ pays' = [pays EXCEPT ![s] = @ + 1] /\ repaid' = [repaid EXCEPT ![s] = @ + 1]
    /\ UNCHANGED <<play, hubVars, lines, screen, seatVars, barred, over, time, spent, lapses>>

TickEnds(c) ==
    /\ At(c, "tick", "visiting") /\ clients \subseteq handling[c].visited
    /\ handling' = [handling EXCEPT ![c] = Unread]
    /\ UNCHANGED <<play, hubVars, lines, screen, seatVars, barred, over, clockVars>>

-----------------------------------------------------------------------------
(* What happens outside the gateway.                                       *)

\* Time passes; spent counts it for the sockets that watch.  The heartbeat,
\* as long as a tick, pings every client and drops one that missed two rounds.
Advance ==
    LET pinged == IF "pings" \in play.outside THEN {s \in clients : IsOpen(s)} ELSE {}
    IN  /\ time < play.last
        /\ time' = time + 1
        /\ spent' = [s \in Sockets |->
                        IF IsOpen(s) /\ roomOf[s] # Nowhere /\ roomOf[s] = clock[s].room
                        THEN spent[s] + 1 ELSE spent[s]]
        /\ sock' = [s \in Sockets |-> IF s \in pinged /\ missed[s] = 2 THEN "closing" ELSE sock[s]]
        /\ missed' = [s \in Sockets |-> IF s \in pinged /\ missed[s] < 2 THEN missed[s] + 1
                                        ELSE missed[s]]
        /\ UNCHANGED <<play, clients, roomOf, members, cut, handling, lines, screen, seatVars,
                       barred, over, clock, pays, repaid, lapses>>

\* A seat is taken, left or freed over HTTP.
SeatOverHttp(r, u) ==
    /\ "http" \in play.outside /\ r \notin over /\ HostOf[r] # u
    /\ held' \in {[held EXCEPT ![r][i] = u] :
                      i \in {j \in Places : held[r][j] = Unseated /\ u \notin SeatedIn(r) \cup barred}}
                 \cup {[held EXCEPT ![r][i] = Unseated] : i \in {j \in Places : held[r][j] = u}}
    /\ UNCHANGED <<play, hubVars, handling, lines, screen, hands, tally, barred, over, clockVars>>

\* kick: barred, and off the seat.  The socket stays where it is.
Kick(u) ==
    /\ "kick" \in play.outside /\ u \notin barred /\ \A r \in Rooms : HostOf[r] # u
    /\ barred' = barred \cup {u}
    /\ held' = [r \in Rooms |-> [i \in Places |-> IF held[r][i] = u THEN Unseated ELSE held[r][i]]]
    /\ UNCHANGED <<play, hubVars, handling, lines, screen, hands, tally, over, clockVars>>

RoomEnds(r) ==
    /\ "end" \in play.outside /\ r \notin over
    /\ over' = over \cup {r}
    /\ held' = [held EXCEPT ![r] = [i \in Places |-> Unseated]]
    /\ UNCHANGED <<play, hubVars, handling, lines, screen, hands, tally, barred, clockVars>>

GatewayNext ==
    \/ \E c \in play.calls :
           \/ Greet(c) \/ Verify(c) \/ Receive(c) \/ Leave(c)
           \/ Snapshot(c) \/ EnterRoom(c) \/ AnswerJoin(c) \/ JoinFails(c)
           \/ Store(c) \/ Speak(c)
           \/ Raise(c) \/ Cancel(c) \/ Admit(c) \/ Resolve(c) \/ PickSeat(c) \/ Sit(c)
           \/ TimerFires(c) \/ GrantReward(c) \/ TickEnds(c)
           \/ \E s \in Sockets : Visit(c, s)
    \/ \E s \in Sockets : Disconnect(s) \/ SocketCloses(s) \/ Pong(s)
    \/ Advance
    \/ \E r \in Rooms : RoomEnds(r) \/ \E u \in Persons : SeatOverHttp(r, u)
    \/ \E u \in Persons : Kick(u)

GatewaySpec == GatewayInit /\ [][GatewayNext]_gatewayVars

-----------------------------------------------------------------------------
(* Properties.                                                             *)

\* The hub's rooms and the sockets' roomId are two records of one thing, kept
\* in step by join() and leave() however handlers of one socket overlap.
HubAgrees == \A s \in Sockets, r \in Rooms : s \in members[r] <=> roomOf[s] = r

\* A closed socket is forgotten, unless it closed while one of its messages
\* was being handled: then the handler may enter it for good (README).
OnlyTheCutLinger ==
    \A s \in Sockets : sock[s] = "closed" /\ s \notin cut => s \notin clients /\ roomOf[s] = Nowhere

\* c is older than a backlog's worth of the lines that join j was answered and
\* that are on s's screen.
Scrolled(c, j, s) ==
    Cardinality({h \in handling[j].history \cap screen[s].chat : Newer(h, c)}) >= HistorySize

\* A viewer in a room was shown every line said since his join was answered, and
\* of those said before it read the backlog the newest HistorySize; what was said
\* between the two is lost to him (README), whatever else happens.
ScreensAreTold ==
    \A s \in Sockets :
        LET j == screen[s].by
        IN  j # NoJoin /\ IsOpen(s) /\ roomOf[s] = Messages[j].room =>
                \A c \in Spoken :
                    Messages[c].room = roomOf[s] =>
                        \/ c \in screen[s].chat
                        \/ c \in handling[j].late \ handling[j].before
                        \/ c \in handling[j].before /\ Scrolled(c, j, s)

\* Nobody is shown a line that was not stored first, or one that was blocked.
OnlyTheStoredIsShown ==
    \A s \in Sockets : screen[s].chat \subseteq {c \in Stored : Messages[c].yes}

\* Somebody has just entered r, or left it by a message that names another room.
Unsettled(r) ==
    \E j \in play.calls :
        \/ /\ Messages[j].t = "join" /\ Messages[j].room = r
           /\ handling[j].at \in {"entered", "failed"}
        \/ handling[j].left = r

\* Otherwise everyone in a room is shown how many are in it.
ViewersAreTold ==
    \A s \in Sockets :
        IsOpen(s) /\ roomOf[s] # Nowhere /\ ~Unsettled(roomOf[s]) =>
            screen[s].viewers = Cardinality(members[roomOf[s]])

\* A raised hand comes down once: cancelled, denied, seated or refused (the
\* host is told, the viewer is not), or is being answered.
HandsAddUp ==
    \A u \in Persons :
        tally[u]["raised"] =
              tally[u]["cancelled"] + tally[u]["denied"] + tally[u]["seated"] + tally[u]["refused"]
            + Cardinality({x \in hands : x[2] = u})
            + Cardinality({c \in play.calls : /\ Messages[c].t = "resolve" /\ Messages[c].user = u
                                              /\ handling[c].at \in {"granted", "picked"}})

\* Nobody holds two seats of a room, whoever gives them out.
OneSeatEach ==
    \A r \in Rooms, i, j \in Places : held[r][i] = held[r][j] /\ held[r][i] # Unseated => i = j

Granting(s) == {c \in play.calls : \E x \in handling[c].for : x[1] = s}

\* A socket is paid for the time it spent in a room, at most Accrual more for each
\* time it came back or was visited late, and an interval more for each payment the
\* gateway took for a failure, however ticks overlap, fail or come late.
PaidForPresence ==
    \A s \in Sockets :
        (pays[s] + Cardinality(Granting(s))) * Interval + clock[s].accrued
            <= spent[s] + Accrual * lapses[s] + Interval * repaid[s]

GatewayHolds ==
    /\ GatewayTypeOK /\ HubAgrees /\ OnlyTheCutLinger /\ ScreensAreTold
    /\ OnlyTheStoredIsShown /\ ViewersAreTold /\ HandsAddUp /\ OneSeatEach /\ PaidForPresence
===============================================================================
