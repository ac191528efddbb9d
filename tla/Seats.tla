--------------------------------- MODULE Seats ---------------------------------
(***************************************************************************)
(* One live party room: its mic seats, its bans and the host's session     *)
(* stretch (modules/rooms/seats.service.ts, live.service.ts), against the  *)
(* media server that carries the sound and reports who comes and goes      *)
(* (modules/realtime/webhooks.service.ts).                                 *)
(*                                                                         *)
(* A request is a pipeline of database transactions and media calls with   *)
(* nothing held in between, so requests, webhooks and people interleave    *)
(* between any two stages.  Webhooks come in order unless a mishap         *)
(* repeats, reorders or loses one.  The media server is external: a        *)
(* participant may connect with any token minted earlier.  X_Fault is X    *)
(* with a fault; nothing here uses it.                                     *)
(***************************************************************************)
EXTENDS Integers, Sequences, FiniteSets, SequencesExt

CONSTANTS
    Host, Guests,
    Nobody,           \* a free seat
    SeatCapacity,     \* rooms.seat_capacity; seat 0 is the host's
    Requests, Taps,   \* bound: API requests in progress at once; Taps only take seats
    MaxWebhooks,      \* bound: webhooks in flight after somebody connects; somebody
                      \* leaves of his own will with one fewer
    MaxMishaps        \* bound: webhooks lost, repeated or reordered, processes
                      \* dead, and media calls that fail for no fault of the room

VARIABLES
    ended,            \* rooms.ended_at is set
    seat,             \* room_seats
    seatsTaken,       \* rooms.seats_taken
    banned,           \* room_bans
    session,          \* an open row of room_sessions
    token,            \* grants of the last join token minted for each user
    media,            \* on the media server: out, listener or speaker
    mediaRoom,        \* the media room exists
    webhooks,         \* in flight to us
    opening,          \* onParticipantJoined between its SELECT and its INSERT
    req,              \* the requests in progress
    mishaps, outages

room   == <<ended, seat, seatsTaken, banned>>
server == <<token, media, mediaRoom>>
vars   == <<room, session, server, webhooks, opening, req, mishaps, outages>>

Users == Guests \cup {Host}
Seats == 0..(SeatCapacity - 1)
Idle  == [at |-> "idle", user |-> Nobody, idx |-> 0]

ASSUME SeatsConstants ==
    /\ Host \notin Guests /\ Nobody \notin Guests \cup {Host}
    /\ IsFiniteSet(Guests) /\ IsFiniteSet(Requests) /\ Taps \subseteq Requests
    /\ SeatCapacity \in Nat \ {0} /\ {MaxWebhooks, MaxMishaps} \subseteq Nat

Webhook  == [kind : {"joined", "left"}, user : Users] \cup [kind : {"finished"}]
Joined(u) == [kind |-> "joined", user |-> u]
Left(u)   == [kind |-> "left", user |-> u]

TypeOK ==
    /\ ended \in BOOLEAN /\ session \in BOOLEAN /\ mediaRoom \in BOOLEAN /\ opening \in BOOLEAN
    /\ seat \in [Seats -> Users \cup {Nobody}] /\ seatsTaken \in 0..SeatCapacity
    /\ banned \subseteq Guests
    /\ token \in [Users -> {"none", "listener", "speaker"}]
    /\ media \in [Users -> {"out", "listener", "speaker"}]
    /\ webhooks \in Seq(Webhook)
    /\ \A r \in Requests :
         \/ req[r] = Idle
         \/ /\ req[r].user \in Users /\ req[r].idx \in Seats
            /\ req[r].at \in {"insert", "grant", "undo", "revoke", "eject", "close"}
    /\ mishaps \in 0..MaxMishaps /\ outages \in 0..(MaxMishaps - mishaps)

\* goLive: the room, the host's seat and the host's own token.
Init ==
    /\ ended = FALSE /\ banned = {} /\ session = FALSE
    /\ seat = [i \in Seats |-> IF i = 0 THEN Host ELSE Nobody] /\ seatsTaken = 1
    /\ token = [u \in Users |-> IF u = Host THEN "speaker" ELSE "none"]
    /\ media = [u \in Users |-> "out"] /\ mediaRoom = FALSE
    /\ webhooks = <<>> /\ opening = FALSE
    /\ req = [r \in Requests |-> Idle] /\ mishaps = 0 /\ outages = 0

Rows      == {i \in Seats : seat[i] # Nobody}
Seated(u) == \E i \in Seats : seat[i] = u
Vacate(u) == [i \in Seats |-> IF seat[i] = u THEN Nobody ELSE seat[i]]
CanGoWrong == mishaps + outages < MaxMishaps
OneLess   == IF seatsTaken > 0 THEN seatsTaken - 1 ELSE 0     \* GREATEST(0, ...)

\* The DELETE of a user's row, and the count with it: releaseSeatRow.
FreeRow(u) ==
    /\ seat' = Vacate(u)
    /\ seatsTaken' = IF Seated(u) THEN OneLess ELSE seatsTaken

-----------------------------------------------------------------------------
(* People and the media server                                             *)

\* joinRoom: a ban is refused, the grants follow the seat.  (Its reads are one
\* step: a token kept while the seat changes covers what could come between.)
Join(u) ==
    /\ ~ended /\ u \notin banned
    /\ token' = [token EXCEPT ![u] = IF Seated(u) \/ u = Host THEN "speaker" ELSE "listener"]
    /\ UNCHANGED <<room, session, media, mediaRoom, webhooks, opening, req, mishaps, outages>>

Connect(u) ==
    /\ token[u] # "none" /\ media[u] = "out" /\ Len(webhooks) < MaxWebhooks
    /\ media' = [media EXCEPT ![u] = token[u]] /\ mediaRoom' = TRUE
    /\ webhooks' = Append(webhooks, Joined(u))
    /\ UNCHANGED <<room, session, token, opening, req, mishaps, outages>>

Disconnect(u) ==
    /\ media[u] # "out" /\ Len(webhooks) + 1 < MaxWebhooks
    /\ media' = [media EXCEPT ![u] = "out"]
    /\ webhooks' = Append(webhooks, Left(u))
    /\ UNCHANGED <<room, session, token, mediaRoom, opening, req, mishaps, outages>>

\* The empty timeout.
MediaRoomFinishes ==
    /\ mediaRoom /\ \A u \in Users : media[u] = "out"
    /\ mediaRoom' = FALSE
    /\ webhooks' = Append(webhooks, [kind |-> "finished"])
    /\ UNCHANGED <<room, session, token, media, opening, req, mishaps, outages>>

-----------------------------------------------------------------------------
(* Webhooks: applyWebhookEvent                                             *)

\* onParticipantJoined: the SELECT; the INSERT follows as a statement of its own.
OnJoined(u) ==
    /\ opening' = (~ended /\ u = Host)
    /\ UNCHANGED <<ended, seat, seatsTaken, session>>

\* ON CONFLICT DO NOTHING on the one open row.
OpenSession ==
    /\ opening /\ opening' = FALSE /\ session' = TRUE
    /\ UNCHANGED <<room, server, webhooks, req, mishaps, outages>>

CountLeft_Fault(u) == seatsTaken' = IF u # Host /\ ~ended THEN OneLess ELSE seatsTaken
CountLeft(u) == seatsTaken' = IF u # Host /\ Seated(u) /\ ~ended THEN OneLess ELSE seatsTaken

CloseStretch_Fault(u) == session' = (session /\ (u # Host \/ ended))
CloseStretch_Never(u) == session' = session
CloseStretch(u) == session' = (session /\ u # Host)

\* onParticipantLeft: a guest's seat, never the host's; and the host's stretch.
OnLeft(u) ==
    /\ seat' = IF u = Host THEN seat ELSE Vacate(u)
    /\ CountLeft(u) /\ CloseStretch(u)
    /\ UNCHANGED <<ended, opening>>

OnFinished ==
    /\ ended' = TRUE
    /\ IF ended THEN UNCHANGED <<seat, seatsTaken, session>>
                ELSE /\ seat' = [i \in Seats |-> Nobody] /\ seatsTaken' = 0 /\ session' = FALSE
    /\ UNCHANGED opening

Apply(e) ==
    /\ \/ e.kind = "joined" /\ OnJoined(e.user)
       \/ e.kind = "left" /\ OnLeft(e.user)
       \/ e.kind = "finished" /\ OnFinished
    /\ UNCHANGED <<banned, server, req, outages>>

\* In order, each once.
Receive ==
    /\ ~opening /\ webhooks # <<>>
    /\ Apply(Head(webhooks))
    /\ webhooks' = Tail(webhooks)
    /\ UNCHANGED mishaps

\* The documented contract: repeated, overtaking, or never.
Misdeliver ==
    /\ CanGoWrong /\ mishaps' = mishaps + 1 /\ ~opening
    /\ \E n \in DOMAIN webhooks :
         \/ Apply(webhooks[n]) /\ webhooks' = webhooks
         \/ n > 1 /\ Apply(webhooks[n]) /\ webhooks' = RemoveAt(webhooks, n)
         \/ /\ webhooks' = RemoveAt(webhooks, n)
            /\ UNCHANGED <<room, session, server, opening, req, outages>>

-----------------------------------------------------------------------------
(* Requests                                                                *)

\* The next stage; only the transaction of takeSeat looks at the seat number.
Goto(r, at) == req' = [req EXCEPT ![r] = [@ EXCEPT !.at = at, !.idx = 0]]
Done(r)     == req' = [req EXCEPT ![r] = Idle]

InRange_Fault(i) == i <= SeatCapacity
InRange(i) == i < SeatCapacity

\* takeSeat up to its transaction: everything here may be stale when it runs.
StartTake(r, u, i) ==
    /\ ~ended /\ req[r] = Idle
    /\ InRange(i) /\ (i = 0 => u = Host) /\ u \notin banned
    /\ req' = [req EXCEPT ![r] = [at |-> "insert", user |-> u, idx |-> i]]
    /\ UNCHANGED <<room, session, server, webhooks, opening, mishaps, outages>>

InsertSeat_Fault(r) ==
    LET u == req[r].user  i == req[r].idx
    IN  /\ req[r].at = "insert"
        /\ \/ /\ seat[i] = Nobody /\ seatsTaken < SeatCapacity
              /\ seat' = [seat EXCEPT ![i] = u] /\ seatsTaken' = seatsTaken + 1
              /\ Goto(r, "grant")
           \/ seat[i] = u /\ Goto(r, "grant") /\ UNCHANGED <<seat, seatsTaken>>
           \/ /\ seat[i] # u /\ (seat[i] # Nobody \/ seatsTaken = SeatCapacity)
              /\ Done(r) /\ UNCHANGED <<seat, seatsTaken>>
        /\ UNCHANGED <<ended, banned, session, server, webhooks, opening, mishaps, outages>>

\* The transaction: the two unique keys of room_seats decide.  Holding that very
\* seat already is a success.  It does not ask whether the room has ended, when
\* the count is no longer that of the rows; the CHECK on rooms (migration 006)
\* refuses to count beyond the capacity, and the row is rolled back.
InsertSeat(r) ==
    LET u == req[r].user  i == req[r].idx
    IN  /\ req[r].at = "insert"
        /\ \/ /\ ~Seated(u) /\ seat[i] = Nobody /\ seatsTaken < SeatCapacity
              /\ seat' = [seat EXCEPT ![i] = u] /\ seatsTaken' = seatsTaken + 1
              /\ Goto(r, "grant")
           \/ seat[i] = u /\ Goto(r, "grant") /\ UNCHANGED <<seat, seatsTaken>>
           \/ /\ seat[i] # u
              /\ Seated(u) \/ seat[i] # Nobody \/ seatsTaken = SeatCapacity
              /\ Done(r) /\ UNCHANGED <<seat, seatsTaken>>
        /\ UNCHANGED <<ended, banned, session, server, webhooks, opening, mishaps, outages>>

\* setGrants: fails for somebody who is not connected, and in an outage, when it
\* may have taken effect all the same.
Grant(r) ==
    LET u == req[r].user
        raised == [media EXCEPT ![u] = IF @ = "out" THEN "out" ELSE "speaker"]
    IN  /\ req[r].at = "grant"
        /\ \/ /\ media[u] # "out" /\ media' = raised
              /\ Done(r) /\ UNCHANGED outages
           \/ media[u] = "out" /\ Goto(r, "undo") /\ UNCHANGED <<media, outages>>
           \/ /\ media[u] # "out" /\ CanGoWrong /\ outages' = outages + 1
              /\ media' \in {media, raised} /\ Goto(r, "undo")
        /\ UNCHANGED <<room, session, token, mediaRoom, webhooks, opening, mishaps>>

Undo_Fault(r) ==
    /\ req[r].at = "undo"
    /\ Done(r)
    /\ UNCHANGED <<room, session, server, webhooks, opening, mishaps, outages>>

\* The compensation: whatever row the user holds by now.
Undo(r) ==
    /\ req[r].at = "undo"
    /\ FreeRow(req[r].user) /\ Done(r)
    /\ UNCHANGED <<ended, banned, session, server, webhooks, opening, mishaps, outages>>

\* releaseSeat, by the user or by the host.  Its check and its transaction are
\* one step: a room that ends in between leaves no row to delete.
Release(r, u) ==
    /\ ~ended /\ r \notin Taps /\ req[r] = Idle /\ u # Host /\ Seated(u)
    /\ FreeRow(u)
    /\ req' = [req EXCEPT ![r] = [at |-> "revoke", user |-> u, idx |-> 0]]
    /\ UNCHANGED <<ended, banned, session, server, webhooks, opening, mishaps, outages>>

\* Best effort, as is every media call below.
Revoke(r) ==
    LET u == req[r].user
    IN  /\ req[r].at = "revoke" /\ Done(r)
        /\ \/ /\ media' = [media EXCEPT ![u] = IF @ = "out" THEN "out" ELSE "listener"]
              /\ UNCHANGED outages
           \/ CanGoWrong /\ outages' = outages + 1 /\ UNCHANGED media
        /\ UNCHANGED <<room, session, token, mediaRoom, webhooks, opening, mishaps>>

\* kickFromRoom: the ban and the seat in one transaction, then the disconnect.
Kick(r, u) ==
    /\ ~ended /\ r \notin Taps /\ req[r] = Idle /\ u # Host
    /\ banned' = banned \cup {u}
    /\ FreeRow(u)
    /\ req' = [req EXCEPT ![r] = [at |-> "eject", user |-> u, idx |-> 0]]
    /\ UNCHANGED <<ended, session, server, webhooks, opening, mishaps, outages>>

Eject(r) ==
    LET u == req[r].user
    IN  /\ req[r].at = "eject" /\ Done(r)
        /\ \/ /\ media' = [media EXCEPT ![u] = "out"]
              /\ webhooks' = IF media[u] = "out" THEN webhooks ELSE Append(webhooks, Left(u))
              /\ UNCHANGED outages
           \/ CanGoWrong /\ outages' = outages + 1 /\ UNCHANGED <<media, webhooks>>
        /\ UNCHANGED <<room, session, token, mediaRoom, opening, mishaps>>

\* closeBroadcast: one transaction, then the media room.
EndRoom(r) ==
    /\ ~ended /\ r \notin Taps /\ req[r] = Idle
    /\ ended' = TRUE /\ seat' = [i \in Seats |-> Nobody] /\ seatsTaken' = 0 /\ session' = FALSE
    /\ req' = [req EXCEPT ![r] = [at |-> "close", user |-> Host, idx |-> 0]]
    /\ UNCHANGED <<banned, server, webhooks, opening, mishaps, outages>>

CloseMedia(r) ==
    /\ req[r].at = "close" /\ Done(r)
    /\ \/ LET inside == {u \in Users : media[u] # "out"}
          IN  /\ media' = [u \in Users |-> "out"] /\ mediaRoom' = FALSE
              /\ webhooks' = webhooks \o SetToSeq({Left(u) : u \in inside})
                                      \o (IF mediaRoom THEN <<[kind |-> "finished"]>> ELSE <<>>)
              /\ UNCHANGED outages
       \/ /\ CanGoWrong /\ outages' = outages + 1
          /\ UNCHANGED <<media, mediaRoom, webhooks>>
    /\ UNCHANGED <<room, session, token, opening, mishaps>>

\* The API process dies between two stages.
Crash(r) ==
    /\ req[r] # Idle /\ CanGoWrong /\ mishaps' = mishaps + 1
    /\ Done(r)
    /\ UNCHANGED <<room, session, server, webhooks, opening, outages>>

-----------------------------------------------------------------------------
Step(r) ==
    \/ InsertSeat(r) \/ Grant(r) \/ Undo(r) \/ Revoke(r) \/ Eject(r) \/ CloseMedia(r)

Next ==
    \/ \E u \in Users : Join(u) \/ Connect(u) \/ Disconnect(u)
    \/ MediaRoomFinishes \/ OpenSession \/ Receive \/ Misdeliver
    \/ \E r \in Requests :
         \/ Step(r) \/ EndRoom(r) \/ Crash(r)
         \/ \E u \in Users : Release(r, u) \/ Kick(r, u)
                             \/ \E i \in 0..SeatCapacity : StartTake(r, u, i)

Spec == Init /\ [][Next]_vars

\* Handlers run on and media calls time out; the media server retries webhooks.
FairSpec ==
    /\ Spec
    /\ WF_vars(Receive) /\ WF_vars(OpenSession)
    /\ \A r \in Requests : WF_vars(Step(r))

-----------------------------------------------------------------------------
(* Properties                                                              *)

Calm == webhooks = <<>> /\ ~opening

\* seats_taken is a count kept by relative updates in five places, some of them
\* conditional: while the room lives it is the number of rows, whatever repeats.
CountMatchesRows == ~ended => seatsTaken = Cardinality(Rows)

\* A person on two seats would be shown twice, and a release frees both.
OneSeatEach == \A i, j \in Rows : seat[i] = seat[j] => i = j

\* Both together: the count is the number of people on a seat.
SeatsAddUp == CountMatchesRows /\ OneSeatEach

\* Host hours are paid from room_sessions: once every webhook has come, in
\* order, the stretch is open exactly while the host is on the media server.
SessionTellsHost == Calm /\ ~ended /\ mishaps = 0 => (session <=> media[Host] # "out")

\* onParticipantJoined may insert a stretch after the room has closed them all.
\* It does not stay open, unless a call failed or a webhook was lost.
LateStretchCloses ==
    (ended /\ session) ~> (~session \/ mishaps > 0 \/ outages > 0)

\* "A speaker who closed the app holds a mic nobody can take": not for ever,
\* whether the seat was taken before or after the connection dropped.
SeatsComeFree ==
    \A g \in Guests :
        (Seated(g) /\ media[g] = "out") ~> (~Seated(g) \/ media[g] # "out" \/ mishaps > 0)

\* webhooks.service.ts: "Seat 0 belongs to the host for the life of the room. It
\* is created with the room and cleared only when the room ends."
HostKeepsSeat == ~ended => seat[0] = Host
================================================================================
