------------------------------ MODULE SeatsProofs ------------------------------
(***************************************************************************)
(* For any room, guests, requests and mishaps: the seat count of a live    *)
(* room is the number of people on its seats, each on one of them, and the *)
(* paid stretch tells where the host is (seats.service.ts,                 *)
(* webhooks.service.ts).                                                   *)
(***************************************************************************)
EXTENDS Seats, FiniteSetTheorems, TLAPS

Stages == {"insert", "grant", "undo", "revoke", "eject", "close"}

IsReq(x) == \E s \in Stages, u \in Users, i \in Seats : x = [at |-> s, user |-> u, idx |-> i]

\* What requests and webhooks carry names real people.
Shaped ==
    /\ seat \in [Seats -> Users \cup {Nobody}] /\ ended \in BOOLEAN
    /\ DOMAIN req = Requests
    /\ \A r \in Requests : req[r] = Idle \/ (IsReq(req[r]) /\ (req[r].at = "close" => ended))
    /\ webhooks \in Seq(Webhook)

SeatInv == Shaped /\ CountMatchesRows /\ OneSeatEach

-----------------------------------------------------------------------------
LEMMA SeatsFinite ==
  ASSUME NEW S \in SUBSET Seats
  PROVE  IsFiniteSet(S) /\ Cardinality(S) \in Nat
<1>1. IsFiniteSet(Seats)
  BY SeatsConstants, FS_Interval DEF Seats
<1>2. IsFiniteSet(S)
  BY <1>1, FS_Subset
<1> QED BY <1>2, FS_CardinalityType

LEMMA RowsFinite == IsFiniteSet(Rows) /\ Cardinality(Rows) \in Nat
BY SeatsFinite DEF Rows

\* A person's row goes, and one from the count with it.
LEMMA Vacating ==
  ASSUME SeatInv, NEW u \in Users, seat' = Vacate(u),
         ~ended => seatsTaken' = IF Seated(u) THEN OneLess ELSE seatsTaken
  PROVE  /\ seat' \in [Seats -> Users \cup {Nobody}] /\ OneSeatEach'
         /\ ~ended => seatsTaken' = Cardinality(Rows')
<1>1. u # Nobody
  BY SeatsConstants DEF Users
<1>2. /\ seat' \in [Seats -> Users \cup {Nobody}] /\ OneSeatEach'
  BY DEF Vacate, SeatInv, Shaped, OneSeatEach, Rows
<1>3. CASE Seated(u)
  <2>1. PICK i \in Seats : seat[i] = u
    BY <1>3 DEF Seated
  <2>2. Rows' = Rows \ {i} /\ i \in Rows
    BY <1>1, <2>1 DEF Vacate, SeatInv, Shaped, OneSeatEach, Rows
  <2>3. Cardinality(Rows \ {i}) = Cardinality(Rows) - 1
    BY <2>2, RowsFinite, FS_RemoveElement
  <2>4. Cardinality(Rows) > 0
    BY <2>2, RowsFinite, FS_EmptySet
  <2>5. ~ended => seatsTaken' = Cardinality(Rows) - 1
    BY <1>3, <2>4, RowsFinite DEF SeatInv, CountMatchesRows, OneLess
  <2> QED BY <1>2, <2>2, <2>3, <2>5
<1>4. CASE ~Seated(u)
  <2>1. seat' = seat
    BY <1>4 DEF Vacate, Seated, SeatInv, Shaped
  <2>2. Rows' = Rows
    BY <2>1 DEF Rows
  <2> QED BY <1>2, <1>4, <2>2 DEF SeatInv, CountMatchesRows
<1> QED BY <1>3, <1>4

\* Somebody takes a free seat while on no other.
LEMMA Taking ==
  ASSUME SeatInv, NEW u \in Users, NEW i \in Seats, ~Seated(u), seat[i] = Nobody,
         seat' = [seat EXCEPT ![i] = u], seatsTaken' = seatsTaken + 1
  PROVE  /\ seat' \in [Seats -> Users \cup {Nobody}] /\ OneSeatEach'
         /\ ~ended => seatsTaken' = Cardinality(Rows')
<1>1. u # Nobody
  BY SeatsConstants DEF Users
<1>2. seat' \in [Seats -> Users \cup {Nobody}] /\ OneSeatEach'
  BY DEF SeatInv, Shaped, OneSeatEach, Rows, Seated
<1>3. Rows' = Rows \cup {i} /\ i \notin Rows
  BY <1>1 DEF SeatInv, Shaped, Rows
<1>4. Cardinality(Rows \cup {i}) = Cardinality(Rows) + 1
  BY <1>3, RowsFinite, FS_AddElement
<1> QED BY <1>2, <1>3, <1>4 DEF SeatInv, CountMatchesRows

SeatsFine == /\ seat' \in [Seats -> Users \cup {Nobody}] /\ ended' \in BOOLEAN
             /\ OneSeatEach' /\ CountMatchesRows'

LEMMA Freeing ==
  ASSUME SeatInv, NEW u \in Users, FreeRow(u), ended' = ended
  PROVE  SeatsFine
<1>1. /\ seat' = Vacate(u)
      /\ ~ended => seatsTaken' = IF Seated(u) THEN OneLess ELSE seatsTaken
  BY DEF FreeRow
<1> QED BY <1>1, Vacating DEF SeatsFine, CountMatchesRows, SeatInv, Shaped

\* onParticipantLeft, of whatever webhook while the room lives, of any afterwards.
LEMMA Leaving ==
  ASSUME SeatInv, NEW u, ~ended => u \in Users, OnLeft(u)
  PROVE  SeatsFine
<1>1. ended' = ended /\ ended \in BOOLEAN
  BY DEF OnLeft, SeatInv, Shaped
<1>2. CASE u = Host
  <2>1. seat' = seat /\ seatsTaken' = seatsTaken
    BY <1>2 DEF OnLeft, CountLeft
  <2> QED BY <1>1, <2>1 DEF SeatsFine, SeatInv, Shaped, CountMatchesRows, OneSeatEach, Rows
<1>3. CASE u # Host /\ ended
  <2>1. seat' = Vacate(u)
    BY <1>3 DEF OnLeft
  <2>2. seat' \in [Seats -> Users \cup {Nobody}] /\ OneSeatEach'
    BY <2>1 DEF Vacate, SeatInv, Shaped, OneSeatEach, Rows
  <2> QED BY <1>1, <1>3, <2>2 DEF SeatsFine, CountMatchesRows
<1>4. CASE u # Host /\ ~ended
  <2>1. /\ seat' = Vacate(u)
        /\ ~ended => seatsTaken' = IF Seated(u) THEN OneLess ELSE seatsTaken
    BY <1>4 DEF OnLeft, CountLeft
  <2> QED BY <1>1, <1>4, <2>1, Vacating DEF SeatsFine, CountMatchesRows
<1> QED BY <1>1, <1>2, <1>3, <1>4

LEMMA Applying ==
  ASSUME SeatInv, NEW e, ~ended => e \in Webhook, Apply(e)
  PROVE  SeatsFine
<1>1. CASE e.kind = "joined" /\ OnJoined(e.user)
  BY <1>1 DEF OnJoined, SeatsFine, SeatInv, Shaped, CountMatchesRows, OneSeatEach, Rows
<1>2. CASE e.kind = "left" /\ OnLeft(e.user)
  <2>1. ~ended => e.user \in Users
    BY <1>2 DEF Webhook
  <2> QED BY <1>2, <2>1, Leaving
<1>3. CASE OnFinished
  <2>1. ended' = TRUE /\ (seat' = seat \/ seat' = [i \in Seats |-> Nobody])
    BY <1>3 DEF OnFinished
  <2> QED BY <2>1 DEF SeatsFine, SeatInv, Shaped, CountMatchesRows, OneSeatEach, Rows
<1> QED BY <1>1, <1>2, <1>3 DEF Apply

\* A webhook in flight while the room lives tells of a person.
LEMMA InFlight ==
  ASSUME SeatInv
  PROVE  \A n \in DOMAIN webhooks : ~ended => webhooks[n] \in Webhook
BY DEF SeatInv, Shaped

LEMMA Receiving ==
  ASSUME SeatInv, Receive \/ Misdeliver
  PROVE  SeatsFine
<1>1. CASE Receive
  <2>1. ~ended => Head(webhooks) \in Webhook
    BY <1>1 DEF Receive, SeatInv, Shaped
  <2> QED BY <1>1, <2>1, Applying DEF Receive
<1>2. CASE Misdeliver
  <2>1. PICK n \in DOMAIN webhooks : Apply(webhooks[n]) \/ UNCHANGED room
    BY <1>2 DEF Misdeliver
  <2>2. CASE Apply(webhooks[n])
    BY <2>2, InFlight, Applying
  <2>3. CASE UNCHANGED room
    BY <2>3 DEF room, SeatsFine, SeatInv, Shaped, CountMatchesRows, OneSeatEach, Rows
  <2> QED BY <2>1, <2>2, <2>3
<1> QED BY <1>1, <1>2

\* A request in progress names a person and a seat.
LEMMA InProgress ==
  ASSUME SeatInv, NEW r \in Requests, req[r].at # "idle"
  PROVE  /\ IsReq(req[r]) /\ req[r].user \in Users /\ req[r].idx \in Seats
         /\ req[r].at \in Stages /\ (req[r].at = "close" => ended)
<1>1. req[r] # Idle
  BY DEF Idle
<1>2. IsReq(req[r]) /\ (req[r].at = "close" => ended)
  BY <1>1 DEF SeatInv, Shaped
<1>3. PICK s \in Stages, u \in Users, i \in Seats : req[r] = [at |-> s, user |-> u, idx |-> i]
  BY <1>2 DEF IsReq
<1> QED BY <1>2, <1>3

LEMMA Inserting ==
  ASSUME SeatInv, NEW r \in Requests, InsertSeat(r)
  PROVE  SeatsFine
<1>1. req[r].user \in Users /\ req[r].idx \in Seats /\ ended' = ended
  BY InProgress DEF InsertSeat
<1>2. CASE UNCHANGED <<seat, seatsTaken>>
  BY <1>1, <1>2 DEF SeatsFine, SeatInv, Shaped, CountMatchesRows, OneSeatEach, Rows
<1>3. CASE ~Seated(req[r].user) /\ seat[req[r].idx] = Nobody
           /\ seat' = [seat EXCEPT ![req[r].idx] = req[r].user] /\ seatsTaken' = seatsTaken + 1
  BY <1>1, <1>3, Taking DEF SeatsFine, CountMatchesRows, SeatInv, Shaped
<1> QED BY <1>2, <1>3 DEF InsertSeat

LEMMA SeatMove ==
  ASSUME SeatInv, [Next]_vars
  PROVE  SeatsFine
<1>1. CASE UNCHANGED <<ended, seat, seatsTaken>>
  BY <1>1 DEF SeatsFine, SeatInv, Shaped, CountMatchesRows, OneSeatEach, Rows
<1>2. ASSUME NEW r \in Requests, NEW u \in Users, Release(r, u) \/ Kick(r, u) PROVE SeatsFine
  BY <1>2, Freeing DEF Release, Kick
<1>3. ASSUME NEW r \in Requests, Undo(r) PROVE SeatsFine
  <2>1. req[r].user \in Users /\ FreeRow(req[r].user) /\ ended' = ended
    BY <1>3, InProgress DEF Undo
  <2> QED BY <2>1, Freeing
<1>4. ASSUME NEW r \in Requests, EndRoom(r) PROVE SeatsFine
  <2>1. ended' = TRUE /\ seat' = [i \in Seats |-> Nobody]
    BY <1>4 DEF EndRoom
  <2> QED BY <2>1 DEF SeatsFine, CountMatchesRows, OneSeatEach, Rows
<1> QED
  BY <1>1, <1>2, <1>3, <1>4, Receiving, Inserting
     DEF Next, Step, vars, room, Join, Connect, Disconnect, MediaRoomFinishes, OpenSession,
         StartTake, Grant, Revoke, Eject, CloseMedia, Crash

-----------------------------------------------------------------------------
(* Requests and webhooks                                                   *)

ReqsFine ==
    /\ DOMAIN req' = Requests
    /\ \A r \in Requests : req'[r] = Idle \/ (IsReq(req'[r]) /\ (req'[r].at = "close" => ended'))

LEMMA ZeroIsASeat == 0 \in Seats
BY SeatsConstants DEF Seats

LEMMA Later ==
  ASSUME NEW x, IsReq(x), NEW s \in Stages, NEW y, y = [x EXCEPT !.at = s, !.idx = 0]
  PROVE  IsReq(y) /\ y.at = s
<1>1. PICK a \in Stages, u \in Users, i \in Seats : x = [at |-> a, user |-> u, idx |-> i]
  BY DEF IsReq
<1>2. y = [at |-> s, user |-> u, idx |-> 0]
  BY <1>1
<1> QED BY <1>1, <1>2, ZeroIsASeat DEF IsReq

LEMMA Going ==
  ASSUME SeatInv, ended => ended', NEW r \in Requests, req[r].at # "idle",
         NEW s \in {"grant", "undo"}, Goto(r, s)
  PROVE  ReqsFine
<1> DEFINE x == req[r]
           y == [x EXCEPT !.at = s, !.idx = 0]
<1>1. IsReq(x)
  BY InProgress
<1>2. req' = [req EXCEPT ![r] = y]
  BY DEF Goto
<1>3. y = [x EXCEPT !.at = s, !.idx = 0]
  OBVIOUS
<1> HIDE DEF x, y
<1>4. IsReq(y) /\ y.at = s
  <2>1. s \in Stages
    BY DEF Stages
  <2> QED BY <1>1, <1>3, <2>1, Later
<1> QED BY <1>2, <1>4 DEF ReqsFine, SeatInv, Shaped

LEMMA Beginning ==
  ASSUME SeatInv, ended => ended', NEW r \in Requests, NEW u \in Users, NEW i \in Seats,
         NEW s \in Stages, s = "close" => ended',
         req' = [req EXCEPT ![r] = [at |-> s, user |-> u, idx |-> i]]
  PROVE  ReqsFine
<1>1. IsReq([at |-> s, user |-> u, idx |-> i])
  BY DEF IsReq
<1> QED BY <1>1 DEF ReqsFine, SeatInv, Shaped

\* A room that ended stays ended.
LEMMA EndedStays ==
  ASSUME [Next]_vars
  PROVE  ended => ended'
<1>1. ASSUME NEW e, Apply(e) PROVE ended => ended'
  BY <1>1 DEF Apply, OnJoined, OnLeft, OnFinished
<1>2. CASE Receive \/ Misdeliver
  BY <1>1, <1>2 DEF Receive, Misdeliver, room
<1>3. ASSUME NEW u \in Users, Join(u) \/ Connect(u) \/ Disconnect(u)
      PROVE  ended => ended'
  BY <1>3 DEF Join, Connect, Disconnect, room
<1>4. CASE MediaRoomFinishes \/ OpenSession \/ UNCHANGED vars
  BY <1>4 DEF MediaRoomFinishes, OpenSession, vars, room
<1>5. ASSUME NEW r \in Requests, Step(r) PROVE ended => ended'
  BY <1>5 DEF Step, InsertSeat, Grant, Undo, Revoke, Eject, CloseMedia, room
<1>6. ASSUME NEW r \in Requests, EndRoom(r) \/ Crash(r) PROVE ended => ended'
  BY <1>6 DEF EndRoom, Crash, room
<1>7. ASSUME NEW r \in Requests, NEW u \in Users, Release(r, u) \/ Kick(r, u)
      PROVE  ended => ended'
  BY <1>7 DEF Release, Kick
<1>8. ASSUME NEW r \in Requests, NEW u \in Users, NEW i \in 0..SeatCapacity, StartTake(r, u, i)
      PROVE  ended => ended'
  BY <1>8 DEF StartTake, room
<1> QED
  BY <1>2, <1>3, <1>4, <1>5, <1>6, <1>7, <1>8 DEF Next

LEMMA ReqMove ==
  ASSUME SeatInv, [Next]_vars
  PROVE  ReqsFine
<1>1. ended => ended'
  BY EndedStays
<1>2. CASE req' = req
  BY <1>1, <1>2 DEF ReqsFine, SeatInv, Shaped
<1>3. ASSUME NEW r \in Requests, Done(r) PROVE ReqsFine
  BY <1>1, <1>3 DEF Done, ReqsFine, SeatInv, Shaped
<1>4. ASSUME NEW r \in Requests, InsertSeat(r) \/ Grant(r) PROVE ReqsFine
  <2>1. req[r].at # "idle"
    BY <1>4 DEF InsertSeat, Grant
  <2> QED BY <1>1, <1>3, <1>4, <2>1, Going DEF InsertSeat, Grant
<1>5. ASSUME NEW r \in Requests, NEW u \in Users, NEW i \in 0..SeatCapacity, StartTake(r, u, i)
      PROVE  ReqsFine
  <2>1. i \in Seats
    BY <1>5, SeatsConstants DEF StartTake, InRange, Seats
  <2>2. /\ req' = [req EXCEPT ![r] = [at |-> "insert", user |-> u, idx |-> i]] /\ "insert" # "close"
        /\ "insert" \in Stages
    BY <1>5 DEF StartTake, Stages
  <2> QED BY <1>1, <2>1, <2>2, Beginning
<1>6. ASSUME NEW r \in Requests, NEW u \in Users, Release(r, u) \/ Kick(r, u)
      PROVE  ReqsFine
  <2>1. {"revoke", "eject"} \subseteq Stages
    BY DEF Stages
  <2> QED BY <1>1, <1>6, <2>1, ZeroIsASeat, Beginning DEF Release, Kick
<1>7. ASSUME NEW r \in Requests, EndRoom(r) PROVE ReqsFine
  <2>1. "close" \in Stages /\ Host \in Users
    BY DEF Stages, Users
  <2> QED BY <1>1, <1>7, <2>1, ZeroIsASeat, Beginning DEF EndRoom
<1> QED
  BY <1>2, <1>3, <1>4, <1>5, <1>6, <1>7
     DEF Next, Step, vars, Join, Connect, Disconnect, MediaRoomFinishes, OpenSession, Receive,
         Misdeliver, Apply, Undo, Revoke, Eject, CloseMedia, Crash

\* SetToSeq lists a finite set.
LEMMA Listing ==
  ASSUME NEW S, IsFiniteSet(S)
  PROVE  SetToSeq(S) \in Seq(S)
<1>1. /\ Cardinality(S) \in Nat
      /\ \E f \in [1..Cardinality(S) -> S] : IsInjective(f)
  <2>1. Cardinality(S) \in Nat /\ ExistsBijection(1..Cardinality(S), S)
    BY FS_CardinalityType
  <2> QED BY <2>1 DEF ExistsBijection, Bijection, Injection, IsInjective
<1>2. SetToSeq(S) \in [1..Cardinality(S) -> S]
  BY <1>1 DEF SetToSeq
<1> QED BY <1>1, <1>2

LEMMA LeftsFinite ==
  ASSUME NEW S \in SUBSET Users
  PROVE  IsFiniteSet({Left(u) : u \in S})
<1>1. IsFiniteSet(S)
  BY SeatsConstants, FS_Singleton, FS_Union, FS_Subset DEF Users
<1> DEFINE f == [u \in S |-> Left(u)]
<1>2. f \in Surjection(S, {Left(u) : u \in S})
  BY DEF Surjection
<1> HIDE DEF f
<1> QED BY <1>1, <1>2, FS_Surjection

LEMMA HooksOfPeople ==
  /\ \A u \in Users : Joined(u) \in Webhook /\ Left(u) \in Webhook
  /\ [kind |-> "finished"] \in Webhook
BY DEF Joined, Left, Webhook

LEMMA HookMove ==
  ASSUME SeatInv, [Next]_vars
  PROVE  webhooks' \in Seq(Webhook)
<1>1. webhooks \in Seq(Webhook)
  BY DEF SeatInv, Shaped
<1>2. CASE webhooks' = webhooks
  BY <1>1, <1>2
<1>3. ASSUME NEW e \in Webhook, webhooks' = Append(webhooks, e) PROVE webhooks' \in Seq(Webhook)
  BY <1>1, <1>3
<1>5. CASE \E u \in Users : Connect(u) \/ Disconnect(u)
  BY <1>3, <1>5, HooksOfPeople DEF Connect, Disconnect
<1>6. CASE MediaRoomFinishes
  BY <1>3, <1>6, HooksOfPeople DEF MediaRoomFinishes
<1>7. CASE Receive
  BY <1>1, <1>7 DEF Receive
<1>8. ASSUME NEW n \in DOMAIN webhooks, webhooks' = RemoveAt(webhooks, n)
      PROVE  webhooks' \in Seq(Webhook)
  <2>1. /\ SubSeq(webhooks, 1, n - 1) \in Seq(Webhook)
        /\ SubSeq(webhooks, n + 1, Len(webhooks)) \in Seq(Webhook)
    BY <1>1
  <2> QED BY <1>8, <2>1 DEF RemoveAt
<1>9. CASE Misdeliver
  BY <1>2, <1>8, <1>9 DEF Misdeliver
<1>10. ASSUME NEW r \in Requests, Eject(r) PROVE webhooks' \in Seq(Webhook)
  <2>1. req[r].user \in Users
    BY <1>10, InProgress DEF Eject
  <2> QED BY <1>2, <1>3, <1>10, <2>1, HooksOfPeople DEF Eject
<1>11. ASSUME NEW r \in Requests, CloseMedia(r) PROVE webhooks' \in Seq(Webhook)
  <2> DEFINE lefts == {Left(u) : u \in {u \in Users : media[u] # "out"}}
             last  == IF mediaRoom THEN <<[kind |-> "finished"]>> ELSE <<>>
  <2>1. webhooks' = webhooks \/ webhooks' = webhooks \o SetToSeq(lefts) \o last
    BY <1>11 DEF CloseMedia
  <2>2. lefts \subseteq Webhook /\ IsFiniteSet(lefts)
    BY HooksOfPeople, LeftsFinite
  <2>3. last \in Seq(Webhook)
    BY HooksOfPeople
  <2> HIDE DEF lefts, last
  <2>4. SetToSeq(lefts) \in Seq(Webhook)
    BY <2>2, Listing
  <2>5. \A p, q \in Seq(Webhook) : p \o q \in Seq(Webhook)
    OBVIOUS
  <2>6. webhooks \o SetToSeq(lefts) \in Seq(Webhook)
    BY <1>1, <2>4, <2>5
  <2> QED BY <1>1, <2>1, <2>3, <2>5, <2>6, Zenon
<1>12. ASSUME NEW r \in Requests, Step(r) PROVE webhooks' \in Seq(Webhook)
  BY <1>2, <1>10, <1>11, <1>12 DEF Step, InsertSeat, Grant, Undo, Revoke
<1>13. ASSUME NEW r \in Requests, NEW u \in Users,
              Release(r, u) \/ Kick(r, u) \/ \E i \in 0..SeatCapacity : StartTake(r, u, i)
       PROVE  webhooks' \in Seq(Webhook)
  BY <1>2, <1>13 DEF Release, Kick, StartTake
<1> QED
  BY <1>2, <1>5, <1>6, <1>7, <1>9, <1>12, <1>13 DEF Next, vars, Join, OpenSession, EndRoom, Crash

-----------------------------------------------------------------------------
(* Seats                                                                   *)

LEMMA SeatInvStarts == Init => SeatInv
<1> SUFFICES ASSUME Init PROVE SeatInv
  OBVIOUS
<1>1. Rows = {0} /\ seat \in [Seats -> Users \cup {Nobody}]
  BY SeatsConstants, ZeroIsASeat DEF Init, Rows, Users
<1>2. Cardinality({0}) = 1
  BY FS_Singleton
<1>3. Shaped
  <2>1. webhooks = <<>> /\ ended = FALSE
    BY DEF Init
  <2>3. <<>> \in Seq(Webhook)
    OBVIOUS
  <2>2. DOMAIN req = Requests /\ \A r \in Requests : req[r] = Idle
    BY DEF Init
  <2> QED BY <1>1, <2>1, <2>2, <2>3 DEF Shaped
<1>4. CountMatchesRows /\ OneSeatEach
  BY <1>1, <1>2 DEF Init, CountMatchesRows, OneSeatEach
<1> QED BY <1>3, <1>4 DEF SeatInv

LEMMA SeatInvKeeps == SeatInv /\ [Next]_vars => SeatInv'
BY SeatMove, ReqMove, HookMove DEF SeatInv, Shaped, SeatsFine, ReqsFine

\* Whatever requests, repeated, late and lost webhooks and crashes interleave, each
\* person of a live room is on one seat at most, and the count is that of people.
THEOREM SeatsAlwaysAddUp == Spec => []SeatsAddUp
<1>1. SeatInv => SeatsAddUp
  BY DEF SeatInv, SeatsAddUp
<1> QED BY <1>1, SeatInvStarts, SeatInvKeeps, PTL DEF Spec

-----------------------------------------------------------------------------
(* Types                                                                   *)

CountTyped  == seatsTaken \in 0..SeatCapacity
FlagsTyped  == session \in BOOLEAN /\ opening \in BOOLEAN /\ banned \subseteq Guests
MediaTyped  == /\ token \in [Users -> {"none", "listener", "speaker"}]
               /\ media \in [Users -> {"out", "listener", "speaker"}]
               /\ mediaRoom \in BOOLEAN
BoundsTyped == mishaps \in 0..MaxMishaps /\ outages \in 0..(MaxMishaps - mishaps)

LEMMA Bounds == SeatCapacity \in Nat /\ SeatCapacity > 0 /\ MaxMishaps \in Nat
BY SeatsConstants

\* A step keeps the count, clears it, takes one off, or adds one below the limit.
LEMMA CountSteps ==
  ASSUME [Next]_vars
  PROVE  \/ seatsTaken' \in {seatsTaken, 0, OneLess}
         \/ seatsTaken < SeatCapacity /\ seatsTaken' = seatsTaken + 1
<1>1. CASE UNCHANGED seatsTaken
  BY <1>1
<1>2. ASSUME NEW e, Apply(e) PROVE seatsTaken' \in {seatsTaken, 0, OneLess}
  BY <1>2 DEF Apply, OnJoined, OnLeft, CountLeft, OnFinished
<1>3. CASE Receive \/ Misdeliver
  BY <1>2, <1>3 DEF Receive, Misdeliver, room
<1>4. ASSUME NEW u, FreeRow(u) PROVE seatsTaken' \in {seatsTaken, 0, OneLess}
  BY <1>4 DEF FreeRow
<1>5. ASSUME NEW r \in Requests, InsertSeat(r)
      PROVE  \/ seatsTaken' \in {seatsTaken, 0, OneLess}
             \/ seatsTaken < SeatCapacity /\ seatsTaken' = seatsTaken + 1
  BY <1>5 DEF InsertSeat
<1>6. ASSUME NEW r \in Requests, Undo(r) \/ \E u \in Users : Release(r, u) \/ Kick(r, u)
      PROVE  seatsTaken' \in {seatsTaken, 0, OneLess}
  BY <1>4, <1>6 DEF Undo, Release, Kick
<1>7. ASSUME NEW r \in Requests, EndRoom(r) PROVE seatsTaken' = 0
  BY <1>7 DEF EndRoom
<1> QED
  BY <1>1, <1>3, <1>5, <1>6, <1>7
     DEF Next, Step, vars, room, Join, Connect, Disconnect, MediaRoomFinishes, OpenSession,
         StartTake, Grant, Revoke, Eject, CloseMedia, Crash

LEMMA CountKeeps ==
  ASSUME CountTyped, [Next]_vars
  PROVE  CountTyped'
<1>1. OneLess \in 0..SeatCapacity /\ 0 \in 0..SeatCapacity
  BY Bounds DEF CountTyped, OneLess
<1>2. CASE seatsTaken' \in {seatsTaken, 0, OneLess}
  BY <1>1, <1>2 DEF CountTyped
<1>3. CASE seatsTaken < SeatCapacity /\ seatsTaken' = seatsTaken + 1
  BY <1>3, Bounds DEF CountTyped
<1> QED BY <1>2, <1>3, CountSteps

LEMMA FlagsKeep ==
  ASSUME FlagsTyped, [Next]_vars
  PROVE  FlagsTyped'
<1>1. CASE UNCHANGED <<banned, session, opening>>
  BY <1>1 DEF FlagsTyped
<1>2. ASSUME NEW e, Apply(e) PROVE FlagsTyped'
  <2>1. banned' = banned
    BY <1>2 DEF Apply
  <2>2. session' \in BOOLEAN
    BY <1>2 DEF Apply, OnJoined, OnLeft, CloseStretch, OnFinished, FlagsTyped
  <2>3. opening' \in BOOLEAN
    BY <1>2 DEF Apply, OnJoined, OnLeft, OnFinished, FlagsTyped
  <2> QED BY <2>1, <2>2, <2>3 DEF FlagsTyped
<1>3. CASE Receive \/ Misdeliver
  BY <1>1, <1>2, <1>3 DEF Receive, Misdeliver, room
<1>4. ASSUME NEW r \in Requests, NEW u \in Users, Release(r, u) \/ Kick(r, u) PROVE FlagsTyped'
  BY <1>4 DEF Release, Kick, FlagsTyped, Users
<1>5. ASSUME NEW r \in Requests, EndRoom(r) PROVE FlagsTyped'
  BY <1>5 DEF EndRoom, FlagsTyped
<1>6. CASE OpenSession
  BY <1>6 DEF OpenSession, FlagsTyped, room
<1> QED
  BY <1>1, <1>3, <1>4, <1>5, <1>6
     DEF Next, Step, vars, room, Join, Connect, Disconnect, MediaRoomFinishes, StartTake, Crash,
         InsertSeat, Grant, Undo, Revoke, Eject, CloseMedia

LEMMA MediaKeeps ==
  ASSUME SeatInv, MediaTyped, [Next]_vars
  PROVE  MediaTyped'
<1>1. CASE UNCHANGED server
  BY <1>1 DEF MediaTyped, server
<1>2. ASSUME NEW u \in Users, Join(u) \/ Connect(u) \/ Disconnect(u) PROVE MediaTyped'
  BY <1>2 DEF Join, Connect, Disconnect, MediaTyped
<1>3. CASE MediaRoomFinishes
  BY <1>3 DEF MediaRoomFinishes, MediaTyped
<1>4. CASE Receive \/ Misdeliver
  BY <1>1, <1>4 DEF Receive, Misdeliver, Apply
<1>5. ASSUME NEW r \in Requests, Grant(r) \/ Revoke(r) \/ Eject(r) PROVE MediaTyped'
  <2>1. req[r].user \in Users
    BY <1>5, InProgress DEF Grant, Revoke, Eject
  <2> QED BY <1>5, <2>1 DEF Grant, Revoke, Eject, MediaTyped
<1>6. ASSUME NEW r \in Requests, CloseMedia(r) PROVE MediaTyped'
  BY <1>6 DEF CloseMedia, MediaTyped
<1> QED
  BY <1>1, <1>2, <1>3, <1>4, <1>5, <1>6
     DEF Next, Step, vars, OpenSession, StartTake, InsertSeat, Undo, Release, Kick, EndRoom, Crash

LEMMA BoundsKeep ==
  ASSUME BoundsTyped, [Next]_vars
  PROVE  BoundsTyped'
<1>1. CASE UNCHANGED <<mishaps, outages>>
  BY <1>1 DEF BoundsTyped
<1>2. ASSUME CanGoWrong,
             (mishaps' = mishaps + 1 /\ outages' = outages) \/ (mishaps' = mishaps /\ outages' = outages + 1)
      PROVE  BoundsTyped'
  BY <1>2, SeatsConstants DEF CanGoWrong, BoundsTyped
<1>3. CASE Receive \/ Misdeliver
  BY <1>1, <1>2, <1>3 DEF Receive, Misdeliver, Apply
<1>4. ASSUME NEW r \in Requests, Step(r) PROVE BoundsTyped'
  BY <1>1, <1>2, <1>4 DEF Step, InsertSeat, Grant, Undo, Revoke, Eject, CloseMedia
<1> QED
  BY <1>1, <1>2, <1>3, <1>4
     DEF Next, vars, Join, Connect, Disconnect, MediaRoomFinishes, OpenSession, StartTake, Release,
         Kick, EndRoom, Crash

TypeInv == SeatInv /\ CountTyped /\ FlagsTyped /\ MediaTyped /\ BoundsTyped

LEMMA TypeInvStarts == Init => TypeInv
<1> SUFFICES ASSUME Init PROVE CountTyped /\ FlagsTyped /\ MediaTyped /\ BoundsTyped
  BY SeatInvStarts DEF TypeInv
<1>1. CountTyped /\ BoundsTyped
  BY Bounds DEF Init, CountTyped, BoundsTyped
<1>2. MediaTyped /\ FlagsTyped
  BY DEF Init, MediaTyped, FlagsTyped
<1> QED BY <1>1, <1>2

LEMMA TypeInvKeeps == TypeInv /\ [Next]_vars => TypeInv'
BY SeatInvKeeps, CountKeeps, FlagsKeep, MediaKeeps, BoundsKeep DEF TypeInv

\* Type correctness, the counter's bounds with it: the CHECKs on rooms never
\* let the count below zero or beyond the capacity.
THEOREM TypeCorrect == Spec => []TypeOK
<1>1. TypeInv => TypeOK
  <2> SUFFICES ASSUME TypeInv PROVE TypeOK
    OBVIOUS
  <2>1. ASSUME NEW r \in Requests
        PROVE  \/ req[r] = Idle
               \/ /\ req[r].user \in Users /\ req[r].idx \in Seats
                  /\ req[r].at \in {"insert", "grant", "undo", "revoke", "eject", "close"}
    <3>1. CASE IsReq(req[r])
      BY <3>1 DEF IsReq, Stages
    <3> QED BY <3>1 DEF TypeInv, SeatInv, Shaped
  <2> QED BY <2>1 DEF TypeOK, TypeInv, SeatInv, Shaped, CountTyped, FlagsTyped, MediaTyped, BoundsTyped
<1> QED BY <1>1, TypeInvStarts, TypeInvKeeps, PTL DEF Spec

-----------------------------------------------------------------------------
(* The host's stretch                                                      *)

\* A webhook about the host's own connection.
OfHost(e) == e.kind # "finished" /\ e.user = Host

\* What the queue q will make of a stretch that is now open or not: the last
\* webhook about the host decides, or when there is none the stretch as it is.
Tells(q, open, in) ==
    /\ \A n \in DOMAIN q :
         OfHost(q[n]) /\ (\A m \in DOMAIN q : m > n => ~OfHost(q[m])) => (q[n].kind = "joined" <=> in)
    /\ (\A n \in DOMAIN q : ~OfHost(q[n])) => (open <=> in)

HostIn == media[Host] # "out"

\* While no webhook was lost, repeated or overtaken, the webhooks still in flight
\* bring the stretch of a live room to where the host is.
StretchFollows == ~ended /\ mishaps = 0 => Tells(webhooks, session \/ opening, HostIn)

LEMMA TellsMore ==
  ASSUME NEW q \in Seq(Webhook), NEW e \in Webhook, NEW open \in BOOLEAN,
         NEW in \in BOOLEAN, NEW now \in BOOLEAN, Tells(q, open, in),
         IF OfHost(e) THEN e.kind = "joined" <=> now ELSE now = in
  PROVE  Tells(Append(q, e), open, now)
<1> DEFINE r == Append(q, e)
           k == Len(q) + 1
<1>1. /\ DOMAIN r = 1..k /\ DOMAIN q = 1..(k - 1) /\ k \in Nat \ {0}
      /\ r[k] = e /\ \A n \in DOMAIN q : r[n] = q[n]
  OBVIOUS
<1> HIDE DEF r, k
<1>2. CASE OfHost(e)
  <2>1. ASSUME NEW n \in DOMAIN r, \A m \in DOMAIN r : m > n => ~OfHost(r[m])
        PROVE  n = k
    BY <1>1, <1>2, <2>1
  <2> QED BY <1>1, <1>2, <2>1 DEF Tells, r
<1>3. CASE ~OfHost(e)
  <2>1. ASSUME NEW n \in DOMAIN r, OfHost(r[n]), \A m \in DOMAIN r : m > n => ~OfHost(r[m])
        PROVE  r[n].kind = "joined" <=> in
    <3>1. n \in DOMAIN q /\ r[n] = q[n] /\ \A m \in DOMAIN q : m > n => ~OfHost(q[m])
      BY <1>1, <1>3, <2>1
    <3> QED BY <2>1, <3>1 DEF Tells
  <2>2. ASSUME \A n \in DOMAIN r : ~OfHost(r[n]) PROVE open <=> in
    BY <1>1, <2>2 DEF Tells
  <2> QED BY <1>3, <2>1, <2>2 DEF Tells, r
<1> QED BY <1>2, <1>3

LEMMA TellsLess ==
  ASSUME NEW q \in Seq(Webhook), q # <<>>, NEW open \in BOOLEAN, NEW in \in BOOLEAN,
         NEW now \in BOOLEAN, Tells(q, open, in),
         IF OfHost(Head(q)) THEN now <=> Head(q).kind = "joined" ELSE now = open
  PROVE  Tells(Tail(q), now, in)
<1> DEFINE r == Tail(q)
           k == Len(q)
<1>1. /\ k \in Nat \ {0} /\ DOMAIN q = 1..k /\ DOMAIN r = 1..(k - 1) /\ Head(q) = q[1]
      /\ \A n \in DOMAIN r : r[n] = q[n + 1]
  OBVIOUS
<1> HIDE DEF r, k
<1>2. ASSUME NEW n \in DOMAIN r, OfHost(r[n]), \A m \in DOMAIN r : m > n => ~OfHost(r[m])
      PROVE  r[n].kind = "joined" <=> in
  <2>1. n + 1 \in DOMAIN q /\ r[n] = q[n + 1]
    BY <1>1
  <2>2. ASSUME NEW m \in DOMAIN q, m > n + 1 PROVE ~OfHost(q[m])
    <3>1. m - 1 \in DOMAIN r /\ m - 1 > n /\ r[m - 1] = q[m]
      BY <1>1, <2>2
    <3> QED BY <1>2, <3>1
  <2> QED BY <1>2, <2>1, <2>2 DEF Tells
<1>3. ASSUME \A n \in DOMAIN r : ~OfHost(r[n]) PROVE now <=> in
  <2>1. ASSUME NEW m \in DOMAIN q, m > 1 PROVE ~OfHost(q[m])
    <3>1. m - 1 \in DOMAIN r /\ r[m - 1] = q[m]
      BY <1>1, <2>1
    <3> QED BY <1>3, <3>1
  <2>2. 1 \in DOMAIN q
    BY <1>1
  <2>3. CASE OfHost(q[1])
    BY <1>1, <2>1, <2>2, <2>3 DEF Tells
  <2>4. CASE ~OfHost(q[1])
    <3>1. \A m \in DOMAIN q : ~OfHost(q[m])
      BY <1>1, <2>1, <2>4
    <3> QED BY <1>1, <2>4, <3>1 DEF Tells
  <2> QED BY <2>3, <2>4
<1> QED BY <1>2, <1>3 DEF Tells, r

FollowInv == TypeInv /\ StretchFollows

\* Somebody came or left, and the webhook that says so is on its way.
LEMMA Telling ==
  ASSUME TypeInv, Tells(webhooks, session \/ opening, HostIn), NEW u \in Users, NEW e,
         webhooks' = Append(webhooks, e), UNCHANGED <<session, opening>>,
         \/ e = Joined(u) /\ media'[u] # "out"
         \/ e = Left(u) /\ media'[u] = "out",
         u # Host => media'[Host] = media[Host]
  PROVE  Tells(webhooks', session' \/ opening', HostIn')
<1>1. e \in Webhook /\ webhooks \in Seq(Webhook)
  BY HooksOfPeople DEF TypeInv, SeatInv, Shaped
<1>2. OfHost(e) <=> u = Host
  BY DEF OfHost, Joined, Left
<1>3. e.kind = "joined" <=> media'[u] # "out"
  BY DEF Joined, Left
<1>4. IF OfHost(e) THEN e.kind = "joined" <=> HostIn' ELSE HostIn' = HostIn
  BY <1>2, <1>3 DEF HostIn
<1>5. (session \/ opening) \in BOOLEAN /\ HostIn \in BOOLEAN /\ HostIn' \in BOOLEAN
  BY DEF HostIn
<1>6. Tells(Append(webhooks, e), session \/ opening, HostIn')
  BY <1>1, <1>4, <1>5, TellsMore
<1>7. (session' \/ opening') = (session \/ opening)
  OBVIOUS
<1> QED BY <1>6, <1>7

LEMMA Hearing ==
  ASSUME TypeInv, Tells(webhooks, session \/ opening, HostIn), Receive, ~ended'
  PROVE  Tells(webhooks', session' \/ opening', HostIn')
<1> DEFINE e == Head(webhooks)
<1>1. /\ webhooks \in Seq(Webhook) /\ webhooks # <<>> /\ webhooks' = Tail(webhooks)
      /\ e \in Webhook /\ ~opening /\ Apply(e) /\ media' = media
  BY DEF Receive, Apply, server, TypeInv, SeatInv, Shaped
<1> HIDE DEF e
<1>2. ~ended /\ session \in BOOLEAN /\ opening = FALSE
  BY <1>1 DEF Apply, OnJoined, OnLeft, OnFinished, TypeInv, FlagsTyped
<1> DEFINE open == session \/ opening
           now  == session' \/ opening'
<1>3. IF OfHost(e) THEN now <=> e.kind = "joined" ELSE now = open
  <2>1. CASE e.kind = "joined" /\ OnJoined(e.user)
    <3>1. session' = session /\ opening' = (e.user = Host)
      BY <1>2, <2>1 DEF OnJoined
    <3> QED BY <1>2, <2>1, <3>1 DEF OfHost
  <2>2. CASE e.kind = "left" /\ OnLeft(e.user)
    <3>1. session' = (session /\ e.user # Host) /\ opening' = opening
      BY <2>2 DEF OnLeft, CloseStretch
    <3> QED BY <1>2, <2>2, <3>1 DEF OfHost
  <2>3. ~OnFinished
    BY DEF OnFinished
  <2> QED BY <1>1, <2>1, <2>2, <2>3 DEF Apply
<1>4. open \in BOOLEAN /\ now \in BOOLEAN /\ HostIn \in BOOLEAN /\ HostIn' = HostIn
  BY <1>1 DEF HostIn
<1>5. Tells(webhooks, open, HostIn)
  OBVIOUS
<1> HIDE DEF open, now
<1>6. Tells(Tail(webhooks), now, HostIn)
  BY <1>1, <1>3, <1>4, <1>5, TellsLess DEF e
<1> QED BY <1>1, <1>4, <1>6 DEF now

LEMMA FollowKeeps == FollowInv /\ [Next]_vars => FollowInv'
<1> SUFFICES ASSUME FollowInv, [Next]_vars, ~ended', mishaps' = 0
             PROVE  Tells(webhooks', session' \/ opening', HostIn')
  BY TypeInvKeeps DEF FollowInv, StretchFollows
<1>1. ~Misdeliver /\ \A r \in Requests : ~Crash(r)
  BY DEF Misdeliver, Crash, FollowInv, TypeInv, BoundsTyped
<1>2. CASE Receive
  <2>1. ~ended /\ mishaps = 0
    BY <1>2, EndedStays DEF Receive
  <2> QED BY <1>2, <2>1, Hearing DEF FollowInv, StretchFollows
<1>3. ASSUME ~Receive
      PROVE  /\ ~ended /\ mishaps = 0 /\ TypeInv /\ Tells(webhooks, session \/ opening, HostIn)
             /\ \A r \in Requests : ~CloseMedia(r) /\ ~EndRoom(r)
  <2>1. ~ended /\ TypeInv
    BY EndedStays DEF FollowInv
  <2>2. mishaps' = mishaps
    BY <1>1, <1>3 DEF Next, Step, vars, Join, Connect, Disconnect, MediaRoomFinishes, OpenSession,
         StartTake, InsertSeat, Grant, Undo, Release, Revoke, Kick, Eject, EndRoom, CloseMedia
  <2>3. \A r \in Requests : ~CloseMedia(r) /\ ~EndRoom(r)
    BY <2>1, InProgress DEF CloseMedia, EndRoom, TypeInv
  <2> QED BY <2>1, <2>2, <2>3 DEF FollowInv, StretchFollows
<1>4. ASSUME ~Receive, UNCHANGED <<webhooks, session, opening>>, HostIn' = HostIn
      PROVE  Tells(webhooks', session' \/ opening', HostIn')
  BY <1>3, <1>4
<1>5. CASE OpenSession
  <2>1. /\ webhooks' = webhooks /\ (session' \/ opening') = (session \/ opening)
        /\ media' = media /\ ~Receive
    BY <1>5 DEF OpenSession, server, Receive
  <2> QED BY <1>3, <2>1 DEF HostIn
<1>6. ASSUME NEW u \in Users, Connect(u) \/ Disconnect(u), ~Receive
      PROVE  Tells(webhooks', session' \/ opening', HostIn')
  <2>1. PICK e : /\ webhooks' = Append(webhooks, e) /\ UNCHANGED <<session, opening>>
                 /\ \/ e = Joined(u) /\ media'[u] # "out"
                    \/ e = Left(u) /\ media'[u] = "out"
                 /\ u # Host => media'[Host] = media[Host]
    <3>1. CASE Connect(u)
      <4>1. token[u] # "out" /\ media \in [Users -> {"out", "listener", "speaker"}]
        BY <3>1 DEF Connect, FollowInv, TypeInv, MediaTyped
      <4> QED BY <3>1, <4>1 DEF Connect, Users
    <3>2. CASE Disconnect(u)
      BY <3>2 DEF Disconnect, FollowInv, TypeInv, MediaTyped, Users
    <3> QED BY <1>6, <3>1, <3>2
  <2> QED BY <1>3, <1>6, <2>1, Telling
<1>7. ASSUME MediaRoomFinishes, ~Receive
      PROVE  Tells(webhooks', session' \/ opening', HostIn')
  <2> DEFINE e == [kind |-> "finished"]
  <2>1. e \in Webhook /\ ~OfHost(e) /\ webhooks \in Seq(Webhook)
    BY HooksOfPeople DEF OfHost, FollowInv, TypeInv, SeatInv, Shaped
  <2>2. webhooks' = Append(webhooks, e) /\ UNCHANGED <<session, opening, media>>
    BY <1>7 DEF MediaRoomFinishes
  <2> HIDE DEF e
  <2>3. (session \/ opening) \in BOOLEAN /\ HostIn \in BOOLEAN /\ HostIn' = HostIn
    BY <2>2 DEF HostIn
  <2>4. Tells(Append(webhooks, e), session \/ opening, HostIn)
    BY <1>3, <1>7, <2>1, <2>3, TellsMore
  <2> QED BY <2>2, <2>3, <2>4
<1>8. ASSUME NEW r \in Requests, Step(r), ~Receive
      PROVE  Tells(webhooks', session' \/ opening', HostIn')
  <2>1. CASE InsertSeat(r) \/ Undo(r)
    BY <1>4, <1>8, <2>1 DEF InsertSeat, Undo, server, HostIn
  <2>2. CASE Grant(r) \/ Revoke(r)
    <3>1. req[r].user \in Users /\ media \in [Users -> {"out", "listener", "speaker"}]
      BY <2>2, InProgress DEF Grant, Revoke, FollowInv, TypeInv, MediaTyped
    <3>2. HostIn' = HostIn
      BY <2>2, <3>1 DEF Grant, Revoke, HostIn, Users
    <3> QED BY <1>4, <1>8, <2>2, <3>2 DEF Grant, Revoke
  <2>3. CASE Eject(r)
    <3> DEFINE u == req[r].user
    <3>1. u \in Users /\ media \in [Users -> {"out", "listener", "speaker"}]
      BY <2>3, InProgress DEF Eject, FollowInv, TypeInv, MediaTyped
    <3>2. UNCHANGED <<session, opening>>
      BY <2>3 DEF Eject
    <3>3. CASE UNCHANGED <<media, webhooks>>
      BY <1>4, <1>8, <3>2, <3>3 DEF HostIn
    <3>4. CASE media' = [media EXCEPT ![u] = "out"] /\ media[u] = "out" /\ webhooks' = webhooks
      <4>1. HostIn' = HostIn
        BY <3>1, <3>4 DEF HostIn, Users
      <4> QED BY <1>4, <1>8, <3>2, <3>4, <4>1
    <3>5. CASE media' = [media EXCEPT ![u] = "out"] /\ webhooks' = Append(webhooks, Left(u))
      <4>1. media'[u] = "out" /\ (u # Host => media'[Host] = media[Host])
        BY <3>1, <3>5 DEF Users
      <4> HIDE DEF u
      <4> QED BY <1>3, <1>8, <3>1, <3>2, <3>5, <4>1, Telling
    <3> QED BY <2>3, <3>3, <3>4, <3>5 DEF Eject
  <2> QED BY <1>3, <1>8, <2>1, <2>2, <2>3 DEF Step
<1>9. ASSUME UNCHANGED vars, ~Receive PROVE Tells(webhooks', session' \/ opening', HostIn')
  BY <1>4, <1>9 DEF vars, server, HostIn
<1>10. ASSUME NEW u \in Users, Join(u), ~Receive
       PROVE  Tells(webhooks', session' \/ opening', HostIn')
  BY <1>4, <1>10 DEF Join, HostIn
<1>11. ASSUME NEW r \in Requests, NEW u \in Users, ~Receive,
              Release(r, u) \/ Kick(r, u) \/ \E i \in 0..SeatCapacity : StartTake(r, u, i)
       PROVE  Tells(webhooks', session' \/ opening', HostIn')
  BY <1>4, <1>11 DEF Release, Kick, StartTake, server, HostIn
<1> QED
  BY <1>1, <1>2, <1>3, <1>5, <1>6, <1>7, <1>8, <1>9, <1>10, <1>11 DEF Next

LEMMA FollowStarts == Init => FollowInv
<1> SUFFICES ASSUME Init PROVE Tells(webhooks, session \/ opening, HostIn)
  BY TypeInvStarts DEF FollowInv, StretchFollows
<1>1. DOMAIN webhooks = {} /\ ~session /\ ~opening /\ ~HostIn
  BY DEF Init, HostIn, Users
<1> QED BY <1>1 DEF Tells

\* Host hours: once every webhook has come, each once and in order, a live room's
\* stretch is open exactly while the host is connected, whatever requests do.
THEOREM StretchTellsHost == Spec => []SessionTellsHost
<1>1. FollowInv => SessionTellsHost
  <2> SUFFICES ASSUME FollowInv, Calm, ~ended, mishaps = 0
               PROVE  session <=> media[Host] # "out"
    BY DEF SessionTellsHost
  <2>1. Tells(webhooks, session \/ opening, HostIn) /\ DOMAIN webhooks = {} /\ ~opening
    BY DEF FollowInv, StretchFollows, Calm
  <2> QED BY <2>1 DEF Tells, HostIn
<1> QED BY <1>1, FollowStarts, FollowKeeps, PTL DEF Spec
===============================================================================
