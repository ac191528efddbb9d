----------------------------- MODULE GatewayProofs -----------------------------
(***************************************************************************)
(* For any sockets, rooms and messages, however their handlers, closings   *)
(* and timers overlap: the hub agrees with itself, a screen is told the    *)
(* newest backlog and every line since, raised hands come down once, and a *)
(* clock is paid for presence, its lapses and what was paid unknown to the *)
(* gateway (gateway/server.ts, hub.ts, room.state.ts).                     *)
(***************************************************************************)
EXTENDS Gateway, Sums

HandlerStages ==
    {"idle", "verifying", "asked", "checking", "entered", "recorded", "allowed", "granted",
     "picked", "visiting", "granting", "spoken", "failed", "done"}
SeatNumbers == {Min(S) : S \in (SUBSET Places) \ {{}}} \cup {0}

Handling ==
    [at : HandlerStages, history : SUBSET Handlers, before : SUBSET Handlers,
     late : SUBSET Handlers, left : Rooms \cup {Nowhere}, place : SeatNumbers,
     visited : SUBSET Sockets, for : SUBSET (Sockets \X Nat), time : Nat]
Screen == [chat : SUBSET Handlers, viewers : Nat, by : Handlers \cup {NoJoin}]
Clock  == [no : Nat, room : Rooms \cup {Nowhere}, accrued : Nat, at : Nat, capped : Int]

HubTyped ==
    /\ sock \in [Sockets -> {"open", "closing", "closed"}]
    /\ clients \subseteq Sockets /\ cut \subseteq Sockets
    /\ roomOf \in [Sockets -> Rooms \cup {Nowhere}] /\ members \in [Rooms -> SUBSET Sockets]
    /\ missed \in [Sockets -> 0..2]
HandlersTyped == play \in Episodes /\ handling \in [play.calls -> Handling]
ScreensTyped ==
    /\ DOMAIN lines \subseteq Handlers
    /\ \A d \in DOMAIN lines : lines[d] \subseteq DOMAIN lines \ {d}
    /\ screen \in [Sockets -> Screen]
SeatsTyped ==
    /\ hands \subseteq Rooms \X Persons /\ IsFiniteSet(hands)
    /\ held \in [Rooms -> [Places -> Persons \cup {Unseated}]]
    /\ tally \in [Persons -> [Fates -> Nat]]
ClocksTyped ==
    /\ clock \in [Sockets -> Clock] /\ time \in Nat
    /\ pays \in [Sockets -> Nat] /\ spent \in [Sockets -> Nat] /\ lapses \in [Sockets -> Nat]
    /\ repaid \in [Sockets -> Nat]
    /\ \A s \in Sockets : clock[s].at <= time /\ repaid[s] <= pays[s]

\* A grant that is awaited is for one clock object; a timer fired in the past; a
\* room is left by a join that got through or a leave.
CallsSound ==
    \A c \in play.calls :
        /\ handling[c].for = {} \/ \E s \in Sockets, n \in Nat : handling[c].for = {<<s, n>>}
        /\ handling[c].at # "granting" => handling[c].for = {}
        /\ handling[c].time <= time
        /\ handling[c].left # Nowhere => handling[c].at \in {"entered", "failed", "done"}

Typed ==
    HubTyped /\ HandlersTyped /\ ScreensTyped /\ SeatsTyped /\ ClocksTyped /\ CallsSound

-----------------------------------------------------------------------------
(* How a step writes the record of a handler.                              *)

LEMMA Staged ==
  ASSUME HandlersTyped, NEW c \in play.calls, NEW a \in HandlerStages, Stage(c, a)
  PROVE  /\ handling' \in [play.calls -> Handling]
         /\ \A d \in play.calls : d # c => handling'[d] = handling[d]
         /\ handling'[c].at = a
         /\ handling'[c].history = handling[c].history /\ handling'[c].before = handling[c].before
         /\ handling'[c].late = handling[c].late /\ handling'[c].left = handling[c].left
         /\ handling'[c].place = handling[c].place /\ handling'[c].visited = handling[c].visited
         /\ handling'[c].for = handling[c].for /\ handling'[c].time = handling[c].time
BY DEF HandlersTyped, Stage, Handling

LEMMA Became ==
  ASSUME HandlersTyped, NEW c \in play.calls, NEW h \in Handling,
         handling' = [handling EXCEPT ![c] = h]
  PROVE  /\ handling' \in [play.calls -> Handling]
         /\ \A d \in play.calls : d # c => handling'[d] = handling[d]
         /\ handling'[c] = h
BY DEF HandlersTyped

LEMMA PlayShape ==
  ASSUME GatewayConstants, play \in Episodes
  PROVE  /\ play.calls \subseteq Handlers /\ IsFiniteSet(play.calls)
         /\ \A c \in play.calls :
              /\ Messages[c].t \in MessageKinds /\ Messages[c].from \in Sockets
              /\ Messages[c].room \in Rooms /\ Messages[c].user \in Persons
              /\ Messages[c].yes \in BOOLEAN /\ OwnerOf[Messages[c].from] \in Persons
<1>1. play.calls \subseteq Handlers /\ IsFiniteSet(Handlers)
  BY DEF GatewayConstants
<1>2. \A c \in Handlers :
        Messages[c] \in [t : MessageKinds, from : Sockets, room : Rooms, user : Persons, yes : BOOLEAN]
  BY DEF GatewayConstants
<1> QED BY <1>1, <1>2, FS_Subset DEF Persons

-----------------------------------------------------------------------------
(* The invariant, one part for each of the things Gateway's properties say. *)

\* Who is closed and was not cut short is forgotten, and waits for nothing.
Doors ==
    \A s \in Sockets :
        sock[s] = "closed" /\ s \notin cut => s \notin clients /\ roomOf[s] = Nowhere /\ Waiting(s) = {}

\* Lines are stored before they are said; of what was said before it, a backlog
\* leaves out only what is older than all its lines, and then it is full.
Sayable == {c \in DOMAIN lines : Messages[c].yes}

Beyond(j, d) ==
    /\ Cardinality(handling[j].history) >= HistorySize
    /\ \A h \in handling[j].history : d \in lines[h]

LinesSound ==
    /\ \A c \in play.calls :
         /\ handling[c].at = "recorded" => c \in DOMAIN lines
         /\ handling[c].at = "spoken" => c \in Sayable
         /\ handling[c].history \subseteq Sayable
         /\ \A d \in handling[c].before :
              Messages[d].room = Messages[c].room => d \in handling[c].history \/ Beyond(c, d)
    /\ \A s \in Sockets : screen[s].chat \subseteq Sayable

\* The join a screen was answered is over, and its backlog and the lines since are
\* on the screen.
ToldSince(s, j) ==
    IsOpen(s) /\ roomOf[s] = Messages[j].room =>
        /\ handling[j].history \subseteq screen[s].chat
        /\ \A c \in Spoken :
             Messages[c].room = roomOf[s] =>
                 \/ c \in screen[s].chat
                 \/ c \in handling[j].late \ handling[j].before
                 \/ c \in handling[j].before /\ Beyond(j, c)

ScreensSound ==
    \A s \in Sockets :
        screen[s].by # NoJoin =>
            \E j \in play.calls : screen[s].by = j /\ handling[j].at = "done" /\ ToldSince(s, j)

\* What a clock may still be paid; at least the time since it was last visited,
\* as far as a visit counts it, while the socket is in the clock's room.  Kept:
\* the intervals paid that were not given back.
Kept(s) == pays[s] - repaid[s]

Credit(s) ==
    spent[s] + Accrual * lapses[s]
        - ((Kept(s) + Cardinality(Granting(s))) * Interval + clock[s].accrued)

Watches(s) == IsOpen(s) /\ roomOf[s] # Nowhere /\ roomOf[s] = clock[s].room

Owing(s) == IF time - clock[s].at <= Accrual THEN time - clock[s].at ELSE Accrual

ClocksSound == \A s \in Sockets : Credit(s) >= 0 /\ (Watches(s) => Credit(s) >= Owing(s))

GatewayInv ==
    /\ Typed /\ HubAgrees /\ Doors /\ LinesSound /\ ScreensSound /\ ViewersAreTold
    /\ HandsAddUp /\ OneSeatEach /\ ClocksSound

-----------------------------------------------------------------------------
(* What a step leaves alone.  Most steps are quiet for most of these parts. *)

HubQuiet == UNCHANGED <<members, roomOf>>

Stays(s) == roomOf'[s] \in {roomOf[s], Nowhere} /\ (IsOpen(s)' => IsOpen(s))

DoorQuiet ==
    /\ cut \subseteq cut'
    /\ \A s \in Sockets :
         sock'[s] = "closed" =>
             /\ sock[s] = "closed" /\ roomOf'[s] \in {roomOf[s], Nowhere}
             /\ (s \in clients' => s \in clients) /\ Waiting(s)' \subseteq Waiting(s)

ScreensQuiet ==
    /\ DOMAIN lines \subseteq DOMAIN lines' /\ \A d \in DOMAIN lines : lines'[d] = lines[d]
    /\ \A s \in Sockets :
         Stays(s) /\ screen'[s].chat = screen[s].chat /\ screen'[s].by = screen[s].by
    /\ \A c \in play.calls :
         /\ handling'[c].at = "spoken" <=> handling[c].at = "spoken"
         /\ handling'[c].at = "recorded" => handling[c].at = "recorded" \/ c \in DOMAIN lines'
         /\ handling[c].at = "done" => handling'[c] = handling[c]
         /\ \/ /\ handling'[c].history = handling[c].history
               /\ handling'[c].before = handling[c].before
            \/ handling'[c].history = {} /\ handling'[c].before = {}

CountQuiet ==
    /\ UNCHANGED <<members, roomOf>>
    /\ \A s \in Sockets :
         (IsOpen(s)' => IsOpen(s)) /\ screen'[s].viewers = screen[s].viewers
    /\ \A r \in Rooms : Unsettled(r) => Unsettled(r)'

InAnswer(c) == Messages[c].t = "resolve" /\ handling[c].at \in {"granted", "picked"}

HandsQuiet == UNCHANGED <<hands, tally>> /\ \A c \in play.calls : InAnswer(c)' <=> InAnswer(c)

ClockQuiet ==
    /\ UNCHANGED <<clock, time, pays, repaid, spent>>
    /\ \A s \in Sockets : Stays(s) /\ lapses'[s] \in {lapses[s], lapses[s] + 1}
    /\ \A c \in play.calls : handling'[c].for = handling[c].for

LEMMA HubStays == HubAgrees /\ HubQuiet => HubAgrees'
BY DEF HubAgrees, HubQuiet

LEMMA DoorsStay == UNCHANGED play /\ Doors /\ DoorQuiet => Doors'
BY DEF Doors, DoorQuiet

LEMMA ScreensStay ==
  ASSUME GatewayConstants, Typed, UNCHANGED play, LinesSound, ScreensSound, ScreensQuiet
  PROVE  LinesSound' /\ ScreensSound'
<1>1. Sayable \subseteq Sayable'
  BY DEF Sayable, ScreensQuiet
<1>4. \A h \in Sayable : lines'[h] = lines[h]
  BY DEF Sayable, ScreensQuiet
<1>2. LinesSound'
  <2>1. \A s \in Sockets : screen'[s].chat \subseteq Sayable'
    BY <1>1 DEF LinesSound, ScreensQuiet
  <2>2. ASSUME NEW c \in play.calls
        PROVE  /\ handling'[c].at = "recorded" => c \in DOMAIN lines'
               /\ handling'[c].at = "spoken" => c \in Sayable'
               /\ handling'[c].history \subseteq Sayable'
    BY <1>1 DEF LinesSound, ScreensQuiet
  <2>3. ASSUME NEW c \in play.calls, NEW d \in handling'[c].before,
               Messages[d].room = Messages[c].room
        PROVE  d \in handling'[c].history \/ Beyond(c, d)'
    <3>1. handling'[c].history = handling[c].history /\ handling'[c].before = handling[c].before
      BY <2>3 DEF ScreensQuiet
    <3>2. d \in handling[c].history \/ Beyond(c, d)
      BY <2>3, <3>1 DEF LinesSound
    <3>3. handling[c].history \subseteq Sayable
      BY DEF LinesSound
    <3> QED BY <1>4, <3>1, <3>2, <3>3 DEF Beyond
  <2> QED BY <2>1, <2>2, <2>3 DEF LinesSound
<1>3. ASSUME NEW s \in Sockets, screen'[s].by # NoJoin
      PROVE  \E j \in play'.calls :
               screen'[s].by = j /\ handling'[j].at = "done" /\ ToldSince(s, j)'
  <2>1. screen[s].by # NoJoin
    BY <1>3 DEF ScreensQuiet
  <2>2. PICK j \in play.calls : screen[s].by = j /\ handling[j].at = "done" /\ ToldSince(s, j)
    BY <2>1 DEF ScreensSound
  <2>6. screen'[s].by = j /\ handling'[j] = handling[j]
    BY <2>2 DEF ScreensQuiet
  <2>3. Spoken' = Spoken /\ screen'[s].chat = screen[s].chat /\ Stays(s)
    BY DEF ScreensQuiet, Spoken
  <2>4. Messages[j].room \in Rooms /\ Nowhere \notin Rooms
    BY PlayShape DEF GatewayConstants, Typed, HandlersTyped
  <2>7. \A d : Beyond(j, d) => Beyond(j, d)'
    BY <1>4, <2>6 DEF Beyond, LinesSound
  <2>5. ToldSince(s, j)'
    <3>1. SUFFICES ASSUME IsOpen(s)', roomOf'[s] = Messages[j].room
                   PROVE  /\ handling'[j].history \subseteq screen'[s].chat
                          /\ \A c \in Spoken' :
                               Messages[c].room = roomOf'[s] =>
                                   \/ c \in screen'[s].chat
                                   \/ c \in handling'[j].late \ handling'[j].before
                                   \/ c \in handling'[j].before /\ Beyond(j, c)'
      BY DEF ToldSince
    <3>2. IsOpen(s) /\ roomOf'[s] = roomOf[s]
      BY <2>3, <2>4, <3>1 DEF Stays
    <3> QED BY <2>2, <2>3, <2>6, <2>7, <3>1, <3>2 DEF ToldSince
  <2> QED BY <2>2, <2>5, <2>6
<1> QED BY <1>2, <1>3 DEF ScreensSound

LEMMA CountStays ==
  ViewersAreTold /\ CountQuiet /\ roomOf \in [Sockets -> Rooms \cup {Nowhere}] => ViewersAreTold'
BY DEF ViewersAreTold, CountQuiet

LEMMA HandsStay == UNCHANGED play /\ HandsAddUp /\ HandsQuiet => HandsAddUp'
<1> SUFFICES ASSUME UNCHANGED play, HandsAddUp, HandsQuiet, NEW u \in Persons
             PROVE  tally'[u]["raised"] =
                      tally'[u]["cancelled"] + tally'[u]["denied"] + tally'[u]["seated"]
                    + tally'[u]["refused"] + Cardinality({x \in hands' : x[2] = u})
                    + Cardinality({c \in play'.calls : /\ Messages[c].t = "resolve" /\ Messages[c].user = u
                                              /\ handling'[c].at \in {"granted", "picked"}})
  BY DEF HandsAddUp
<1>1. {c \in play'.calls : /\ Messages[c].t = "resolve" /\ Messages[c].user = u
                           /\ handling'[c].at \in {"granted", "picked"}}
        = {c \in play.calls : /\ Messages[c].t = "resolve" /\ Messages[c].user = u
                              /\ handling[c].at \in {"granted", "picked"}}
  BY DEF HandsQuiet, InAnswer
<1> QED BY <1>1 DEF HandsQuiet, HandsAddUp

LEMMA Times ==
  ASSUME NEW a \in Nat,
         NEW n \in Nat PROVE a * n \in Nat /\ a * (n + 1) = a * n + a /\ n * a = a * n
OBVIOUS

LEMMA GrantsFinite ==
  ASSUME GatewayConstants, Typed, NEW s \in Sockets
  PROVE  IsFiniteSet(Granting(s)) /\ Cardinality(Granting(s)) \in Nat
<1>1. IsFiniteSet(play.calls)
  BY PlayShape DEF Typed, HandlersTyped
<1>2. IsFiniteSet(Granting(s))
  BY <1>1, FS_Subset DEF Granting
<1> QED BY <1>2, FS_CardinalityType

LEMMA ClocksStay ==
  ASSUME GatewayConstants, Typed, UNCHANGED play, ClocksSound, ClockQuiet
  PROVE  ClocksSound'
<1> SUFFICES ASSUME NEW s \in Sockets
             PROVE  Credit(s)' >= 0 /\ (Watches(s)' => Credit(s)' >= Owing(s)')
  BY DEF ClocksSound
<1>1. Granting(s)' = Granting(s)
  BY DEF Granting, ClockQuiet
<1>2. Accrual \in Nat /\ Interval \in Nat /\ lapses[s] \in Nat /\ Kept(s) \in Nat
      /\ spent[s] \in Nat /\ clock[s].accrued \in Nat /\ clock[s].at \in Nat /\ time \in Nat
  BY DEF GatewayConstants, Typed, ClocksTyped, Clock, Kept
<1>3. PICK g \in Nat : g = Cardinality(Granting(s))
  BY GrantsFinite
<1>9. Kept(s)' = Kept(s)
  BY DEF Kept, ClockQuiet
<1>4. PICK p \in Nat : p = (Kept(s) + g) * Interval
  BY <1>2, Times
<1>5. Accrual * lapses'[s] >= Accrual * lapses[s] /\ Accrual * lapses'[s] \in Nat
      /\ Accrual * lapses[s] \in Nat
  <2>1. /\ Accrual * lapses[s] \in Nat
        /\ Accrual * (lapses[s] + 1) = Accrual * lapses[s] + Accrual
    BY <1>2, Times
  <2>2. lapses'[s] \in {lapses[s], lapses[s] + 1}
    BY DEF ClockQuiet
  <2> QED BY <1>2, <2>1, <2>2
<1>6. Credit(s)' >= Credit(s) /\ Credit(s) \in Int /\ Credit(s)' \in Int
  BY <1>1, <1>2, <1>3, <1>4, <1>5, <1>9 DEF Credit, ClockQuiet
<1>7. Owing(s)' = Owing(s) /\ Owing(s) \in Int
  BY <1>2 DEF Owing, ClockQuiet
<1>8. Watches(s)' => Watches(s)
  BY DEF Watches, ClockQuiet, Stays
<1> QED BY <1>6, <1>7, <1>8 DEF ClocksSound

-----------------------------------------------------------------------------
(* Action by action: what each is quiet for, and that the types stay.      *)

LEMMA ReceiveQuiet ==
  ASSUME GatewayConstants, Typed, NEW c \in play.calls, Receive(c)
  PROVE  UNCHANGED play /\ HubQuiet /\ DoorQuiet /\ ScreensQuiet /\ CountQuiet /\ HandsQuiet
         /\ ClockQuiet
         /\ UNCHANGED held /\ Typed'
<1>1. /\ UNCHANGED <<play, hubVars, lines, screen, seatVars, barred, over, clockVars>>
      /\ handling[c].at = "idle" /\ IsOpen(Messages[c].from)
      /\ Stage(c, "done") \/ Stage(c, "asked")
  BY DEF Receive
<1>2. /\ handling' \in [play.calls -> Handling]
      /\ \A d \in play.calls : d # c => handling'[d] = handling[d]
      /\ handling'[c].at \in {"done", "asked"}
      /\ handling'[c].history = handling[c].history /\ handling'[c].before = handling[c].before
      /\ handling'[c].left = handling[c].left
      /\ handling'[c].for = handling[c].for /\ handling'[c].time = handling[c].time
  <2>1. PICK a \in {"done", "asked"} : Stage(c, a)
    BY <1>1
  <2> QED BY <2>1, Staged DEF Typed, HandlerStages
<1>3. Messages[c].t \in MessageKinds /\ Messages[c].from \in Sockets
  BY PlayShape DEF Typed, HandlersTyped
<1>4. HubQuiet /\ HandsQuiet /\ UNCHANGED held
  BY <1>1, <1>2, <1>3 DEF HubQuiet, HandsQuiet, InAnswer, hubVars, seatVars
<1>5. DoorQuiet
  BY <1>1, <1>2, <1>3 DEF DoorQuiet, Waiting, hubVars, IsOpen
<1>6. ScreensQuiet
  BY <1>1, <1>2, <1>3 DEF ScreensQuiet, Stays, hubVars, IsOpen
<1>7. ClockQuiet
  BY <1>1, <1>2, <1>3 DEF ClockQuiet, Stays, clockVars, hubVars, IsOpen
<1>8. CountQuiet
  BY <1>1, <1>2, <1>3 DEF CountQuiet, Unsettled, hubVars, IsOpen, Typed, CallsSound
<1>9. HubTyped' /\ HandlersTyped'
  BY <1>1, <1>2, <1>3 DEF Typed, HubTyped, HandlersTyped, hubVars
<1>10. ScreensTyped' /\ SeatsTyped'
  BY <1>1, <1>2, <1>3 DEF Typed, ScreensTyped, SeatsTyped, seatVars
<1>11. ClocksTyped'
  BY <1>1, <1>2, <1>3 DEF Typed, ClocksTyped, clockVars
<1>12. CallsSound'
  BY <1>1, <1>2, <1>3 DEF Typed, CallsSound, clockVars
<1> QED BY <1>1, <1>4, <1>5, <1>6, <1>7, <1>8, <1>9, <1>10, <1>11, <1>12 DEF Typed

LEMMA JoinFailsQuiet ==
  ASSUME GatewayConstants, Typed, NEW c \in play.calls, JoinFails(c)
  PROVE  UNCHANGED play /\ HubQuiet /\ DoorQuiet /\ ScreensQuiet /\ CountQuiet /\ HandsQuiet
         /\ ClockQuiet
         /\ UNCHANGED held /\ Typed'
<1>1. /\ UNCHANGED <<play, hubVars, lines, screen, seatVars, barred, over, clockVars>>
      /\ Messages[c].t = "join" /\ handling[c].at = "entered"
      /\ Stage(c, "failed")
  BY DEF JoinFails, At
<1>2. /\ handling' \in [play.calls -> Handling]
      /\ \A d \in play.calls : d # c => handling'[d] = handling[d]
      /\ handling'[c].at \in {"failed"}
      /\ handling'[c].history = handling[c].history /\ handling'[c].before = handling[c].before
      /\ handling'[c].left = handling[c].left
      /\ handling'[c].for = handling[c].for /\ handling'[c].time = handling[c].time
  <2>1. PICK a \in {"failed"} : Stage(c, a)
    BY <1>1
  <2> QED BY <2>1, Staged DEF Typed, HandlerStages
<1>3. Messages[c].t \in MessageKinds /\ Messages[c].from \in Sockets
  BY PlayShape DEF Typed, HandlersTyped
<1>4. HubQuiet /\ HandsQuiet /\ UNCHANGED held
  BY <1>1, <1>2, <1>3 DEF HubQuiet, HandsQuiet, InAnswer, hubVars, seatVars
<1>5. DoorQuiet
  BY <1>1, <1>2, <1>3 DEF DoorQuiet, Waiting, hubVars, IsOpen
<1>6. ScreensQuiet
  BY <1>1, <1>2, <1>3 DEF ScreensQuiet, Stays, hubVars, IsOpen
<1>7. ClockQuiet
  BY <1>1, <1>2, <1>3 DEF ClockQuiet, Stays, clockVars, hubVars, IsOpen
<1>8. CountQuiet
  BY <1>1, <1>2, <1>3 DEF CountQuiet, Unsettled, hubVars, IsOpen, Typed, CallsSound
<1>9. HubTyped' /\ HandlersTyped'
  BY <1>1, <1>2, <1>3 DEF Typed, HubTyped, HandlersTyped, hubVars
<1>10. ScreensTyped' /\ SeatsTyped'
  BY <1>1, <1>2, <1>3 DEF Typed, ScreensTyped, SeatsTyped, seatVars
<1>11. ClocksTyped'
  BY <1>1, <1>2, <1>3 DEF Typed, ClocksTyped, clockVars
<1>12. CallsSound'
  BY <1>1, <1>2, <1>3 DEF Typed, CallsSound, clockVars
<1> QED BY <1>1, <1>4, <1>5, <1>6, <1>7, <1>8, <1>9, <1>10, <1>11, <1>12 DEF Typed

LEMMA AdmitQuiet ==
  ASSUME GatewayConstants, Typed, NEW c \in play.calls, Admit(c)
  PROVE  UNCHANGED play /\ HubQuiet /\ DoorQuiet /\ ScreensQuiet /\ CountQuiet /\ HandsQuiet
         /\ ClockQuiet
         /\ UNCHANGED held /\ Typed'
<1>1. /\ UNCHANGED <<play, hubVars, lines, screen, seatVars, barred, over, clockVars>>
      /\ handling[c].at = "asked"
      /\ Stage(c, "allowed") \/ Stage(c, "done")
  BY DEF Admit, At
<1>2. /\ handling' \in [play.calls -> Handling]
      /\ \A d \in play.calls : d # c => handling'[d] = handling[d]
      /\ handling'[c].at \in {"allowed", "done"}
      /\ handling'[c].history = handling[c].history /\ handling'[c].before = handling[c].before
      /\ handling'[c].left = handling[c].left
      /\ handling'[c].for = handling[c].for /\ handling'[c].time = handling[c].time
  <2>1. PICK a \in {"allowed", "done"} : Stage(c, a)
    BY <1>1
  <2> QED BY <2>1, Staged DEF Typed, HandlerStages
<1>3. Messages[c].t \in MessageKinds /\ Messages[c].from \in Sockets
  BY PlayShape DEF Typed, HandlersTyped
<1>4. HubQuiet /\ HandsQuiet /\ UNCHANGED held
  BY <1>1, <1>2, <1>3 DEF HubQuiet, HandsQuiet, InAnswer, hubVars, seatVars
<1>5. DoorQuiet
  BY <1>1, <1>2, <1>3 DEF DoorQuiet, Waiting, hubVars, IsOpen
<1>6. ScreensQuiet
  BY <1>1, <1>2, <1>3 DEF ScreensQuiet, Stays, hubVars, IsOpen
<1>7. ClockQuiet
  BY <1>1, <1>2, <1>3 DEF ClockQuiet, Stays, clockVars, hubVars, IsOpen
<1>8. CountQuiet
  BY <1>1, <1>2, <1>3 DEF CountQuiet, Unsettled, hubVars, IsOpen, Typed, CallsSound
<1>9. HubTyped' /\ HandlersTyped'
  BY <1>1, <1>2, <1>3 DEF Typed, HubTyped, HandlersTyped, hubVars
<1>10. ScreensTyped' /\ SeatsTyped'
  BY <1>1, <1>2, <1>3 DEF Typed, ScreensTyped, SeatsTyped, seatVars
<1>11. ClocksTyped'
  BY <1>1, <1>2, <1>3 DEF Typed, ClocksTyped, clockVars
<1>12. CallsSound'
  BY <1>1, <1>2, <1>3 DEF Typed, CallsSound, clockVars
<1> QED BY <1>1, <1>4, <1>5, <1>6, <1>7, <1>8, <1>9, <1>10, <1>11, <1>12 DEF Typed

LEMMA TimerQuiet ==
  ASSUME GatewayConstants, Typed, NEW c \in play.calls, TimerFires(c)
  PROVE  UNCHANGED play /\ HubQuiet /\ DoorQuiet /\ ScreensQuiet /\ CountQuiet /\ HandsQuiet
         /\ ClockQuiet
         /\ UNCHANGED held /\ Typed'
<1>1. /\ UNCHANGED <<play, hubVars, lines, screen, seatVars, barred, over, clockVars>>
      /\ Messages[c].t = "tick" /\ handling[c].at = "idle"
      /\ handling' = [handling EXCEPT ![c].at = "visiting", ![c].time = time]
  BY DEF TimerFires, At
<1>2. /\ handling' \in [play.calls -> Handling]
      /\ \A d \in play.calls : d # c => handling'[d] = handling[d]
      /\ handling'[c].at = "visiting" /\ handling'[c].time = time /\ time \in Nat
      /\ handling'[c].history = handling[c].history /\ handling'[c].before = handling[c].before
      /\ handling'[c].left = handling[c].left /\ handling'[c].for = handling[c].for
  <2>1. PICK h : h = [handling[c] EXCEPT !.at = "visiting", !.time = time]
    OBVIOUS
  <2>2. handling' = [handling EXCEPT ![c] = h]
    BY <1>1, <2>1 DEF Typed, HandlersTyped
  <2>3. handling[c] \in Handling /\ time \in Nat
    BY DEF Typed, HandlersTyped, ClocksTyped
  <2>4. /\ h \in Handling /\ h.at = "visiting" /\ h.time = time
        /\ h.history = handling[c].history /\ h.before = handling[c].before
        /\ h.left = handling[c].left /\ h.for = handling[c].for
    BY <2>1, <2>3 DEF Handling, HandlerStages
  <2> QED BY <2>2, <2>3, <2>4, Became DEF Typed
<1>3. Messages[c].t \in MessageKinds /\ Messages[c].from \in Sockets
  BY PlayShape DEF Typed, HandlersTyped
<1>4. HubQuiet /\ HandsQuiet /\ UNCHANGED held
  BY <1>1, <1>2, <1>3 DEF HubQuiet, HandsQuiet, InAnswer, hubVars, seatVars
<1>5. DoorQuiet
  BY <1>1, <1>2, <1>3 DEF DoorQuiet, Waiting, hubVars, IsOpen
<1>6. ScreensQuiet
  BY <1>1, <1>2, <1>3 DEF ScreensQuiet, Stays, hubVars, IsOpen
<1>7. ClockQuiet
  BY <1>1, <1>2, <1>3 DEF ClockQuiet, Stays, clockVars, hubVars, IsOpen
<1>8. CountQuiet
  BY <1>1, <1>2, <1>3 DEF CountQuiet, Unsettled, hubVars, IsOpen, Typed, CallsSound
<1>9. HubTyped' /\ HandlersTyped'
  BY <1>1, <1>2, <1>3 DEF Typed, HubTyped, HandlersTyped, hubVars
<1>10. ScreensTyped' /\ SeatsTyped'
  BY <1>1, <1>2, <1>3 DEF Typed, ScreensTyped, SeatsTyped, seatVars
<1>11. ClocksTyped'
  BY <1>1, <1>2, <1>3 DEF Typed, ClocksTyped, clockVars
<1>12. CallsSound'
  BY <1>1, <1>2, <1>3 DEF Typed, CallsSound, clockVars
<1> QED BY <1>1, <1>4, <1>5, <1>6, <1>7, <1>8, <1>9, <1>10, <1>11, <1>12 DEF Typed

LEMMA TickEndsQuiet ==
  ASSUME GatewayConstants, Typed, NEW c \in play.calls, TickEnds(c)
  PROVE  UNCHANGED play /\ HubQuiet /\ DoorQuiet /\ ScreensQuiet /\ CountQuiet /\ HandsQuiet
         /\ ClockQuiet
         /\ UNCHANGED held /\ Typed'
<1>1. /\ UNCHANGED <<play, hubVars, lines, screen, seatVars, barred, over, clockVars>>
      /\ Messages[c].t = "tick" /\ handling[c].at = "visiting"
      /\ handling' = [handling EXCEPT ![c] = Unread]
  BY DEF TickEnds, At
<1>2. /\ handling' \in [play.calls -> Handling]
      /\ \A d \in play.calls : d # c => handling'[d] = handling[d]
      /\ handling'[c] = Unread /\ handling'[c].at = "idle" /\ handling'[c].time = 0
      /\ handling'[c].history = {} /\ handling'[c].before = {}
      /\ handling'[c].left = Nowhere /\ handling[c].for = {} /\ handling'[c].for = {}
  <2>1. Unread \in Handling
    BY DEF Unread, Handling, HandlerStages, SeatNumbers
  <2>2. handling[c].for = {}
    BY <1>1 DEF Typed, CallsSound
  <2> QED BY <1>1, <2>1, <2>2 DEF Typed, HandlersTyped, Unread
<1>3. Messages[c].t \in MessageKinds /\ Messages[c].from \in Sockets
  BY PlayShape DEF Typed, HandlersTyped
<1>4. HubQuiet /\ HandsQuiet /\ UNCHANGED held
  BY <1>1, <1>2, <1>3 DEF HubQuiet, HandsQuiet, InAnswer, hubVars, seatVars
<1>5. DoorQuiet
  BY <1>1, <1>2, <1>3 DEF DoorQuiet, Waiting, hubVars, IsOpen
<1>6. ScreensQuiet
  BY <1>1, <1>2, <1>3 DEF ScreensQuiet, Stays, hubVars, IsOpen
<1>7. ClockQuiet
  BY <1>1, <1>2, <1>3 DEF ClockQuiet, Stays, clockVars, hubVars, IsOpen
<1>8. CountQuiet
  BY <1>1, <1>2, <1>3 DEF CountQuiet, Unsettled, hubVars, IsOpen, Typed, CallsSound
<1>9. HubTyped' /\ HandlersTyped'
  BY <1>1, <1>2, <1>3 DEF Typed, HubTyped, HandlersTyped, hubVars
<1>10. ScreensTyped' /\ SeatsTyped'
  BY <1>1, <1>2, <1>3 DEF Typed, ScreensTyped, SeatsTyped, seatVars
<1>11. ClocksTyped'
  BY <1>1, <1>2, <1>3 DEF Typed, ClocksTyped, clockVars
<1>12. CallsSound'
  BY <1>1, <1>2, <1>3 DEF Typed, CallsSound, ClocksTyped, clockVars
<1> QED BY <1>1, <1>4, <1>5, <1>6, <1>7, <1>8, <1>9, <1>10, <1>11, <1>12 DEF Typed

LEMMA GreetQuiet ==
  ASSUME GatewayConstants, Typed, NEW c \in play.calls, Greet(c)
  PROVE  UNCHANGED play /\ HubQuiet /\ DoorQuiet /\ ScreensQuiet /\ CountQuiet /\ HandsQuiet
         /\ ClockQuiet
         /\ UNCHANGED held /\ Typed'
<1>1. /\ UNCHANGED <<play, clients, roomOf, members, missed, cut, lines, screen, seatVars, barred, over, clockVars>>
      /\ handling[c].at = "idle" /\ IsOpen(Messages[c].from)
      /\ UNCHANGED sock \/ sock' = [sock EXCEPT ![Messages[c].from] = "closing"]
      /\ Stage(c, "verifying") \/ Stage(c, "done")
  BY DEF Greet
<1>2. /\ handling' \in [play.calls -> Handling]
      /\ \A d \in play.calls : d # c => handling'[d] = handling[d]
      /\ handling'[c].at \in {"verifying", "done"}
      /\ handling'[c].history = handling[c].history /\ handling'[c].before = handling[c].before
      /\ handling'[c].left = handling[c].left
      /\ handling'[c].for = handling[c].for /\ handling'[c].time = handling[c].time
  <2>1. PICK a \in {"verifying", "done"} : Stage(c, a)
    BY <1>1
  <2> QED BY <2>1, Staged DEF Typed, HandlerStages
<1>3. Messages[c].t \in MessageKinds /\ Messages[c].from \in Sockets
  BY PlayShape DEF Typed, HandlersTyped
<1>20. /\ sock' \in [Sockets -> {"open", "closing", "closed"}]
      /\ \A s \in Sockets : /\ sock'[s] = "closed" => sock[s] = "closed" /\ s # Messages[c].from
                            /\ sock'[s] = "open" => sock[s] = "open"
  BY <1>1, <1>3 DEF Typed, HubTyped, IsOpen
<1>4. HubQuiet /\ HandsQuiet /\ UNCHANGED held
  BY <1>1, <1>2, <1>3, <1>20 DEF HubQuiet, HandsQuiet, InAnswer, hubVars, seatVars
<1>5. DoorQuiet
  BY <1>1, <1>2, <1>3, <1>20 DEF DoorQuiet, Waiting, hubVars, IsOpen
<1>6. ScreensQuiet
  BY <1>1, <1>2, <1>3, <1>20 DEF ScreensQuiet, Stays, hubVars, IsOpen
<1>7. ClockQuiet
  BY <1>1, <1>2, <1>3, <1>20 DEF ClockQuiet, Stays, clockVars, hubVars, IsOpen
<1>8. CountQuiet
  BY <1>1, <1>2, <1>3, <1>20 DEF CountQuiet, Unsettled, hubVars, IsOpen, Typed, CallsSound
<1>9. HubTyped' /\ HandlersTyped'
  BY <1>1, <1>2, <1>3, <1>20 DEF Typed, HubTyped, HandlersTyped, hubVars
<1>10. ScreensTyped' /\ SeatsTyped'
  BY <1>1, <1>2, <1>3, <1>20 DEF Typed, ScreensTyped, SeatsTyped, seatVars
<1>11. ClocksTyped'
  BY <1>1, <1>2, <1>3, <1>20 DEF Typed, ClocksTyped, clockVars
<1>12. CallsSound'
  BY <1>1, <1>2, <1>3, <1>20 DEF Typed, CallsSound, clockVars
<1> QED BY <1>1, <1>4, <1>5, <1>6, <1>7, <1>8, <1>9, <1>10, <1>11, <1>12 DEF Typed

LEMMA VerifyQuiet ==
  ASSUME GatewayConstants, Typed, NEW c \in play.calls, Verify(c)
  PROVE  UNCHANGED play /\ HubQuiet /\ ScreensQuiet /\ CountQuiet /\ HandsQuiet
         /\ ClockQuiet /\ UNCHANGED held /\ Typed'
<1>1. /\ UNCHANGED <<play, sock, roomOf, members, missed, cut, lines, screen, seatVars, barred, over, clockVars>>
      /\ Messages[c].t = "auth" /\ handling[c].at = "verifying"
      /\ clients' \in {clients, clients \cup {Messages[c].from}}
      /\ Stage(c, "done")
  BY DEF Verify, At
<1>2. /\ handling' \in [play.calls -> Handling]
      /\ \A d \in play.calls : d # c => handling'[d] = handling[d]
      /\ handling'[c].at \in {"done"}
      /\ handling'[c].history = handling[c].history /\ handling'[c].before = handling[c].before
      /\ handling'[c].left = handling[c].left
      /\ handling'[c].for = handling[c].for /\ handling'[c].time = handling[c].time
  <2>1. PICK a \in {"done"} : Stage(c, a)
    BY <1>1
  <2> QED BY <2>1, Staged DEF Typed, HandlerStages
<1>3. Messages[c].t \in MessageKinds /\ Messages[c].from \in Sockets
  BY PlayShape DEF Typed, HandlersTyped
<1>4. HubQuiet /\ HandsQuiet /\ UNCHANGED held
  BY <1>1, <1>2, <1>3 DEF HubQuiet, HandsQuiet, InAnswer, hubVars, seatVars
<1>5. ScreensQuiet
  BY <1>1, <1>2, <1>3 DEF ScreensQuiet, Stays, hubVars, IsOpen
<1>6. ClockQuiet
  BY <1>1, <1>2, <1>3 DEF ClockQuiet, Stays, clockVars, hubVars, IsOpen
<1>7. CountQuiet
  BY <1>1, <1>2, <1>3 DEF CountQuiet, Unsettled, hubVars, IsOpen, Typed, CallsSound
<1>8. HubTyped' /\ HandlersTyped'
  BY <1>1, <1>2, <1>3 DEF Typed, HubTyped, HandlersTyped, hubVars
<1>9. ScreensTyped' /\ SeatsTyped'
  BY <1>1, <1>2, <1>3 DEF Typed, ScreensTyped, SeatsTyped, seatVars
<1>10. ClocksTyped'
  BY <1>1, <1>2, <1>3 DEF Typed, ClocksTyped, clockVars
<1>11. CallsSound'
  BY <1>1, <1>2, <1>3 DEF Typed, CallsSound, clockVars
<1> QED BY <1>1, <1>4, <1>5, <1>6, <1>7, <1>8, <1>9, <1>10, <1>11 DEF Typed

LEMMA StoreQuiet ==
  ASSUME GatewayConstants, Typed, NEW c \in play.calls, Store(c)
  PROVE  UNCHANGED play /\ HubQuiet /\ DoorQuiet /\ ScreensQuiet /\ CountQuiet /\ HandsQuiet
         /\ ClockQuiet
         /\ UNCHANGED held /\ Typed'
<1>1. /\ UNCHANGED <<play, hubVars, screen, seatVars, barred, over, clockVars>>
      /\ Messages[c].t = "chat" /\ handling[c].at = "asked"
      /\ \/ Stage(c, "done") /\ UNCHANGED lines
         \/ /\ Stage(c, "recorded")
            /\ lines' = [d \in Stored \cup {c} |-> IF d \in Stored THEN lines[d] ELSE Stored]
  BY DEF Store, At
<1>2. /\ handling' \in [play.calls -> Handling]
      /\ \A d \in play.calls : d # c => handling'[d] = handling[d]
      /\ handling'[c].at \in {"done", "recorded"}
      /\ handling'[c].history = handling[c].history /\ handling'[c].before = handling[c].before
      /\ handling'[c].left = handling[c].left
      /\ handling'[c].for = handling[c].for /\ handling'[c].time = handling[c].time
  <2>1. PICK a \in {"done", "recorded"} : Stage(c, a)
    BY <1>1
  <2> QED BY <2>1, Staged DEF Typed, HandlerStages
<1>20. /\ DOMAIN lines \subseteq DOMAIN lines' /\ DOMAIN lines' \subseteq DOMAIN lines \cup {c}
       /\ \A d \in DOMAIN lines : lines'[d] = lines[d]
       /\ \A d \in DOMAIN lines' \ DOMAIN lines : lines'[d] = DOMAIN lines
       /\ handling'[c].at = "recorded" => c \in DOMAIN lines'
  <2>1. CASE Stage(c, "done") /\ UNCHANGED lines
    <3>1. handling'[c].at = "done"
      BY <2>1, Staged DEF Typed, HandlerStages
    <3> QED BY <2>1, <3>1
  <2>2. CASE lines' = [d \in Stored \cup {c} |-> IF d \in Stored THEN lines[d] ELSE Stored]
    BY <2>2 DEF Stored
  <2> QED BY <1>1, <2>1, <2>2
<1>22. c \in Handlers
  BY PlayShape DEF Typed, HandlersTyped
<1>21. UNCHANGED <<play, hubVars, screen, seatVars, clockVars>> /\ handling[c].at = "asked"
  BY <1>1
<1>3. Messages[c].t \in MessageKinds /\ Messages[c].from \in Sockets
  BY PlayShape DEF Typed, HandlersTyped
<1>4. HubQuiet /\ HandsQuiet /\ UNCHANGED held
  BY <1>21, <1>2, <1>3, <1>20 DEF HubQuiet, HandsQuiet, InAnswer, hubVars, seatVars
<1>5. DoorQuiet
  BY <1>21, <1>2, <1>3, <1>20 DEF DoorQuiet, Waiting, hubVars, IsOpen
<1>6. ScreensQuiet
  <2>1. \A s \in Sockets :
          Stays(s) /\ screen'[s].chat = screen[s].chat /\ screen'[s].by = screen[s].by
    BY <1>21 DEF Stays, hubVars, IsOpen
  <2>2. \A d \in play.calls :
          /\ handling'[d].at = "spoken" <=> handling[d].at = "spoken"
          /\ handling[d].at = "done" => handling'[d] = handling[d]
          /\ handling'[d].history = handling[d].history /\ handling'[d].before = handling[d].before
    BY <1>21, <1>2
  <2>3. \A d \in play.calls :
          handling'[d].at = "recorded" => handling[d].at = "recorded" \/ d \in DOMAIN lines'
    BY <1>2, <1>20
  <2> QED BY <1>20, <2>1, <2>2, <2>3 DEF ScreensQuiet
<1>7. ClockQuiet
  BY <1>21, <1>2, <1>3, <1>20 DEF ClockQuiet, Stays, clockVars, hubVars, IsOpen
<1>8. CountQuiet
  BY <1>21, <1>2, <1>3, <1>20 DEF CountQuiet, Unsettled, hubVars, IsOpen, Typed, CallsSound
<1>9. HubTyped' /\ HandlersTyped'
  BY <1>21, <1>2, <1>3, <1>20 DEF Typed, HubTyped, HandlersTyped, hubVars
<1>10. ScreensTyped' /\ SeatsTyped'
  <2>1. DOMAIN lines' \subseteq Handlers
    BY <1>20, <1>22 DEF Typed, ScreensTyped
  <2>2. \A d \in DOMAIN lines' : lines'[d] \subseteq DOMAIN lines' \ {d}
    <3>1. \A d \in DOMAIN lines : lines'[d] \subseteq DOMAIN lines' \ {d}
      BY <1>20 DEF Typed, ScreensTyped
    <3>2. \A d \in DOMAIN lines' \ DOMAIN lines : lines'[d] \subseteq DOMAIN lines' \ {d}
      BY <1>20
    <3> QED BY <3>1, <3>2
  <2> QED BY <1>21, <2>1, <2>2 DEF Typed, ScreensTyped, SeatsTyped, seatVars
<1>11. ClocksTyped'
  BY <1>21, <1>2, <1>3, <1>20 DEF Typed, ClocksTyped, clockVars
<1>12. CallsSound'
  BY <1>21, <1>2, <1>3, <1>20 DEF Typed, CallsSound, clockVars
<1> QED BY <1>1, <1>4, <1>5, <1>6, <1>7, <1>8, <1>9, <1>10, <1>11, <1>12 DEF Typed

LEMMA DisconnectQuiet ==
  ASSUME GatewayConstants, Typed, NEW s \in Sockets, Disconnect(s)
  PROVE  UNCHANGED play /\ HubQuiet /\ DoorQuiet /\ ScreensQuiet /\ CountQuiet /\ HandsQuiet
         /\ ClockQuiet
         /\ UNCHANGED held /\ Typed'
<1>1. UNCHANGED <<play, clients, roomOf, members, missed, cut, handling, lines, screen, seatVars,
                barred, over, clockVars>>
  BY DEF Disconnect
<1>2. /\ sock' \in [Sockets -> {"open", "closing", "closed"}]
      /\ \A x \in Sockets : /\ sock'[x] = "closed" => sock[x] = "closed"
                            /\ sock'[x] = "open" => sock[x] = "open"
  BY DEF Disconnect, Typed, HubTyped, IsOpen
<1>3. HubQuiet /\ HandsQuiet /\ UNCHANGED held
  BY <1>1, <1>2 DEF HubQuiet, HandsQuiet, InAnswer, hubVars, seatVars
<1>4. DoorQuiet
  BY <1>1, <1>2 DEF DoorQuiet, Waiting, hubVars, IsOpen
<1>5. ScreensQuiet
  BY <1>1, <1>2 DEF ScreensQuiet, Stays, hubVars, IsOpen
<1>6. ClockQuiet
  BY <1>1, <1>2 DEF ClockQuiet, Stays, clockVars, hubVars, IsOpen
<1>7. CountQuiet
  BY <1>1, <1>2 DEF CountQuiet, Unsettled, hubVars, IsOpen
<1>8. HubTyped' /\ HandlersTyped'
  BY <1>1, <1>2 DEF Typed, HubTyped, HandlersTyped, hubVars
<1>9. ScreensTyped' /\ SeatsTyped'
  BY <1>1, <1>2 DEF Typed, ScreensTyped, SeatsTyped, seatVars
<1>10. ClocksTyped'
  BY <1>1, <1>2 DEF Typed, ClocksTyped, clockVars
<1>11. CallsSound'
  BY <1>1, <1>2 DEF Typed, CallsSound, ClocksTyped, clockVars
<1> QED BY <1>1, <1>3, <1>4, <1>5, <1>6, <1>7, <1>8, <1>9, <1>10, <1>11 DEF Typed

LEMMA PongQuiet ==
  ASSUME GatewayConstants, Typed, NEW s \in Sockets, Pong(s)
  PROVE  UNCHANGED play /\ HubQuiet /\ DoorQuiet /\ ScreensQuiet /\ CountQuiet /\ HandsQuiet
         /\ ClockQuiet
         /\ UNCHANGED held /\ Typed'
<1>1. UNCHANGED <<play, sock, clients, roomOf, members, cut, handling, lines, screen, seatVars,
                barred, over, clock, time, pays, repaid, spent>>
  BY DEF Pong
<1>2. /\ missed' \in [Sockets -> 0..2] /\ lapses' \in [Sockets -> Nat]
      /\ \A x \in Sockets : lapses'[x] \in {lapses[x], lapses[x] + 1}
  <2>1. missed' = [missed EXCEPT ![s] = 0] /\ missed \in [Sockets -> 0..2] /\ 0 \in 0..2
    BY DEF Pong, Typed, HubTyped
  <2>2. lapses' = lapses \/ lapses' = [lapses EXCEPT ![s] = lapses[s] + 1]
    BY DEF Pong, Typed, ClocksTyped
  <2> QED BY <2>1, <2>2 DEF Typed, ClocksTyped
<1>3. HubQuiet /\ HandsQuiet /\ UNCHANGED held
  BY <1>1, <1>2 DEF HubQuiet, HandsQuiet, InAnswer, hubVars, seatVars
<1>4. DoorQuiet
  BY <1>1, <1>2 DEF DoorQuiet, Waiting, hubVars, IsOpen
<1>5. ScreensQuiet
  BY <1>1, <1>2 DEF ScreensQuiet, Stays, hubVars, IsOpen
<1>6. ClockQuiet
  BY <1>1, <1>2 DEF ClockQuiet, Stays, clockVars, hubVars, IsOpen
<1>7. CountQuiet
  BY <1>1, <1>2 DEF CountQuiet, Unsettled, hubVars, IsOpen
<1>8. HubTyped' /\ HandlersTyped'
  BY <1>1, <1>2 DEF Typed, HubTyped, HandlersTyped, hubVars
<1>9. ScreensTyped' /\ SeatsTyped'
  BY <1>1, <1>2 DEF Typed, ScreensTyped, SeatsTyped, seatVars
<1>10. ClocksTyped'
  BY <1>1, <1>2 DEF Typed, ClocksTyped, clockVars
<1>11. CallsSound'
  BY <1>1, <1>2 DEF Typed, CallsSound, ClocksTyped, clockVars
<1> QED BY <1>1, <1>3, <1>4, <1>5, <1>6, <1>7, <1>8, <1>9, <1>10, <1>11 DEF Typed

LEMMA AdvanceQuiet ==
  ASSUME GatewayConstants, Typed, Advance
  PROVE  UNCHANGED play /\ HubQuiet /\ DoorQuiet /\ ScreensQuiet /\ CountQuiet /\ HandsQuiet
         /\ UNCHANGED held /\ Typed'
<1>1. UNCHANGED <<play, clients, roomOf, members, cut, handling, lines, screen, seatVars,
                barred, over, clock, pays, repaid, lapses>>
  BY DEF Advance
<1>2. /\ sock' \in [Sockets -> {"open", "closing", "closed"}]
      /\ \A s \in Sockets : /\ sock'[s] = "closed" => sock[s] = "closed"
                            /\ sock'[s] = "open" => sock[s] = "open"
      /\ missed' \in [Sockets -> 0..2] /\ spent' \in [Sockets -> Nat]
      /\ time' = time + 1 /\ time \in Nat
  <2>1. missed' \in [Sockets -> 0..2]
    <3>1. \A s \in Sockets : missed[s] \in 0..2 /\ (missed[s] < 2 => missed[s] + 1 \in 0..2)
      BY DEF Typed, HubTyped
    <3> QED BY <3>1 DEF Advance
  <2>2. spent' \in [Sockets -> Nat]
    BY DEF Advance, Typed, ClocksTyped
  <2> QED BY <2>1, <2>2 DEF Advance, Typed, HubTyped, ClocksTyped
<1>3. HubQuiet /\ HandsQuiet /\ UNCHANGED held
  BY <1>1, <1>2 DEF HubQuiet, HandsQuiet, InAnswer, hubVars, seatVars
<1>4. DoorQuiet
  BY <1>1, <1>2 DEF DoorQuiet, Waiting, hubVars, IsOpen
<1>5. ScreensQuiet
  BY <1>1, <1>2 DEF ScreensQuiet, Stays, hubVars, IsOpen
<1>6. CountQuiet
  BY <1>1, <1>2 DEF CountQuiet, Unsettled, hubVars, IsOpen
<1>7. HubTyped' /\ HandlersTyped'
  BY <1>1, <1>2 DEF Typed, HubTyped, HandlersTyped, hubVars
<1>8. ScreensTyped' /\ SeatsTyped'
  BY <1>1, <1>2 DEF Typed, ScreensTyped, SeatsTyped, seatVars
<1>9. ClocksTyped'
  <2>1. \A s \in Sockets : clock[s].at \in Nat /\ clock[s].at <= time /\ clock'[s] = clock[s]
    BY <1>1 DEF Typed, ClocksTyped, Clock
  <2>2. \A s \in Sockets : clock'[s].at <= time'
    BY <1>2, <2>1
  <2> QED BY <1>1, <1>2, <2>2 DEF Typed, ClocksTyped
<1>10. CallsSound'
  <2>1. \A c \in play.calls : handling[c].time \in Nat /\ handling[c].time <= time
    BY DEF Typed, HandlersTyped, Handling, CallsSound
  <2>2. \A c \in play.calls : handling[c].time <= time'
    BY <1>2, <2>1
  <2> QED BY <1>1, <2>2 DEF Typed, CallsSound
<1> QED BY <1>1, <1>3, <1>4, <1>5, <1>6, <1>7, <1>8, <1>9, <1>10 DEF Typed

LEMMA SeatOverHttpQuiet ==
  ASSUME GatewayConstants, Typed, NEW r \in Rooms, NEW u \in Persons, SeatOverHttp(r, u)
  PROVE  UNCHANGED play /\ HubQuiet /\ DoorQuiet /\ ScreensQuiet /\ CountQuiet /\ HandsQuiet
         /\ ClockQuiet /\ Typed'
<1>1. UNCHANGED <<play, hubVars, handling, lines, screen, hands, tally, barred, over, clockVars>>
  BY DEF SeatOverHttp
<1>2. held' \in [Rooms -> [Places -> Persons \cup {Unseated}]]
  <2>1. PICK i \in Places :
          held' = [held EXCEPT ![r][i] = u] \/ held' = [held EXCEPT ![r][i] = Unseated]
    BY DEF SeatOverHttp
  <2>2. CASE held' = [held EXCEPT ![r][i] = u]
    BY <2>2 DEF Typed, SeatsTyped
  <2>3. CASE held' = [held EXCEPT ![r][i] = Unseated]
    BY <2>3 DEF Typed, SeatsTyped
  <2> QED BY <2>1, <2>2, <2>3
<1>3. HubQuiet /\ HandsQuiet
  BY <1>1, <1>2 DEF HubQuiet, HandsQuiet, InAnswer, hubVars, seatVars
<1>4. DoorQuiet
  BY <1>1, <1>2 DEF DoorQuiet, Waiting, hubVars, IsOpen
<1>5. ScreensQuiet
  BY <1>1, <1>2 DEF ScreensQuiet, Stays, hubVars, IsOpen
<1>6. ClockQuiet
  BY <1>1, <1>2 DEF ClockQuiet, Stays, clockVars, hubVars, IsOpen
<1>7. CountQuiet
  BY <1>1, <1>2 DEF CountQuiet, Unsettled, hubVars, IsOpen
<1>8. HubTyped' /\ HandlersTyped'
  BY <1>1, <1>2 DEF Typed, HubTyped, HandlersTyped, hubVars
<1>9. ScreensTyped' /\ SeatsTyped'
  BY <1>1, <1>2 DEF Typed, ScreensTyped, SeatsTyped, seatVars
<1>10. ClocksTyped'
  BY <1>1, <1>2 DEF Typed, ClocksTyped, clockVars
<1>11. CallsSound'
  BY <1>1, <1>2 DEF Typed, CallsSound, ClocksTyped, clockVars
<1> QED BY <1>1, <1>3, <1>4, <1>5, <1>6, <1>7, <1>8, <1>9, <1>10, <1>11 DEF Typed

LEMMA KickQuiet ==
  ASSUME GatewayConstants, Typed, NEW u \in Persons, Kick(u)
  PROVE  UNCHANGED play /\ HubQuiet /\ DoorQuiet /\ ScreensQuiet /\ CountQuiet /\ HandsQuiet
         /\ ClockQuiet /\ Typed'
<1>1. UNCHANGED <<play, hubVars, handling, lines, screen, hands, tally, over, clockVars>>
  BY DEF Kick
<1>2. held' \in [Rooms -> [Places -> Persons \cup {Unseated}]]
  BY DEF Kick, Typed, SeatsTyped
<1>3. HubQuiet /\ HandsQuiet
  BY <1>1, <1>2 DEF HubQuiet, HandsQuiet, InAnswer, hubVars, seatVars
<1>4. DoorQuiet
  BY <1>1, <1>2 DEF DoorQuiet, Waiting, hubVars, IsOpen
<1>5. ScreensQuiet
  BY <1>1, <1>2 DEF ScreensQuiet, Stays, hubVars, IsOpen
<1>6. ClockQuiet
  BY <1>1, <1>2 DEF ClockQuiet, Stays, clockVars, hubVars, IsOpen
<1>7. CountQuiet
  BY <1>1, <1>2 DEF CountQuiet, Unsettled, hubVars, IsOpen
<1>8. HubTyped' /\ HandlersTyped'
  BY <1>1, <1>2 DEF Typed, HubTyped, HandlersTyped, hubVars
<1>9. ScreensTyped' /\ SeatsTyped'
  BY <1>1, <1>2 DEF Typed, ScreensTyped, SeatsTyped, seatVars
<1>10. ClocksTyped'
  BY <1>1, <1>2 DEF Typed, ClocksTyped, clockVars
<1>11. CallsSound'
  BY <1>1, <1>2 DEF Typed, CallsSound, ClocksTyped, clockVars
<1> QED BY <1>1, <1>3, <1>4, <1>5, <1>6, <1>7, <1>8, <1>9, <1>10, <1>11 DEF Typed

LEMMA RoomEndsQuiet ==
  ASSUME GatewayConstants, Typed, NEW r \in Rooms, RoomEnds(r)
  PROVE  UNCHANGED play /\ HubQuiet /\ DoorQuiet /\ ScreensQuiet /\ CountQuiet /\ HandsQuiet
         /\ ClockQuiet /\ Typed'
<1>1. UNCHANGED <<play, hubVars, handling, lines, screen, hands, tally, barred, clockVars>>
  BY DEF RoomEnds
<1>2. held' \in [Rooms -> [Places -> Persons \cup {Unseated}]]
  BY DEF RoomEnds, Typed, SeatsTyped
<1>3. HubQuiet /\ HandsQuiet
  BY <1>1, <1>2 DEF HubQuiet, HandsQuiet, InAnswer, hubVars, seatVars
<1>4. DoorQuiet
  BY <1>1, <1>2 DEF DoorQuiet, Waiting, hubVars, IsOpen
<1>5. ScreensQuiet
  BY <1>1, <1>2 DEF ScreensQuiet, Stays, hubVars, IsOpen
<1>6. ClockQuiet
  BY <1>1, <1>2 DEF ClockQuiet, Stays, clockVars, hubVars, IsOpen
<1>7. CountQuiet
  BY <1>1, <1>2 DEF CountQuiet, Unsettled, hubVars, IsOpen
<1>8. HubTyped' /\ HandlersTyped'
  BY <1>1, <1>2 DEF Typed, HubTyped, HandlersTyped, hubVars
<1>9. ScreensTyped' /\ SeatsTyped'
  BY <1>1, <1>2 DEF Typed, ScreensTyped, SeatsTyped, seatVars
<1>10. ClocksTyped'
  BY <1>1, <1>2 DEF Typed, ClocksTyped, clockVars
<1>11. CallsSound'
  BY <1>1, <1>2 DEF Typed, CallsSound, ClocksTyped, clockVars
<1> QED BY <1>1, <1>3, <1>4, <1>5, <1>6, <1>7, <1>8, <1>9, <1>10, <1>11 DEF Typed

LEMMA TalliedTyped ==
  ASSUME tally \in [Persons -> [Fates -> Nat]], NEW u \in Persons, NEW f \in Fates
  PROVE  Tallied(u, f) \in [Persons -> [Fates -> Nat]]
<1>1. tally[u] \in [Fates -> Nat]
  OBVIOUS
<1>2. [tally[u] EXCEPT ![f] = tally[u][f] + 1] \in [Fates -> Nat]
  BY <1>1
<1> QED BY <1>2 DEF Tallied

LEMMA SpeakQuiet ==
  ASSUME GatewayConstants, Typed, NEW c \in play.calls, Speak(c)
  PROVE  UNCHANGED play /\ HubQuiet /\ DoorQuiet /\ CountQuiet /\ HandsQuiet /\ ClockQuiet
         /\ UNCHANGED held /\ Typed'
<1>1. /\ UNCHANGED <<play, hubVars, lines, seatVars, barred, over, clockVars>>
      /\ Messages[c].t = "chat" /\ handling[c].at = "recorded"
      /\ screen' \in {screen, HearLine(Messages[c].room, c)}
      /\ Stage(c, "done") \/ Stage(c, "spoken")
  BY DEF Speak, At
<1>2. /\ handling' \in [play.calls -> Handling]
      /\ \A d \in play.calls : d # c => handling'[d] = handling[d]
      /\ handling'[c].at \in {"done", "spoken"}
      /\ handling'[c].history = handling[c].history /\ handling'[c].before = handling[c].before
      /\ handling'[c].left = handling[c].left
      /\ handling'[c].for = handling[c].for /\ handling'[c].time = handling[c].time
  <2>1. PICK a \in {"done", "spoken"} : Stage(c, a)
    BY <1>1
  <2> QED BY <2>1, Staged DEF Typed, HandlerStages
<1>20. /\ screen' \in [Sockets -> Screen]
       /\ \A s \in Sockets : screen'[s].viewers = screen[s].viewers
  <2>1. c \in Handlers /\ screen \in [Sockets -> Screen]
    BY PlayShape DEF Typed, HandlersTyped, ScreensTyped
  <2>2. \A s \in Sockets : LET x == [screen[s] EXCEPT !.chat = @ \cup {c}]
                           IN  x \in Screen /\ x.viewers = screen[s].viewers
    BY <2>1 DEF Screen
  <2> QED BY <1>1, <2>1, <2>2 DEF HearLine
<1>3. Messages[c].t \in MessageKinds /\ Messages[c].from \in Sockets
  BY PlayShape DEF Typed, HandlersTyped
<1>4. HubQuiet /\ HandsQuiet /\ UNCHANGED held
  BY <1>1, <1>2, <1>3, <1>20 DEF HubQuiet, HandsQuiet, InAnswer, hubVars, seatVars
<1>5. DoorQuiet
  BY <1>1, <1>2, <1>3, <1>20 DEF DoorQuiet, Waiting, hubVars, IsOpen
<1>6. ClockQuiet
  BY <1>1, <1>2, <1>3, <1>20 DEF ClockQuiet, Stays, clockVars, hubVars, IsOpen
<1>7. CountQuiet
  BY <1>1, <1>2, <1>3, <1>20 DEF CountQuiet, Unsettled, hubVars, IsOpen, Typed, CallsSound
<1>8. HubTyped' /\ HandlersTyped'
  BY <1>1, <1>2, <1>3, <1>20 DEF Typed, HubTyped, HandlersTyped, hubVars
<1>9. ScreensTyped' /\ SeatsTyped'
  BY <1>1, <1>2, <1>3, <1>20 DEF Typed, ScreensTyped, SeatsTyped, seatVars
<1>10. ClocksTyped'
  BY <1>1, <1>2, <1>3, <1>20 DEF Typed, ClocksTyped, clockVars
<1>11. CallsSound'
  BY <1>1, <1>2, <1>3, <1>20 DEF Typed, CallsSound, clockVars
<1> QED BY <1>1, <1>4, <1>5, <1>6, <1>7, <1>8, <1>9, <1>10, <1>11 DEF Typed

LEMMA SnapshotQuiet ==
  ASSUME GatewayConstants, Typed, NEW c \in play.calls, Snapshot(c)
  PROVE  UNCHANGED play /\ HubQuiet /\ DoorQuiet /\ CountQuiet /\ HandsQuiet /\ ClockQuiet
         /\ UNCHANGED held /\ Typed'
<1>1. /\ UNCHANGED <<play, hubVars, lines, screen, seatVars, barred, over, clockVars>>
      /\ Messages[c].t = "join" /\ handling[c].at = "asked"
      /\ \/ Stage(c, "done")
         \/ \E b \in SUBSET Said(Messages[c].room) :
                handling' = [handling EXCEPT ![c].at = "checking", ![c].history = b,
                                             ![c].before = Spoken]
  BY DEF Snapshot, At
<1>2. /\ handling' \in [play.calls -> Handling]
      /\ \A d \in play.calls : d # c => handling'[d] = handling[d]
      /\ handling'[c].at \in {"done", "checking"}
      /\ handling'[c].left = handling[c].left
      /\ handling'[c].for = handling[c].for /\ handling'[c].time = handling[c].time
  <2>0. CASE Stage(c, "done")
    BY <2>0, Staged DEF Typed, HandlerStages
  <2>1. ASSUME NEW b \in SUBSET Said(Messages[c].room),
               handling' = [handling EXCEPT ![c].at = "checking", ![c].history = b, ![c].before = Spoken]
        PROVE  <1>2
    <3>1. PICK h : h = [handling[c] EXCEPT !.at = "checking", !.history = b, !.before = Spoken]
      OBVIOUS
    <3>2. handling' = [handling EXCEPT ![c] = h]
      BY <2>1, <3>1 DEF Typed, HandlersTyped
    <3>3. handling[c] \in Handling /\ b \subseteq Handlers /\ Spoken \subseteq Handlers
      BY PlayShape DEF Typed, HandlersTyped, ScreensTyped, Said, Stored, Spoken
    <3>4. /\ h \in Handling /\ h.at = "checking" /\ h.history = b /\ h.before = Spoken
          /\ h.left = handling[c].left /\ h.for = handling[c].for /\ h.time = handling[c].time
      BY <3>1, <3>3 DEF Handling, HandlerStages
    <3> QED BY <3>2, <3>3, <3>4, Became DEF Typed
  <2> QED BY <1>1, <2>0, <2>1
<1>21. /\ UNCHANGED <<play, hubVars, lines, screen, seatVars, barred, over, clockVars>>
       /\ Messages[c].t = "join" /\ handling[c].at = "asked"
  BY <1>1
<1>3. Messages[c].t \in MessageKinds /\ Messages[c].from \in Sockets
  BY PlayShape DEF Typed, HandlersTyped
<1>4. HubQuiet /\ HandsQuiet /\ UNCHANGED held
  BY <1>21, <1>2, <1>3 DEF HubQuiet, HandsQuiet, InAnswer, hubVars, seatVars
<1>5. DoorQuiet
  BY <1>21, <1>2, <1>3 DEF DoorQuiet, Waiting, hubVars, IsOpen
<1>6. ClockQuiet
  BY <1>21, <1>2, <1>3 DEF ClockQuiet, Stays, clockVars, hubVars, IsOpen
<1>7. CountQuiet
  BY <1>21, <1>2, <1>3 DEF CountQuiet, Unsettled, hubVars, IsOpen, Typed, CallsSound
<1>8. HubTyped' /\ HandlersTyped'
  BY <1>21, <1>2, <1>3 DEF Typed, HubTyped, HandlersTyped, hubVars
<1>9. ScreensTyped' /\ SeatsTyped'
  BY <1>21, <1>2, <1>3 DEF Typed, ScreensTyped, SeatsTyped, seatVars
<1>10. ClocksTyped'
  BY <1>21, <1>2, <1>3 DEF Typed, ClocksTyped, clockVars
<1>11. CallsSound'
  BY <1>21, <1>2, <1>3 DEF Typed, CallsSound, clockVars
<1> QED BY <1>21, <1>4, <1>5, <1>6, <1>7, <1>8, <1>9, <1>10, <1>11 DEF Typed

LEMMA RaiseQuiet ==
  ASSUME GatewayConstants, Typed, NEW c \in play.calls, Raise(c)
  PROVE  UNCHANGED play /\ HubQuiet /\ DoorQuiet /\ ScreensQuiet /\ CountQuiet /\ ClockQuiet
         /\ UNCHANGED held /\ Typed'
<1>1. /\ UNCHANGED <<play, hubVars, lines, screen, held, barred, over, clockVars>>
      /\ Messages[c].t = "request" /\ handling[c].at = "asked"
      /\ Stage(c, "done")
  BY DEF Raise, At
<1>2. /\ handling' \in [play.calls -> Handling]
      /\ \A d \in play.calls : d # c => handling'[d] = handling[d]
      /\ handling'[c].at \in {"done"}
      /\ handling'[c].history = handling[c].history /\ handling'[c].before = handling[c].before
      /\ handling'[c].left = handling[c].left
      /\ handling'[c].for = handling[c].for /\ handling'[c].time = handling[c].time
  <2>1. PICK a \in {"done"} : Stage(c, a)
    BY <1>1
  <2> QED BY <2>1, Staged DEF Typed, HandlerStages
<1>20. /\ hands' \subseteq Rooms \X Persons /\ IsFiniteSet(hands')
       /\ tally' \in [Persons -> [Fates -> Nat]]
  <2>1. /\ hands \subseteq Rooms \X Persons /\ IsFiniteSet(hands)
        /\ tally \in [Persons -> [Fates -> Nat]]
        /\ Messages[c].room \in Rooms /\ Messages[c].user \in Persons
        /\ OwnerOf[Messages[c].from] \in Persons
    BY PlayShape DEF Typed, SeatsTyped, HandlersTyped
  <2>5. PICK x \in Rooms \X Persons : hands' \in {hands, hands \cup {x}, hands \ {x}}
    BY <2>1 DEF Raise, Hand
  <2>6. IsFiniteSet(hands \cup {x}) /\ IsFiniteSet(hands \ {x})
    BY <2>1, FS_AddElement, FS_RemoveElement
  <2>2. hands' \subseteq Rooms \X Persons /\ IsFiniteSet(hands')
    BY <2>1, <2>5, <2>6
  <2>3. \A u \in Persons, f \in Fates : Tallied(u, f) \in [Persons -> [Fates -> Nat]]
    BY <2>1, TalliedTyped
  <2>4. tally' \in [Persons -> [Fates -> Nat]]
    BY <2>1, <2>3 DEF Raise, Fates
  <2> QED BY <2>2, <2>4
<1>3. Messages[c].t \in MessageKinds /\ Messages[c].from \in Sockets
  BY PlayShape DEF Typed, HandlersTyped
<1>4. HubQuiet /\ UNCHANGED held
  BY <1>1, <1>2, <1>3, <1>20 DEF HubQuiet, hubVars, seatVars
<1>5. DoorQuiet
  BY <1>1, <1>2, <1>3, <1>20 DEF DoorQuiet, Waiting, hubVars, IsOpen
<1>6. ScreensQuiet
  BY <1>1, <1>2, <1>3, <1>20 DEF ScreensQuiet, Stays, hubVars, IsOpen
<1>7. ClockQuiet
  BY <1>1, <1>2, <1>3, <1>20 DEF ClockQuiet, Stays, clockVars, hubVars, IsOpen
<1>8. CountQuiet
  BY <1>1, <1>2, <1>3, <1>20 DEF CountQuiet, Unsettled, hubVars, IsOpen, Typed, CallsSound
<1>9. HubTyped' /\ HandlersTyped'
  BY <1>1, <1>2, <1>3, <1>20 DEF Typed, HubTyped, HandlersTyped, hubVars
<1>10. ScreensTyped' /\ SeatsTyped'
  BY <1>1, <1>2, <1>3, <1>20 DEF Typed, ScreensTyped, SeatsTyped, seatVars
<1>11. ClocksTyped'
  BY <1>1, <1>2, <1>3, <1>20 DEF Typed, ClocksTyped, clockVars
<1>12. CallsSound'
  BY <1>1, <1>2, <1>3, <1>20 DEF Typed, CallsSound, clockVars
<1> QED BY <1>1, <1>4, <1>5, <1>6, <1>7, <1>8, <1>9, <1>10, <1>11, <1>12 DEF Typed

LEMMA CancelQuiet ==
  ASSUME GatewayConstants, Typed, NEW c \in play.calls, Cancel(c)
  PROVE  UNCHANGED play /\ HubQuiet /\ DoorQuiet /\ ScreensQuiet /\ CountQuiet /\ ClockQuiet
         /\ UNCHANGED held /\ Typed'
<1>1. /\ UNCHANGED <<play, hubVars, lines, screen, held, barred, over, clockVars>>
      /\ Messages[c].t = "cancel" /\ handling[c].at = "asked"
      /\ Stage(c, "done")
  BY DEF Cancel, At
<1>2. /\ handling' \in [play.calls -> Handling]
      /\ \A d \in play.calls : d # c => handling'[d] = handling[d]
      /\ handling'[c].at \in {"done"}
      /\ handling'[c].history = handling[c].history /\ handling'[c].before = handling[c].before
      /\ handling'[c].left = handling[c].left
      /\ handling'[c].for = handling[c].for /\ handling'[c].time = handling[c].time
  <2>1. PICK a \in {"done"} : Stage(c, a)
    BY <1>1
  <2> QED BY <2>1, Staged DEF Typed, HandlerStages
<1>20. /\ hands' \subseteq Rooms \X Persons /\ IsFiniteSet(hands')
       /\ tally' \in [Persons -> [Fates -> Nat]]
  <2>1. /\ hands \subseteq Rooms \X Persons /\ IsFiniteSet(hands)
        /\ tally \in [Persons -> [Fates -> Nat]]
        /\ Messages[c].room \in Rooms /\ Messages[c].user \in Persons
        /\ OwnerOf[Messages[c].from] \in Persons
    BY PlayShape DEF Typed, SeatsTyped, HandlersTyped
  <2>5. PICK x \in Rooms \X Persons : hands' \in {hands, hands \cup {x}, hands \ {x}}
    BY <2>1 DEF Cancel, Hand
  <2>6. IsFiniteSet(hands \cup {x}) /\ IsFiniteSet(hands \ {x})
    BY <2>1, FS_AddElement, FS_RemoveElement
  <2>2. hands' \subseteq Rooms \X Persons /\ IsFiniteSet(hands')
    BY <2>1, <2>5, <2>6
  <2>3. \A u \in Persons, f \in Fates : Tallied(u, f) \in [Persons -> [Fates -> Nat]]
    BY <2>1, TalliedTyped
  <2>4. tally' \in [Persons -> [Fates -> Nat]]
    BY <2>1, <2>3 DEF Cancel, Fates
  <2> QED BY <2>2, <2>4
<1>3. Messages[c].t \in MessageKinds /\ Messages[c].from \in Sockets
  BY PlayShape DEF Typed, HandlersTyped
<1>4. HubQuiet /\ UNCHANGED held
  BY <1>1, <1>2, <1>3, <1>20 DEF HubQuiet, hubVars, seatVars
<1>5. DoorQuiet
  BY <1>1, <1>2, <1>3, <1>20 DEF DoorQuiet, Waiting, hubVars, IsOpen
<1>6. ScreensQuiet
  BY <1>1, <1>2, <1>3, <1>20 DEF ScreensQuiet, Stays, hubVars, IsOpen
<1>7. ClockQuiet
  BY <1>1, <1>2, <1>3, <1>20 DEF ClockQuiet, Stays, clockVars, hubVars, IsOpen
<1>8. CountQuiet
  BY <1>1, <1>2, <1>3, <1>20 DEF CountQuiet, Unsettled, hubVars, IsOpen, Typed, CallsSound
<1>9. HubTyped' /\ HandlersTyped'
  BY <1>1, <1>2, <1>3, <1>20 DEF Typed, HubTyped, HandlersTyped, hubVars
<1>10. ScreensTyped' /\ SeatsTyped'
  BY <1>1, <1>2, <1>3, <1>20 DEF Typed, ScreensTyped, SeatsTyped, seatVars
<1>11. ClocksTyped'
  BY <1>1, <1>2, <1>3, <1>20 DEF Typed, ClocksTyped, clockVars
<1>12. CallsSound'
  BY <1>1, <1>2, <1>3, <1>20 DEF Typed, CallsSound, clockVars
<1> QED BY <1>1, <1>4, <1>5, <1>6, <1>7, <1>8, <1>9, <1>10, <1>11, <1>12 DEF Typed

LEMMA ResolveQuiet ==
  ASSUME GatewayConstants, Typed, NEW c \in play.calls, Resolve(c)
  PROVE  UNCHANGED play /\ HubQuiet /\ DoorQuiet /\ ScreensQuiet /\ CountQuiet /\ ClockQuiet
         /\ UNCHANGED held /\ Typed'
<1>1. /\ UNCHANGED <<play, hubVars, lines, screen, held, barred, over, clockVars>>
      /\ Messages[c].t = "resolve" /\ handling[c].at = "allowed"
      /\ Stage(c, "done") \/ Stage(c, "granted")
  BY DEF Resolve, At
<1>2. /\ handling' \in [play.calls -> Handling]
      /\ \A d \in play.calls : d # c => handling'[d] = handling[d]
      /\ handling'[c].at \in {"done", "granted"}
      /\ handling'[c].history = handling[c].history /\ handling'[c].before = handling[c].before
      /\ handling'[c].left = handling[c].left
      /\ handling'[c].for = handling[c].for /\ handling'[c].time = handling[c].time
  <2>1. PICK a \in {"done", "granted"} : Stage(c, a)
    BY <1>1
  <2> QED BY <2>1, Staged DEF Typed, HandlerStages
<1>20. /\ hands' \subseteq Rooms \X Persons /\ IsFiniteSet(hands')
       /\ tally' \in [Persons -> [Fates -> Nat]]
  <2>1. /\ hands \subseteq Rooms \X Persons /\ IsFiniteSet(hands)
        /\ tally \in [Persons -> [Fates -> Nat]]
        /\ Messages[c].room \in Rooms /\ Messages[c].user \in Persons
        /\ OwnerOf[Messages[c].from] \in Persons
    BY PlayShape DEF Typed, SeatsTyped, HandlersTyped
  <2>5. PICK x \in Rooms \X Persons : hands' \in {hands, hands \cup {x}, hands \ {x}}
    BY <2>1 DEF Resolve, Pending, Hand
  <2>6. IsFiniteSet(hands \cup {x}) /\ IsFiniteSet(hands \ {x})
    BY <2>1, FS_AddElement, FS_RemoveElement
  <2>2. hands' \subseteq Rooms \X Persons /\ IsFiniteSet(hands')
    BY <2>1, <2>5, <2>6
  <2>3. \A u \in Persons, f \in Fates : Tallied(u, f) \in [Persons -> [Fates -> Nat]]
    BY <2>1, TalliedTyped
  <2>4. tally' \in [Persons -> [Fates -> Nat]]
    BY <2>1, <2>3 DEF Resolve, Pending, Fates
  <2> QED BY <2>2, <2>4
<1>3. Messages[c].t \in MessageKinds /\ Messages[c].from \in Sockets
  BY PlayShape DEF Typed, HandlersTyped
<1>4. HubQuiet /\ UNCHANGED held
  BY <1>1, <1>2, <1>3, <1>20 DEF HubQuiet, hubVars, seatVars
<1>5. DoorQuiet
  BY <1>1, <1>2, <1>3, <1>20 DEF DoorQuiet, Waiting, hubVars, IsOpen
<1>6. ScreensQuiet
  BY <1>1, <1>2, <1>3, <1>20 DEF ScreensQuiet, Stays, hubVars, IsOpen
<1>7. ClockQuiet
  BY <1>1, <1>2, <1>3, <1>20 DEF ClockQuiet, Stays, clockVars, hubVars, IsOpen
<1>8. CountQuiet
  BY <1>1, <1>2, <1>3, <1>20 DEF CountQuiet, Unsettled, hubVars, IsOpen, Typed, CallsSound
<1>9. HubTyped' /\ HandlersTyped'
  BY <1>1, <1>2, <1>3, <1>20 DEF Typed, HubTyped, HandlersTyped, hubVars
<1>10. ScreensTyped' /\ SeatsTyped'
  BY <1>1, <1>2, <1>3, <1>20 DEF Typed, ScreensTyped, SeatsTyped, seatVars
<1>11. ClocksTyped'
  BY <1>1, <1>2, <1>3, <1>20 DEF Typed, ClocksTyped, clockVars
<1>12. CallsSound'
  BY <1>1, <1>2, <1>3, <1>20 DEF Typed, CallsSound, clockVars
<1> QED BY <1>1, <1>4, <1>5, <1>6, <1>7, <1>8, <1>9, <1>10, <1>11, <1>12 DEF Typed

LEMMA PickSeatQuiet ==
  ASSUME GatewayConstants, Typed, NEW c \in play.calls, PickSeat(c)
  PROVE  UNCHANGED play /\ HubQuiet /\ DoorQuiet /\ ScreensQuiet /\ CountQuiet /\ ClockQuiet
         /\ UNCHANGED held /\ Typed'
<1>1. /\ UNCHANGED <<play, hubVars, lines, screen, hands, held, barred, over, clockVars>>
      /\ Messages[c].t = "resolve" /\ handling[c].at = "granted"
      /\ \/ Stage(c, "done")
         \/ \E p \in SeatNumbers : handling' = [handling EXCEPT ![c].at = "picked", ![c].place = p]
  <2>1. CASE {i \in Places : held[Messages[c].room][i] = Unseated} = {}
    BY <2>1 DEF PickSeat, At
  <2>2. CASE {i \in Places : held[Messages[c].room][i] = Unseated} # {}
    <3>1. Min({i \in Places : held[Messages[c].room][i] = Unseated}) \in SeatNumbers
      <4>1. PICK S : S = {i \in Places : held[Messages[c].room][i] = Unseated}
        OBVIOUS
      <4>2. S \in (SUBSET Places) \ {{}}
        BY <2>2, <4>1
      <4>3. Min(S) \in SeatNumbers
        BY <4>2 DEF SeatNumbers
      <4> QED BY <4>1, <4>3
    <3> QED BY <2>2, <3>1 DEF PickSeat, At
  <2> QED BY <2>1, <2>2
<1>2. /\ handling' \in [play.calls -> Handling]
      /\ \A d \in play.calls : d # c => handling'[d] = handling[d]
      /\ handling'[c].at \in {"done", "picked"}
      /\ handling'[c].history = handling[c].history /\ handling'[c].before = handling[c].before
      /\ handling'[c].left = handling[c].left
      /\ handling'[c].for = handling[c].for /\ handling'[c].time = handling[c].time
  <2>0. CASE Stage(c, "done")
    BY <2>0, Staged DEF Typed, HandlerStages
  <2>1. ASSUME NEW p \in SeatNumbers, handling' = [handling EXCEPT ![c].at = "picked",
               ![c].place = p]
        PROVE  /\ handling' \in [play.calls -> Handling]
               /\ \A d \in play.calls : d # c => handling'[d] = handling[d]
               /\ handling'[c].at \in {"done", "picked"}
               /\ handling'[c].history = handling[c].history
               /\ handling'[c].before = handling[c].before
               /\ handling'[c].left = handling[c].left
               /\ handling'[c].for = handling[c].for /\ handling'[c].time = handling[c].time
    <3>1. PICK h : h = [handling[c] EXCEPT !.at = "picked", !.place = p]
      OBVIOUS
    <3>2. handling' = [handling EXCEPT ![c] = h]
      BY <2>1, <3>1 DEF Typed, HandlersTyped
    <3>3. handling[c] \in Handling /\ TRUE
      BY <1>1 DEF Typed, HandlersTyped
    <3>4. /\ h \in Handling /\ h.at = "picked" /\ h.place = p
          /\ h.history = handling[c].history /\ h.before = handling[c].before
          /\ h.left = handling[c].left /\ h.for = handling[c].for /\ h.time = handling[c].time
      BY <3>1, <3>3 DEF Handling, HandlerStages
    <3> QED BY <3>2, <3>3, <3>4, Became DEF Typed
  <2> QED BY <1>1, <2>0, <2>1
<1>20. tally' \in [Persons -> [Fates -> Nat]]
  <2>1. tally \in [Persons -> [Fates -> Nat]] /\ Messages[c].user \in Persons
    BY PlayShape DEF Typed, SeatsTyped, HandlersTyped
  <2> QED BY <2>1, TalliedTyped DEF PickSeat, Fates
<1>3. Messages[c].t \in MessageKinds /\ Messages[c].from \in Sockets
  BY PlayShape DEF Typed, HandlersTyped
<1>4. HubQuiet /\ UNCHANGED held
  BY <1>1, <1>2, <1>3, <1>20 DEF HubQuiet, hubVars, seatVars
<1>5. DoorQuiet
  BY <1>1, <1>2, <1>3, <1>20 DEF DoorQuiet, Waiting, hubVars, IsOpen
<1>6. ScreensQuiet
  BY <1>1, <1>2, <1>3, <1>20 DEF ScreensQuiet, Stays, hubVars, IsOpen
<1>7. ClockQuiet
  BY <1>1, <1>2, <1>3, <1>20 DEF ClockQuiet, Stays, clockVars, hubVars, IsOpen
<1>8. CountQuiet
  BY <1>1, <1>2, <1>3, <1>20 DEF CountQuiet, Unsettled, hubVars, IsOpen, Typed, CallsSound
<1>9. HubTyped' /\ HandlersTyped'
  BY <1>1, <1>2, <1>3, <1>20 DEF Typed, HubTyped, HandlersTyped, hubVars
<1>10. ScreensTyped' /\ SeatsTyped'
  BY <1>1, <1>2, <1>3, <1>20 DEF Typed, ScreensTyped, SeatsTyped, seatVars
<1>11. ClocksTyped'
  BY <1>1, <1>2, <1>3, <1>20 DEF Typed, ClocksTyped, clockVars
<1>12. CallsSound'
  BY <1>1, <1>2, <1>3, <1>20 DEF Typed, CallsSound, clockVars
<1> QED BY <1>1, <1>4, <1>5, <1>6, <1>7, <1>8, <1>9, <1>10, <1>11, <1>12 DEF Typed

LEMMA SitQuiet ==
  ASSUME GatewayConstants, Typed, NEW c \in play.calls, Sit(c)
  PROVE  UNCHANGED play /\ HubQuiet /\ DoorQuiet /\ ScreensQuiet /\ CountQuiet /\ ClockQuiet
         /\ Typed'
<1>1. /\ UNCHANGED <<play, hubVars, lines, screen, hands, barred, over, clockVars>>
      /\ Messages[c].t = "resolve" /\ handling[c].at = "picked"
      /\ Stage(c, "done")
  BY DEF Sit, At
<1>2. /\ handling' \in [play.calls -> Handling]
      /\ \A d \in play.calls : d # c => handling'[d] = handling[d]
      /\ handling'[c].at \in {"done"}
      /\ handling'[c].history = handling[c].history /\ handling'[c].before = handling[c].before
      /\ handling'[c].left = handling[c].left
      /\ handling'[c].for = handling[c].for /\ handling'[c].time = handling[c].time
  <2>1. PICK a \in {"done"} : Stage(c, a)
    BY <1>1
  <2> QED BY <2>1, Staged DEF Typed, HandlerStages
<1>20. /\ tally' \in [Persons -> [Fates -> Nat]]
       /\ held' \in [Rooms -> [Places -> Persons \cup {Unseated}]]
  <2>1. /\ tally \in [Persons -> [Fates -> Nat]] /\ Messages[c].user \in Persons
        /\ held \in [Rooms -> [Places -> Persons \cup {Unseated}]]
    BY PlayShape DEF Typed, SeatsTyped, HandlersTyped
  <2>2. tally' \in [Persons -> [Fates -> Nat]]
    BY <2>1, TalliedTyped DEF Sit, Fates
  <2>3. PICK x \in Persons \cup {Unseated} :
          held' = held \/ held' = [held EXCEPT ![Messages[c].room][handling[c].place] = x]
    BY <2>1 DEF Sit
  <2>4. CASE held' = [held EXCEPT ![Messages[c].room][handling[c].place] = x]
    BY <2>1, <2>2, <2>4
  <2> QED BY <2>1, <2>2, <2>3, <2>4
<1>3. Messages[c].t \in MessageKinds /\ Messages[c].from \in Sockets
  BY PlayShape DEF Typed, HandlersTyped
<1>4. HubQuiet
  BY <1>1, <1>2, <1>3, <1>20 DEF HubQuiet, hubVars, seatVars
<1>5. DoorQuiet
  BY <1>1, <1>2, <1>3, <1>20 DEF DoorQuiet, Waiting, hubVars, IsOpen
<1>6. ScreensQuiet
  BY <1>1, <1>2, <1>3, <1>20 DEF ScreensQuiet, Stays, hubVars, IsOpen
<1>7. ClockQuiet
  BY <1>1, <1>2, <1>3, <1>20 DEF ClockQuiet, Stays, clockVars, hubVars, IsOpen
<1>8. CountQuiet
  BY <1>1, <1>2, <1>3, <1>20 DEF CountQuiet, Unsettled, hubVars, IsOpen, Typed, CallsSound
<1>9. HubTyped' /\ HandlersTyped'
  BY <1>1, <1>2, <1>3, <1>20 DEF Typed, HubTyped, HandlersTyped, hubVars
<1>10. ScreensTyped' /\ SeatsTyped'
  BY <1>1, <1>2, <1>3, <1>20 DEF Typed, ScreensTyped, SeatsTyped, seatVars
<1>11. ClocksTyped'
  BY <1>1, <1>2, <1>3, <1>20 DEF Typed, ClocksTyped, clockVars
<1>12. CallsSound'
  BY <1>1, <1>2, <1>3, <1>20 DEF Typed, CallsSound, clockVars
<1> QED BY <1>1, <1>4, <1>5, <1>6, <1>7, <1>8, <1>9, <1>10, <1>11, <1>12 DEF Typed

LEMMA LessOfTwo ==
  ASSUME NEW a \in Int, NEW b \in Int
  PROVE  Min({a, b}) = IF a <= b THEN a ELSE b
<1>1. \A x \in {a, b} : (\A y \in {a, b} : x <= y) => x = IF a <= b THEN a ELSE b
  OBVIOUS
<1>2. (IF a <= b THEN a ELSE b) \in {a, b} /\ \A y \in {a, b} : (IF a <= b THEN a ELSE b) <= y
  OBVIOUS
<1> QED BY <1>1, <1>2 DEF Min

LEMMA MoreOfTwo ==
  ASSUME NEW a \in Int, NEW b \in Int
  PROVE  Max({a, b}) = IF a >= b THEN a ELSE b
<1>1. \A x \in {a, b} : (\A y \in {a, b} : x >= y) => x = IF a >= b THEN a ELSE b
  OBVIOUS
<1>2. (IF a >= b THEN a ELSE b) \in {a, b} /\ \A y \in {a, b} : (IF a >= b THEN a ELSE b) >= y
  OBVIOUS
<1> QED BY <1>1, <1>2 DEF Max

\* A visit adds no more than the time since the last one, and than Accrual.
LEMMA GainBounds ==
  ASSUME GatewayConstants, Typed, NEW c \in play.calls, NEW s \in Sockets
  PROVE  /\ Gain(c, s) \in Nat /\ Gain(c, s) <= Accrual
         /\ handling[c].time <= clock[s].at => Gain(c, s) = 0
         /\ handling[c].time >= clock[s].at => Gain(c, s) <= handling[c].time - clock[s].at
<1>1. /\ handling[c].time \in Nat /\ clock[s].at \in Nat /\ Accrual \in Nat
  BY DEF GatewayConstants, Typed, HandlersTyped, Handling, ClocksTyped, Clock
<1>2. PICK d \in Int : d = handling[c].time - clock[s].at
  BY <1>1
<1>3. PICK e \in Nat : e = Max({0, d}) /\ (d <= 0 => e = 0) /\ (d >= 0 => e = d)
  BY MoreOfTwo
<1>4. Gain(c, s) = Min({e, Accrual})
  BY <1>2, <1>3 DEF Gain
<1>5. Gain(c, s) = IF e <= Accrual THEN e ELSE Accrual
  BY <1>1, <1>4, LessOfTwo
<1> QED BY <1>1, <1>2, <1>3, <1>5

LEMMA VisitQuiet ==
  ASSUME GatewayConstants, Typed, NEW c \in play.calls, NEW s \in Sockets, Visit(c, s)
  PROVE  UNCHANGED play /\ HubQuiet /\ DoorQuiet /\ ScreensQuiet /\ CountQuiet /\ HandsQuiet
         /\ UNCHANGED held /\ Typed'
<1>1. /\ UNCHANGED <<play, hubVars, lines, screen, seatVars, barred, over, time, pays, repaid, spent>>
      /\ Messages[c].t = "tick" /\ handling[c].at = "visiting"
  BY DEF Visit, At
<1>2. /\ handling' \in [play.calls -> Handling]
      /\ \A d \in play.calls : d # c => handling'[d] = handling[d]
      /\ handling'[c].at \in {"visiting", "granting"}
      /\ handling'[c].history = handling[c].history /\ handling'[c].before = handling[c].before
      /\ handling'[c].left = handling[c].left /\ handling'[c].time = handling[c].time
      /\ \/ handling'[c].at = "visiting" /\ handling'[c].for = {}
         \/ handling'[c].at = "granting" /\ \E n \in Nat : handling'[c].for = {<<s, n>>}
  <2>0. /\ handling[c] \in Handling /\ handling[c].for = {}
        /\ clock[s].no \in Nat /\ handling[c].visited \cup {s} \subseteq Sockets
    BY <1>1 DEF Typed, HandlersTyped, CallsSound, ClocksTyped, Clock, Handling
  <2>1. PICK v \in SUBSET Sockets : v = handling[c].visited \cup {s}
    BY <2>0
  <2>2. CASE handling' = [handling EXCEPT ![c].visited = @ \cup {s}]
    <3>1. PICK h : h = [handling[c] EXCEPT !.visited = v]
      OBVIOUS
    <3>2. handling' = [handling EXCEPT ![c] = h]
      BY <2>1, <2>2, <3>1 DEF Typed, HandlersTyped
    <3>3. /\ h \in Handling /\ h.at = handling[c].at
          /\ h.history = handling[c].history /\ h.before = handling[c].before
          /\ h.left = handling[c].left /\ h.time = handling[c].time /\ h.for = {}
      BY <2>0, <3>1 DEF Handling
    <3> QED BY <1>1, <3>2, <3>3, Became DEF Typed
  <2>3. CASE handling' = [[handling EXCEPT ![c].visited = @ \cup {s}]
                            EXCEPT ![c].at = "granting", ![c].for = {<<s, clock[s].no>>}]
    <3>5. PICK f : f = {<<s, clock[s].no>>}
      OBVIOUS
    <3>6. <<s, clock[s].no>> \in Sockets \X Nat
      BY <2>0
    <3>4. f \in SUBSET (Sockets \X Nat) /\ f = {<<s, clock[s].no>>}
      BY <3>5, <3>6
    <3>1. PICK h : h = [handling[c] EXCEPT !.visited = v, !.at = "granting", !.for = f]
      OBVIOUS
    <3>2. handling' = [handling EXCEPT ![c] = h]
      BY <2>1, <2>3, <3>1, <3>4 DEF Typed, HandlersTyped
    <3>3. /\ h \in Handling /\ h.at = "granting"
          /\ h.history = handling[c].history /\ h.before = handling[c].before
          /\ h.left = handling[c].left /\ h.time = handling[c].time
          /\ h.for = {<<s, clock[s].no>>}
      BY <2>0, <3>4, <3>1 DEF Handling, HandlerStages
    <3> QED BY <2>0, <3>2, <3>3, Became DEF Typed
  <2>4. \/ handling' = [handling EXCEPT ![c].visited = @ \cup {s}]
        \/ handling' = [[handling EXCEPT ![c].visited = @ \cup {s}]
                          EXCEPT ![c].at = "granting", ![c].for = {<<s, clock[s].no>>}]
    BY DEF Visit
  <2> QED BY <2>2, <2>3, <2>4
<1>20. clock' \in [Sockets -> Clock] /\ lapses' \in [Sockets -> Nat]
       /\ \A x \in Sockets : clock'[x].at <= time
  <2>1. /\ clock \in [Sockets -> Clock] /\ clock[s] \in Clock /\ clock[s].accrued \in Nat
        /\ handling[c].time \in Nat /\ handling[c].time <= time /\ Interval \in Nat
        /\ \A x \in Sockets : clock[x].at <= time
    BY DEF Typed, ClocksTyped, HandlersTyped, Handling, CallsSound, GatewayConstants, Clock
  <2>2. PICK sum \in Nat : sum = clock[s].accrued + Gain(c, s)
    BY <2>1, GainBounds
  <2>3. PICK left \in Nat : left = IF sum < Interval THEN sum ELSE sum - Interval
    BY <2>1
  <2>4. PICK k : k = [clock[s] EXCEPT !.at = handling[c].time, !.accrued = left]
    OBVIOUS
  <2>5. k \in Clock /\ k.at = handling[c].time
    BY <2>1, <2>4 DEF Clock
  <2>6. clock' = clock \/ clock' = [clock EXCEPT ![s] = k]
    BY <2>1, <2>2, <2>3, <2>4 DEF Visit
  <2>7. lapses' \in [Sockets -> Nat]
    BY DEF Visit, Typed, ClocksTyped
  <2> QED BY <2>1, <2>5, <2>6, <2>7
<1>3. Messages[c].t \in MessageKinds /\ Messages[c].from \in Sockets
  BY PlayShape DEF Typed, HandlersTyped
<1>4. HubQuiet /\ HandsQuiet /\ UNCHANGED held
  BY <1>1, <1>2, <1>3 DEF HubQuiet, HandsQuiet, InAnswer, hubVars, seatVars
<1>5. DoorQuiet
  BY <1>1, <1>2, <1>3 DEF DoorQuiet, Waiting, hubVars, IsOpen
<1>6. ScreensQuiet
  BY <1>1, <1>2, <1>3 DEF ScreensQuiet, Stays, hubVars, IsOpen
<1>7. CountQuiet
  BY <1>1, <1>2, <1>3 DEF CountQuiet, Unsettled, hubVars, IsOpen, Typed, CallsSound
<1>8. HubTyped' /\ HandlersTyped'
  BY <1>1, <1>2, <1>3 DEF Typed, HubTyped, HandlersTyped, hubVars
<1>9. ScreensTyped' /\ SeatsTyped'
  BY <1>1, <1>2, <1>3 DEF Typed, ScreensTyped, SeatsTyped, seatVars
<1>10. ClocksTyped'
  BY <1>1, <1>20 DEF Typed, ClocksTyped
<1>11. CallsSound'
  BY <1>1, <1>2 DEF Typed, CallsSound
<1> QED BY <1>1, <1>4, <1>5, <1>6, <1>7, <1>8, <1>9, <1>10, <1>11 DEF Typed

LEMMA GrantQuiet ==
  ASSUME GatewayConstants, Typed, NEW c \in play.calls, GrantReward(c)
  PROVE  UNCHANGED play /\ HubQuiet /\ DoorQuiet /\ ScreensQuiet /\ CountQuiet /\ HandsQuiet
         /\ UNCHANGED held /\ Typed'
<1>1. /\ UNCHANGED <<play, hubVars, lines, screen, seatVars, barred, over, time, spent, lapses>>
      /\ Messages[c].t = "tick" /\ handling[c].at = "granting"
      /\ handling' = [handling EXCEPT ![c].at = "visiting", ![c].for = {}]
  BY DEF GrantReward, At
<1>2. /\ handling' \in [play.calls -> Handling]
      /\ \A d \in play.calls : d # c => handling'[d] = handling[d]
      /\ handling'[c].at = "visiting" /\ handling'[c].for = {}
      /\ handling'[c].history = handling[c].history /\ handling'[c].before = handling[c].before
      /\ handling'[c].left = handling[c].left /\ handling'[c].time = handling[c].time
  <2>1. PICK h : h = [handling[c] EXCEPT !.at = "visiting", !.for = {}]
    OBVIOUS
  <2>2. handling' = [handling EXCEPT ![c] = h]
    BY <1>1, <2>1 DEF Typed, HandlersTyped
  <2>3. handling[c] \in Handling /\ TRUE
    BY <1>1 DEF Typed, HandlersTyped
  <2>4. /\ h \in Handling /\ h.at = "visiting" /\ h.for = {}
        /\ h.history = handling[c].history /\ h.before = handling[c].before
        /\ h.left = handling[c].left /\ h.time = handling[c].time
    BY <2>1, <2>3 DEF Handling, HandlerStages
  <2> QED BY <2>2, <2>3, <2>4, Became DEF Typed
<1>20. /\ clock' \in [Sockets -> Clock] /\ \A s \in Sockets : clock'[s].at <= time
       /\ pays' \in [Sockets -> Nat] /\ repaid' \in [Sockets -> Nat]
       /\ \A s \in Sockets : repaid'[s] <= pays'[s]
  <2>1. /\ clock \in [Sockets -> Clock] /\ pays \in [Sockets -> Nat] /\ Interval \in Nat
        /\ repaid \in [Sockets -> Nat]
        /\ \A s \in Sockets : /\ clock[s] \in Clock /\ clock[s].at <= time
                              /\ pays[s] \in Nat /\ repaid[s] \in Nat /\ repaid[s] <= pays[s]
    BY DEF Typed, ClocksTyped, GatewayConstants
  <2>2. Today(c) \in Int
    BY DEF Today, Typed, HandlersTyped, Handling, GatewayConstants
  <2>3. PICK s \in Sockets :
          /\ clock' \in {clock, [clock EXCEPT ![s].capped = Today(c), ![s].accrued = 0],
                         [clock EXCEPT ![s].accrued = @ + Interval]}
          /\ \/ pays' = pays /\ repaid' = repaid
             \/ pays' = [pays EXCEPT ![s] = @ + 1] /\ repaid' = repaid
             \/ pays' = [pays EXCEPT ![s] = @ + 1] /\ repaid' = [repaid EXCEPT ![s] = @ + 1]
    <3>1. PICK s \in Sockets, n \in Nat : handling[c].for = {<<s, n>>}
      BY DEF GrantReward, Typed, CallsSound
    <3>2. {x[1] : x \in handling[c].for} = {s}
      BY <3>1
    <3> QED BY <3>2 DEF GrantReward, GivenBack
  <2>4. /\ pays' \in [Sockets -> Nat] /\ repaid' \in [Sockets -> Nat]
        /\ \A x \in Sockets : repaid'[x] <= pays'[x]
    BY <2>1, <2>3
  <2>5. CASE clock' = clock
    BY <2>1, <2>4, <2>5
  <2>6. CASE clock' = [clock EXCEPT ![s].capped = Today(c), ![s].accrued = 0]
    <3>1. PICK k : k = [clock[s] EXCEPT !.capped = Today(c), !.accrued = 0]
      OBVIOUS
    <3>2. k \in Clock /\ k.at = clock[s].at /\ clock' = [clock EXCEPT ![s] = k]
      BY <2>1, <2>2, <2>6, <3>1 DEF Clock
    <3> QED BY <2>1, <2>4, <2>6, <3>2
  <2>7. CASE clock' = [clock EXCEPT ![s].accrued = @ + Interval]
    <3>1. PICK k : k = [clock[s] EXCEPT !.accrued = clock[s].accrued + Interval]
      OBVIOUS
    <3>2. k \in Clock /\ k.at = clock[s].at /\ clock' = [clock EXCEPT ![s] = k]
      BY <2>1, <2>7, <3>1 DEF Clock
    <3> QED BY <2>1, <2>4, <2>7, <3>2
  <2> QED BY <2>3, <2>5, <2>6, <2>7
<1>3. Messages[c].t \in MessageKinds /\ Messages[c].from \in Sockets
  BY PlayShape DEF Typed, HandlersTyped
<1>4. HubQuiet /\ HandsQuiet /\ UNCHANGED held
  BY <1>1, <1>2, <1>3 DEF HubQuiet, HandsQuiet, InAnswer, hubVars, seatVars
<1>5. DoorQuiet
  BY <1>1, <1>2, <1>3 DEF DoorQuiet, Waiting, hubVars, IsOpen
<1>6. ScreensQuiet
  BY <1>1, <1>2, <1>3 DEF ScreensQuiet, Stays, hubVars, IsOpen
<1>7. CountQuiet
  BY <1>1, <1>2, <1>3 DEF CountQuiet, Unsettled, hubVars, IsOpen, Typed, CallsSound
<1>8. HubTyped' /\ HandlersTyped'
  BY <1>1, <1>2, <1>3 DEF Typed, HubTyped, HandlersTyped, hubVars
<1>9. ScreensTyped' /\ SeatsTyped'
  BY <1>1, <1>2, <1>3 DEF Typed, ScreensTyped, SeatsTyped, seatVars
<1>10. ClocksTyped'
  BY <1>1, <1>20 DEF Typed, ClocksTyped
<1>11. CallsSound'
  BY <1>1, <1>2 DEF Typed, CallsSound
<1> QED BY <1>1, <1>4, <1>5, <1>6, <1>7, <1>8, <1>9, <1>10, <1>11 DEF Typed

LEMMA AnnouncedShape ==
  ASSUME GatewayConstants, NEW r \in Rooms, NEW scr \in [Sockets -> Screen],
         members' \in [Rooms -> SUBSET Sockets]
  PROVE  /\ Announced(r, scr) \in [Sockets -> Screen]
         /\ \A s \in Sockets :
              /\ Announced(r, scr)[s].chat = scr[s].chat /\ Announced(r, scr)[s].by = scr[s].by
              /\ Announced(r, scr)[s].viewers =
                   IF s \in members'[r] /\ IsOpen(s) THEN Cardinality(members'[r])
                   ELSE scr[s].viewers
<1>1. PICK n \in Nat : n = Cardinality(members'[r])
  <2>1. IsFiniteSet(members'[r])
    BY FS_Subset DEF GatewayConstants
  <2> QED BY <2>1, FS_CardinalityType
<1>2. \A s \in Sockets : LET x == [scr[s] EXCEPT !.viewers = n]
                         IN  x \in Screen /\ x.chat = scr[s].chat /\ x.by = scr[s].by /\ x.viewers = n
  BY DEF Screen
<1>3. Announced(r, scr) = [s \in Sockets |-> IF s \in members'[r] /\ IsOpen(s)
                                             THEN [scr[s] EXCEPT !.viewers = n] ELSE scr[s]]
  BY <1>1 DEF Announced
<1> QED BY <1>1, <1>2, <1>3

LEMMA DepartedShape ==
  ASSUME GatewayConstants, Typed, HubAgrees, NEW s \in Sockets
  PROVE  /\ Departed(s) \in [Rooms -> SUBSET Sockets]
         /\ \A r \in Rooms : Departed(s)[r] = members[r] \ {s}
<1>1. roomOf[s] \in Rooms \cup {Nowhere} /\ Nowhere \notin Rooms /\ members \in [Rooms -> SUBSET Sockets]
  BY DEF GatewayConstants, Typed, HubTyped
<1>2. \A r \in Rooms : r # roomOf[s] => s \notin members[r]
  BY DEF HubAgrees
<1> QED BY <1>1, <1>2 DEF Departed

LEMMA LeaveQuiet ==
  ASSUME GatewayConstants, Typed, HubAgrees, NEW c \in play.calls, Leave(c)
  PROVE  UNCHANGED play /\ DoorQuiet /\ ScreensQuiet /\ HandsQuiet /\ ClockQuiet
         /\ UNCHANGED held /\ Typed'
<1>1. /\ UNCHANGED <<play, sock, clients, missed, cut, lines, seatVars, barred, over, clockVars>>
      /\ Messages[c].t = "leave" /\ handling[c].at = "idle" /\ IsOpen(Messages[c].from)
      /\ handling' = [handling EXCEPT ![c].at = "done", ![c].left = Deserted(Messages[c])]
      /\ members' = Departed(Messages[c].from)
      /\ roomOf' = [roomOf EXCEPT ![Messages[c].from] = Nowhere]
      /\ screen' = Announced(Messages[c].room, screen)
  BY DEF Leave, At
<1>2. /\ handling' \in [play.calls -> Handling]
      /\ \A d \in play.calls : d # c => handling'[d] = handling[d]
      /\ handling'[c].at = "done" /\ handling'[c].left = Deserted(Messages[c])
      /\ handling'[c].history = handling[c].history /\ handling'[c].before = handling[c].before
      /\ handling'[c].for = handling[c].for /\ handling'[c].time = handling[c].time
  <2>1. PICK h : h = [handling[c] EXCEPT !.at = "done", !.left = Deserted(Messages[c])]
    OBVIOUS
  <2>2. handling' = [handling EXCEPT ![c] = h]
    BY <1>1, <2>1 DEF Typed, HandlersTyped
  <2>3. handling[c] \in Handling /\ Deserted(Messages[c]) \in Rooms \cup {Nowhere}
    BY PlayShape DEF Typed, HandlersTyped, HubTyped, Deserted
  <2>4. /\ h \in Handling /\ h.at = "done" /\ h.left = Deserted(Messages[c])
        /\ h.history = handling[c].history /\ h.before = handling[c].before
        /\ h.for = handling[c].for /\ h.time = handling[c].time
    BY <2>1, <2>3 DEF Handling, HandlerStages
  <2> QED BY <2>2, <2>3, <2>4, Became DEF Typed
<1>3. Messages[c].t \in MessageKinds /\ Messages[c].from \in Sockets
  BY PlayShape DEF Typed, HandlersTyped
<1>20. /\ members' \in [Rooms -> SUBSET Sockets] /\ roomOf' \in [Sockets -> Rooms \cup {Nowhere}]
       /\ \A s \in Sockets : roomOf'[s] \in {roomOf[s], Nowhere}
  BY <1>1, <1>3, DepartedShape DEF Typed, HubTyped
<1>21. /\ screen' \in [Sockets -> Screen]
       /\ \A s \in Sockets : screen'[s].chat = screen[s].chat /\ screen'[s].by = screen[s].by
  BY <1>1, <1>20, AnnouncedShape, PlayShape DEF Typed, ScreensTyped, HandlersTyped
<1>4. HandsQuiet /\ UNCHANGED held
  BY <1>1, <1>2, <1>3, <1>20, <1>21 DEF HandsQuiet, InAnswer, hubVars, seatVars
<1>5. DoorQuiet
  BY <1>1, <1>2, <1>3, <1>20, <1>21 DEF DoorQuiet, Waiting, hubVars, IsOpen
<1>6. ScreensQuiet
  BY <1>1, <1>2, <1>3, <1>20, <1>21 DEF ScreensQuiet, Stays, hubVars, IsOpen
<1>7. ClockQuiet
  BY <1>1, <1>2, <1>3, <1>20, <1>21 DEF ClockQuiet, Stays, clockVars, hubVars, IsOpen
<1>8. HubTyped' /\ HandlersTyped'
  BY <1>1, <1>2, <1>3, <1>20, <1>21 DEF Typed, HubTyped, HandlersTyped, hubVars
<1>9. ScreensTyped' /\ SeatsTyped'
  BY <1>1, <1>2, <1>3, <1>20, <1>21 DEF Typed, ScreensTyped, SeatsTyped, seatVars
<1>10. ClocksTyped'
  BY <1>1, <1>2, <1>3, <1>20, <1>21 DEF Typed, ClocksTyped, clockVars
<1>11. CallsSound'
  BY <1>1, <1>2, <1>3, <1>20, <1>21 DEF Typed, CallsSound, clockVars
<1> QED BY <1>1, <1>4, <1>5, <1>6, <1>7, <1>8, <1>9, <1>10, <1>11 DEF Typed

LEMMA AnswerJoinQuiet ==
  ASSUME GatewayConstants, Typed, NEW c \in play.calls, AnswerJoin(c)
  PROVE  UNCHANGED play /\ HubQuiet /\ DoorQuiet /\ HandsQuiet /\ ClockQuiet
         /\ UNCHANGED held /\ Typed'
<1>1. /\ UNCHANGED <<play, hubVars, lines, seatVars, barred, over, clockVars>>
      /\ Messages[c].t = "join" /\ handling[c].at = "entered"
      /\ handling' = [handling EXCEPT ![c].at = "done", ![c].late = Spoken]
      /\ screen' = Announced(Messages[c].room, Welcome(c))
  BY DEF AnswerJoin, At
<1>2. /\ handling' \in [play.calls -> Handling]
      /\ \A d \in play.calls : d # c => handling'[d] = handling[d]
      /\ handling'[c].at = "done" /\ handling'[c].late = Spoken
      /\ handling'[c].history = handling[c].history /\ handling'[c].before = handling[c].before
      /\ handling'[c].left = handling[c].left
      /\ handling'[c].for = handling[c].for /\ handling'[c].time = handling[c].time
  <2>1. PICK h : h = [handling[c] EXCEPT !.at = "done", !.late = Spoken]
    OBVIOUS
  <2>2. handling' = [handling EXCEPT ![c] = h]
    BY <1>1, <2>1 DEF Typed, HandlersTyped
  <2>3. handling[c] \in Handling /\ Spoken \subseteq Handlers
    BY PlayShape DEF Typed, HandlersTyped, Spoken
  <2>4. /\ h \in Handling /\ h.at = "done" /\ h.late = Spoken
        /\ h.history = handling[c].history /\ h.before = handling[c].before
        /\ h.left = handling[c].left /\ h.for = handling[c].for /\ h.time = handling[c].time
    BY <2>1, <2>3 DEF Handling, HandlerStages
  <2> QED BY <2>2, <2>3, <2>4, Became DEF Typed
<1>3. Messages[c].t \in MessageKinds /\ Messages[c].from \in Sockets
  BY PlayShape DEF Typed, HandlersTyped
<1>20. Welcome(c) \in [Sockets -> Screen]
  <2>1. /\ screen \in [Sockets -> Screen] /\ handling[c] \in Handling /\ c \in Handlers
        /\ screen[Messages[c].from] \in Screen
    BY PlayShape DEF Typed, HandlersTyped, ScreensTyped
  <2>2. PICK x : x = [screen[Messages[c].from] EXCEPT !.chat = handling[c].history, !.by = c]
    OBVIOUS
  <2>3. x \in Screen
    BY <2>1, <2>2 DEF Screen, Handling
  <2>4. Welcome(c) = screen \/ Welcome(c) = [screen EXCEPT ![Messages[c].from] = x]
    BY <2>1, <2>2 DEF Welcome
  <2> QED BY <1>3, <2>1, <2>3, <2>4
<1>21. screen' \in [Sockets -> Screen]
  <2>1. members' \in [Rooms -> SUBSET Sockets] /\ Messages[c].room \in Rooms
    BY <1>1, PlayShape DEF Typed, HubTyped, HandlersTyped, hubVars
  <2> QED BY <1>1, <1>20, <2>1, AnnouncedShape
<1>4. HubQuiet /\ HandsQuiet /\ UNCHANGED held
  BY <1>1, <1>2, <1>3, <1>20, <1>21 DEF HubQuiet, HandsQuiet, InAnswer, hubVars, seatVars
<1>5. DoorQuiet
  BY <1>1, <1>2, <1>3, <1>20, <1>21 DEF DoorQuiet, Waiting, hubVars, IsOpen
<1>6. ClockQuiet
  BY <1>1, <1>2, <1>3, <1>20, <1>21 DEF ClockQuiet, Stays, clockVars, hubVars, IsOpen
<1>7. HubTyped' /\ HandlersTyped'
  BY <1>1, <1>2, <1>3, <1>20, <1>21 DEF Typed, HubTyped, HandlersTyped, hubVars
<1>8. ScreensTyped' /\ SeatsTyped'
  BY <1>1, <1>2, <1>3, <1>20, <1>21 DEF Typed, ScreensTyped, SeatsTyped, seatVars
<1>9. ClocksTyped'
  BY <1>1, <1>2, <1>3, <1>20, <1>21 DEF Typed, ClocksTyped, clockVars
<1>10. CallsSound'
  BY <1>1, <1>2, <1>3, <1>20, <1>21 DEF Typed, CallsSound, clockVars
<1> QED BY <1>1, <1>4, <1>5, <1>6, <1>7, <1>8, <1>9, <1>10 DEF Typed

LEMMA SocketClosesQuiet ==
  ASSUME GatewayConstants, Typed, HubAgrees, NEW s \in Sockets, SocketCloses(s)
  PROVE  UNCHANGED play /\ ScreensQuiet /\ HandsQuiet /\ ClockQuiet /\ UNCHANGED held /\ Typed'
<1>1. UNCHANGED <<play, missed, handling, lines, seatVars, barred, over, clockVars>>
  BY DEF SocketCloses
<1>2. /\ sock[s] = "closing" /\ sock' = [sock EXCEPT ![s] = "closed"]
      /\ members' = Departed(s) /\ roomOf' = [roomOf EXCEPT ![s] = Nowhere]
      /\ clients' = clients \ {s} /\ cut' \in {cut, cut \cup {s}}
      /\ \/ screen' = screen
         \/ roomOf[s] \in Rooms /\ screen' = Announced(roomOf[s], screen)
  BY DEF SocketCloses, Typed, HubTyped
<1>20. /\ members' \in [Rooms -> SUBSET Sockets] /\ roomOf' \in [Sockets -> Rooms \cup {Nowhere}]
       /\ \A x \in Sockets : roomOf'[x] \in {roomOf[x], Nowhere} /\ (sock'[x] = "open" => sock[x] = "open")
       /\ sock' \in [Sockets -> {"open", "closing", "closed"}]
  BY <1>1, <1>2, DepartedShape DEF Typed, HubTyped
<1>21. /\ screen' \in [Sockets -> Screen]
       /\ \A x \in Sockets : screen'[x].chat = screen[x].chat /\ screen'[x].by = screen[x].by
  BY <1>2, <1>20, AnnouncedShape DEF Typed, ScreensTyped
<1>3. HandsQuiet /\ UNCHANGED held
  BY <1>1, <1>2, <1>20, <1>21 DEF HubQuiet, HandsQuiet, InAnswer, hubVars, seatVars
<1>4. ScreensQuiet
  BY <1>1, <1>2, <1>20, <1>21 DEF ScreensQuiet, Stays, hubVars, IsOpen
<1>5. ClockQuiet
  BY <1>1, <1>2, <1>20, <1>21 DEF ClockQuiet, Stays, clockVars, hubVars, IsOpen
<1>6. HubTyped' /\ HandlersTyped'
  BY <1>1, <1>2, <1>20, <1>21 DEF Typed, HubTyped, HandlersTyped, hubVars
<1>7. ScreensTyped' /\ SeatsTyped'
  BY <1>1, <1>2, <1>20, <1>21 DEF Typed, ScreensTyped, SeatsTyped, seatVars
<1>8. ClocksTyped'
  BY <1>1, <1>2, <1>20, <1>21 DEF Typed, ClocksTyped, clockVars
<1>9. CallsSound'
  BY <1>1, <1>2, <1>20, <1>21 DEF Typed, CallsSound, ClocksTyped, clockVars
<1> QED BY <1>1, <1>3, <1>4, <1>5, <1>6, <1>7, <1>8, <1>9 DEF Typed

LEMMA RefusedQuiet ==
  ASSUME GatewayConstants, Typed, NEW c \in play.calls, OwnerOf[Messages[c].from] \in barred,
         EnterRoom(c)
  PROVE  UNCHANGED play /\ HubQuiet /\ DoorQuiet /\ ScreensQuiet /\ CountQuiet /\ HandsQuiet
         /\ ClockQuiet
         /\ UNCHANGED held /\ Typed'
<1>1. /\ UNCHANGED <<play, hubVars, lines, screen, seatVars, barred, over, clockVars>>
      /\ Messages[c].t = "join" /\ handling[c].at = "checking"
      /\ Stage(c, "done")
  BY DEF EnterRoom, At, clockVars, hubVars
<1>2. /\ handling' \in [play.calls -> Handling]
      /\ \A d \in play.calls : d # c => handling'[d] = handling[d]
      /\ handling'[c].at \in {"done"}
      /\ handling'[c].history = handling[c].history /\ handling'[c].before = handling[c].before
      /\ handling'[c].left = handling[c].left
      /\ handling'[c].for = handling[c].for /\ handling'[c].time = handling[c].time
  <2>1. PICK a \in {"done"} : Stage(c, a)
    BY <1>1
  <2> QED BY <2>1, Staged DEF Typed, HandlerStages
<1>3. Messages[c].t \in MessageKinds /\ Messages[c].from \in Sockets
  BY PlayShape DEF Typed, HandlersTyped
<1>4. HubQuiet /\ HandsQuiet /\ UNCHANGED held
  BY <1>1, <1>2, <1>3 DEF HubQuiet, HandsQuiet, InAnswer, hubVars, seatVars
<1>5. DoorQuiet
  BY <1>1, <1>2, <1>3 DEF DoorQuiet, Waiting, hubVars, IsOpen
<1>6. ScreensQuiet
  BY <1>1, <1>2, <1>3 DEF ScreensQuiet, Stays, hubVars, IsOpen
<1>7. ClockQuiet
  BY <1>1, <1>2, <1>3 DEF ClockQuiet, Stays, clockVars, hubVars, IsOpen
<1>8. CountQuiet
  BY <1>1, <1>2, <1>3 DEF CountQuiet, Unsettled, hubVars, IsOpen, Typed, CallsSound
<1>9. HubTyped' /\ HandlersTyped'
  BY <1>1, <1>2, <1>3 DEF Typed, HubTyped, HandlersTyped, hubVars
<1>10. ScreensTyped' /\ SeatsTyped'
  BY <1>1, <1>2, <1>3 DEF Typed, ScreensTyped, SeatsTyped, seatVars
<1>11. ClocksTyped'
  BY <1>1, <1>2, <1>3 DEF Typed, ClocksTyped, clockVars
<1>12. CallsSound'
  BY <1>1, <1>2, <1>3 DEF Typed, CallsSound, clockVars
<1> QED BY <1>1, <1>4, <1>5, <1>6, <1>7, <1>8, <1>9, <1>10, <1>11, <1>12 DEF Typed

LEMMA EnterQuiet ==
  ASSUME GatewayConstants, Typed, HubAgrees, NEW c \in play.calls,
         OwnerOf[Messages[c].from] \notin barred, EnterRoom(c)
  PROVE  UNCHANGED play /\ HandsQuiet /\ UNCHANGED held /\ Typed'
<1>1. /\ UNCHANGED <<play, sock, clients, missed, cut, lines, seatVars, barred, over, time, pays, repaid, spent>>
      /\ Messages[c].t = "join" /\ handling[c].at = "checking"
      /\ handling' = [handling EXCEPT ![c].at = "entered", ![c].left = Deserted(Messages[c])]
      /\ screen' = [screen EXCEPT ![Messages[c].from].by = NoJoin]
      /\ members' = [Departed(Messages[c].from) EXCEPT ![Messages[c].room] = @ \cup {Messages[c].from}]
      /\ roomOf' = [roomOf EXCEPT ![Messages[c].from] = Messages[c].room]
      /\ clock' = [clock EXCEPT ![Messages[c].from] = ClockIn(Messages[c].from, Messages[c].room)]
      /\ lapses' \in {lapses, [lapses EXCEPT ![Messages[c].from] = @ + 1]}
  BY DEF EnterRoom, At, Typed, ClocksTyped
<1>2. /\ handling' \in [play.calls -> Handling]
      /\ \A d \in play.calls : d # c => handling'[d] = handling[d]
      /\ handling'[c].at = "entered" /\ handling'[c].left = Deserted(Messages[c])
      /\ handling'[c].history = handling[c].history /\ handling'[c].before = handling[c].before
      /\ handling'[c].for = handling[c].for /\ handling'[c].time = handling[c].time
  <2>1. PICK h : h = [handling[c] EXCEPT !.at = "entered", !.left = Deserted(Messages[c])]
    OBVIOUS
  <2>2. handling' = [handling EXCEPT ![c] = h]
    BY <1>1, <2>1 DEF Typed, HandlersTyped
  <2>3. handling[c] \in Handling /\ Deserted(Messages[c]) \in Rooms \cup {Nowhere}
    BY PlayShape DEF Typed, HandlersTyped, HubTyped, Deserted
  <2>4. /\ h \in Handling /\ h.at = "entered" /\ h.left = Deserted(Messages[c])
        /\ h.history = handling[c].history /\ h.before = handling[c].before
        /\ h.for = handling[c].for /\ h.time = handling[c].time
    BY <2>1, <2>3 DEF Handling, HandlerStages
  <2> QED BY <2>2, <2>3, <2>4, Became DEF Typed
<1>3. Messages[c].t \in MessageKinds /\ Messages[c].from \in Sockets
  BY PlayShape DEF Typed, HandlersTyped
<1>20. /\ members' \in [Rooms -> SUBSET Sockets] /\ roomOf' \in [Sockets -> Rooms \cup {Nowhere}]
  <2>1. Messages[c].room \in Rooms
    BY PlayShape DEF Typed, HandlersTyped
  <2> QED BY <1>1, <1>3, <2>1, DepartedShape DEF Typed, HubTyped
<1>21. screen' \in [Sockets -> Screen]
  <2>1. PICK x : x = [screen[Messages[c].from] EXCEPT !.by = NoJoin]
    OBVIOUS
  <2>2. x \in Screen /\ screen \in [Sockets -> Screen]
    BY <1>3, <2>1 DEF Typed, ScreensTyped, Screen
  <2>3. screen' = [screen EXCEPT ![Messages[c].from] = x]
    BY <1>1, <1>3, <2>1, <2>2
  <2> QED BY <1>3, <2>2, <2>3
<1>22. clock' \in [Sockets -> Clock] /\ \A s \in Sockets : clock'[s].at <= time
  <2>1. PICK x : x = ClockIn(Messages[c].from, Messages[c].room)
    OBVIOUS
  <2>2. /\ clock \in [Sockets -> Clock] /\ clock[Messages[c].from] \in Clock /\ time \in Nat
        /\ \A s \in Sockets : clock[s].at <= time
    BY <1>3 DEF Typed, ClocksTyped
  <2>3. x \in Clock /\ x.at <= time
    <3>1. Messages[c].room \in Rooms
      BY PlayShape DEF Typed, HandlersTyped
    <3>2. PICK f : f = FreshClock(Messages[c].from, Messages[c].room)
      OBVIOUS
    <3>3. PICK n \in Nat : n = clock[Messages[c].from].no + 1
      BY <2>2 DEF Clock
    <3>4. f = [no |-> n, room |-> Messages[c].room, accrued |-> 0, at |-> time, capped |-> -1]
      BY <3>2, <3>3 DEF FreshClock, NoClock
    <3>5. f \in Clock /\ f.at = time
      BY <3>1, <3>3, <3>4, <2>2 DEF Clock
    <3>6. PICK g : g = [f EXCEPT !.room = Nowhere]
      OBVIOUS
    <3>7. g \in Clock /\ g.at = time
      BY <3>5, <3>6 DEF Clock
    <3>8. x = g \/ x = clock[Messages[c].from] \/ x = f
      BY <2>1, <3>2, <3>6 DEF ClockIn
    <3> QED BY <1>3, <2>2, <3>5, <3>7, <3>8
  <2> QED BY <1>1, <1>3, <2>1, <2>2, <2>3
<1>23. lapses' \in [Sockets -> Nat]
  BY <1>1, <1>3 DEF Typed, ClocksTyped
<1>4. HandsQuiet /\ UNCHANGED held
  BY <1>1, <1>2, <1>3, <1>20, <1>21 DEF HandsQuiet, InAnswer, hubVars, seatVars
<1>5. HubTyped' /\ HandlersTyped'
  BY <1>1, <1>2, <1>3, <1>20, <1>21 DEF Typed, HubTyped, HandlersTyped, hubVars
<1>6. ScreensTyped' /\ SeatsTyped'
  BY <1>1, <1>2, <1>3, <1>20, <1>21 DEF Typed, ScreensTyped, SeatsTyped, seatVars
<1>7. ClocksTyped'
  BY <1>1, <1>22, <1>23 DEF Typed, ClocksTyped
<1>8. CallsSound'
  <2>1. ASSUME NEW d \in play.calls
        PROVE  /\ handling'[d].for = handling[d].for /\ handling'[d].time = handling[d].time
               /\ handling'[d].at = "granting" <=> handling[d].at = "granting"
               /\ handling'[d].left # Nowhere => handling'[d].at \in {"entered", "failed", "done"}
    <3>1. CASE d = c
      BY <1>1, <1>2, <3>1
    <3>2. CASE d # c
      BY <1>2, <3>2 DEF Typed, CallsSound
    <3> QED BY <3>1, <3>2
  <2>2. UNCHANGED <<play, time>>
    BY <1>1
  <2> QED BY <2>1, <2>2 DEF Typed, CallsSound
<1> QED BY <1>1, <1>4, <1>5, <1>6, <1>7, <1>8 DEF Typed

-----------------------------------------------------------------------------
(* The steps that move a socket between rooms.                             *)

LEMMA MovedOut ==
  ASSUME GatewayConstants, Typed, HubAgrees, NEW s \in Sockets,
         members' = Departed(s), roomOf' = [roomOf EXCEPT ![s] = Nowhere]
  PROVE  HubAgrees'
<1>1. /\ \A r \in Rooms : members'[r] = members[r] \ {s}
      /\ roomOf \in [Sockets -> Rooms \cup {Nowhere}] /\ Nowhere \notin Rooms
  BY DepartedShape DEF GatewayConstants, Typed, HubTyped
<1> QED BY <1>1 DEF HubAgrees

LEMMA MovedIn ==
  ASSUME GatewayConstants, Typed, HubAgrees, NEW s \in Sockets, NEW q \in Rooms,
         members' = [Departed(s) EXCEPT ![q] = @ \cup {s}], roomOf' = [roomOf EXCEPT ![s] = q]
  PROVE  HubAgrees'
<1>1. /\ Departed(s) \in [Rooms -> SUBSET Sockets]
      /\ \A r \in Rooms : Departed(s)[r] = members[r] \ {s}
      /\ roomOf \in [Sockets -> Rooms \cup {Nowhere}] /\ Nowhere \notin Rooms
  BY DepartedShape DEF GatewayConstants, Typed, HubTyped
<1>2. \A r \in Rooms : members'[r] = IF r = q THEN (members[r] \ {s}) \cup {s} ELSE members[r] \ {s}
  BY <1>1
<1> QED BY <1>1, <1>2 DEF HubAgrees

\* Who is let in after its socket closed had a message waiting: it was cut.
LEMMA VerifyKeepsDoors ==
  ASSUME GatewayConstants, Typed, Doors, NEW c \in play.calls, Verify(c)
  PROVE  Doors'
<1>1. /\ Messages[c].t = "auth" /\ handling[c].at = "verifying" /\ Stage(c, "done")
      /\ clients' \in {clients, clients \cup {Messages[c].from}}
      /\ UNCHANGED <<play, sock, roomOf, cut>>
  BY DEF Verify, At
<1>2. c \in Waiting(Messages[c].from)
  BY <1>1 DEF Waiting
<1>3. \A s \in Sockets : Waiting(s)' \subseteq Waiting(s)
  BY <1>1, Staged DEF Waiting, Typed, HandlerStages
<1>4. Messages[c].from \in Sockets
  BY PlayShape DEF Typed, HandlersTyped
<1> QED BY <1>1, <1>2, <1>3, <1>4 DEF Doors

LEMMA EnterKeepsDoors ==
  ASSUME GatewayConstants, Typed, Doors, NEW c \in play.calls,
         OwnerOf[Messages[c].from] \notin barred, EnterRoom(c)
  PROVE  Doors'
<1>1. /\ Messages[c].t = "join" /\ handling[c].at = "checking"
      /\ handling' = [handling EXCEPT ![c].at = "entered", ![c].left = Deserted(Messages[c])]
      /\ roomOf' = [roomOf EXCEPT ![Messages[c].from] = Messages[c].room]
      /\ UNCHANGED <<play, sock, clients, cut>>
  BY DEF EnterRoom, At
<1>2. c \in Waiting(Messages[c].from) /\ Messages[c].from \in Sockets
  BY <1>1, PlayShape DEF Waiting, Typed, HandlersTyped
<1>3. \A d \in play.calls : d # c => handling'[d] = handling[d]
  BY <1>1 DEF Typed, HandlersTyped
<1>4. \A s \in Sockets : Waiting(s)' \subseteq Waiting(s)
  BY <1>1, <1>2, <1>3 DEF Waiting
<1> QED BY <1>1, <1>2, <1>4 DEF Doors, Typed, HubTyped

LEMMA CloseKeepsDoors ==
  ASSUME GatewayConstants, Typed, Doors, NEW s \in Sockets, SocketCloses(s)
  PROVE  Doors'
<1>1. /\ sock' = [sock EXCEPT ![s] = "closed"] /\ roomOf' = [roomOf EXCEPT ![s] = Nowhere]
      /\ clients' = clients \ {s} /\ (s \notin cut' => Waiting(s) = {}) /\ cut \subseteq cut'
      /\ UNCHANGED <<play, handling>>
  BY DEF SocketCloses
<1>2. \A x \in Sockets : Waiting(x)' = Waiting(x)
  BY <1>1 DEF Waiting
<1> QED BY <1>1, <1>2 DEF Doors, Typed, HubTyped

-----------------------------------------------------------------------------
(* The steps that write a screen's chat, or what a join has read for it.   *)

\* A backlog leaves out only what is older than all its lines, and then it is full.
LEMMA BacklogIsNewest ==
  ASSUME GatewayConstants, Typed, NEW r, NEW b \in SUBSET Said(r), Backlog(b, Said(r)),
         NEW d \in Said(r), d \notin b
  PROVE  Cardinality(b) >= HistorySize /\ \A h \in b : d \in lines[h]
<1>1. IsFiniteSet(Said(r))
  BY FS_Subset DEF GatewayConstants, Typed, ScreensTyped, Said, Stored
<1>2. /\ Cardinality(Said(r)) \in Nat /\ Cardinality(b) \in Nat
      /\ Cardinality(b) < Cardinality(Said(r))
  <2>1. Cardinality(b) <= Cardinality(Said(r)) /\ IsFiniteSet(b)
        /\ (Cardinality(b) = Cardinality(Said(r)) => b = Said(r))
    BY <1>1, FS_Subset
  <2>2. Cardinality(Said(r)) \in Nat /\ Cardinality(b) \in Nat
    BY <1>1, <2>1, FS_CardinalityType
  <2> QED BY <2>1, <2>2
<1>3. HistorySize \in Nat
  BY DEF GatewayConstants
<1>4. Cardinality(b) = Min({HistorySize, Cardinality(Said(r))})
  BY DEF Backlog
<1>5. Cardinality(b) >= HistorySize
  BY <1>2, <1>3, <1>4, LessOfTwo
<1> QED BY <1>5 DEF Backlog, Newer

LEMMA SnapshotKeepsScreens ==
  ASSUME GatewayConstants, Typed, LinesSound, ScreensSound, NEW c \in play.calls, Snapshot(c)
  PROVE  LinesSound' /\ ScreensSound'
<1>1. UNCHANGED <<play, sock, roomOf, lines, screen>> /\ handling[c].at = "asked"
  BY DEF Snapshot, At, hubVars
<1>2. /\ \A d \in play.calls : d # c => handling'[d] = handling[d]
      /\ handling'[c].at \in {"done", "checking"}
  <2>1. CASE Stage(c, "done")
    BY <2>1, Staged DEF Typed, HandlerStages
  <2>2. ASSUME NEW b,
               handling' = [handling EXCEPT ![c].at = "checking", ![c].history = b, ![c].before = Spoken]
        PROVE  <1>2
    BY <2>2 DEF Typed, HandlersTyped, Handling
  <2> QED BY <2>1, <2>2 DEF Snapshot
<1>3. Sayable' = Sayable /\ Spoken' = Spoken
  BY <1>1, <1>2 DEF Sayable, Spoken
<1>4. /\ handling'[c].history \subseteq Sayable
      /\ \A d \in handling'[c].before :
           Messages[d].room = Messages[c].room => d \in handling'[c].history \/ Beyond(c, d)'
  <2>1. CASE Stage(c, "done")
    <3>1. handling'[c].history = handling[c].history /\ handling'[c].before = handling[c].before
      BY <2>1, Staged DEF Typed, HandlerStages
    <3> QED BY <1>1, <3>1 DEF LinesSound, Beyond
  <2>2. ASSUME NEW b \in SUBSET Said(Messages[c].room), Backlog(b, Said(Messages[c].room)),
               handling' = [handling EXCEPT ![c].at = "checking", ![c].history = b, ![c].before = Spoken]
        PROVE  <1>4
    <3>1. handling'[c].history = b /\ handling'[c].before = Spoken
      BY <2>2 DEF Typed, HandlersTyped, Handling
    <3>2. \A d \in Spoken : Messages[d].room = Messages[c].room => d \in Said(Messages[c].room)
      BY DEF Spoken, LinesSound, Sayable, Said, Stored
    <3>3. b \subseteq Sayable
      BY DEF Said, Sayable, Stored
    <3>4. \A d \in Spoken : Messages[d].room = Messages[c].room => d \in b \/ Beyond(c, d)'
      BY <1>1, <2>2, <3>1, <3>2, BacklogIsNewest DEF Beyond
    <3> QED BY <3>1, <3>3, <3>4
  <2> QED BY <2>1, <2>2 DEF Snapshot
<1>6. LinesSound'
  <2>1. ASSUME NEW d \in play.calls, d # c
        PROVE  /\ handling'[d].at = "recorded" => d \in DOMAIN lines
               /\ handling'[d].at = "spoken" => d \in Sayable
               /\ handling'[d].history \subseteq Sayable
               /\ \A e \in handling'[d].before :
                    Messages[e].room = Messages[d].room => e \in handling'[d].history \/ Beyond(d, e)'
    BY <1>1, <1>2, <2>1 DEF LinesSound, Beyond
  <2> QED BY <1>1, <1>2, <1>3, <1>4, <2>1 DEF LinesSound
<1>7. \A s \in Sockets, j \in play.calls :
        handling[j].at = "done" /\ ToldSince(s, j) => handling'[j].at = "done" /\ ToldSince(s, j)'
  <2>1. SUFFICES ASSUME NEW s \in Sockets, NEW j \in play.calls, handling[j].at = "done",
                        ToldSince(s, j)
                 PROVE  handling'[j].at = "done" /\ ToldSince(s, j)'
    OBVIOUS
  <2>2. handling'[j] = handling[j]
    BY <1>1, <1>2, <2>1
  <2> QED BY <1>1, <1>3, <2>1, <2>2 DEF ToldSince, IsOpen, Beyond
<1> QED BY <1>1, <1>6, <1>7 DEF ScreensSound

LEMMA EnterKeepsScreens ==
  ASSUME GatewayConstants, Typed, LinesSound, ScreensSound, NEW c \in play.calls,
         OwnerOf[Messages[c].from] \notin barred, EnterRoom(c)
  PROVE  LinesSound' /\ ScreensSound'
<1>1. /\ UNCHANGED <<play, sock, lines>> /\ handling[c].at = "checking"
      /\ handling' = [handling EXCEPT ![c].at = "entered", ![c].left = Deserted(Messages[c])]
      /\ screen' = [screen EXCEPT ![Messages[c].from].by = NoJoin]
      /\ roomOf' = [roomOf EXCEPT ![Messages[c].from] = Messages[c].room]
  BY DEF EnterRoom, At
<1>2. /\ \A d \in play.calls : d # c => handling'[d] = handling[d]
      /\ handling'[c].at = "entered"
      /\ handling'[c].history = handling[c].history /\ handling'[c].before = handling[c].before
  BY <1>1 DEF Typed, HandlersTyped, Handling
<1>3. Sayable' = Sayable /\ Spoken' = Spoken
  BY <1>1, <1>2 DEF Sayable, Spoken
<1>4. /\ \A s \in Sockets : screen'[s].chat = screen[s].chat
      /\ \A s \in Sockets : s # Messages[c].from => screen'[s] = screen[s] /\ roomOf'[s] = roomOf[s]
      /\ screen'[Messages[c].from].by = NoJoin /\ Messages[c].from \in Sockets
  BY <1>1, PlayShape DEF Typed, ScreensTyped, Screen, HubTyped, HandlersTyped
<1>5. LinesSound'
  <2>1. \A s \in Sockets : screen'[s].chat \subseteq Sayable
    BY <1>4 DEF LinesSound
  <2>2. ASSUME NEW d \in play.calls
        PROVE  /\ handling'[d].at = "recorded" => d \in DOMAIN lines
               /\ handling'[d].at = "spoken" => d \in Sayable
               /\ handling'[d].history \subseteq Sayable
               /\ \A e \in handling'[d].before :
                    Messages[e].room = Messages[d].room => e \in handling'[d].history \/ Beyond(d, e)'
    <3>1. CASE d = c
      <4>1. \A e : Beyond(c, e) => Beyond(c, e)'
        BY <1>1, <1>2 DEF Beyond
      <4> QED BY <1>2, <3>1, <4>1 DEF LinesSound
    <3>2. CASE d # c
      BY <1>1, <1>2, <3>2 DEF LinesSound, Beyond
    <3> QED BY <3>1, <3>2
  <2> QED BY <1>1, <1>3, <2>1, <2>2 DEF LinesSound
<1>6. \A s \in Sockets, j \in play.calls :
        s # Messages[c].from /\ handling[j].at = "done" /\ ToldSince(s, j)
          => handling'[j].at = "done" /\ ToldSince(s, j)'
  <2>1. SUFFICES ASSUME NEW s \in Sockets, NEW j \in play.calls, s # Messages[c].from,
                        handling[j].at = "done", ToldSince(s, j)
                 PROVE  handling'[j].at = "done" /\ ToldSince(s, j)'
    OBVIOUS
  <2>2. j # c /\ handling'[j] = handling[j]
    BY <1>1, <1>2, <2>1
  <2>3. roomOf'[s] = roomOf[s] /\ screen'[s].chat = screen[s].chat /\ sock' = sock
    BY <1>1, <1>4, <2>1
  <2> QED BY <1>1, <1>3, <2>1, <2>2, <2>3 DEF ToldSince, IsOpen, Beyond
<1>7. ASSUME NEW s \in Sockets, screen'[s].by # NoJoin
      PROVE  \E j \in play'.calls :
               screen'[s].by = j /\ handling'[j].at = "done" /\ ToldSince(s, j)'
  <2>1. s # Messages[c].from /\ screen'[s] = screen[s]
    BY <1>4, <1>7
  <2>2. PICK j \in play.calls : screen[s].by = j /\ handling[j].at = "done" /\ ToldSince(s, j)
    BY <1>7, <2>1 DEF ScreensSound
  <2> QED BY <1>1, <1>6, <2>1, <2>2
<1>8. ScreensSound'
  BY <1>7 DEF ScreensSound
<1> QED BY <1>5, <1>8

LEMMA AnswerKeepsScreens ==
  ASSUME GatewayConstants, Typed, LinesSound, ScreensSound, NEW c \in play.calls, AnswerJoin(c)
  PROVE  LinesSound' /\ ScreensSound'
<1> DEFINE from == Messages[c].from
<1>1. /\ UNCHANGED <<play, members, sock, roomOf, lines>> /\ handling[c].at = "entered"
      /\ handling' = [handling EXCEPT ![c].at = "done", ![c].late = Spoken]
      /\ screen' = Announced(Messages[c].room, Welcome(c))
  BY DEF AnswerJoin, At, hubVars
<1>2. /\ \A d \in play.calls : d # c => handling'[d] = handling[d]
      /\ handling'[c].at = "done" /\ handling'[c].late = Spoken
      /\ handling'[c].history = handling[c].history /\ handling'[c].before = handling[c].before
  BY <1>1 DEF Typed, HandlersTyped, Handling
<1>3. Sayable' = Sayable /\ Spoken' = Spoken
  BY <1>1, <1>2 DEF Sayable, Spoken
<1>4. from \in Sockets /\ c \in Handlers /\ screen \in [Sockets -> Screen] /\ Messages[c].room \in Rooms
      /\ handling[c] \in Handling
  BY PlayShape DEF Typed, HandlersTyped, ScreensTyped
<1>5. /\ Welcome(c) \in [Sockets -> Screen]
      /\ \A s \in Sockets :
           \/ Welcome(c)[s].chat = screen[s].chat /\ Welcome(c)[s].by = screen[s].by
           \/ s = from /\ Welcome(c)[s].chat = handling[c].history /\ Welcome(c)[s].by = c
  <2>1. PICK x : x = [screen[from] EXCEPT !.chat = handling[c].history, !.by = c]
    OBVIOUS
  <2>2. x \in Screen /\ x.chat = handling[c].history /\ x.by = c
    BY <1>4, <2>1 DEF Screen, Handling
  <2>3. Welcome(c) = screen \/ Welcome(c) = [screen EXCEPT ![from] = x]
    BY <1>4, <2>1 DEF Welcome
  <2> QED BY <1>4, <2>2, <2>3
<1>6. \A s \in Sockets :
        \/ screen'[s].chat = screen[s].chat /\ screen'[s].by = screen[s].by
        \/ s = from /\ screen'[s].chat = handling[c].history /\ screen'[s].by = c
  <2>1. members' \in [Rooms -> SUBSET Sockets]
    BY <1>1 DEF Typed, HubTyped
  <2>2. \A s \in Sockets : /\ screen'[s].chat = Welcome(c)[s].chat
                           /\ screen'[s].by = Welcome(c)[s].by
    BY <1>1, <1>4, <1>5, <2>1, AnnouncedShape
  <2> QED BY <1>5, <2>2
<1>7. LinesSound'
  <2>1. \A s \in Sockets : screen'[s].chat \subseteq Sayable
    BY <1>6 DEF LinesSound
  <2>2. ASSUME NEW d \in play.calls
        PROVE  /\ handling'[d].at = "recorded" => d \in DOMAIN lines
               /\ handling'[d].at = "spoken" => d \in Sayable
               /\ handling'[d].history \subseteq Sayable
               /\ \A e \in handling'[d].before :
                    Messages[e].room = Messages[d].room => e \in handling'[d].history \/ Beyond(d, e)'
    <3>1. CASE d = c
      <4>1. \A e : Beyond(c, e) => Beyond(c, e)'
        BY <1>1, <1>2 DEF Beyond
      <4> QED BY <1>2, <3>1, <4>1 DEF LinesSound
    <3>2. CASE d # c
      BY <1>1, <1>2, <3>2 DEF LinesSound, Beyond
    <3> QED BY <3>1, <3>2
  <2> QED BY <1>1, <1>3, <2>1, <2>2 DEF LinesSound
<1>8. ASSUME NEW s \in Sockets, screen'[s].by # NoJoin
      PROVE  \E j \in play'.calls :
               screen'[s].by = j /\ handling'[j].at = "done" /\ ToldSince(s, j)'
  <2>1. CASE screen'[s].chat = screen[s].chat /\ screen'[s].by = screen[s].by
    <3>1. PICK j \in play.calls : screen[s].by = j /\ handling[j].at = "done" /\ ToldSince(s, j)
      BY <1>8, <2>1 DEF ScreensSound
    <3>2. handling'[j] = handling[j]
      BY <1>1, <1>2, <3>1
    <3>3. ToldSince(s, j)'
      BY <1>1, <1>3, <2>1, <3>1, <3>2 DEF ToldSince, IsOpen, Beyond
    <3> QED BY <1>1, <2>1, <3>1, <3>2, <3>3
  <2>2. CASE s = from /\ screen'[s].chat = handling[c].history /\ screen'[s].by = c
    <3>2. handling'[c].history \subseteq screen'[s].chat
      BY <1>2, <2>2
    <3>3. ASSUME NEW d \in Spoken', Messages[d].room = Messages[c].room
          PROVE  \/ d \in screen'[s].chat
                 \/ d \in handling'[c].late \ handling'[c].before
                 \/ d \in handling'[c].before /\ Beyond(c, d)'
      <4>1. CASE d \in handling'[c].before
        BY <1>1, <1>7, <2>2, <3>2, <3>3, <4>1 DEF LinesSound
      <4>2. CASE d \notin handling'[c].before
        BY <1>2, <1>3, <3>3, <4>2
      <4> QED BY <4>1, <4>2
    <3>1. ToldSince(s, c)'
      BY <1>1, <3>2, <3>3 DEF ToldSince
    <3> QED BY <1>1, <1>2, <2>2, <3>1
  <2> QED BY <1>6, <2>1, <2>2
<1> QED BY <1>7, <1>8 DEF ScreensSound

LEMMA SpeakKeepsScreens ==
  ASSUME GatewayConstants, Typed, HubAgrees, LinesSound, ScreensSound, NEW c \in play.calls,
         Speak(c)
  PROVE  LinesSound' /\ ScreensSound'
<1>1. UNCHANGED <<play, members, sock, roomOf, lines>> /\ handling[c].at = "recorded"
  BY DEF Speak, At, hubVars
<1>2. Sayable' = Sayable
  BY <1>1 DEF Sayable
<1>3. Messages[c].room \in Rooms /\ screen \in [Sockets -> Screen] /\ c \in Handlers
  BY PlayShape DEF Typed, HandlersTyped, ScreensTyped
<1>4. CASE ~Messages[c].yes
  <2>1. Stage(c, "done") /\ screen' = screen
    BY <1>4 DEF Speak
  <2>3. /\ \A d \in play.calls : d # c => handling'[d] = handling[d]
        /\ handling'[c].at = "done"
        /\ handling'[c].history = handling[c].history /\ handling'[c].before = handling[c].before
    BY <2>1, Staged DEF Typed, HandlerStages
  <2>4. Spoken' = Spoken
    BY <1>1, <2>3 DEF Spoken
  <2>5. LinesSound'
    BY <1>1, <1>2, <2>1, <2>3 DEF LinesSound, Beyond
  <2>6. \A s \in Sockets, j \in play.calls :
          handling[j].at = "done" /\ ToldSince(s, j) => handling'[j].at = "done" /\ ToldSince(s, j)'
    BY <1>1, <2>1, <2>3, <2>4 DEF ToldSince, IsOpen, Beyond
  <2> QED BY <1>1, <2>1, <2>5, <2>6 DEF ScreensSound
<1>5. CASE Messages[c].yes
  <2>1. Stage(c, "spoken") /\ screen' = HearLine(Messages[c].room, c)
    BY <1>5 DEF Speak
  <2>3. /\ \A d \in play.calls : d # c => handling'[d] = handling[d]
        /\ handling'[c].at = "spoken"
        /\ handling'[c].history = handling[c].history /\ handling'[c].before = handling[c].before
    BY <2>1, Staged DEF Typed, HandlerStages
  <2>4. Spoken' = Spoken \cup {c} /\ c \in Sayable
    BY <1>1, <1>5, <2>3 DEF Spoken, LinesSound, Sayable
  <2>5. \A s \in Sockets :
          /\ screen'[s].by = screen[s].by
          /\ screen'[s].chat = IF s \in members[Messages[c].room] /\ IsOpen(s)
                               THEN screen[s].chat \cup {c} ELSE screen[s].chat
    BY <1>3, <2>1 DEF HearLine, Screen
  <2>6. LinesSound'
    <3>1. \A s \in Sockets : screen'[s].chat \subseteq Sayable
      BY <2>4, <2>5 DEF LinesSound
    <3>2. ASSUME NEW d \in play.calls
          PROVE  /\ handling'[d].at = "recorded" => d \in DOMAIN lines
                 /\ handling'[d].at = "spoken" => d \in Sayable
                 /\ handling'[d].history \subseteq Sayable
                 /\ \A e \in handling'[d].before :
                      Messages[e].room = Messages[d].room => e \in handling'[d].history \/ Beyond(d, e)'
      <4>1. CASE d = c
        BY <1>1, <2>3, <2>4, <4>1 DEF LinesSound, Beyond
      <4>2. CASE d # c
        BY <1>1, <2>3, <4>2 DEF LinesSound, Beyond
      <4> QED BY <4>1, <4>2
    <3> QED BY <1>1, <1>2, <3>1, <3>2 DEF LinesSound
  <2>7. ASSUME NEW s \in Sockets, IsOpen(s), roomOf[s] = Messages[c].room
        PROVE  c \in screen'[s].chat
    <3>1. s \in members[Messages[c].room]
      BY <1>3, <2>7 DEF HubAgrees
    <3>2. screen'[s].chat = screen[s].chat \cup {c}
      BY <2>5, <2>7, <3>1
    <3> QED BY <3>2
  <2>8. ASSUME NEW s \in Sockets, NEW j \in play.calls, handling[j].at = "done", ToldSince(s, j)
        PROVE  handling'[j].at = "done" /\ ToldSince(s, j)'
    <3>1. handling'[j] = handling[j] /\ screen[s].chat \subseteq screen'[s].chat
      BY <1>1, <2>3, <2>5, <2>8
    <3> QED BY <1>1, <2>4, <2>7, <2>8, <3>1 DEF ToldSince, IsOpen, Beyond
  <2> QED BY <1>1, <2>5, <2>6, <2>8 DEF ScreensSound
<1> QED BY <1>4, <1>5

-----------------------------------------------------------------------------
(* The steps that change who is in a room, or tell it.                     *)

LEMMA Recounted ==
  ASSUME GatewayConstants, Typed, Typed', ViewersAreTold, HubAgrees', NEW q \in Rooms,
         NEW scr \in [Sockets -> Screen],
         \A s \in Sockets : scr[s].viewers = screen[s].viewers,
         screen' = Announced(q, scr),
         \A s \in Sockets : roomOf'[s] \in {roomOf[s], Nowhere} /\ (IsOpen(s)' => IsOpen(s)),
         \A r \in Rooms \ {q} : /\ Unsettled(r) => Unsettled(r)'
                                /\ Unsettled(r)' \/ members'[r] = members[r]
  PROVE  ViewersAreTold'
<1> SUFFICES ASSUME NEW s \in Sockets, IsOpen(s)', roomOf'[s] # Nowhere, ~Unsettled(roomOf[s])'
             PROVE  screen'[s].viewers = Cardinality(members'[roomOf'[s]])
  BY DEF ViewersAreTold
<1>1. IsOpen(s) /\ roomOf'[s] = roomOf[s] /\ roomOf[s] \in Rooms
  BY DEF Typed, HubTyped
<1>2. members' \in [Rooms -> SUBSET Sockets]
  BY DEF Typed, HubTyped
<1>3. screen'[s].viewers = IF s \in members'[q] /\ IsOpen(s) THEN Cardinality(members'[q])
                           ELSE scr[s].viewers
  BY <1>2, AnnouncedShape
<1>4. \A r \in Rooms : s \in members'[r] <=> roomOf'[s] = r
  BY DEF HubAgrees
<1>7. PICK r \in Rooms : r = roomOf[s]
  BY <1>1
<1>8. ~Unsettled(r)'
  BY <1>1, <1>7 DEF Unsettled
<1>5. CASE roomOf[s] = q
  BY <1>1, <1>3, <1>4, <1>5
<1>6. CASE roomOf[s] # q
  <2>1. s \notin members'[q] /\ screen'[s].viewers = screen[s].viewers
    BY <1>1, <1>3, <1>4, <1>6
  <2>2. ~Unsettled(r) /\ members'[r] = members[r]
    BY <1>6, <1>7, <1>8
  <2>3. screen[s].viewers = Cardinality(members[roomOf[s]])
    BY <1>1, <1>7, <2>2 DEF ViewersAreTold
  <2> QED BY <1>1, <1>7, <2>1, <2>2, <2>3
<1> QED BY <1>5, <1>6

LEMMA LeaveKeepsCount ==
  ASSUME GatewayConstants, Typed, Typed', HubAgrees, HubAgrees', ViewersAreTold,
         NEW c \in play.calls, Leave(c)
  PROVE  ViewersAreTold'
<1> DEFINE m == Messages[c]
<1>1. /\ UNCHANGED <<play, sock>> /\ m.t = "leave" /\ handling[c].at = "idle"
      /\ handling' = [handling EXCEPT ![c].at = "done", ![c].left = Deserted(m)]
      /\ members' = Departed(m.from) /\ roomOf' = [roomOf EXCEPT ![m.from] = Nowhere]
      /\ screen' = Announced(m.room, screen)
  BY DEF Leave, At
<1>2. /\ \A d \in play.calls : d # c => handling'[d] = handling[d]
      /\ handling'[c].left = Deserted(m) /\ handling[c].left = Nowhere
  <2>1. handling[c].left = Nowhere
    BY <1>1 DEF Typed, CallsSound
  <2>2. handling \in [play.calls -> Handling] /\ handling[c] \in Handling
    BY DEF Typed, HandlersTyped
  <2> QED BY <1>1, <2>1, <2>2 DEF Handling
<1>3. m.from \in Sockets /\ m.room \in Rooms /\ screen \in [Sockets -> Screen] /\ Nowhere \notin Rooms
  BY PlayShape DEF Typed, HandlersTyped, ScreensTyped, GatewayConstants
<1>4. \A s \in Sockets : roomOf'[s] \in {roomOf[s], Nowhere} /\ (IsOpen(s)' => IsOpen(s))
  BY <1>1, <1>3 DEF Typed, HubTyped, IsOpen
<1>5. ASSUME NEW r \in Rooms \ {m.room}
      PROVE  (Unsettled(r) => Unsettled(r)') /\ (Unsettled(r)' \/ members'[r] = members[r])
  <2>1. Unsettled(r) => Unsettled(r)'
    BY <1>1, <1>2, <1>3 DEF Unsettled
  <2>2. CASE roomOf[m.from] = r
    BY <1>1, <1>2, <2>1, <2>2 DEF Unsettled, Deserted
  <2>3. CASE roomOf[m.from] # r
    <3>1. members'[r] = members[r] \ {m.from} /\ m.from \notin members[r]
      BY <1>1, <1>3, <2>3, DepartedShape DEF HubAgrees
    <3> QED BY <2>1, <3>1
  <2> QED BY <2>2, <2>3
<1> QED BY <1>1, <1>3, <1>4, <1>5, Recounted

LEMMA AnswerKeepsCount ==
  ASSUME GatewayConstants, Typed, Typed', HubAgrees', ViewersAreTold,
         NEW c \in play.calls, AnswerJoin(c)
  PROVE  ViewersAreTold'
<1> DEFINE m == Messages[c]
<1>1. /\ UNCHANGED <<play, sock, roomOf, members>> /\ handling[c].at = "entered"
      /\ handling' = [handling EXCEPT ![c].at = "done", ![c].late = Spoken]
      /\ screen' = Announced(m.room, Welcome(c))
  BY DEF AnswerJoin, At, hubVars
<1>2. /\ \A d \in play.calls : d # c => handling'[d] = handling[d]
      /\ handling'[c].left = handling[c].left
  BY <1>1 DEF Typed, HandlersTyped, Handling
<1>3. m.from \in Sockets /\ m.room \in Rooms /\ screen \in [Sockets -> Screen] /\ c \in Handlers
      /\ handling[c] \in Handling
  BY PlayShape DEF Typed, HandlersTyped, ScreensTyped
<1>4. /\ Welcome(c) \in [Sockets -> Screen]
      /\ \A s \in Sockets : Welcome(c)[s].viewers = screen[s].viewers
  <2>1. PICK x : x = [screen[m.from] EXCEPT !.chat = handling[c].history, !.by = c]
    OBVIOUS
  <2>4. screen[m.from] \in Screen /\ handling[c].history \in SUBSET Handlers
    BY <1>3 DEF Handling
  <2>2. x \in Screen /\ x.viewers = screen[m.from].viewers
    BY <1>3, <2>1, <2>4 DEF Screen
  <2>3. Welcome(c) = screen \/ Welcome(c) = [screen EXCEPT ![m.from] = x]
    BY <1>3, <2>1 DEF Welcome
  <2> QED BY <1>3, <2>2, <2>3
<1>5. \A s \in Sockets : roomOf'[s] \in {roomOf[s], Nowhere} /\ (IsOpen(s)' => IsOpen(s))
  BY <1>1 DEF IsOpen
<1>6. \A r \in Rooms \ {m.room} : Unsettled(r) => Unsettled(r)'
  BY <1>1, <1>2 DEF Unsettled
<1> QED BY <1>1, <1>3, <1>4, <1>5, <1>6, Recounted

LEMMA CloseKeepsCount ==
  ASSUME GatewayConstants, Typed, Typed', HubAgrees, HubAgrees', ViewersAreTold,
         NEW s \in Sockets, SocketCloses(s)
  PROVE  ViewersAreTold'
<1>1. /\ UNCHANGED <<play, handling>>
      /\ sock[s] = "closing" /\ sock' = [sock EXCEPT ![s] = "closed"]
      /\ members' = Departed(s) /\ roomOf' = [roomOf EXCEPT ![s] = Nowhere]
      /\ screen' = IF roomOf[s] = Nowhere THEN screen ELSE Announced(roomOf[s], screen)
  BY DEF SocketCloses
<1>2. \A r : Unsettled(r)' <=> Unsettled(r)
  BY <1>1 DEF Unsettled
<1>3. \A x \in Sockets : roomOf'[x] \in {roomOf[x], Nowhere} /\ (IsOpen(x)' => IsOpen(x))
  BY <1>1 DEF Typed, HubTyped, IsOpen
<1>4. CASE roomOf[s] = Nowhere
  <2>1. members' = members /\ screen' = screen /\ roomOf' = roomOf
    BY <1>1, <1>4 DEF Departed, Typed, HubTyped
  <2> QED BY <1>2, <1>3, <2>1 DEF ViewersAreTold
<1>5. CASE roomOf[s] # Nowhere
  <2>1. roomOf[s] \in Rooms /\ screen \in [Sockets -> Screen]
    BY <1>5 DEF Typed, HubTyped, ScreensTyped
  <2>2. \A r \in Rooms \ {roomOf[s]} : members'[r] = members[r]
    <3>1. \A r \in Rooms : members'[r] = members[r] \ {s}
      BY <1>1, DepartedShape
    <3>2. \A r \in Rooms \ {roomOf[s]} : s \notin members[r]
      BY DEF HubAgrees
    <3> QED BY <3>1, <3>2
  <2>3. screen' = Announced(roomOf[s], screen)
    BY <1>1, <1>5
  <2> QED BY <1>2, <1>3, <2>1, <2>2, <2>3, Recounted
<1> QED BY <1>4, <1>5

LEMMA EnterKeepsCount ==
  ASSUME GatewayConstants, Typed, Typed', HubAgrees, ViewersAreTold, NEW c \in play.calls,
         OwnerOf[Messages[c].from] \notin barred, EnterRoom(c)
  PROVE  ViewersAreTold'
<1> DEFINE m == Messages[c]
<1>1. /\ UNCHANGED <<play, sock>> /\ m.t = "join" /\ handling[c].at = "checking"
      /\ handling' = [handling EXCEPT ![c].at = "entered", ![c].left = Deserted(m)]
      /\ screen' = [screen EXCEPT ![m.from].by = NoJoin]
      /\ members' = [Departed(m.from) EXCEPT ![m.room] = @ \cup {m.from}]
      /\ roomOf' = [roomOf EXCEPT ![m.from] = m.room]
  BY DEF EnterRoom, At
<1>2. /\ \A d \in play.calls : d # c => handling'[d] = handling[d]
      /\ handling'[c].at = "entered"
      /\ handling'[c].left = Deserted(m) /\ handling[c].left = Nowhere
  <2>1. handling[c].left = Nowhere
    BY <1>1 DEF Typed, CallsSound
  <2>2. handling \in [play.calls -> Handling] /\ handling[c] \in Handling
    BY DEF Typed, HandlersTyped
  <2> QED BY <1>1, <2>1, <2>2 DEF Handling
<1>3. m.from \in Sockets /\ m.room \in Rooms /\ screen \in [Sockets -> Screen] /\ Nowhere \notin Rooms
  BY PlayShape DEF Typed, HandlersTyped, ScreensTyped, GatewayConstants
<1> SUFFICES ASSUME NEW s \in Sockets, IsOpen(s)', roomOf'[s] # Nowhere, ~Unsettled(roomOf[s])'
             PROVE  screen'[s].viewers = Cardinality(members'[roomOf'[s]])
  BY DEF ViewersAreTold
<1>4. roomOf'[s] # m.room
  BY <1>1, <1>2 DEF Unsettled
<1>5. s # m.from /\ roomOf'[s] = roomOf[s] /\ roomOf[s] \in Rooms /\ roomOf[s] # m.room /\ IsOpen(s)
  BY <1>1, <1>3, <1>4 DEF Typed, HubTyped, IsOpen
<1>10. roomOf[s] # Deserted(m)
  BY <1>1, <1>2, <1>5 DEF Unsettled
<1>6. roomOf[m.from] # roomOf[s]
  BY <1>5, <1>10 DEF Deserted
<1>7. ~Unsettled(roomOf[s])
  <2>1. \A d \in play.calls :
          /\ ~(/\ Messages[d].t = "join" /\ Messages[d].room = roomOf[s]
               /\ handling'[d].at \in {"entered", "failed"})
          /\ handling'[d].left # roomOf[s]
    BY <1>1, <1>5 DEF Unsettled
  <2>2. handling[c].left # roomOf[s] /\ handling[c].at \notin {"entered", "failed"}
    BY <1>1, <1>2, <1>3, <1>5
  <2> QED BY <1>2, <2>1, <2>2 DEF Unsettled
<1>8. members'[roomOf[s]] = members[roomOf[s]]
  <2>1. members'[roomOf[s]] = Departed(m.from)[roomOf[s]]
    BY <1>1, <1>3, <1>5, DepartedShape
  <2>2. Departed(m.from)[roomOf[s]] = members[roomOf[s]] \ {m.from}
    BY <1>3, <1>5, DepartedShape
  <2>3. m.from \notin members[roomOf[s]]
    BY <1>3, <1>5, <1>6 DEF HubAgrees
  <2> QED BY <2>1, <2>2, <2>3
<1>9. screen'[s] = screen[s]
  BY <1>1, <1>3, <1>5
<1> QED BY <1>5, <1>7, <1>8, <1>9 DEF ViewersAreTold

-----------------------------------------------------------------------------
(* The steps that raise, take down or answer a hand.                       *)

HandsOf(u) == {x \in hands : x[2] = u}
AnswersFor(u) ==
    {c \in play.calls : /\ Messages[c].t = "resolve" /\ Messages[c].user = u
                        /\ handling[c].at \in {"granted", "picked"}}

Ended(u) == tally[u]["cancelled"] + tally[u]["denied"] + tally[u]["seated"] + tally[u]["refused"]

LEMMA HandsRestated ==
  HandsAddUp <=> \A u \in Persons :
                    tally[u]["raised"] = Ended(u) + Cardinality(HandsOf(u)) + Cardinality(AnswersFor(u))
BY DEF HandsAddUp, Ended, HandsOf, AnswersFor

LEMMA HandsCounted ==
  ASSUME GatewayConstants, Typed, NEW u \in Persons
  PROVE  /\ IsFiniteSet(HandsOf(u)) /\ Cardinality(HandsOf(u)) \in Nat
         /\ IsFiniteSet(AnswersFor(u)) /\ Cardinality(AnswersFor(u)) \in Nat
<1>1. IsFiniteSet(hands) /\ IsFiniteSet(play.calls)
  BY PlayShape DEF Typed, SeatsTyped, HandlersTyped
<1>2. IsFiniteSet(HandsOf(u)) /\ IsFiniteSet(AnswersFor(u))
  BY <1>1, FS_Subset DEF HandsOf, AnswersFor
<1> QED BY <1>2, FS_CardinalityType

LEMMA HandGoesUp ==
  ASSUME GatewayConstants, Typed, NEW x \in (Rooms \X Persons) \ hands, hands' = hands \cup {x}
  PROVE  \A u \in Persons : Cardinality(HandsOf(u))' = Cardinality(HandsOf(u))
                                                        + (IF u = x[2] THEN 1 ELSE 0)
<1> SUFFICES ASSUME NEW u \in Persons
             PROVE  Cardinality(HandsOf(u)') = Cardinality(HandsOf(u)) + (IF u = x[2] THEN 1 ELSE 0)
  OBVIOUS
<1>1. HandsOf(u)' = IF u = x[2] THEN HandsOf(u) \cup {x} ELSE HandsOf(u)
  BY DEF HandsOf
<1>2. x \notin HandsOf(u)
  BY DEF HandsOf
<1>3. Cardinality(HandsOf(u) \cup {x}) = Cardinality(HandsOf(u)) + 1
  BY <1>2, HandsCounted, FS_AddElement
<1> QED BY <1>1, <1>3, HandsCounted

LEMMA HandComesDown ==
  ASSUME GatewayConstants, Typed, NEW x \in hands, hands' = hands \ {x}
  PROVE  \A u \in Persons : Cardinality(HandsOf(u))' = Cardinality(HandsOf(u))
                                                        - (IF u = x[2] THEN 1 ELSE 0)
<1> SUFFICES ASSUME NEW u \in Persons
             PROVE  Cardinality(HandsOf(u)') = Cardinality(HandsOf(u)) - (IF u = x[2] THEN 1 ELSE 0)
  OBVIOUS
<1>1. HandsOf(u)' = IF u = x[2] THEN HandsOf(u) \ {x} ELSE HandsOf(u)
  BY DEF HandsOf
<1>2. u = x[2] => x \in HandsOf(u)
  BY DEF HandsOf
<1>3. u = x[2] => Cardinality(HandsOf(u) \ {x}) = Cardinality(HandsOf(u)) - 1
  BY <1>2, HandsCounted, FS_RemoveElement
<1> QED BY <1>1, <1>3, HandsCounted

LEMMA AnswersStay ==
  ASSUME NEW c \in play.calls, UNCHANGED play, InAnswer(c)' <=> InAnswer(c),
         \A d \in play.calls : d # c => handling'[d] = handling[d]
  PROVE  \A u \in Persons : Cardinality(AnswersFor(u))' = Cardinality(AnswersFor(u))
<1>1. \A u \in Persons : AnswersFor(u)' = AnswersFor(u)
  BY DEF AnswersFor, InAnswer
<1> QED BY <1>1

LEMMA AnswerBegins ==
  ASSUME GatewayConstants, Typed, NEW c \in play.calls, UNCHANGED play, InAnswer(c)',
         ~InAnswer(c),
         \A d \in play.calls : d # c => handling'[d] = handling[d]
  PROVE  \A u \in Persons : Cardinality(AnswersFor(u))' = Cardinality(AnswersFor(u))
                                                     + (IF u = Messages[c].user THEN 1 ELSE 0)
<1> SUFFICES ASSUME NEW u \in Persons
             PROVE  Cardinality(AnswersFor(u)') = Cardinality(AnswersFor(u))
                                                     + (IF u = Messages[c].user THEN 1 ELSE 0)
  OBVIOUS
<1>1. AnswersFor(u)' = IF u = Messages[c].user THEN AnswersFor(u) \cup {c} ELSE AnswersFor(u)
  BY DEF AnswersFor, InAnswer
<1>2. c \notin AnswersFor(u)
  BY DEF AnswersFor, InAnswer
<1>3. Cardinality(AnswersFor(u) \cup {c}) = Cardinality(AnswersFor(u)) + 1
  BY <1>2, HandsCounted, FS_AddElement
<1> QED BY <1>1, <1>3, HandsCounted

LEMMA AnswerEnds ==
  ASSUME GatewayConstants, Typed, NEW c \in play.calls, UNCHANGED play, InAnswer(c),
         ~InAnswer(c)',
         \A d \in play.calls : d # c => handling'[d] = handling[d]
  PROVE  \A u \in Persons : Cardinality(AnswersFor(u))' = Cardinality(AnswersFor(u))
                                                     - (IF u = Messages[c].user THEN 1 ELSE 0)
<1> SUFFICES ASSUME NEW u \in Persons
             PROVE  Cardinality(AnswersFor(u)') = Cardinality(AnswersFor(u))
                                                     - (IF u = Messages[c].user THEN 1 ELSE 0)
  OBVIOUS
<1>1. AnswersFor(u)' = IF u = Messages[c].user THEN AnswersFor(u) \ {c} ELSE AnswersFor(u)
  BY DEF AnswersFor, InAnswer
<1>2. u = Messages[c].user => c \in AnswersFor(u)
  BY DEF AnswersFor, InAnswer
<1>3. u = Messages[c].user => Cardinality(AnswersFor(u) \ {c}) = Cardinality(AnswersFor(u)) - 1
  BY <1>2, HandsCounted, FS_RemoveElement
<1> QED BY <1>1, <1>3, HandsCounted

\* Writing a fate in the tally.
LEMMA TalliedShape ==
  ASSUME Typed, NEW u \in Persons, NEW f \in Fates, tally' = Tallied(u, f)
  PROVE  \A v \in Persons :
           /\ f = "raised" => /\ Ended(v)' = Ended(v)
                              /\ tally'[v]["raised"] = tally[v]["raised"] + (IF v = u THEN 1 ELSE 0)
           /\ f # "raised" => /\ Ended(v)' = Ended(v) + (IF v = u THEN 1 ELSE 0)
                              /\ tally'[v]["raised"] = tally[v]["raised"]
<1> SUFFICES ASSUME NEW v \in Persons
             PROVE /\ f = "raised" => /\ Ended(v)' = Ended(v)
                              /\ tally'[v]["raised"] = tally[v]["raised"] + (IF v = u THEN 1 ELSE 0)
                   /\ f # "raised" => /\ Ended(v)' = Ended(v) + (IF v = u THEN 1 ELSE 0)
                              /\ tally'[v]["raised"] = tally[v]["raised"]
  OBVIOUS
<1>1. tally \in [Persons -> [Fates -> Nat]]
  BY DEF Typed, SeatsTyped
<1>2. \A g \in Fates : tally'[v][g] = tally[v][g] + (IF v = u /\ g = f THEN 1 ELSE 0)
  BY <1>1 DEF Tallied
<1>3. \A g \in Fates : tally[v][g] \in Nat
  BY <1>1
<1>4. tally'[v]["raised"] = tally[v]["raised"] + (IF v = u /\ "raised" = f THEN 1 ELSE 0)
  BY <1>2 DEF Fates
<1>5. /\ tally'[v]["cancelled"] = tally[v]["cancelled"] + (IF v = u /\ "cancelled" = f THEN 1 ELSE 0)
      /\ tally'[v]["denied"] = tally[v]["denied"] + (IF v = u /\ "denied" = f THEN 1 ELSE 0)
      /\ tally'[v]["seated"] = tally[v]["seated"] + (IF v = u /\ "seated" = f THEN 1 ELSE 0)
      /\ tally'[v]["refused"] = tally[v]["refused"] + (IF v = u /\ "refused" = f THEN 1 ELSE 0)
  BY <1>2 DEF Fates
<1>6. /\ tally[v]["cancelled"] \in Nat /\ tally[v]["denied"] \in Nat /\ tally[v]["seated"] \in Nat
      /\ tally[v]["refused"] \in Nat /\ tally[v]["raised"] \in Nat
  BY <1>3 DEF Fates
<1>7. f \in {"raised", "cancelled", "denied", "seated", "refused"}
  BY DEF Fates
<1> QED BY <1>4, <1>5, <1>6, <1>7 DEF Ended

LEMMA TalliesNat ==
  ASSUME Typed, NEW u \in Persons
  PROVE  tally[u]["raised"] \in Nat /\ Ended(u) \in Nat
<1>1. \A g \in Fates : tally[u][g] \in Nat
  BY DEF Typed, SeatsTyped
<1>2. /\ tally[u]["cancelled"] \in Nat /\ tally[u]["denied"] \in Nat /\ tally[u]["seated"] \in Nat
      /\ tally[u]["refused"] \in Nat /\ tally[u]["raised"] \in Nat
  BY <1>1 DEF Fates
<1> QED BY <1>2 DEF Ended

\* A step moves hands between the heaps and loses none.
LEMMA HandsStep ==
  ASSUME GatewayConstants, Typed, HandsAddUp,
         \A u \in Persons :
           tally'[u]["raised"] - tally[u]["raised"]
             = (Ended(u)' - Ended(u)) + (Cardinality(HandsOf(u))' - Cardinality(HandsOf(u)))
               + (Cardinality(AnswersFor(u))' - Cardinality(AnswersFor(u))),
         \A u \in Persons :
           /\ tally'[u]["raised"] \in Int /\ Ended(u)' \in Int
           /\ Cardinality(HandsOf(u))' \in Int /\ Cardinality(AnswersFor(u))' \in Int
  PROVE  HandsAddUp'
<1>1. ASSUME NEW u \in Persons
      PROVE  tally'[u]["raised"] = Ended(u)' + Cardinality(HandsOf(u))' + Cardinality(AnswersFor(u))'
  <2>1. tally[u]["raised"] = Ended(u) + Cardinality(HandsOf(u)) + Cardinality(AnswersFor(u))
    BY HandsRestated
  <2>2. /\ Cardinality(HandsOf(u)) \in Nat /\ Cardinality(AnswersFor(u)) \in Nat
        /\ tally[u]["raised"] \in Nat /\ Ended(u) \in Nat
    BY HandsCounted, TalliesNat
  <2>3. /\ tally'[u]["raised"] \in Int /\ Ended(u)' \in Int
        /\ Cardinality(HandsOf(u))' \in Int /\ Cardinality(AnswersFor(u))' \in Int
    OBVIOUS
  <2>4. tally'[u]["raised"] - tally[u]["raised"]
          = (Ended(u)' - Ended(u)) + (Cardinality(HandsOf(u))' - Cardinality(HandsOf(u)))
            + (Cardinality(AnswersFor(u))' - Cardinality(AnswersFor(u)))
    OBVIOUS
  <2> QED BY <2>1, <2>2, <2>3, <2>4
<1> QED BY <1>1 DEF HandsAddUp, Ended, HandsOf, AnswersFor

LEMMA RaiseKeepsHands ==
  ASSUME GatewayConstants, Typed, HandsAddUp, NEW c \in play.calls, Raise(c)
  PROVE  HandsAddUp'
<1>1. /\ Messages[c].t = "request" /\ Stage(c, "done") /\ UNCHANGED play
      /\ \/ UNCHANGED <<hands, tally>>
         \/ /\ Hand(Messages[c], OwnerOf[Messages[c].from]) \notin hands
            /\ hands' = hands \cup {Hand(Messages[c], OwnerOf[Messages[c].from])}
            /\ tally' = Tallied(OwnerOf[Messages[c].from], "raised")
  BY DEF Raise, At
<1>2. \A d \in play.calls : d # c => handling'[d] = handling[d]
  BY <1>1, Staged DEF Typed, HandlerStages
<1>3. InAnswer(c)' <=> InAnswer(c)
  BY <1>1 DEF InAnswer
<1>4. CASE UNCHANGED <<hands, tally>>
  <2>1. \A d \in play.calls : InAnswer(d)' <=> InAnswer(d)
    BY <1>2, <1>3 DEF InAnswer
  <2> QED BY <1>1, <1>4, <2>1, HandsStay DEF HandsQuiet
<1>5. CASE /\ Hand(Messages[c], OwnerOf[Messages[c].from]) \notin hands
           /\ hands' = hands \cup {Hand(Messages[c], OwnerOf[Messages[c].from])}
           /\ tally' = Tallied(OwnerOf[Messages[c].from], "raised")
  <2>1. PICK u \in Persons : u = OwnerOf[Messages[c].from]
    BY PlayShape DEF Typed, HandlersTyped
  <2>2. PICK x \in (Rooms \X Persons) \ hands : x = Hand(Messages[c], u)
    BY <1>5, <2>1, PlayShape DEF Hand, Typed, HandlersTyped
  <2>3. x[2] = u /\ hands' = hands \cup {x} /\ tally' = Tallied(u, "raised") /\ "raised" \in Fates
    BY <1>5, <2>1, <2>2 DEF Hand, Fates
  <2>4. \A v \in Persons : /\ Ended(v)' = Ended(v)
                           /\ tally'[v]["raised"] = tally[v]["raised"] + (IF v = u THEN 1 ELSE 0)
    BY <2>3, TalliedShape, TalliesNat
  <2>5. \A v \in Persons : Cardinality(HandsOf(v))' = Cardinality(HandsOf(v)) + (IF v = u THEN 1 ELSE 0)
    BY <2>2, <2>3, HandGoesUp
  <2>6. \A v \in Persons : Cardinality(AnswersFor(v))' = Cardinality(AnswersFor(v))
    BY <1>1, <1>2, <1>3, AnswersStay, HandsCounted
  <2>7. \A v \in Persons : /\ Cardinality(HandsOf(v)) \in Nat /\ Cardinality(AnswersFor(v)) \in Nat
                            /\ tally[v]["raised"] \in Nat /\ Ended(v) \in Nat
    BY HandsCounted, TalliesNat
  <2> QED BY <2>4, <2>5, <2>6, <2>7, HandsStep
<1> QED BY <1>1, <1>4, <1>5

LEMMA HandsSame ==
  UNCHANGED hands =>
      \A u \in Persons : /\ HandsOf(u)' = HandsOf(u)
                         /\ Cardinality(HandsOf(u))' = Cardinality(HandsOf(u))
<1> SUFFICES ASSUME UNCHANGED hands, NEW u \in Persons
             PROVE  HandsOf(u)' = HandsOf(u) /\ Cardinality(HandsOf(u)') = Cardinality(HandsOf(u))
  OBVIOUS
<1>1. HandsOf(u)' = HandsOf(u)
  BY DEF HandsOf
<1> QED BY <1>1

LEMMA CancelKeepsHands ==
  ASSUME GatewayConstants, Typed, HandsAddUp, NEW c \in play.calls, Cancel(c)
  PROVE  HandsAddUp'
<1>1. /\ Messages[c].t = "cancel" /\ Stage(c, "done") /\ UNCHANGED play
      /\ \/ UNCHANGED <<hands, tally>>
         \/ /\ Hand(Messages[c], OwnerOf[Messages[c].from]) \in hands
            /\ hands' = hands \ {Hand(Messages[c], OwnerOf[Messages[c].from])}
            /\ tally' = Tallied(OwnerOf[Messages[c].from], "cancelled")
  BY DEF Cancel, At
<1>2. \A d \in play.calls : d # c => handling'[d] = handling[d]
  BY <1>1, Staged DEF Typed, HandlerStages
<1>3. InAnswer(c)' <=> InAnswer(c)
  BY <1>1 DEF InAnswer
<1>4. CASE UNCHANGED <<hands, tally>>
  <2>1. \A d \in play.calls : InAnswer(d)' <=> InAnswer(d)
    BY <1>2, <1>3 DEF InAnswer
  <2> QED BY <1>1, <1>4, <2>1, HandsStay DEF HandsQuiet
<1>5. CASE /\ Hand(Messages[c], OwnerOf[Messages[c].from]) \in hands
           /\ hands' = hands \ {Hand(Messages[c], OwnerOf[Messages[c].from])}
           /\ tally' = Tallied(OwnerOf[Messages[c].from], "cancelled")
  <2>1. PICK u \in Persons : u = OwnerOf[Messages[c].from]
    BY PlayShape DEF Typed, HandlersTyped
  <2>2. PICK x \in hands : x = Hand(Messages[c], u)
    BY <1>5, <2>1
  <2>3. x[2] = u /\ hands' = hands \ {x} /\ tally' = Tallied(u, "cancelled") /\ "cancelled" \in Fates
    BY <1>5, <2>1, <2>2 DEF Hand, Fates
  <2>4. \A v \in Persons : /\ Ended(v)' = Ended(v) + (IF v = u THEN 1 ELSE 0)
                           /\ tally'[v]["raised"] = tally[v]["raised"]
    BY <2>3, TalliedShape, TalliesNat
  <2>5. \A v \in Persons : Cardinality(HandsOf(v))' = Cardinality(HandsOf(v)) - (IF v = u THEN 1 ELSE 0)
    BY <2>2, <2>3, HandComesDown, HandsCounted
  <2>6. \A v \in Persons : Cardinality(AnswersFor(v))' = Cardinality(AnswersFor(v))
    BY <1>1, <1>2, <1>3, AnswersStay, HandsCounted
  <2>7. \A v \in Persons : /\ Cardinality(HandsOf(v)) \in Nat /\ Cardinality(AnswersFor(v)) \in Nat
                            /\ tally[v]["raised"] \in Nat /\ Ended(v) \in Nat
    BY HandsCounted, TalliesNat
  <2> QED BY <2>4, <2>5, <2>6, <2>7, HandsStep
<1> QED BY <1>1, <1>4, <1>5

LEMMA ResolveKeepsHands ==
  ASSUME GatewayConstants, Typed, HandsAddUp, NEW c \in play.calls, Resolve(c)
  PROVE  HandsAddUp'
<1>1. Messages[c].t = "resolve" /\ handling[c].at = "allowed" /\ UNCHANGED play
  BY DEF Resolve, At
<1>2. ~InAnswer(c)
  BY <1>1 DEF InAnswer
<1>3. PICK u \in Persons : u = Messages[c].user
  BY PlayShape DEF Typed, HandlersTyped
<1>4. CASE ~Pending(Messages[c])
  <2>1. Stage(c, "done") /\ UNCHANGED <<hands, tally>>
    BY <1>4 DEF Resolve
  <2>2. handling'[c].at = "done" /\ \A d \in play.calls : d # c => handling'[d] = handling[d]
    BY <2>1, Staged DEF Typed, HandlerStages
  <2>3. \A d \in play.calls : InAnswer(d)' <=> InAnswer(d)
    BY <1>2, <2>2 DEF InAnswer
  <2> QED BY <1>1, <2>1, <2>3, HandsStay DEF HandsQuiet
<1>5. CASE Pending(Messages[c])
  <2>1. PICK x \in hands : x = Hand(Messages[c], u)
    BY <1>3, <1>5 DEF Pending
  <2>2. x[2] = u /\ hands' = hands \ {x}
    BY <1>3, <1>5, <2>1 DEF Hand, Resolve
  <2>3. CASE Messages[c].yes
    <3>1. Stage(c, "granted") /\ UNCHANGED tally
      BY <1>5, <2>3 DEF Resolve
    <3>2. handling'[c].at = "granted" /\ \A d \in play.calls : d # c => handling'[d] = handling[d]
      BY <3>1, Staged DEF Typed, HandlerStages
    <3>3. InAnswer(c)'
      BY <1>1, <3>2 DEF InAnswer
    <3>4. \A v \in Persons : /\ Ended(v)' = Ended(v)
                             /\ tally'[v]["raised"] = tally[v]["raised"]
      BY <3>1, TalliesNat DEF Ended
    <3>5. \A v \in Persons : Cardinality(HandsOf(v))' = Cardinality(HandsOf(v)) - (IF v = u THEN 1 ELSE 0)
      BY <2>1, <2>2, HandComesDown, HandsCounted
    <3>6. \A v \in Persons : Cardinality(AnswersFor(v))' = Cardinality(AnswersFor(v)) + (IF v = u THEN 1 ELSE 0)
      BY <1>1, <1>2, <1>3, <3>2, <3>3, AnswerBegins, HandsCounted
    <3>7. \A v \in Persons : /\ Cardinality(HandsOf(v)) \in Nat /\ Cardinality(AnswersFor(v)) \in Nat
                              /\ tally[v]["raised"] \in Nat /\ Ended(v) \in Nat
      BY HandsCounted, TalliesNat
    <3> QED BY <3>4, <3>5, <3>6, <3>7, HandsStep
  <2>4. CASE ~Messages[c].yes
    <3>1. Stage(c, "done") /\ tally' = Tallied(u, "denied") /\ "denied" \in Fates
      BY <1>3, <1>5, <2>4 DEF Resolve, Fates
    <3>2. handling'[c].at = "done" /\ \A d \in play.calls : d # c => handling'[d] = handling[d]
      BY <3>1, Staged DEF Typed, HandlerStages
    <3>3. InAnswer(c)' <=> InAnswer(c)
      BY <1>2, <3>2 DEF InAnswer
    <3>4. \A v \in Persons : /\ Ended(v)' = Ended(v) + (IF v = u THEN 1 ELSE 0)
                             /\ tally'[v]["raised"] = tally[v]["raised"]
      BY <3>1, TalliedShape, TalliesNat
    <3>5. \A v \in Persons : Cardinality(HandsOf(v))' = Cardinality(HandsOf(v)) - (IF v = u THEN 1 ELSE 0)
      BY <2>1, <2>2, HandComesDown, HandsCounted
    <3>6. \A v \in Persons : Cardinality(AnswersFor(v))' = Cardinality(AnswersFor(v))
      BY <1>1, <3>2, <3>3, AnswersStay, HandsCounted
    <3>7. \A v \in Persons : /\ Cardinality(HandsOf(v)) \in Nat /\ Cardinality(AnswersFor(v)) \in Nat
                              /\ tally[v]["raised"] \in Nat /\ Ended(v) \in Nat
      BY HandsCounted, TalliesNat
    <3> QED BY <3>4, <3>5, <3>6, <3>7, HandsStep
  <2> QED BY <2>3, <2>4
<1> QED BY <1>4, <1>5

LEMMA PickKeepsHands ==
  ASSUME GatewayConstants, Typed, HandsAddUp, NEW c \in play.calls, PickSeat(c)
  PROVE  HandsAddUp'
<1>1. Messages[c].t = "resolve" /\ handling[c].at = "granted" /\ UNCHANGED <<play, hands>>
  BY DEF PickSeat, At
<1>2. InAnswer(c)
  BY <1>1 DEF InAnswer
<1>3. PICK u \in Persons : u = Messages[c].user
  BY PlayShape DEF Typed, HandlersTyped
<1>4. CASE Stage(c, "done") /\ tally' = Tallied(u, "refused")
  <2>1. handling'[c].at = "done" /\ \A d \in play.calls : d # c => handling'[d] = handling[d]
    BY <1>4, Staged DEF Typed, HandlerStages
  <2>2. ~InAnswer(c)' /\ "refused" \in Fates
    BY <2>1 DEF InAnswer, Fates
  <2>3. \A v \in Persons : /\ Ended(v)' = Ended(v) + (IF v = u THEN 1 ELSE 0)
                           /\ tally'[v]["raised"] = tally[v]["raised"]
    BY <1>4, <2>2, TalliedShape, TalliesNat
  <2>4. \A v \in Persons : Cardinality(HandsOf(v))' = Cardinality(HandsOf(v))
    BY <1>1, HandsCounted, HandsSame
  <2>5. \A v \in Persons : Cardinality(AnswersFor(v))' = Cardinality(AnswersFor(v)) - (IF v = u THEN 1 ELSE 0)
    BY <1>1, <1>2, <1>3, <2>1, <2>2, AnswerEnds, HandsCounted
  <2>6. \A v \in Persons : /\ Cardinality(HandsOf(v)) \in Nat /\ Cardinality(AnswersFor(v)) \in Nat
                            /\ tally[v]["raised"] \in Nat /\ Ended(v) \in Nat
    BY HandsCounted, TalliesNat
  <2> QED BY <2>3, <2>4, <2>5, <2>6, HandsStep
<1>5. CASE /\ \E p : handling' = [handling EXCEPT ![c].at = "picked", ![c].place = p]
           /\ UNCHANGED tally
  <2>1. PICK p : handling' = [handling EXCEPT ![c].at = "picked", ![c].place = p]
    BY <1>5
  <2>2. handling \in [play.calls -> Handling] /\ handling[c] \in Handling
    BY DEF Typed, HandlersTyped
  <2>3. handling'[c].at = "picked" /\ \A d \in play.calls : d # c => handling'[d] = handling[d]
    BY <2>1, <2>2 DEF Handling
  <2>4. \A d \in play.calls : InAnswer(d)' <=> InAnswer(d)
    BY <1>1, <1>2, <2>3 DEF InAnswer
  <2> QED BY <1>1, <1>5, <2>4, HandsStay DEF HandsQuiet
<1> QED BY <1>3, <1>4, <1>5 DEF PickSeat

LEMMA SitKeepsHands ==
  ASSUME GatewayConstants, Typed, HandsAddUp, NEW c \in play.calls, Sit(c)
  PROVE  HandsAddUp'
<1>1. /\ Messages[c].t = "resolve" /\ handling[c].at = "picked" /\ UNCHANGED <<play, hands>>
      /\ Stage(c, "done")
  BY DEF Sit, At
<1>2. InAnswer(c)
  BY <1>1 DEF InAnswer
<1>3. PICK u \in Persons : u = Messages[c].user
  BY PlayShape DEF Typed, HandlersTyped
<1>4. PICK f \in Fates \ {"raised"} : tally' = Tallied(u, f)
  BY <1>3 DEF Sit, Fates
<1>5. handling'[c].at = "done" /\ \A d \in play.calls : d # c => handling'[d] = handling[d]
  BY <1>1, Staged DEF Typed, HandlerStages
<1>6. ~InAnswer(c)'
  BY <1>5 DEF InAnswer
<1>7. \A v \in Persons : /\ Ended(v)' = Ended(v) + (IF v = u THEN 1 ELSE 0)
                         /\ tally'[v]["raised"] = tally[v]["raised"]
  BY <1>4, TalliedShape, TalliesNat
<1>8. \A v \in Persons : Cardinality(HandsOf(v))' = Cardinality(HandsOf(v))
  BY <1>1, HandsCounted, HandsSame
<1>9. \A v \in Persons : Cardinality(AnswersFor(v))' = Cardinality(AnswersFor(v)) - (IF v = u THEN 1 ELSE 0)
  BY <1>1, <1>2, <1>3, <1>5, <1>6, AnswerEnds, HandsCounted
<1>10. \A v \in Persons : /\ Cardinality(HandsOf(v)) \in Nat /\ Cardinality(AnswersFor(v)) \in Nat
                          /\ tally[v]["raised"] \in Nat /\ Ended(v) \in Nat
  BY HandsCounted, TalliesNat
<1> QED BY <1>7, <1>8, <1>9, <1>10, HandsStep

-----------------------------------------------------------------------------
(* The steps that give and free seats.                                     *)

LEMMA SeatGiven ==
  ASSUME GatewayConstants, Typed, OneSeatEach, NEW r \in Rooms, NEW i, NEW u \in Persons,
         held' = [held EXCEPT ![r][i] = u],
         i \in Places => (held[r][i] = u \/ u \notin SeatedIn(r))
  PROVE  OneSeatEach'
<1>1. held \in [Rooms -> [Places -> Persons \cup {Unseated}]] /\ u # Unseated
  BY DEF Typed, SeatsTyped, GatewayConstants
<1>2. \A q \in Rooms, j \in Places :
        held'[q][j] = IF q = r /\ j = i THEN u ELSE held[q][j]
  BY <1>1
<1>3. ASSUME i \in Places, NEW j \in Places, held[r][j] = u
      PROVE  j = i
  <2>1. u \in SeatedIn(r)
    BY <1>1, <1>3 DEF SeatedIn
  <2>2. held[r][i] = held[r][j] /\ held[r][i] # Unseated
    BY <1>1, <1>3, <2>1
  <2> QED BY <1>3, <2>2 DEF OneSeatEach
<1>4. SUFFICES ASSUME NEW q \in Rooms, NEW j \in Places, NEW k \in Places,
                      held'[q][j] = held'[q][k], held'[q][j] # Unseated
               PROVE  j = k
  BY DEF OneSeatEach
<1>5. CASE q # r \/ (j # i /\ k # i)
  <2>1. held'[q][j] = held[q][j] /\ held'[q][k] = held[q][k]
    BY <1>2, <1>5
  <2> QED BY <1>4, <2>1 DEF OneSeatEach
<1>6. CASE q = r /\ j = i /\ k # i
  <2>1. held[r][k] = u
    BY <1>2, <1>4, <1>6
  <2> QED BY <1>3, <1>6, <2>1
<1>7. CASE q = r /\ k = i /\ j # i
  <2>1. held[r][j] = u
    BY <1>2, <1>4, <1>7
  <2> QED BY <1>3, <1>7, <2>1
<1>8. CASE j = i /\ k = i
  BY <1>8
<1> QED BY <1>5, <1>6, <1>7, <1>8

LEMMA SeatsFreed ==
  ASSUME OneSeatEach, \A r \in Rooms, i \in Places : held'[r][i] \in {held[r][i], Unseated}
  PROVE  OneSeatEach'
BY DEF OneSeatEach

LEMMA SitKeepsSeats ==
  ASSUME GatewayConstants, Typed, OneSeatEach, NEW c \in play.calls, Sit(c)
  PROVE  OneSeatEach'
<1>1. Messages[c].room \in Rooms /\ Messages[c].user \in Persons
  BY PlayShape DEF Typed, HandlersTyped
<1>2. held \in [Rooms -> [Places -> Persons \cup {Unseated}]]
  BY DEF Typed, SeatsTyped
<1>3. \/ /\ CanSit(Messages[c], handling[c].place)
         /\ held' = [held EXCEPT ![Messages[c].room][handling[c].place] = Messages[c].user]
      \/ held' = held
      \/ held' = [held EXCEPT ![Messages[c].room][handling[c].place] = Unseated]
  BY DEF Sit
<1>4. CASE /\ CanSit(Messages[c], handling[c].place)
           /\ held' = [held EXCEPT ![Messages[c].room][handling[c].place] = Messages[c].user]
  <2>1. \/ held[Messages[c].room][handling[c].place] = Messages[c].user
        \/ Messages[c].user \notin SeatedIn(Messages[c].room)
    BY <1>4 DEF CanSit
  <2> QED BY <1>1, <1>4, <2>1, SeatGiven
<1>5. CASE held' = held
  BY <1>5 DEF OneSeatEach
<1>6. CASE held' = [held EXCEPT ![Messages[c].room][handling[c].place] = Unseated]
  BY <1>1, <1>2, <1>6, SeatsFreed
<1> QED BY <1>3, <1>4, <1>5, <1>6

LEMMA HttpKeepsSeats ==
  ASSUME GatewayConstants, Typed, OneSeatEach, NEW r \in Rooms, NEW u \in Persons,
         SeatOverHttp(r, u)
  PROVE  OneSeatEach'
<1>1. held \in [Rooms -> [Places -> Persons \cup {Unseated}]]
  BY DEF Typed, SeatsTyped
<1>2. \/ \E i \in Places : held' = [held EXCEPT ![r][i] = u] /\ u \notin SeatedIn(r)
      \/ \E i \in Places : held' = [held EXCEPT ![r][i] = Unseated]
  BY DEF SeatOverHttp
<1>3. CASE \E i \in Places : held' = [held EXCEPT ![r][i] = u] /\ u \notin SeatedIn(r)
  BY <1>3, SeatGiven
<1>4. CASE \E i \in Places : held' = [held EXCEPT ![r][i] = Unseated]
  BY <1>1, <1>4, SeatsFreed
<1> QED BY <1>2, <1>3, <1>4

LEMMA KickKeepsSeats ==
  ASSUME GatewayConstants, Typed, OneSeatEach, NEW u \in Persons, Kick(u)
  PROVE  OneSeatEach'
BY SeatsFreed DEF Kick

LEMMA EndKeepsSeats ==
  ASSUME GatewayConstants, Typed, OneSeatEach, NEW r \in Rooms, RoomEnds(r)
  PROVE  OneSeatEach'
BY SeatsFreed DEF RoomEnds, Typed, SeatsTyped

-----------------------------------------------------------------------------
(* The steps that move a clock: time, entering, a visit, a grant.          *)

LEMMA KeptShape ==
  ASSUME Typed, NEW s \in Sockets
  PROVE  /\ pays[s] \in Nat /\ repaid[s] \in Nat /\ Kept(s) \in Nat
         /\ Kept(s) = pays[s] - repaid[s]
BY DEF Typed, ClocksTyped, Kept

LEMMA ClockShape ==
  ASSUME GatewayConstants, Typed, NEW s \in Sockets
  PROVE  /\ Accrual \in Nat /\ Accrual > 0 /\ Interval \in Nat /\ lapses[s] \in Nat /\ Kept(s) \in Nat
         /\ spent[s] \in Nat /\ clock[s].accrued \in Nat /\ clock[s].at \in Nat
         /\ clock[s].no \in Nat
         /\ time \in Nat /\ clock[s].at <= time /\ clock[s] \in Clock
         /\ Accrual * lapses[s] \in Nat /\ Accrual * (lapses[s] + 1) = Accrual * lapses[s] + Accrual
         /\ Cardinality(Granting(s)) \in Nat /\ Owing(s) \in Nat /\ Owing(s) <= Accrual
         /\ Owing(s) = Accrual \/ Owing(s) = time - clock[s].at
<1>1. /\ Accrual \in Nat /\ Accrual > 0 /\ Interval \in Nat /\ lapses[s] \in Nat /\ Kept(s) \in Nat
      /\ spent[s] \in Nat /\ clock[s].accrued \in Nat /\ clock[s].at \in Nat /\ clock[s].no \in Nat
      /\ time \in Nat /\ clock[s].at <= time /\ clock[s] \in Clock
  BY DEF GatewayConstants, Typed, ClocksTyped, Clock, Kept
<1>2. Accrual * lapses[s] \in Nat /\ Accrual * (lapses[s] + 1) = Accrual * lapses[s] + Accrual
  BY <1>1, Times
<1>3. Owing(s) \in Nat /\ Owing(s) <= Accrual /\ (Owing(s) = Accrual \/ Owing(s) = time - clock[s].at)
  BY <1>1 DEF Owing
<1> QED BY <1>1, <1>2, <1>3, GrantsFinite

LEMMA AdvanceKeepsClocks ==
  ASSUME GatewayConstants, Typed, ClocksSound, Advance
  PROVE  ClocksSound'
<1>1. /\ UNCHANGED <<play, roomOf, handling, clock, pays, repaid, lapses>> /\ time' = time + 1
      /\ \A s \in Sockets : spent'[s] = IF Watches(s) THEN spent[s] + 1 ELSE spent[s]
      /\ \A s \in Sockets : sock'[s] \in {sock[s], "closing"}
  BY DEF Advance, Watches
<1> SUFFICES ASSUME NEW s \in Sockets
             PROVE  Credit(s)' >= 0 /\ (Watches(s)' => Credit(s)' >= Owing(s)')
  BY DEF ClocksSound
<1>2. Granting(s)' = Granting(s)
  BY <1>1 DEF Granting
<1>3. Watches(s)' => Watches(s)
  BY <1>1 DEF Watches, IsOpen
<1>4. PICK p \in Nat : p = (Kept(s) + Cardinality(Granting(s))) * Interval
  BY ClockShape, Times
<1>5. Credit(s)' = Credit(s) + (IF Watches(s) THEN 1 ELSE 0) /\ Credit(s) \in Int
  <2>1. Kept(s)' = Kept(s)
    BY <1>1 DEF Kept
  <2>2. Credit(s)' = spent'[s] + Accrual * lapses[s] - (p + clock[s].accrued)
    BY <1>1, <1>2, <1>4, <2>1 DEF Credit
  <2>3. Credit(s) = spent[s] + Accrual * lapses[s] - (p + clock[s].accrued)
    BY <1>4 DEF Credit
  <2>4. /\ Accrual * lapses[s] \in Nat /\ p \in Nat /\ spent[s] \in Nat
        /\ clock[s].accrued \in Nat
    BY <1>4, ClockShape
  <2>5. spent'[s] = spent[s] + (IF Watches(s) THEN 1 ELSE 0)
    BY <1>1, <2>4
  <2>6. \A a, e, n \in Nat, i \in {0, 1} :
          (n + i) + a - (p + e) = n + a - (p + e) + i /\ n + a - (p + e) \in Int
    BY <2>4
  <2> QED BY <2>2, <2>3, <2>4, <2>5, <2>6
<1>6. Owing(s)' <= Owing(s) + 1 /\ Owing(s)' \in Int /\ Owing(s) \in Int
  BY <1>1, ClockShape DEF Owing
<1>7. Credit(s) >= 0 /\ (Watches(s) => Credit(s) >= Owing(s))
  BY DEF ClocksSound
<1> QED BY <1>3, <1>5, <1>6, <1>7

LEMMA EnterKeepsClocks ==
  ASSUME GatewayConstants, Typed, ClocksSound, NEW c \in play.calls,
         OwnerOf[Messages[c].from] \notin barred, EnterRoom(c)
  PROVE  ClocksSound'
<1> DEFINE from == Messages[c].from
           room == Messages[c].room
<1>1. /\ UNCHANGED <<play, sock, time, pays, repaid, spent>>
      /\ handling' = [handling EXCEPT ![c].at = "entered", ![c].left = Deserted(Messages[c])]
      /\ roomOf' = [roomOf EXCEPT ![from] = room]
      /\ clock' = [clock EXCEPT ![from] = ClockIn(from, room)]
      /\ lapses' = [lapses EXCEPT ![from] = IF clock[from].room = room THEN @ + 1 ELSE @]
  BY DEF EnterRoom
<1>2. from \in Sockets /\ room \in Rooms /\ Nowhere \notin Rooms
  BY PlayShape DEF GatewayConstants, Typed, HandlersTyped
<1>3. \A d \in play.calls : handling'[d].for = handling[d].for
  BY <1>1 DEF Typed, HandlersTyped, Handling
<1> SUFFICES ASSUME NEW s \in Sockets
             PROVE  Credit(s)' >= 0 /\ (Watches(s)' => Credit(s)' >= Owing(s)')
  BY DEF ClocksSound
<1>4. Granting(s)' = Granting(s)
  BY <1>1, <1>3 DEF Granting
<1>5. PICK p \in Nat : p = (Kept(s) + Cardinality(Granting(s))) * Interval
  BY ClockShape, Times
<1>6. Credit(s) \in Int /\ Credit(s) >= 0 /\ (Watches(s) => Credit(s) >= Owing(s))
  BY <1>5, ClockShape DEF ClocksSound, Credit
<1>7. CASE s # from
  <2>1. roomOf'[s] = roomOf[s] /\ clock'[s] = clock[s] /\ lapses'[s] = lapses[s]
    BY <1>1, <1>2, <1>7 DEF Typed, HubTyped, ClocksTyped
  <2>2. Credit(s)' = Credit(s)
    BY <1>1, <1>4, <2>1 DEF Credit, Kept
  <2>3. Owing(s)' = Owing(s) /\ (Watches(s)' <=> Watches(s))
    BY <1>1, <2>1 DEF Owing, Watches, IsOpen
  <2> QED BY <1>6, <2>2, <2>3
<1>8. CASE s = from
  <2>1. /\ roomOf'[s] = room /\ clock'[s] = ClockIn(s, room)
        /\ lapses'[s] = IF clock[s].room = room THEN lapses[s] + 1 ELSE lapses[s]
    BY <1>1, <1>2, <1>8 DEF Typed, HubTyped, ClocksTyped
  <2>2. /\ Accrual * lapses'[s] \in Nat /\ Accrual * lapses'[s] >= Accrual * lapses[s]
        /\ clock[s].room = room => Accrual * lapses'[s] = Accrual * lapses[s] + Accrual
    BY <2>1, ClockShape
  <2>3. CASE clock[s].room = room /\ clock'[s] = clock[s]
    <3>1. Credit(s)' = Credit(s) + Accrual
      BY <1>1, <1>4, <1>5, <2>2, <2>3, ClockShape DEF Credit, Kept
    <3>2. Owing(s)' = Owing(s)
      BY <1>1, <2>3 DEF Owing
    <3> QED BY <1>6, <3>1, <3>2, ClockShape
  <2>4. CASE clock'[s].accrued = 0 /\ clock'[s].at = time
    <3>1. Credit(s)' >= Credit(s) /\ Credit(s)' \in Int
      BY <1>1, <1>4, <1>5, <2>2, <2>4, ClockShape DEF Credit, Kept
    <3>2. Owing(s)' = 0
      BY <1>1, <2>4, ClockShape DEF Owing
    <3> QED BY <1>6, <3>1, <3>2
  <2>5. \/ clock[s].room = room /\ clock'[s] = clock[s]
        \/ clock'[s].accrued = 0 /\ clock'[s].at = time
    <3>1. PICK f : f = FreshClock(s, room)
      OBVIOUS
    <3>2. PICK n \in Nat : n = clock[s].no + 1
      BY ClockShape
    <3>3. f = [no |-> n, room |-> room, accrued |-> 0, at |-> time, capped |-> -1]
      BY <3>1, <3>2 DEF FreshClock, NoClock
    <3>4. PICK g : g = [f EXCEPT !.room = Nowhere]
      OBVIOUS
    <3>5. f.accrued = 0 /\ f.at = time /\ g.accrued = 0 /\ g.at = time
      BY <3>3, <3>4
    <3>6. clock'[s] = g \/ (clock[s].room = room /\ clock'[s] = clock[s]) \/ clock'[s] = f
      BY <2>1, <3>1, <3>4 DEF ClockIn
    <3> QED BY <3>5, <3>6
  <2> QED BY <2>3, <2>4, <2>5
<1> QED BY <1>7, <1>8

\* A step that leaves a socket's clock, and what it is granted, alone.
LEMMA ClockUntouched ==
  ASSUME ClocksSound, NEW s \in Sockets, UNCHANGED <<sock, roomOf, time, spent>>,
         clock'[s] = clock[s], lapses'[s] = lapses[s], pays'[s] = pays[s],
         repaid'[s] = repaid[s],
         Granting(s)' = Granting(s)
  PROVE  Credit(s)' >= 0 /\ (Watches(s)' => Credit(s)' >= Owing(s)')
<1>1. Credit(s)' = Credit(s) /\ Owing(s)' = Owing(s) /\ (Watches(s)' <=> Watches(s))
  BY DEF Credit, Kept, Owing, Watches, IsOpen
<1> QED BY <1>1 DEF ClocksSound

LEMMA VisitKeepsClocks ==
  ASSUME GatewayConstants, Typed, ClocksSound, NEW c \in play.calls, NEW s \in Sockets,
         Visit(c, s)
  PROVE  ClocksSound'
<1>1. /\ UNCHANGED <<play, sock, roomOf, time, pays, repaid, spent>> /\ handling[c].at = "visiting"
      /\ handling[c].for = {}
  BY DEF Visit, At, hubVars, Typed, CallsSound
<1>2. \A d \in play.calls : d # c => handling'[d] = handling[d]
  BY DEF Visit, Typed, HandlersTyped
<1> SUFFICES ASSUME NEW x \in Sockets
             PROVE  Credit(x)' >= 0 /\ (Watches(x)' => Credit(x)' >= Owing(x)')
  BY DEF ClocksSound
<1>3. /\ clock \in [Sockets -> Clock] /\ lapses \in [Sockets -> Nat] /\ clock[s] \in Clock
      /\ handling \in [play.calls -> Handling] /\ handling[c] \in Handling
  BY DEF Typed, ClocksTyped, HandlersTyped
<1>4. CASE ~Counts(c, s)
  <2>1. handling' = [handling EXCEPT ![c].visited = @ \cup {s}] /\ UNCHANGED <<clock, lapses>>
    BY <1>4 DEF Visit
  <2>2. handling'[c].for = {}
    BY <1>1, <1>3, <2>1 DEF Handling
  <2>3. Granting(x)' = Granting(x)
    BY <1>1, <1>2, <2>2 DEF Granting
  <2> QED BY <1>1, <2>1, <2>3, ClockUntouched
<1>5. CASE Counts(c, s)
  <2>1. PICK sum \in Nat : sum = clock[s].accrued + Gain(c, s)
    BY ClockShape, GainBounds
  <2>2. PICK left \in Nat : left = IF sum < Interval THEN sum ELSE sum - Interval
    BY ClockShape
  <2>3. clock' = [clock EXCEPT ![s].at = handling[c].time, ![s].accrued = left]
    BY <1>5, <2>1, <2>2 DEF Visit
  <2>4. lapses' = [lapses EXCEPT ![s] = IF handling[c].time < time THEN @ + 1 ELSE @]
    BY <1>5 DEF Visit
  <2>5. /\ sum < Interval => handling'[c].for = {}
        /\ sum >= Interval => handling'[c].for = {<<s, clock[s].no>>}
    <3>1. CASE sum < Interval
      <4>1. handling' = [handling EXCEPT ![c].visited = @ \cup {s}]
        BY <1>5, <2>1, <3>1 DEF Visit
      <4> QED BY <1>1, <1>3, <3>1, <4>1, ClockShape DEF Handling
    <3>2. CASE sum >= Interval
      <4>2. ~(clock[s].accrued + Gain(c, s) < Interval)
        BY <2>1, <3>2, ClockShape
      <4>1. handling' = [[handling EXCEPT ![c].visited = @ \cup {s}]
                           EXCEPT ![c].at = "granting", ![c].for = {<<s, clock[s].no>>}]
        BY <1>5, <4>2 DEF Visit
      <4> QED BY <1>1, <1>3, <3>2, <4>1, ClockShape DEF Handling
    <3> QED BY <3>1, <3>2, ClockShape
  <2>6. CASE x # s
    <3>1. clock'[x] = clock[x] /\ lapses'[x] = lapses[x]
      BY <1>3, <2>3, <2>4, <2>6
    <3>2. \A y \in handling'[c].for : y[1] # x
      BY <2>5, <2>6, ClockShape
    <3>3. Granting(x)' = Granting(x)
      BY <1>1, <1>2, <3>2 DEF Granting
    <3> QED BY <1>1, <3>1, <3>3, ClockUntouched
  <2>7. CASE x = s
    <3>1. PICK h \in Nat : h = handling[c].time /\ h <= time
      BY DEF Typed, HandlersTyped, Handling, CallsSound
    <3>2. /\ clock'[s].accrued = left /\ clock'[s].at = h /\ clock'[s].room = clock[s].room
          /\ lapses'[s] = IF h < time THEN lapses[s] + 1 ELSE lapses[s]
      BY <1>3, <2>3, <2>4, <3>1 DEF Clock
    <3>3. Cardinality(Granting(s)') = Cardinality(Granting(s)) + (IF sum < Interval THEN 0 ELSE 1)
      <4>1. c \notin Granting(s)
        BY <1>1 DEF Granting
      <4>2. CASE sum < Interval
        <5>1. Granting(s)' = Granting(s)
          BY <1>1, <1>2, <2>5, <4>2 DEF Granting
        <5> QED BY <4>2, <5>1, GrantsFinite
      <4>3. CASE sum >= Interval
        <5>4. handling'[c].for = {<<s, clock[s].no>>}
          BY <2>5, <4>3
        <5>2. \E y \in handling'[c].for : y[1] = s
          BY <5>4
        <5>1. Granting(s)' = Granting(s) \cup {c}
          BY <1>1, <1>2, <5>2 DEF Granting
        <5>3. Cardinality(Granting(s) \cup {c}) = Cardinality(Granting(s)) + 1
          BY <4>1, GrantsFinite, FS_AddElement
        <5> QED BY <4>3, <5>1, <5>3, ClockShape
      <4> QED BY <4>2, <4>3, ClockShape
    <3>15. Kept(s)' = Kept(s)
      BY <1>1 DEF Kept
    <3>4. PICK g \in Nat : g = Kept(s) + Cardinality(Granting(s))
      BY ClockShape
    <3>5. /\ g * Interval \in Nat /\ (g + 1) * Interval = g * Interval + Interval
      BY <3>4, ClockShape, Times
    <3>6. (Kept(s) + Cardinality(Granting(s)')) * Interval + left = g * Interval + sum
      <4>1. CASE sum < Interval
        BY <1>1, <2>2, <3>3, <3>4, <3>5, <4>1, ClockShape
      <4>2. CASE sum >= Interval
        <5>1. Kept(s) + Cardinality(Granting(s)') = g + 1
          BY <1>1, <3>3, <3>4, <4>2, ClockShape
        <5> QED BY <2>2, <3>5, <4>2, <5>1, ClockShape
      <4> QED BY <4>1, <4>2, ClockShape
    <3>7. PICK k \in Nat : k = Gain(c, s)
      BY GainBounds
    <3>8. Accrual * lapses'[s] = Accrual * lapses[s] + (IF h < time THEN Accrual ELSE 0)
      BY <3>1, <3>2, ClockShape
    <3>9. Credit(s)' = Credit(s) - k + (IF h < time THEN Accrual ELSE 0) /\ Credit(s) \in Int
      <4>1. Credit(s) = spent[s] + Accrual * lapses[s] - (g * Interval + clock[s].accrued)
        BY <3>4 DEF Credit
      <4>2. Credit(s)' = spent[s] + Accrual * lapses'[s]
                           - ((Kept(s) + Cardinality(Granting(s)')) * Interval + left)
        BY <1>1, <3>2, <3>15 DEF Credit
      <4>3. Credit(s)' = spent[s] + Accrual * lapses'[s] - (g * Interval + sum)
        BY <3>6, <4>2
      <4>4. sum = clock[s].accrued + k
        BY <2>1, <3>7
      <4>5. /\ spent[s] \in Nat /\ Accrual * lapses[s] \in Nat /\ Accrual \in Nat
            /\ clock[s].accrued \in Nat /\ g * Interval \in Nat
        BY <3>5, ClockShape
      <4> QED BY <3>8, <4>1, <4>3, <4>4, <4>5
    <3>10. Watches(s)
      BY <1>5 DEF Counts, Watches
    <3>11. Credit(s) >= Owing(s)
      BY <3>10 DEF ClocksSound
    <3>12. /\ k <= Accrual /\ (h <= clock[s].at => k = 0)
           /\ (h >= clock[s].at => k <= h - clock[s].at)
      BY <3>1, <3>7, GainBounds
    <3>13. Owing(s)' = IF time - h <= Accrual THEN time - h ELSE Accrual
      BY <1>1, <3>2 DEF Owing
    <3>14. Credit(s)' >= Owing(s)' /\ Owing(s)' >= 0 /\ Credit(s)' >= 0
      BY <3>1, <3>9, <3>11, <3>12, <3>13, ClockShape
    <3> QED BY <2>7, <3>14
  <2> QED BY <2>6, <2>7
<1> QED BY <1>4, <1>5

LEMMA GrantKeepsClocks ==
  ASSUME GatewayConstants, Typed, ClocksSound, NEW c \in play.calls, GrantReward(c)
  PROVE  ClocksSound'
<1>1. /\ UNCHANGED <<play, sock, roomOf, time, spent, lapses>>
      /\ handling' = [handling EXCEPT ![c].at = "visiting", ![c].for = {}]
  BY DEF GrantReward, hubVars
<1>2. PICK s \in Sockets, n \in Nat : handling[c].for = {<<s, n>>}
  BY DEF GrantReward, Typed, CallsSound
<1>3. {y[1] : y \in handling[c].for} = {s}
  BY <1>2
<1>4. \/ pays' = [pays EXCEPT ![s] = @ + 1] /\ repaid' = repaid /\ clock' = clock
      \/ /\ clock' \in {clock, [clock EXCEPT ![s].capped = Today(c), ![s].accrued = 0],
                        [clock EXCEPT ![s].accrued = @ + Interval]}
         /\ \/ pays' = pays /\ repaid' = repaid
            \/ pays' = [pays EXCEPT ![s] = @ + 1] /\ repaid' = [repaid EXCEPT ![s] = @ + 1]
  BY <1>3 DEF GrantReward, GivenBack
<1>5. /\ clock \in [Sockets -> Clock] /\ clock[s] \in Clock
      /\ pays \in [Sockets -> Nat] /\ repaid \in [Sockets -> Nat]
      /\ handling \in [play.calls -> Handling] /\ handling[c] \in Handling
  BY DEF Typed, ClocksTyped, HandlersTyped
<1>6. handling'[c].for = {} /\ \A d \in play.calls : d # c => handling'[d] = handling[d]
  BY <1>1, <1>5 DEF Handling
<1> SUFFICES ASSUME NEW x \in Sockets
             PROVE  Credit(x)' >= 0 /\ (Watches(x)' => Credit(x)' >= Owing(x)')
  BY DEF ClocksSound
<1>7. CASE x # s
  <2>1. /\ clock'[x] = clock[x] /\ lapses'[x] = lapses[x]
        /\ pays'[x] = pays[x] /\ repaid'[x] = repaid[x]
    BY <1>1, <1>4, <1>5, <1>7
  <2>2. c \notin Granting(x)
    BY <1>2, <1>7 DEF Granting
  <2>3. Granting(x)' = Granting(x)
    BY <1>1, <1>6, <2>2 DEF Granting
  <2> QED BY <1>1, <2>1, <2>3, ClockUntouched
<1>8. CASE x = s
  <2>1. c \in Granting(s) /\ Granting(s)' = Granting(s) \ {c}
    <3>1. \E y \in handling[c].for : y[1] = s
      BY <1>2
    <3>2. ~\E y \in handling'[c].for : y[1] = s
      BY <1>6
    <3> QED BY <1>1, <1>6, <3>1, <3>2 DEF Granting
  <2>2. PICK g \in Nat : g = Cardinality(Granting(s)')
    BY <2>1, GrantsFinite, FS_RemoveElement, FS_CardinalityType
  <2>3. Cardinality(Granting(s)) = g + 1
    <3>1. Cardinality(Granting(s) \ {c}) = Cardinality(Granting(s)) - 1
      BY <2>1, GrantsFinite, FS_RemoveElement
    <3>2. g = Cardinality(Granting(s)) - 1
      BY <2>1, <2>2, <3>1
    <3> QED BY <3>2, ClockShape
  <2>4. PICK p \in Nat : p = Kept(s) + g
    BY <2>2, ClockShape
  <2>5. /\ p * Interval \in Nat /\ (p + 1) * Interval = p * Interval + Interval
    BY <2>4, ClockShape, Times
  <2>6. Kept(s) + Cardinality(Granting(s)) = p + 1
    <3>1. Kept(s) \in Nat
      BY ClockShape
    <3> QED BY <2>3, <2>4, <3>1
  <2>7. /\ clock'[s].at = clock[s].at /\ clock'[s].room = clock[s].room
        /\ \/ Kept(s)' + g = p + 1 /\ clock'[s].accrued = clock[s].accrued
           \/ /\ Kept(s)' + g = p
              /\ clock'[s].accrued \in {clock[s].accrued, 0, clock[s].accrued + Interval}
    <3>1. pays[s] \in Nat /\ repaid[s] \in Nat /\ Kept(s) = pays[s] - repaid[s] /\ Kept(s) \in Nat
      BY KeptShape
    <3>2. CASE pays' = [pays EXCEPT ![s] = @ + 1] /\ repaid' = repaid /\ clock' = clock
      <4>1. Kept(s)' = Kept(s) + 1
        BY <1>5, <3>1, <3>2 DEF Kept
      <4> QED BY <2>2, <2>4, <3>1, <3>2, <4>1
    <3>3. CASE /\ clock' \in {clock, [clock EXCEPT ![s].capped = Today(c), ![s].accrued = 0],
                              [clock EXCEPT ![s].accrued = @ + Interval]}
               /\ \/ pays' = pays /\ repaid' = repaid
                  \/ pays' = [pays EXCEPT ![s] = @ + 1] /\ repaid' = [repaid EXCEPT ![s] = @ + 1]
      <4>1. Kept(s)' = Kept(s)
        BY <1>5, <3>1, <3>3 DEF Kept
      <4>2. /\ clock'[s].at = clock[s].at /\ clock'[s].room = clock[s].room
            /\ clock'[s].accrued \in {clock[s].accrued, 0, clock[s].accrued + Interval}
        BY <1>5, <3>3 DEF Clock
      <4> QED BY <2>4, <4>1, <4>2
    <3> QED BY <1>4, <3>2, <3>3
  <2>8. Credit(s)' >= Credit(s) /\ Credit(s) \in Int /\ Credit(s)' \in Int
    <3>1. CASE Kept(s)' + g = p + 1 /\ clock'[s].accrued = clock[s].accrued
      BY <1>1, <2>2, <2>5, <2>6, <3>1, ClockShape DEF Credit
    <3>2. CASE /\ Kept(s)' + g = p
               /\ clock'[s].accrued \in {clock[s].accrued, 0, clock[s].accrued + Interval}
      <4>1. PICK a \in Nat : a = clock'[s].accrued /\ a <= clock[s].accrued + Interval
        BY <3>2, ClockShape
      <4>2. Credit(s)' = spent[s] + Accrual * lapses[s] - (p * Interval + a)
        BY <1>1, <2>2, <3>2, <4>1 DEF Credit
      <4>3. Credit(s) = spent[s] + Accrual * lapses[s] - ((p * Interval + Interval) + clock[s].accrued)
        BY <2>5, <2>6 DEF Credit
      <4> QED BY <2>5, <4>1, <4>2, <4>3, ClockShape
    <3> QED BY <2>7, <3>1, <3>2
  <2>9. Owing(s)' = Owing(s) /\ Owing(s) \in Int /\ (Watches(s)' => Watches(s))
    BY <1>1, <2>7, ClockShape DEF Owing, Watches, IsOpen
  <2>10. Credit(s) >= 0 /\ (Watches(s) => Credit(s) >= Owing(s))
    BY DEF ClocksSound
  <2> QED BY <1>8, <2>8, <2>9, <2>10
<1> QED BY <1>7, <1>8

-----------------------------------------------------------------------------
(* The invariant holds at first, and every step keeps it.                  *)

LEMMA QuietKeeps ==
  ASSUME GatewayConstants, GatewayInv, UNCHANGED play, Typed',
         HubQuiet \/ HubAgrees', DoorQuiet \/ Doors',
         ScreensQuiet \/ (LinesSound' /\ ScreensSound'), CountQuiet \/ ViewersAreTold',
         HandsQuiet \/ HandsAddUp', UNCHANGED held \/ OneSeatEach', ClockQuiet \/ ClocksSound'
  PROVE  GatewayInv'
<1>1. HubAgrees' /\ Doors'
  BY HubStays, DoorsStay DEF GatewayInv
<1>2. LinesSound' /\ ScreensSound'
  BY ScreensStay DEF GatewayInv
<1>3. ViewersAreTold'
  BY CountStays DEF GatewayInv, Typed, HubTyped
<1>4. HandsAddUp'
  BY HandsStay DEF GatewayInv
<1>5. OneSeatEach'
  BY DEF GatewayInv, OneSeatEach
<1>6. ClocksSound'
  BY ClocksStay DEF GatewayInv
<1> QED BY <1>1, <1>2, <1>3, <1>4, <1>5, <1>6 DEF GatewayInv

LEMMA StutterQuiet ==
  ASSUME GatewayConstants, Typed, UNCHANGED gatewayVars
  PROVE  UNCHANGED play /\ HubQuiet /\ DoorQuiet /\ ScreensQuiet /\ CountQuiet /\ HandsQuiet
         /\ ClockQuiet
         /\ UNCHANGED held /\ Typed'
<1>1. UNCHANGED <<play, hubVars, handling, lines, screen, seatVars, barred, over, clockVars>>
  BY DEF gatewayVars
<1>2. HubQuiet /\ HandsQuiet /\ UNCHANGED held
  BY <1>1 DEF HubQuiet, HandsQuiet, InAnswer, hubVars, seatVars
<1>3. DoorQuiet /\ CountQuiet
  BY <1>1 DEF DoorQuiet, CountQuiet, Unsettled, Waiting, hubVars, IsOpen
<1>4. ScreensQuiet /\ ClockQuiet
  BY <1>1 DEF ScreensQuiet, ClockQuiet, Stays, hubVars, IsOpen, clockVars
<1>5. HubTyped' /\ HandlersTyped' /\ ScreensTyped' /\ SeatsTyped'
  BY <1>1 DEF Typed, HubTyped, HandlersTyped, ScreensTyped, SeatsTyped, hubVars, seatVars
<1>6. ClocksTyped' /\ CallsSound'
  BY <1>1 DEF Typed, ClocksTyped, CallsSound, clockVars
<1> QED BY <1>1, <1>2, <1>3, <1>4, <1>5, <1>6 DEF Typed

LEMMA LeaveKeeps ==
  ASSUME GatewayConstants, GatewayInv, NEW c \in play.calls, Leave(c)
  PROVE  GatewayInv'
<1>1. UNCHANGED play /\ DoorQuiet /\ ScreensQuiet /\ HandsQuiet /\ ClockQuiet
      /\ UNCHANGED held /\ Typed'
  BY LeaveQuiet DEF GatewayInv
<1>2. HubAgrees'
  <2>1. Messages[c].from \in Sockets
    BY PlayShape DEF GatewayInv, Typed, HandlersTyped
  <2> QED BY <2>1, MovedOut DEF GatewayInv, Leave
<1>3. ViewersAreTold'
  BY <1>1, <1>2, LeaveKeepsCount DEF GatewayInv
<1> QED BY <1>1, <1>2, <1>3, QuietKeeps

LEMMA EnterKeeps ==
  ASSUME GatewayConstants, GatewayInv, NEW c \in play.calls, EnterRoom(c)
  PROVE  GatewayInv'
<1>1. CASE OwnerOf[Messages[c].from] \in barred
  BY <1>1, RefusedQuiet, QuietKeeps DEF GatewayInv
<1>2. CASE OwnerOf[Messages[c].from] \notin barred
  <2>1. UNCHANGED play /\ HandsQuiet /\ UNCHANGED held /\ Typed'
    BY <1>2, EnterQuiet DEF GatewayInv
  <2>2. HubAgrees'
    <3>1. Messages[c].from \in Sockets /\ Messages[c].room \in Rooms
      BY PlayShape DEF GatewayInv, Typed, HandlersTyped
    <3> QED BY <1>2, <3>1, MovedIn DEF GatewayInv, EnterRoom
  <2>3. Doors' /\ LinesSound' /\ ScreensSound' /\ ClocksSound'
    BY <1>2, EnterKeepsDoors, EnterKeepsScreens, EnterKeepsClocks DEF GatewayInv
  <2>4. ViewersAreTold'
    BY <1>2, <2>1, EnterKeepsCount DEF GatewayInv
  <2> QED BY <2>1, <2>2, <2>3, <2>4, QuietKeeps
<1> QED BY <1>1, <1>2

LEMMA CloseKeeps ==
  ASSUME GatewayConstants, GatewayInv, NEW s \in Sockets, SocketCloses(s)
  PROVE  GatewayInv'
<1>1. UNCHANGED play /\ ScreensQuiet /\ HandsQuiet /\ ClockQuiet /\ UNCHANGED held /\ Typed'
  BY SocketClosesQuiet DEF GatewayInv
<1>2. HubAgrees' /\ Doors'
  BY MovedOut, CloseKeepsDoors DEF GatewayInv, SocketCloses
<1>3. ViewersAreTold'
  BY <1>1, <1>2, CloseKeepsCount DEF GatewayInv
<1> QED BY <1>1, <1>2, <1>3, QuietKeeps

LEMMA AnswerKeeps ==
  ASSUME GatewayConstants, GatewayInv, NEW c \in play.calls, AnswerJoin(c)
  PROVE  GatewayInv'
<1>1. UNCHANGED play /\ HubQuiet /\ DoorQuiet /\ HandsQuiet /\ ClockQuiet /\ UNCHANGED held
      /\ Typed'
  BY AnswerJoinQuiet DEF GatewayInv
<1>2. HubAgrees'
  BY <1>1, HubStays DEF GatewayInv
<1>3. ViewersAreTold' /\ LinesSound' /\ ScreensSound'
  BY <1>1, <1>2, AnswerKeepsCount, AnswerKeepsScreens DEF GatewayInv
<1> QED BY <1>1, <1>2, <1>3, QuietKeeps

LEMMA HandlerKeeps ==
  ASSUME GatewayConstants, GatewayInv, NEW c \in play.calls,
         \/ Greet(c) \/ Verify(c) \/ Receive(c) \/ Leave(c)
         \/ Snapshot(c) \/ EnterRoom(c) \/ AnswerJoin(c) \/ JoinFails(c)
         \/ Store(c) \/ Speak(c)
         \/ Raise(c) \/ Cancel(c) \/ Admit(c) \/ Resolve(c) \/ PickSeat(c) \/ Sit(c)
         \/ TimerFires(c) \/ GrantReward(c) \/ TickEnds(c)
         \/ \E s \in Sockets : Visit(c, s)
  PROVE  GatewayInv'
<1>1. CASE Greet(c)
  BY <1>1, GreetQuiet, QuietKeeps DEF GatewayInv
<1>2. CASE Verify(c)
  BY <1>2, VerifyQuiet, VerifyKeepsDoors, QuietKeeps DEF GatewayInv
<1>3. CASE Receive(c)
  BY <1>3, ReceiveQuiet, QuietKeeps DEF GatewayInv
<1>4. CASE Leave(c)
  BY <1>4, LeaveKeeps
<1>5. CASE Snapshot(c)
  BY <1>5, SnapshotQuiet, SnapshotKeepsScreens, QuietKeeps DEF GatewayInv
<1>6. CASE EnterRoom(c)
  BY <1>6, EnterKeeps
<1>7. CASE AnswerJoin(c)
  BY <1>7, AnswerKeeps
<1>8. CASE JoinFails(c)
  BY <1>8, JoinFailsQuiet, QuietKeeps DEF GatewayInv
<1>9. CASE Store(c)
  BY <1>9, StoreQuiet, QuietKeeps DEF GatewayInv
<1>10. CASE Speak(c)
  BY <1>10, SpeakQuiet, SpeakKeepsScreens, QuietKeeps DEF GatewayInv
<1>11. CASE Raise(c)
  BY <1>11, RaiseQuiet, RaiseKeepsHands, QuietKeeps DEF GatewayInv
<1>12. CASE Cancel(c)
  BY <1>12, CancelQuiet, CancelKeepsHands, QuietKeeps DEF GatewayInv
<1>13. CASE Admit(c)
  BY <1>13, AdmitQuiet, QuietKeeps DEF GatewayInv
<1>14. CASE Resolve(c)
  BY <1>14, ResolveQuiet, ResolveKeepsHands, QuietKeeps DEF GatewayInv
<1>15. CASE PickSeat(c)
  BY <1>15, PickSeatQuiet, PickKeepsHands, QuietKeeps DEF GatewayInv
<1>16. CASE Sit(c)
  BY <1>16, SitQuiet, SitKeepsHands, SitKeepsSeats, QuietKeeps DEF GatewayInv
<1>17. CASE TimerFires(c)
  BY <1>17, TimerQuiet, QuietKeeps DEF GatewayInv
<1>18. CASE GrantReward(c)
  BY <1>18, GrantQuiet, GrantKeepsClocks, QuietKeeps DEF GatewayInv
<1>19. CASE TickEnds(c)
  BY <1>19, TickEndsQuiet, QuietKeeps DEF GatewayInv
<1>20. CASE \E s \in Sockets : Visit(c, s)
  BY <1>20, VisitQuiet, VisitKeepsClocks, QuietKeeps DEF GatewayInv
<1> QED BY <1>1, <1>2, <1>3, <1>4, <1>5, <1>6, <1>7, <1>8, <1>9, <1>10,
           <1>11, <1>12, <1>13, <1>14, <1>15, <1>16, <1>17, <1>18, <1>19, <1>20

LEMMA GatewayKept == GatewayConstants /\ GatewayInv /\ [GatewayNext]_gatewayVars => GatewayInv'
<1> SUFFICES ASSUME GatewayConstants, GatewayInv, [GatewayNext]_gatewayVars
             PROVE  GatewayInv'
  OBVIOUS
<1>1. ASSUME NEW c \in play.calls,
             \/ Greet(c) \/ Verify(c) \/ Receive(c) \/ Leave(c)
             \/ Snapshot(c) \/ EnterRoom(c) \/ AnswerJoin(c) \/ JoinFails(c)
             \/ Store(c) \/ Speak(c)
             \/ Raise(c) \/ Cancel(c) \/ Admit(c) \/ Resolve(c) \/ PickSeat(c) \/ Sit(c)
             \/ TimerFires(c) \/ GrantReward(c) \/ TickEnds(c)
             \/ \E s \in Sockets : Visit(c, s)
      PROVE  GatewayInv'
  BY <1>1, HandlerKeeps
<1>2. ASSUME NEW s \in Sockets, Disconnect(s) \/ Pong(s)
      PROVE  GatewayInv'
  BY <1>2, DisconnectQuiet, PongQuiet, QuietKeeps DEF GatewayInv
<1>3. ASSUME NEW s \in Sockets, SocketCloses(s)
      PROVE  GatewayInv'
  BY <1>3, CloseKeeps
<1>4. CASE Advance
  BY <1>4, AdvanceQuiet, AdvanceKeepsClocks, QuietKeeps DEF GatewayInv
<1>5. ASSUME NEW r \in Rooms, RoomEnds(r)
      PROVE  GatewayInv'
  BY <1>5, RoomEndsQuiet, EndKeepsSeats, QuietKeeps DEF GatewayInv
<1>6. ASSUME NEW r \in Rooms, NEW u \in Persons, SeatOverHttp(r, u)
      PROVE  GatewayInv'
  BY <1>6, SeatOverHttpQuiet, HttpKeepsSeats, QuietKeeps DEF GatewayInv
<1>7. ASSUME NEW u \in Persons, Kick(u)
      PROVE  GatewayInv'
  BY <1>7, KickQuiet, KickKeepsSeats, QuietKeeps DEF GatewayInv
<1>8. CASE UNCHANGED gatewayVars
  BY <1>8, StutterQuiet, QuietKeeps DEF GatewayInv
<1> QED BY <1>1, <1>2, <1>3, <1>4, <1>5, <1>6, <1>7, <1>8 DEF GatewayNext

LEMMA GatewayStarts == GatewayConstants /\ GatewayInit => GatewayInv
<1> SUFFICES ASSUME GatewayConstants, GatewayInit PROVE GatewayInv
  OBVIOUS
<1>1. /\ play \in Episodes /\ clients = DOMAIN play.inside /\ clients \subseteq Sockets
      /\ \A s \in clients : play.inside[s] \in Rooms
      /\ play.calls \subseteq Handlers /\ Nowhere \notin Rooms
  BY DEF GatewayInit, GatewayConstants
<1>2. HubTyped
  BY <1>1 DEF GatewayInit, HubTyped
<1>3. HandlersTyped
  <2>1. Unread \in Handling
    BY DEF Unread, Handling, HandlerStages, SeatNumbers
  <2> QED BY <1>1, <2>1 DEF GatewayInit, HandlersTyped
<1>4. ScreensTyped
  <2>1. \A r \in Rooms : members[r] \subseteq Sockets
    BY <1>2 DEF HubTyped
  <2>2. \A r \in Rooms : Cardinality(members[r]) \in Nat
    BY <2>1, FS_Subset, FS_CardinalityType DEF GatewayConstants
  <2>3. \A s \in clients : roomOf[s] \in Rooms
    BY <1>1 DEF GatewayInit
  <2>4. \A s \in Sockets :
          [chat |-> {}, by |-> NoJoin,
           viewers |-> IF s \in clients THEN Cardinality(members[roomOf[s]]) ELSE 0] \in Screen
    BY <2>2, <2>3 DEF Screen
  <2> QED BY <2>4 DEF GatewayInit, ScreensTyped
<1>5. SeatsTyped
  BY FS_EmptySet DEF GatewayInit, SeatsTyped
<1>6. ClocksTyped
  <2>1. \A s \in clients : roomOf[s] \in Rooms
    BY <1>1 DEF GatewayInit
  <2>2. NoClock \in Clock /\ \A r \in Rooms : [NoClock EXCEPT !.room = r] \in Clock
    BY DEF NoClock, Clock
  <2>3. NoClock.at = 0 /\ \A r \in Rooms : [NoClock EXCEPT !.room = r].at = 0
    BY DEF NoClock
  <2>4. \A s \in Sockets : clock[s] \in Clock /\ clock[s].at = 0
    BY <2>1, <2>2, <2>3 DEF GatewayInit
  <2>5. clock \in [Sockets -> Clock]
    BY <2>4 DEF GatewayInit
  <2>6. /\ time = 0 /\ pays \in [Sockets -> Nat] /\ spent \in [Sockets -> Nat]
        /\ lapses \in [Sockets -> Nat] /\ repaid \in [Sockets -> Nat]
        /\ \A s \in Sockets : repaid[s] = 0 /\ pays[s] = 0
    BY DEF GatewayInit
  <2>7. time \in Nat /\ \A s \in Sockets : clock[s].at <= time /\ repaid[s] <= pays[s]
    BY <2>4, <2>6
  <2> QED BY <2>5, <2>6, <2>7 DEF ClocksTyped
<1>7. CallsSound
  BY DEF GatewayInit, CallsSound, Unread
<1>8. HubAgrees /\ Doors
  BY <1>1 DEF GatewayInit, HubAgrees, Doors
<1>9. LinesSound /\ ScreensSound
  BY DEF GatewayInit, LinesSound, ScreensSound, Unread
<1>10. ViewersAreTold
  BY <1>1 DEF GatewayInit, ViewersAreTold
<1>11. HandsAddUp
  <2>1. \A u \in Persons : {x \in hands : x[2] = u} = {}
    BY DEF GatewayInit
  <2>2. \A u \in Persons : {c \in play.calls : /\ Messages[c].t = "resolve" /\ Messages[c].user = u
                                               /\ handling[c].at \in {"granted", "picked"}} = {}
    BY DEF GatewayInit, Unread
  <2>3. \A u \in Persons, f \in Fates : tally[u][f] = 0
    BY DEF GatewayInit
  <2>4. ASSUME NEW u \in Persons
        PROVE  /\ tally[u]["raised"] = 0 /\ tally[u]["cancelled"] = 0 /\ tally[u]["denied"] = 0
               /\ tally[u]["seated"] = 0 /\ tally[u]["refused"] = 0
               /\ Cardinality({x \in hands : x[2] = u}) = 0
               /\ Cardinality({c \in play.calls :
                                 /\ Messages[c].t = "resolve" /\ Messages[c].user = u
                                 /\ handling[c].at \in {"granted", "picked"}}) = 0
    BY <2>1, <2>2, <2>3, FS_EmptySet DEF Fates
  <2> QED BY <2>4 DEF HandsAddUp
<1>12. OneSeatEach
  BY DEF GatewayInit, OneSeatEach
<1>13. ClocksSound
  <2>1. ASSUME NEW s \in Sockets
        PROVE  Credit(s) = 0 /\ Owing(s) = 0
    <3>1. Granting(s) = {}
      BY DEF GatewayInit, Granting, Unread
    <3>2. Cardinality(Granting(s)) = 0
      BY <3>1, FS_EmptySet
    <3>3. clock[s].accrued = 0 /\ clock[s].at = 0
      BY DEF GatewayInit, NoClock
    <3>4. Accrual \in Nat /\ Interval \in Nat
      BY DEF GatewayConstants
    <3>5. spent[s] = 0 /\ lapses[s] = 0 /\ Kept(s) = 0 /\ time = 0
      BY DEF GatewayInit, Kept
    <3> QED BY <3>2, <3>3, <3>4, <3>5 DEF Credit, Owing
  <2> QED BY <2>1 DEF ClocksSound
<1> QED BY <1>2, <1>3, <1>4, <1>5, <1>6, <1>7, <1>8, <1>9, <1>10, <1>11, <1>12, <1>13
        DEF GatewayInv, Typed

-----------------------------------------------------------------------------
(* What the type says beyond the invariant.                                *)

\* Nobody barred or room ended is a stranger; time stays in the episode, nobody spent
\* more of it than has passed, nobody is shown more viewers than there are sockets.
Bounded ==
    /\ barred \subseteq Persons /\ over \subseteq Rooms /\ time <= play.last
    /\ \A s \in Sockets : spent[s] <= time /\ screen[s].viewers <= Cardinality(Sockets)

LEMMA CrowdFits ==
  ASSUME GatewayConstants, members' \in [Rooms -> SUBSET Sockets], NEW r \in Rooms,
         NEW scr \in [Sockets -> Screen],
         \A s \in Sockets : scr[s].viewers <= Cardinality(Sockets)
  PROVE  \A s \in Sockets : Announced(r, scr)[s].viewers <= Cardinality(Sockets)
<1>1. Cardinality(members'[r]) <= Cardinality(Sockets)
  BY FS_Subset DEF GatewayConstants
<1> QED BY <1>1, AnnouncedShape

LEMMA ScreensFit ==
  ASSUME GatewayConstants, GatewayInv, GatewayInv', Bounded, NEW c \in play.calls,
         Leave(c) \/ EnterRoom(c) \/ AnswerJoin(c) \/ Speak(c)
  PROVE  \A s \in Sockets : screen'[s].viewers <= Cardinality(Sockets)
<1>1. /\ screen \in [Sockets -> Screen] /\ members' \in [Rooms -> SUBSET Sockets]
      /\ Messages[c].room \in Rooms /\ Messages[c].from \in Sockets
      /\ \A s \in Sockets : screen[s].viewers <= Cardinality(Sockets)
  BY PlayShape DEF GatewayInv, Typed, HubTyped, HandlersTyped, ScreensTyped, Bounded
<1>2. CASE Leave(c)
  BY <1>1, <1>2, CrowdFits DEF Leave
<1>3. CASE EnterRoom(c)
  <2>1. \/ screen' = screen
        \/ screen' = [screen EXCEPT ![Messages[c].from].by = NoJoin]
    BY <1>3 DEF EnterRoom
  <2> QED BY <1>1, <2>1 DEF Screen
<1>4. CASE AnswerJoin(c)
  <2>1. /\ Welcome(c) \in [Sockets -> Screen]
        /\ \A s \in Sockets : Welcome(c)[s].viewers = screen[s].viewers
    <3>1. handling[c].history \in SUBSET Handlers /\ c \in Handlers
      BY PlayShape DEF GatewayInv, Typed, HandlersTyped, Handling
    <3> QED BY <1>1, <3>1 DEF Welcome, Screen
  <2>2. screen' = Announced(Messages[c].room, Welcome(c))
    BY <1>4 DEF AnswerJoin
  <2>3. \A s \in Sockets : Welcome(c)[s].viewers <= Cardinality(Sockets)
    BY <1>1, <2>1
  <2> QED BY <1>1, <2>1, <2>2, <2>3, CrowdFits
<1>5. CASE Speak(c)
  <2>1. screen' = screen \/ screen' = HearLine(Messages[c].room, c)
    BY <1>5 DEF Speak
  <2> QED BY <1>1, <2>1 DEF HearLine, Screen
<1> QED BY <1>2, <1>3, <1>4, <1>5

LEMMA BoundedStays ==
  ASSUME Bounded, UNCHANGED <<play, barred, over, time, spent>>,
         \A s \in Sockets : screen'[s].viewers <= Cardinality(Sockets)
  PROVE  Bounded'
BY DEF Bounded

LEMMA BoundedKept ==
  GatewayConstants /\ GatewayInv /\ GatewayInv' /\ Bounded /\ [GatewayNext]_gatewayVars => Bounded'
<1> SUFFICES ASSUME GatewayConstants, GatewayInv, GatewayInv', Bounded, [GatewayNext]_gatewayVars
             PROVE  Bounded'
  OBVIOUS
<1>1. ASSUME UNCHANGED <<play, screen, barred, over, time, spent>>
      PROVE  Bounded'
  BY <1>1 DEF Bounded
<1>2. ASSUME NEW c \in play.calls,
             \/ Greet(c) \/ Verify(c) \/ Receive(c) \/ Snapshot(c) \/ JoinFails(c) \/ Store(c)
             \/ Raise(c) \/ Cancel(c) \/ Admit(c) \/ Resolve(c) \/ PickSeat(c) \/ Sit(c)
             \/ TimerFires(c) \/ GrantReward(c) \/ TickEnds(c)
             \/ \E s \in Sockets : Visit(c, s)
      PROVE  Bounded'
  <2>1. CASE Greet(c) \/ Verify(c) \/ Receive(c) \/ Snapshot(c) \/ JoinFails(c) \/ Store(c)
    BY <1>1, <2>1 DEF Greet, Verify, Receive, Snapshot, JoinFails, Store, clockVars
  <2>2. CASE \/ Raise(c) \/ Cancel(c) \/ Admit(c) \/ Resolve(c) \/ PickSeat(c) \/ Sit(c)
    BY <1>1, <2>2 DEF Raise, Cancel, Admit, Resolve, PickSeat, Sit, clockVars
  <2>3. CASE TimerFires(c) \/ GrantReward(c) \/ TickEnds(c) \/ \E s \in Sockets : Visit(c, s)
    BY <1>1, <2>3 DEF TimerFires, GrantReward, TickEnds, Visit, clockVars
  <2> QED BY <1>2, <2>1, <2>2, <2>3
<1>3. ASSUME NEW c \in play.calls, Leave(c) \/ EnterRoom(c) \/ AnswerJoin(c) \/ Speak(c)
      PROVE  Bounded'
  <2>1. UNCHANGED <<play, barred, over, time, spent>>
    BY <1>3 DEF Leave, EnterRoom, AnswerJoin, Speak, clockVars
  <2> QED BY <1>3, <2>1, ScreensFit, BoundedStays
<1>4. ASSUME NEW s \in Sockets, Disconnect(s) \/ Pong(s)
      PROVE  Bounded'
  BY <1>1, <1>4 DEF Disconnect, Pong, clockVars
<1>5. ASSUME NEW s \in Sockets, SocketCloses(s)
      PROVE  Bounded'
  <2>1. UNCHANGED <<play, barred, over, time, spent>>
    BY <1>5 DEF SocketCloses, clockVars
  <2>2. /\ screen \in [Sockets -> Screen] /\ members' \in [Rooms -> SUBSET Sockets]
        /\ roomOf[s] \in Rooms \cup {Nowhere}
        /\ \A x \in Sockets : screen[x].viewers <= Cardinality(Sockets)
    BY DEF GatewayInv, Typed, HubTyped, ScreensTyped, Bounded
  <2>3. screen' = IF roomOf[s] = Nowhere THEN screen ELSE Announced(roomOf[s], screen)
    BY <1>5 DEF SocketCloses
  <2>4. \A x \in Sockets : screen'[x].viewers <= Cardinality(Sockets)
    BY <2>2, <2>3, CrowdFits
  <2> QED BY <2>1, <2>4, BoundedStays
<1>6. CASE Advance
  <2>1. /\ UNCHANGED <<play, screen, barred, over>> /\ time < play.last /\ time' = time + 1
        /\ \A s \in Sockets : spent'[s] \in {spent[s], spent[s] + 1}
    BY <1>6 DEF Advance
  <2>2. play.last \in Nat /\ time \in Nat /\ spent \in [Sockets -> Nat]
    BY DEF GatewayInv, Typed, HandlersTyped, ClocksTyped, GatewayConstants
  <2>3. time' <= play'.last
    BY <2>1, <2>2
  <2>4. ASSUME NEW s \in Sockets PROVE spent'[s] <= time'
    <3>1. spent[s] \in Nat /\ spent[s] <= time /\ spent'[s] \in {spent[s], spent[s] + 1}
      BY <2>1, <2>2 DEF Bounded
    <3> QED BY <2>1, <2>2, <3>1
  <2> QED BY <2>1, <2>3, <2>4 DEF Bounded
<1>7. ASSUME NEW r \in Rooms, RoomEnds(r)
      PROVE  Bounded'
  BY <1>7 DEF RoomEnds, Bounded, clockVars
<1>8. ASSUME NEW r \in Rooms, NEW u \in Persons, SeatOverHttp(r, u)
      PROVE  Bounded'
  BY <1>1, <1>8 DEF SeatOverHttp, clockVars
<1>9. ASSUME NEW u \in Persons, Kick(u)
      PROVE  Bounded'
  BY <1>9 DEF Kick, Bounded, clockVars
<1>10. CASE UNCHANGED gatewayVars
  BY <1>1, <1>10 DEF gatewayVars, clockVars
<1> QED BY <1>2, <1>3, <1>4, <1>5, <1>6, <1>7, <1>8, <1>9, <1>10 DEF GatewayNext

LEMMA BoundedStarts == GatewayConstants /\ GatewayInit => Bounded
<1> SUFFICES ASSUME GatewayConstants, GatewayInit PROVE Bounded
  OBVIOUS
<1>1. barred = {} /\ over = {} /\ time = 0 /\ play \in Episodes /\ play.last \in Nat
  BY DEF GatewayInit, GatewayConstants
<1>2. ASSUME NEW s \in Sockets
      PROVE  spent[s] = 0 /\ screen[s].viewers <= Cardinality(Sockets)
  <2>1. CASE s \in clients
    <3>1. roomOf[s] = play.inside[s] /\ roomOf[s] \in Rooms
      BY <2>1 DEF GatewayInit, GatewayConstants
    <3>2. members[roomOf[s]] \in SUBSET Sockets /\ screen[s].viewers = Cardinality(members[roomOf[s]])
      BY <2>1, <3>1 DEF GatewayInit, GatewayConstants
    <3> QED BY <3>2, FS_Subset DEF GatewayInit, GatewayConstants
  <2>2. CASE s \notin clients
    <3>1. Cardinality(Sockets) \in Nat
      BY FS_CardinalityType DEF GatewayConstants
    <3> QED BY <2>2, <3>1 DEF GatewayInit
  <2> QED BY <2>1, <2>2
<1> QED BY <1>1, <1>2 DEF Bounded

LEMMA GatewayTypes == GatewayConstants /\ GatewayInv /\ Bounded => GatewayTypeOK
<1> SUFFICES ASSUME GatewayConstants, GatewayInv, Bounded PROVE GatewayTypeOK
  OBVIOUS
<1>1. /\ play \in Episodes /\ clients \subseteq Sockets /\ cut \subseteq Sockets
      /\ sock \in [Sockets -> {"open", "closing", "closed"}]
      /\ roomOf \in [Sockets -> Rooms \cup {Nowhere}] /\ members \in [Rooms -> SUBSET Sockets]
      /\ missed \in [Sockets -> 0..2]
      /\ Stored \subseteq Handlers /\ \A c \in Stored : lines[c] \subseteq Stored \ {c}
      /\ hands \subseteq Rooms \X Persons /\ held \in [Rooms -> [Places -> Persons \cup {Unseated}]]
      /\ tally \in [Persons -> [Fates -> Nat]]
  BY DEF GatewayInv, Typed, HubTyped, HandlersTyped, ScreensTyped, SeatsTyped, Stored
<1>2. \A c \in play.calls : handling[c].history \subseteq Stored /\ handling[c].visited \subseteq Sockets
  <2>1. \A c \in play.calls : handling[c].visited \subseteq Sockets
    BY DEF GatewayInv, Typed, HandlersTyped, Handling
  <2> QED BY <2>1 DEF GatewayInv, LinesSound, Sayable, Stored
<1>3. screen \in [Sockets -> [chat : SUBSET Handlers, viewers : 0..Cardinality(Sockets),
                              by : Handlers \cup {NoJoin}]]
  <2>1. screen \in [Sockets -> Screen] /\ Cardinality(Sockets) \in Nat
    BY FS_CardinalityType DEF GatewayInv, Typed, ScreensTyped, GatewayConstants
  <2>2. \A s \in Sockets : screen[s].viewers \in 0..Cardinality(Sockets)
    BY <2>1 DEF Screen, Bounded
  <2> QED BY <2>1, <2>2 DEF Screen
<1>4. barred \subseteq Persons /\ over \subseteq Rooms
  BY DEF Bounded
<1>5. \A s \in Sockets : clock[s].accrued \in Nat /\ clock[s].at <= time
  BY DEF GatewayInv, Typed, ClocksTyped, Clock
<1>6. /\ time \in 0..play.last /\ pays \in [Sockets -> Nat] /\ repaid \in [Sockets -> Nat]
      /\ spent \in [Sockets -> 0..time] /\ lapses \in [Sockets -> Nat]
  <2>1. /\ time \in Nat /\ pays \in [Sockets -> Nat] /\ spent \in [Sockets -> Nat]
        /\ repaid \in [Sockets -> Nat] /\ lapses \in [Sockets -> Nat] /\ play.last \in Nat
    BY DEF GatewayInv, Typed, ClocksTyped, HandlersTyped, GatewayConstants
  <2> QED BY <2>1 DEF Bounded
<1> QED BY <1>1, <1>2, <1>3, <1>4, <1>5, <1>6 DEF GatewayTypeOK

LEMMA GatewaySays == GatewayConstants /\ GatewayInv /\ Bounded => GatewayHolds
<1> SUFFICES ASSUME GatewayConstants, GatewayInv, Bounded PROVE GatewayHolds
  OBVIOUS
<1>1. OnlyTheCutLinger
  BY DEF GatewayInv, Doors, OnlyTheCutLinger
<1>2. ScreensAreTold
  <2>1. ASSUME NEW s \in Sockets, NEW j, j = screen[s].by, j # NoJoin, IsOpen(s),
               roomOf[s] = Messages[j].room, NEW c \in Spoken, Messages[c].room = roomOf[s]
        PROVE  \/ c \in screen[s].chat
               \/ c \in handling[j].late \ handling[j].before
               \/ c \in handling[j].before /\ Scrolled(c, j, s)
    <3>1. ToldSince(s, j)
      BY <2>1 DEF GatewayInv, ScreensSound
    <3>2. handling[j].history \subseteq screen[s].chat
      BY <2>1, <3>1 DEF ToldSince
    <3>3. Beyond(j, c) => Scrolled(c, j, s)
      <4>1. ASSUME Beyond(j, c) PROVE Scrolled(c, j, s)
        <5>1. {h \in handling[j].history \cap screen[s].chat : Newer(h, c)} = handling[j].history
          BY <3>2, <4>1 DEF Beyond, Newer
        <5> QED BY <4>1, <5>1 DEF Beyond, Scrolled
      <4> QED BY <4>1
    <3> QED BY <2>1, <3>1, <3>3 DEF ToldSince
  <2> QED BY <2>1 DEF ScreensAreTold
<1>3. OnlyTheStoredIsShown
  BY DEF GatewayInv, LinesSound, Sayable, Stored, OnlyTheStoredIsShown
<1>4. PaidForPresence
  <2>1. ASSUME NEW s \in Sockets
        PROVE  (pays[s] + Cardinality(Granting(s))) * Interval + clock[s].accrued
                 <= spent[s] + Accrual * lapses[s] + Interval * repaid[s]
    <3>1. PICK k \in Nat : k = Kept(s) + Cardinality(Granting(s))
      BY ClockShape DEF GatewayInv
    <3>2. pays[s] + Cardinality(Granting(s)) = k + repaid[s] /\ repaid[s] \in Nat
      <4>1. /\ pays[s] \in Nat /\ repaid[s] \in Nat /\ Cardinality(Granting(s)) \in Nat
            /\ Kept(s) = pays[s] - repaid[s]
        BY KeptShape, GrantsFinite DEF GatewayInv
      <4> QED BY <3>1, <4>1
    <3>3. Credit(s) >= 0
      BY DEF GatewayInv, ClocksSound
    <3>4. Credit(s) = spent[s] + Accrual * lapses[s] - (k * Interval + clock[s].accrued)
      BY <3>1 DEF Credit
    <3>5. /\ spent[s] \in Nat /\ Accrual * lapses[s] \in Nat /\ clock[s].accrued \in Nat
          /\ Interval \in Nat
      BY ClockShape DEF GatewayInv
    <3>6. /\ k * Interval \in Nat /\ Interval * repaid[s] \in Nat
          /\ (k + repaid[s]) * Interval = k * Interval + Interval * repaid[s]
      BY <3>2, <3>5
    <3> QED BY <3>2, <3>3, <3>4, <3>5, <3>6
  <2> QED BY <2>1 DEF PaidForPresence
<1>5. GatewayTypeOK
  BY GatewayTypes
<1> QED BY <1>1, <1>2, <1>3, <1>4, <1>5 DEF GatewayInv, GatewayHolds

\* However the handlers, closings and timers of any sockets overlap, the state has
\* its type, and: the hub's two
\* records of who is where agree; a closed socket is forgotten unless it was cut; a
\* viewer was shown what was said since his join was answered and the newest
\* HistorySize of what was said before it read the backlog, and only stored lines
\* that were not blocked; who is settled in a room
\* is shown how many are in it; a raised hand comes down once; nobody has two seats
\* of a room; and no clock is paid for more than presence, its lapses and what was
\* paid without the gateway's knowing (gateway/server.ts, hub.ts, room.state.ts).
THEOREM GatewayAlwaysHolds == ASSUME GatewayConstants PROVE GatewaySpec => []GatewayHolds
<1>1. GatewayInit => GatewayInv /\ Bounded
  BY GatewayStarts, BoundedStarts
<1>2. GatewayInv /\ Bounded /\ [GatewayNext]_gatewayVars => (GatewayInv /\ Bounded)'
  BY GatewayKept, BoundedKept
<1>3. GatewayInv /\ Bounded => GatewayHolds
  BY GatewaySays
<1> QED BY <1>1, <1>2, <1>3, PTL DEF GatewaySpec

===============================================================================
