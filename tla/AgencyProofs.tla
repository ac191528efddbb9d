----------------------------- MODULE AgencyProofs -----------------------------
(***************************************************************************)
(* For any agencies, agents and hosts: nobody comes into an agency without *)
(* both sides, who is let go leaves, and nobody else drops out             *)
(* (agency.service.ts, agents.service.ts).  For any prepays and transfers: *)
(* the inventory of the coin channel adds up, and its caps hold            *)
(* (coins.service.ts).  For any gifts and bands: a closed month was split  *)
(* whole, and no level jumps (commission.service.ts, commission.ts).       *)
(***************************************************************************)
EXTENDS Membership, AgencyCoins, Commission, Sums

Link  == [id : Nat, agent : Agents \cup {Nobody}, recent : BOOLEAN]
Exit  == [status : LetGo \cup {"none", "pending", "rejected"}, of : Nat, age : 0..2,
          window : BOOLEAN]
Doing == [op : {"idle", "accept", "quit", "leave"}, agent : Agents \cup {Nobody}, id : Nat]

Shaped ==
    /\ seat \in [Agents -> Agencies \cup {NoAgency}]
    /\ link \in [Hosts -> Link] /\ quit \in [Hosts -> Exit] /\ busy \in [Hosts -> Doing]

\* An owner keeps a seat in the agency owned.
OwnersSeated == \A x \in Agencies : seat[Owner[x]] = x

\* An open link leads to a seat, but for hosts accepted while their agent was removed.
AllHoused ==
    \A h \in Hosts : link[h].agent # Nobody => seat[link[h].agent] # NoAgency \/ h \in stranded

\* Applications are about links made so far; who was let go has left that link.
ExitsMatch ==
    \A h \in Hosts :
        /\ quit[h].of <= link[h].id /\ busy[h].id <= link[h].id
        /\ quit[h].status \in LetGo /\ quit[h].of = link[h].id => link[h].agent = Nobody

\* A transaction of the host: an agent to accept, or the month's first application.
TransactionsSound ==
    \A h \in Hosts :
        /\ busy[h].op = "accept" => busy[h].agent \in Agents
        /\ busy[h].op \in {"quit", "leave"} => quit[h].status = "none" \/ quit[h].age = 2

MemberInv == Shaped /\ OwnersSeated /\ AllHoused /\ ExitsMatch /\ TransactionsSound

-----------------------------------------------------------------------------
LEMMA Initially == ASSUME MembershipConstants, MembershipInit PROVE MemberInv
<1> USE DEF MembershipConstants
<1>1. \A x \in Agencies : seat[Owner[x]] = x
  <2> SUFFICES ASSUME NEW x \in Agencies PROVE seat[Owner[x]] = x
    OBVIOUS
  <2>1. Owner[x] \in Agents /\ \E y \in Agencies : Owner[y] = Owner[x]
    OBVIOUS
  <2>2. seat[Owner[x]] = CHOOSE y \in Agencies : Owner[y] = Owner[x]
    BY <2>1 DEF MembershipInit
  <2>3. \A y \in Agencies : Owner[y] = Owner[x] => y = x
    OBVIOUS
  <2> QED BY <2>2, <2>3
<1>2. seat \in [Agents -> Agencies \cup {NoAgency}]
  BY DEF MembershipInit
<1>3. link \in [Hosts -> Link] /\ quit \in [Hosts -> Exit] /\ busy \in [Hosts -> Doing]
  BY DEF MembershipInit, Link, Exit, Doing, NoQuit, Idle
<1>4. \A h \in Hosts : link[h].agent = Nobody /\ link[h].id = 0 /\ quit[h].of = 0 /\ busy[h].id = 0
                        /\ quit[h].status = "none" /\ busy[h].op = "idle"
  BY DEF MembershipInit, NoQuit, Idle
<1>5. OwnersSeated /\ AllHoused /\ ExitsMatch /\ TransactionsSound
  BY <1>1, <1>4 DEF OwnersSeated, AllHoused, ExitsMatch, TransactionsSound, LetGo
<1> QED BY <1>2, <1>3, <1>5 DEF MemberInv, Shaped

\* What is said of a host whose link, and whose agent's seat, a step leaves alone.
Untouched(h) ==
    /\ link'[h] = link[h] /\ quit'[h] = quit[h]
    /\ link[h].agent # Nobody => seat'[link[h].agent] = seat[link[h].agent]

LEMMA UntouchedKeeps ==
  ASSUME MemberInv, NEW h \in Hosts, Untouched(h), stranded \subseteq stranded'
  PROVE  Consented(h) /\ LetGoLeaves(h) /\ Housed(h)
BY DEF MemberInv, AllHoused, Untouched, Consented, LetGoLeaves, Housed, AgencyOf

\* Steps that move nobody: requests, invitations, standings, and reads.
LEMMA QuietKeeps ==
  ASSUME MembershipConstants, MemberInv, UNCHANGED <<seat, link, quit, stranded>>,
         busy' \in [Hosts -> Doing],
         \A h \in Hosts :
            \/ busy'[h] = busy[h]
            \/ busy'[h].op = "accept" /\ busy'[h].agent \in Agents /\ busy'[h].id = 0
            \/ busy'[h].op \in {"quit", "leave"} /\ busy'[h].id = link[h].id
               /\ (quit[h].status = "none" \/ quit[h].age = 2)
  PROVE  MemberInv' /\ MembershipKept
<1>1. Shaped' /\ OwnersSeated' /\ AllHoused'
  BY DEF MemberInv, Shaped, OwnersSeated, AllHoused
<1>2. ExitsMatch' /\ TransactionsSound'
  <2>1. \A h \in Hosts : link[h].id \in Nat
    BY DEF MemberInv, Shaped, Link
  <2> QED BY <2>1 DEF MemberInv, ExitsMatch, TransactionsSound
<1>3. MembershipKept
  BY UntouchedKeeps DEF Untouched, MembershipKept
<1> QED BY <1>1, <1>2, <1>3 DEF MemberInv

\* A request is accepted: the writes, on a host with no open link.
LEMMA AcceptKeeps ==
  ASSUME MembershipConstants, MemberInv, NEW h \in Hosts, Accept(h)
  PROVE  MemberInv' /\ MembershipKept
<1> USE DEF MemberInv, Shaped
<1> DEFINE a == busy[h].agent
<1>1. /\ busy[h].op = "accept" /\ a \in Agents /\ a # Nobody
      /\ busy' = [busy EXCEPT ![h] = Idle] /\ UNCHANGED <<seat, quit>>
  BY DEF Accept, TransactionsSound, MembershipConstants
<1>2. link[h] \in Link /\ Linked(h, a) \in Link /\ Idle \in Doing
  BY <1>1 DEF Link, Linked, Idle, Doing
<1>3. CASE link[h].agent # Nobody
  <2>1. UNCHANGED <<link, stranded>>
    BY <1>3 DEF Accept
  <2>2. Shaped' /\ OwnersSeated' /\ AllHoused'
    BY <1>1, <1>2, <2>1 DEF OwnersSeated, AllHoused
  <2>3. ExitsMatch' /\ TransactionsSound'
    BY <1>1, <1>2, <2>1 DEF ExitsMatch, TransactionsSound, Idle, Link
  <2>4. MembershipKept
    BY <1>1, <2>1, UntouchedKeeps DEF Untouched, MembershipKept
  <2> QED BY <2>2, <2>3, <2>4
<1>4. CASE link[h].agent = Nobody
  <2>1. /\ link' = [link EXCEPT ![h] = Linked(h, a)]
        /\ stranded' = IF seat[a] = NoAgency THEN stranded \cup {h} ELSE stranded
    BY <1>4 DEF Accept
  <2>2. link'[h].agent = a /\ link'[h].id = link[h].id + 1 /\ \A g \in Hosts \ {h} : link'[g] = link[g]
    BY <2>1 DEF Linked
  <2>3. Shaped' /\ OwnersSeated'
    BY <1>1, <1>2, <2>1 DEF OwnersSeated
  <2>4. AllHoused'
    BY <1>1, <2>1, <2>2 DEF AllHoused
  <2>5. ExitsMatch' /\ TransactionsSound'
    BY <1>1, <1>2, <2>2 DEF ExitsMatch, TransactionsSound, Idle, Link, Exit
  <2>6. \A g \in Hosts \ {h} : Consented(g) /\ LetGoLeaves(g) /\ Housed(g)
    BY <1>1, <2>1, <2>2, UntouchedKeeps DEF Untouched
  <2>7. Consented(h) /\ LetGoLeaves(h) /\ Housed(h)
    BY <1>1, <1>4, <2>1, <2>2 DEF Consented, LetGoLeaves, Housed, AgencyOf
  <2> QED BY <2>3, <2>4, <2>5, <2>6, <2>7 DEF MembershipKept
<1> QED BY <1>3, <1>4

\* An agent without a seat is given one; hosts left behind may come back so.
LEMMA JoinKeeps ==
  ASSUME MembershipConstants, MemberInv, NEW x \in Agencies, NEW a \in Agents, Join(x, a)
  PROVE  MemberInv' /\ MembershipKept
<1> USE DEF MemberInv, Shaped
<1>1. /\ seat[a] = NoAgency /\ seat' = [seat EXCEPT ![a] = x]
      /\ UNCHANGED <<link, quit, busy, stranded>>
  BY DEF Join
<1>2. NoAgency \notin Agencies
  BY DEF MembershipConstants
<1>3. Shaped' /\ ExitsMatch' /\ TransactionsSound'
  BY <1>1 DEF ExitsMatch, TransactionsSound
<1>4. OwnersSeated'
  BY <1>1, <1>2 DEF OwnersSeated, MembershipConstants
<1>5. \A h \in Hosts : link[h].agent # Nobody => link[h].agent \in Agents
  BY DEF Link
<1>6. AllHoused'
  BY <1>1, <1>2, <1>5 DEF AllHoused
<1>7. ASSUME NEW h \in Hosts PROVE Consented(h) /\ LetGoLeaves(h) /\ Housed(h)
  <2>1. CASE link[h].agent # a
    BY <1>1, <1>5, <2>1, UntouchedKeeps DEF Untouched
  <2>2. CASE link[h].agent = a
    <3>1. a # Nobody /\ AgencyOf(h) = NoAgency /\ AgencyOf(h)' = x /\ h \in stranded
      BY <1>1, <2>2 DEF AgencyOf, AllHoused, MembershipConstants
    <3> QED BY <1>1, <1>2, <2>2, <3>1 DEF Consented, LetGoLeaves, Housed
  <2> QED BY <2>1, <2>2
<1> QED BY <1>3, <1>4, <1>6, <1>7 DEF MembershipKept

\* An agent is removed: the hosts are moved to the owner, into the same agency.
LEMMA RemoveKeeps ==
  ASSUME MembershipConstants, MemberInv, NEW x \in Agencies, NEW a \in Agents, RemoveAgent(x, a)
  PROVE  MemberInv' /\ MembershipKept
<1> USE DEF MemberInv, Shaped
<1> DEFINE o == Owner[x]
<1>1. /\ seat[a] = x /\ a # o /\ seat' = [seat EXCEPT ![a] = NoAgency]
      /\ link' = [h \in Hosts |-> IF h \in Moved(a) THEN Linked(h, o) ELSE link[h]]
      /\ UNCHANGED <<quit, busy, stranded>>
  BY DEF RemoveAgent
<1>2. /\ NoAgency \notin Agencies /\ o \in Agents /\ o # Nobody /\ a # Nobody
      /\ \A y \in Agencies : Owner[y] # a
  BY <1>1 DEF MembershipConstants, OwnersSeated
<1>3. \A h \in Hosts : link[h] \in Link /\ Linked(h, o) \in Link
  BY <1>2 DEF Link, Linked
<1>4. \A h \in Hosts : IF link[h].agent = a THEN link'[h].agent = o /\ link'[h].id = link[h].id + 1
                        ELSE link'[h] = link[h]
  BY <1>1 DEF Moved, Linked
<1>5. Shaped' /\ TransactionsSound'
  BY <1>1, <1>3 DEF TransactionsSound
<1>6. OwnersSeated'
  BY <1>1, <1>2 DEF OwnersSeated, MembershipConstants
<1>7. seat'[o] = x /\ seat'[o] # NoAgency
  BY <1>2, <1>6 DEF OwnersSeated
<1>8. AllHoused'
  <2>1. \A h \in Hosts : link[h].agent # Nobody => link[h].agent \in Agents
    BY <1>3 DEF Link
  <2> QED BY <1>1, <1>4, <1>7, <2>1 DEF AllHoused
<1>9. ExitsMatch'
  <2>1. \A h \in Hosts : link[h].id \in Nat /\ quit[h].of \in Nat /\ busy[h].id \in Nat
    BY DEF Link, Exit, Doing
  <2> QED BY <1>1, <1>4, <2>1 DEF ExitsMatch
<1>10. ASSUME NEW h \in Hosts PROVE Consented(h) /\ LetGoLeaves(h) /\ Housed(h)
  <2>1. CASE link[h].agent # a
    BY <1>1, <1>3, <1>4, <2>1, UntouchedKeeps DEF Untouched, Link
  <2>2. CASE link[h].agent = a
    BY <1>1, <1>2, <1>4, <1>7, <2>2 DEF Consented, LetGoLeaves, Housed, AgencyOf
  <2> QED BY <2>1, <2>2
<1> QED BY <1>5, <1>6, <1>8, <1>9, <1>10 DEF MembershipKept

-----------------------------------------------------------------------------
\* Steps about one host's application q, or one's link l, and no seat.
LEMMA HostKeeps ==
  ASSUME MembershipConstants, MemberInv, NEW h \in Hosts, NEW q \in Exit, NEW l \in Link,
         NEW b \in Doing, quit' = [quit EXCEPT ![h] = q], link' = [link EXCEPT ![h] = l],
         busy' = [busy EXCEPT ![h] = b], UNCHANGED <<seat, stranded>>,
         l.id = link[h].id, q.of <= l.id, b.id <= l.id, b.op = "idle" \/ b = busy[h],
         l.agent = link[h].agent \/ l.agent = Nobody,
         b = busy[h] /\ b.op \in {"quit", "leave"} => q.status = "none" \/ q.age = 2,
         q.status \in LetGo /\ q.of = l.id => l.agent = Nobody,
         l.agent # link[h].agent => q # quit[h] /\ q.status \in LetGo
  PROVE  MemberInv' /\ MembershipKept
<1> USE DEF MemberInv, Shaped
<1>1. /\ link'[h] = l /\ quit'[h] = q /\ busy'[h] = b
      /\ \A g \in Hosts \ {h} : link'[g] = link[g] /\ quit'[g] = quit[g] /\ busy'[g] = busy[g]
  OBVIOUS
<1>2. Shaped' /\ OwnersSeated'
  BY DEF OwnersSeated
<1>3. AllHoused'
  BY <1>1 DEF AllHoused
<1>4. ExitsMatch' /\ TransactionsSound'
  BY <1>1 DEF ExitsMatch, TransactionsSound
<1>5. \A g \in Hosts \ {h} : Consented(g) /\ LetGoLeaves(g) /\ Housed(g)
  BY <1>1, UntouchedKeeps DEF Untouched
<1>6. Consented(h) /\ LetGoLeaves(h) /\ Housed(h)
  BY <1>1 DEF Consented, LetGoLeaves, Housed, AgencyOf, AllHoused
<1> QED BY <1>2, <1>3, <1>4, <1>5, <1>6 DEF MembershipKept

\* endAssignment closes the row it is given, and no later one.
LEMMA Ending ==
  ASSUME MemberInv, NEW h \in Hosts, NEW id \in Nat
  PROVE  \E l \in Link :
            /\ Ended(h, id) = [link EXCEPT ![h] = l] /\ l.id = link[h].id
            /\ link[h].id = id => l.agent = Nobody
            /\ link[h].id # id => l = link[h]
<1>1. link[h] \in Link /\ link = [link EXCEPT ![h] = link[h]]
  BY DEF MemberInv, Shaped
<1>2. Unlinked(h) \in Link /\ Unlinked(h).id = link[h].id /\ Unlinked(h).agent = Nobody
  BY <1>1 DEF Unlinked, Link
<1> QED BY <1>1, <1>2 DEF Ended

LEMMA QuitKeeps ==
  ASSUME MembershipConstants, MemberInv, NEW h \in Hosts, Quit(h)
  PROVE  MemberInv' /\ MembershipKept
<1> DEFINE q == [status |-> IF busy[h].op = "leave" THEN "direct" ELSE "pending",
                 of |-> busy[h].id, age |-> 0, window |-> FALSE]
<1>1. /\ busy[h].op \in {"quit", "leave"} /\ busy' = [busy EXCEPT ![h] = Idle]
      /\ quit' = [quit EXCEPT ![h] = q] /\ UNCHANGED <<seat, stranded>>
      /\ link' = IF busy[h].op = "leave" THEN Ended(h, busy[h].id) ELSE link
  BY DEF Quit
<1>2. /\ busy[h] \in Doing /\ link[h] \in Link /\ quit[h] \in Exit /\ link = [link EXCEPT ![h] = link[h]]
      /\ busy[h].id \in Nat /\ busy[h].id <= link[h].id /\ link[h].id \in Nat
      /\ quit[h].status = "none" \/ quit[h].age = 2
  BY <1>1 DEF MemberInv, Shaped, Doing, Link, ExitsMatch, TransactionsSound
<1>3. q \in Exit /\ q # quit[h] /\ Idle \in Doing
  BY <1>2 DEF Exit, LetGo, Idle, Doing
<1>4. Idle.op = "idle" /\ Idle.id = 0
  BY DEF Idle
<1>5. CASE busy[h].op = "leave"
  <2>1. PICK l \in Link : /\ link' = [link EXCEPT ![h] = l] /\ l.id = link[h].id
                          /\ link[h].id = busy[h].id => l.agent = Nobody
                          /\ link[h].id # busy[h].id => l = link[h]
    BY <1>1, <1>2, <1>5, Ending
  <2>2. q.status = "direct" /\ q.of = busy[h].id
    BY <1>5
  <2> HIDE DEF q
  <2>3. /\ q.of <= l.id /\ Idle.id <= l.id /\ (l.agent = link[h].agent \/ l.agent = Nobody)
        /\ ~(Idle.op \in {"quit", "leave"}) /\ q.status \in LetGo
        /\ q.of = l.id => l.agent = Nobody
    BY <1>2, <1>4, <2>1, <2>2 DEF LetGo
  <2> QED BY <1>1, <1>3, <1>4, <2>1, <2>3, HostKeeps
<1>6. CASE busy[h].op = "quit"
  <2>1. q.status = "pending" /\ q.of = busy[h].id /\ link' = [link EXCEPT ![h] = link[h]]
    BY <1>1, <1>2, <1>6
  <2> HIDE DEF q
  <2>2. /\ q.of <= link[h].id /\ Idle.id <= link[h].id
        /\ ~(Idle.op \in {"quit", "leave"}) /\ q.status \notin LetGo
    BY <1>2, <1>4, <2>1 DEF LetGo
  <2> QED BY <1>1, <1>2, <1>3, <1>4, <2>1, <2>2, HostKeeps
<1> QED BY <1>1, <1>5, <1>6

\* The owner's answer, and the job that leaves for a host nobody answered.
LEMMA QuitDecisionKeeps ==
  ASSUME MembershipConstants, MemberInv, NEW h \in Hosts, Reject(h) \/ Approve(h) \/ AutoLeave(h)
  PROVE  MemberInv' /\ MembershipKept
<1>1. /\ busy' = busy /\ busy = [busy EXCEPT ![h] = busy[h]] /\ busy[h] \in Doing /\ Free(h)
      /\ quit[h] \in Exit /\ link[h] \in Link /\ link = [link EXCEPT ![h] = link[h]]
      /\ UNCHANGED <<seat, stranded>>
  BY DEF MemberInv, Shaped, Reject, Approve, AutoLeave
<1>2. /\ quit[h].of \in Nat /\ link[h].id \in Nat /\ quit[h].of <= link[h].id
      /\ busy[h].id <= link[h].id /\ busy[h].op = "idle"
  BY <1>1 DEF MemberInv, ExitsMatch, Exit, Link, Free, Idle
<1>3. CASE Reject(h)
  <2> DEFINE q == [quit[h] EXCEPT !.status = "rejected", !.window = TRUE]
  <2>1. quit' = [quit EXCEPT ![h] = q] /\ link' = [link EXCEPT ![h] = link[h]]
    BY <1>1, <1>3 DEF Reject
  <2>2. q \in Exit /\ q.status = "rejected" /\ q.of = quit[h].of
    BY <1>1 DEF Exit
  <2> HIDE DEF q
  <2> QED BY <1>1, <1>2, <2>1, <2>2, HostKeeps DEF LetGo
<1>4. CASE Approve(h) \/ AutoLeave(h)
  <2>1. PICK q \in Exit : /\ quit' = [quit EXCEPT ![h] = q] /\ q.status \in LetGo
                          /\ q.of = quit[h].of /\ q # quit[h]
    <3>1. CASE Approve(h)
      <4> DEFINE q == [quit[h] EXCEPT !.status = "approved", !.window = FALSE]
      <4>1. quit' = [quit EXCEPT ![h] = q] /\ (quit[h].status = "pending" \/ quit[h].window)
        BY <3>1 DEF Approve
      <4>2. q \in Exit /\ q.status = "approved" /\ q.window = FALSE /\ q.of = quit[h].of
        BY <1>1 DEF Exit, LetGo
      <4>3. q # quit[h]
        BY <4>1, <4>2
      <4> QED BY <4>1, <4>2, <4>3 DEF LetGo
    <3>2. CASE AutoLeave(h)
      <4> DEFINE q == [quit[h] EXCEPT !.status = "auto_left"]
      <4>1. quit' = [quit EXCEPT ![h] = q] /\ quit[h].status = "pending"
        BY <3>2 DEF AutoLeave
      <4>2. q \in Exit /\ q.status = "auto_left" /\ q.of = quit[h].of
        BY <1>1 DEF Exit, LetGo
      <4> QED BY <4>1, <4>2 DEF LetGo
    <3> QED BY <1>4, <3>1, <3>2
  <2>2. PICK l \in Link : /\ link' = [link EXCEPT ![h] = l] /\ l.id = link[h].id
                          /\ link[h].id = quit[h].of => l.agent = Nobody
                          /\ link[h].id # quit[h].of => l = link[h]
    BY <1>2, <1>4, Ending DEF Approve, AutoLeave, AutoEnded
  <2> QED BY <1>1, <1>2, <2>1, <2>2, HostKeeps
<1> QED BY <1>3, <1>4

LEMMA TimeKeeps ==
  ASSUME MembershipConstants, MemberInv, NEW h \in Hosts, Time(h)
  PROVE  MemberInv' /\ MembershipKept
<1>1. /\ busy' = busy /\ busy = [busy EXCEPT ![h] = busy[h]] /\ busy[h] \in Doing
      /\ quit[h] \in Exit /\ link[h] \in Link /\ link = [link EXCEPT ![h] = link[h]]
      /\ quit = [quit EXCEPT ![h] = quit[h]]
      /\ UNCHANGED <<seat, stranded>>
  BY DEF MemberInv, Shaped, Time
<1>2. /\ quit[h].of \in Nat /\ link[h].id \in Nat /\ quit[h].of <= link[h].id
      /\ busy[h].id <= link[h].id
      /\ busy[h].op \in {"quit", "leave"} => quit[h].status = "none" \/ quit[h].age = 2
      /\ quit[h].status \in LetGo /\ quit[h].of = link[h].id => link[h].agent = Nobody
  BY <1>1 DEF MemberInv, ExitsMatch, TransactionsSound, Exit, Link
<1>3. PICK q \in Exit, l \in Link :
        /\ quit' = [quit EXCEPT ![h] = q] /\ link' = [link EXCEPT ![h] = l]
        /\ q.status = quit[h].status /\ q.of = quit[h].of
        /\ l.id = link[h].id /\ l.agent = link[h].agent
        /\ quit[h].age = 2 => q.age = 2
  <2>1. CASE link' = [link EXCEPT ![h].recent = FALSE] /\ UNCHANGED quit
    <3>1. [link[h] EXCEPT !.recent = FALSE] \in Link
      BY <1>1 DEF Link
    <3> QED BY <1>1, <2>1, <3>1 DEF Link
  <2>2. CASE /\ quit[h].age < 2 /\ UNCHANGED link
             /\ quit' = [quit EXCEPT ![h].age = @ + 1]
    <3> DEFINE q == [quit[h] EXCEPT !.age = @ + 1]
    <3>1. quit[h].age \in 0..2
      BY <1>1 DEF Exit
    <3>2. q \in Exit /\ q.status = quit[h].status /\ q.of = quit[h].of
      BY <1>1, <2>2, <3>1 DEF Exit
    <3>3. quit' = [quit EXCEPT ![h] = q] /\ quit[h].age # 2 /\ link' = [link EXCEPT ![h] = link[h]]
      BY <1>1, <2>2, <3>1
    <3> HIDE DEF q
    <3> QED BY <1>1, <3>2, <3>3
  <2>3. CASE quit' = [quit EXCEPT ![h].window = FALSE] /\ UNCHANGED link
    <3>1. [quit[h] EXCEPT !.window = FALSE] \in Exit
      BY <1>1 DEF Exit
    <3> QED BY <1>1, <2>3, <3>1 DEF Exit
  <2> QED BY <2>1, <2>2, <2>3 DEF Time
<1>4. /\ busy' = [busy EXCEPT ![h] = busy[h]]
      /\ q.of <= l.id /\ busy[h].id <= l.id
      /\ busy[h].op \in {"quit", "leave"} => q.status = "none" \/ q.age = 2
      /\ q.status \in LetGo /\ q.of = l.id => l.agent = Nobody
  BY <1>1, <1>2, <1>3
<1> QED BY <1>1, <1>3, <1>4, HostKeeps

-----------------------------------------------------------------------------
LEMMA MemberStep ==
  ASSUME MembershipConstants, MemberInv, [MembershipNext]_membershipVars
  PROVE  MemberInv' /\ MembershipKept
<1>1. ASSUME NEW h \in Hosts, Accept(h) \/ Quit(h) \/ Reject(h) \/ Approve(h) \/ AutoLeave(h) \/ Time(h)
      PROVE  MemberInv' /\ MembershipKept
  BY <1>1, AcceptKeeps, QuitKeeps, QuitDecisionKeeps, TimeKeeps
<1>2. ASSUME NEW x \in Agencies, NEW a \in Agents, Join(x, a) \/ RemoveAgent(x, a)
      PROVE  MemberInv' /\ MembershipKept
  BY <1>2, JoinKeeps, RemoveKeeps
<1>3. ASSUME NEW h \in Hosts, ApplyToQuit(h)
      PROVE  MemberInv' /\ MembershipKept
  <2>1. [op |-> IF Direct(h) THEN "leave" ELSE "quit", agent |-> Nobody, id |-> link[h].id] \in Doing
    BY DEF MemberInv, Shaped, Link, Doing
  <2> QED BY <1>3, <2>1, QuietKeeps DEF ApplyToQuit, MemberInv, Shaped
<1>4. ASSUME NEW h \in Hosts, NEW a \in Agents, Answer(h, a)
      PROVE  MemberInv' /\ MembershipKept
  <2>1. [op |-> "accept", agent |-> a, id |-> 0] \in Doing
    BY DEF Doing
  <2> QED BY <1>4, <2>1, QuietKeeps DEF Answer, MemberInv, Shaped
<1>5. CASE UNCHANGED <<seat, link, quit, stranded, busy>>
  BY <1>5, QuietKeeps DEF MemberInv, Shaped
<1> QED BY <1>1, <1>2, <1>3, <1>4, <1>5
        DEF MembershipNext, AskToJoin, Drop, Invite, Uninvite, SetStanding, membershipVars

\* What MemberInv leaves out of the type: the rest of the state, and the bound.
Framed ==
    /\ standing \in [Agencies -> {"active", "suspended", "closed"}]
    /\ request \in [Hosts \X Agents -> {"none", "host_applied", "agent_invited"}]
    /\ invited \subseteq Agencies \X Agents /\ stranded \subseteq Hosts
    /\ \A h \in Hosts : link[h].id <= MaxLinks

LEMMA FramedTypes == ASSUME MembershipConstants, MemberInv, Framed PROVE MembershipTypeOK
<1>1. \A h \in Hosts : /\ link[h] \in Link /\ quit[h] \in Exit /\ busy[h] \in Doing
                       /\ quit[h].of <= link[h].id /\ busy[h].id <= link[h].id
                       /\ link[h].id <= MaxLinks /\ MaxLinks \in Nat
  BY DEF MembershipConstants, MemberInv, Shaped, ExitsMatch, Framed
<1>2. \A h \in Hosts :
        /\ link[h].id \in 0..MaxLinks /\ quit[h].of \in 0..MaxLinks /\ busy[h].id \in 0..MaxLinks
  BY <1>1 DEF Link, Exit, Doing
<1>3. link \in [Hosts -> [id : 0..MaxLinks, agent : Agents \cup {Nobody}, recent : BOOLEAN]]
  BY <1>1, <1>2 DEF MemberInv, Shaped, Link
<1>4. quit \in [Hosts -> [status : LetGo \cup {"none", "pending", "rejected"}, of : 0..MaxLinks,
                          age : 0..2, window : BOOLEAN]]
  BY <1>1, <1>2 DEF MemberInv, Shaped, Exit
<1>5. busy \in [Hosts -> [op : {"idle", "accept", "quit", "leave"}, agent : Agents \cup {Nobody},
                          id : 0..MaxLinks]]
  BY <1>1, <1>2 DEF MemberInv, Shaped, Doing
<1> QED BY <1>3, <1>4, <1>5 DEF MembershipTypeOK, Framed, MemberInv, Shaped

LEMMA FramedStep ==
  ASSUME MembershipConstants, MemberInv, Framed, [MembershipNext]_membershipVars
  PROVE  Framed'
<1>0. \A h \in Hosts : link[h] \in Link /\ link[h].id \in Nat /\ link[h].id <= MaxLinks
  BY DEF MemberInv, Shaped, Link, Framed
<1>1. MaxLinks \in Nat /\ link \in [Hosts -> Link]
  BY DEF MembershipConstants, MemberInv, Shaped
<1>2. ASSUME NEW h \in Hosts, Accept(h) PROVE Framed'
  <2>1. /\ link' = link \/ link' = [link EXCEPT ![h] = Linked(h, busy[h].agent)]
        /\ link[h].id < MaxLinks
    BY <1>2 DEF Accept
  <2>2. \A g \in Hosts : link'[g].id <= MaxLinks
    BY <1>0, <1>1, <2>1 DEF Linked
  <2>3. /\ request' \in [Hosts \X Agents -> {"none", "host_applied", "agent_invited"}]
        /\ stranded' \subseteq Hosts
    BY <1>2 DEF Accept, Framed
  <2> QED BY <1>2, <2>2, <2>3 DEF Accept, Framed
<1>3. ASSUME NEW h \in Hosts, Quit(h) \/ Reject(h) \/ Approve(h) \/ AutoLeave(h) \/ Time(h)
      PROVE  Framed'
  <2>1. \/ link' = link \/ link' = [link EXCEPT ![h] = Unlinked(h)]
        \/ link' = [link EXCEPT ![h].recent = FALSE]
    BY <1>3 DEF Quit, Reject, Approve, AutoLeave, AutoEnded, Ended, Time
  <2>4. \A g \in Hosts : link'[g].id = link[g].id
    <3>1. Unlinked(h).id = link[h].id /\ [link[h] EXCEPT !.recent = FALSE].id = link[h].id
      BY <1>0 DEF Unlinked, Link
    <3>2. CASE link' = [link EXCEPT ![h] = Unlinked(h)]
      BY <1>1, <3>1, <3>2
    <3>3. CASE link' = [link EXCEPT ![h].recent = FALSE]
      <4>1. link' = [link EXCEPT ![h] = [link[h] EXCEPT !.recent = FALSE]]
        BY <1>1, <3>3
      <4> QED BY <1>1, <3>1, <4>1
    <3> QED BY <2>1, <3>2, <3>3
  <2>3. UNCHANGED <<standing, request, invited, stranded>>
    BY <1>3 DEF Quit, Reject, Approve, AutoLeave, Time
  <2> QED BY <2>3, <2>4 DEF Framed
<1>4. ASSUME NEW x \in Agencies, NEW a \in Agents, RemoveAgent(x, a) PROVE Framed'
  <2>1. \A h \in Hosts : link'[h].id <= MaxLinks
    BY <1>0, <1>1, <1>4 DEF RemoveAgent, Linked
  <2> QED BY <1>4, <2>1 DEF RemoveAgent, Framed
<1>5. ASSUME NEW h \in Hosts, NEW a \in Agents, NEW d \in {"host_applied", "agent_invited"},
             AskToJoin(h, a, d)
      PROVE  Framed'
  BY <1>5 DEF AskToJoin, Framed
<1>6. ASSUME NEW h \in Hosts, NEW a \in Agents, Drop(h, a) \/ Answer(h, a) PROVE Framed'
  BY <1>6 DEF Drop, Answer, Framed
<1>7. ASSUME NEW h \in Hosts, ApplyToQuit(h) PROVE Framed'
  BY <1>7 DEF ApplyToQuit, Framed
<1>8. ASSUME NEW x \in Agencies, NEW a \in Agents, Invite(x, a) \/ Uninvite(x, a) \/ Join(x, a)
      PROVE  Framed'
  BY <1>8 DEF Invite, Uninvite, Join, Framed
<1>9. ASSUME NEW x \in Agencies, NEW s \in {"active", "suspended", "closed"}, SetStanding(x, s)
      PROVE  Framed'
  BY <1>9 DEF SetStanding, Framed
<1>10. CASE UNCHANGED membershipVars
  BY <1>10 DEF membershipVars, Framed
<1> QED BY <1>2, <1>3, <1>4, <1>5, <1>6, <1>7, <1>8, <1>9, <1>10 DEF MembershipNext

\* For any number of agencies, agents and hosts, and any order of their requests,
\* answers, removals and applications: membership changes only by consent, and
\* every row keeps its type.
THEOREM MembershipAlwaysHolds == ASSUME MembershipConstants PROVE MembershipSpec => MembershipHolds
<1>1. MembershipInit => MemberInv /\ Framed
  <2>1. MembershipInit => Framed
    BY DEF MembershipInit, Framed, MembershipConstants
  <2> QED BY <2>1, Initially
<1>2. MemberInv /\ Framed /\ [MembershipNext]_membershipVars =>
        MemberInv' /\ Framed' /\ MembershipKept
  BY MemberStep, FramedStep
<1>3. MemberInv /\ Framed => MembershipTypeOK
  BY FramedTypes
<1> QED BY <1>1, <1>2, <1>3, PTL DEF MembershipSpec, MembershipHolds

-----------------------------------------------------------------------------
(* The coin channel: the inventory adds up, and the caps of a day hold     *)

SentRow   == [request : RequestIds, stamp : 0..LastDay, counted : 0..LastDay]
CallState == [at : {"idle", "checked", "begun", "inside", "counted", "ok", "refused"},
              stamp : 0..LastDay, counted : 0..LastDay]
PrepayRow == [state : {"none", "pending", "confirmed", "rejected"},
              recorder : Admins \cup {NoAdmin}, decider : Admins \cup {NoAdmin}]

Confirmed(P)    == {p \in Prepays : P[p].state = "confirmed"}
Requested(S)    == {x.request : x \in S}
StampedOn(S, d) == {x \in S : x.stamp = d}
WholeOn(S, d)   == {x \in S : x.stamp = d /\ x.counted = d}
PaidTo(S, u)    == {x \in S : Payee[x.request] = u}

\* A lot more would fit in what was sent with the stamp of the day d.
Leaves(S, d, r) ==
    /\ LotsOf(StampedOn(S, d)) + Lot[r] <= AgencyCap
    /\ LotsOf(PaidTo(StampedOn(S, d), Payee[r])) + Lot[r] <= PayeeCap

WithinDay(S) ==
    /\ LotsOf(S) <= AgencyCap
    /\ \A x \in S : LotsOf(PaidTo(S, Payee[x.request])) <= PayeeCap

\* Who is past its entry holds the inventory's lock, and nobody else.
LockHeld == \A c \in Calls : doing[c].at \in {"inside", "counted"} <=> holder = c

\* Whoever holds the lock to send finds its request not sent yet.
RequestsFresh == \A c \in Transfers : holder = c => RequestOf[c] \notin Requested(sent)

\* A decision past its check is of a recorded prepay, and by somebody else.
DecidersApart ==
    \A c \in Decisions :
        /\ doing[c].at # "counted"
        /\ doing[c].at \in {"checked", "begun", "inside"} =>
              /\ prepay[PrepayOf[c]].state # "none"
              /\ prepay[PrepayOf[c]].recorder # By[c]

\* What the caps and the balance were checked for still fits.
RoomIsLeft ==
    \A c \in Transfers : doing[c].at = "counted" =>
        Lot[RequestOf[c]] <= inventory /\ Leaves(sent, doing[c].counted, RequestOf[c])

\* Nobody decided what is undecided.
Undecided == \A p \in Prepays : prepay[p].state \in {"none", "pending"} => prepay[p].decider = NoAdmin

ChannelInv ==
    /\ ChannelTypeOK /\ IsFiniteSet(sent) /\ IsFiniteSet(Confirmed(prepay))
    /\ LockHeld /\ RequestsFresh /\ DecidersApart /\ RoomIsLeft /\ Undecided
    /\ InventoryAddsUp /\ CapsHold

-----------------------------------------------------------------------------
(* Sums of lots                                                            *)

LEMMA LotsGrow ==
  ASSUME AgencyCoinsConstants, NEW S \in SUBSET SentRow, IsFiniteSet(S), NEW x \in SentRow, x \notin S
  PROVE  /\ LotsOf(S) \in Nat /\ Lot[x.request] \in Nat
         /\ LotsOf(S \cup {x}) = LotsOf(S) + Lot[x.request]
<1> DEFINE f == [y \in S |-> Lot[y.request]]
           g == [y \in S \cup {x} |-> Lot[y.request]]
<1>1. \A y \in SentRow : Lot[y.request] \in Nat
  BY DEF AgencyCoinsConstants, SentRow
<1>2. /\ \A y \in S : f[y] \in Nat /\ g[y] \in Nat /\ f[y] = g[y]
      /\ g[x] = Lot[x.request] /\ g[x] \in Nat
  BY <1>1
<1>3. LotsOf(S) = SumFunctionOnSet(f, S) /\ LotsOf(S \cup {x}) = SumFunctionOnSet(g, S \cup {x})
  BY DEF LotsOf
<1> HIDE DEF f, g
<1>4. SumFunctionOnSet(f, S) \in Nat /\ SumFunctionOnSet(f, S) = SumFunctionOnSet(g, S)
  BY <1>2, SumType, SumSame
<1>5. SumFunctionOnSet(g, S \cup {x}) = SumFunctionOnSet(g, S) + g[x]
  BY <1>2, SumAdd
<1> QED BY <1>2, <1>3, <1>4, <1>5

LEMMA LotsType ==
  ASSUME AgencyCoinsConstants, NEW S \in SUBSET SentRow, IsFiniteSet(S)
  PROVE  LotsOf(S) \in Nat
<1> DEFINE f == [y \in S |-> Lot[y.request]]
<1>1. \A y \in S : f[y] \in Nat
  BY DEF AgencyCoinsConstants, SentRow
<1>2. LotsOf(S) = SumFunctionOnSet(f, S)
  BY DEF LotsOf
<1> HIDE DEF f
<1> QED BY <1>1, <1>2, SumType

LEMMA LotsSubset ==
  ASSUME AgencyCoinsConstants, NEW S \in SUBSET SentRow, IsFiniteSet(S), NEW T \in SUBSET S
  PROVE  LotsOf(T) <= LotsOf(S)
<1> DEFINE f == [y \in S |-> Lot[y.request]]
           g == [y \in T |-> Lot[y.request]]
<1>1. /\ \A y \in S : f[y] \in Nat
      /\ \A y \in T : g[y] \in Int /\ g[y] = f[y]
      /\ IsFiniteSet(T)
  BY FS_Subset DEF AgencyCoinsConstants, SentRow
<1>2. LotsOf(S) = SumFunctionOnSet(f, S) /\ LotsOf(T) = SumFunctionOnSet(g, T)
  BY DEF LotsOf
<1> HIDE DEF f, g
<1>3. SumFunctionOnSet(g, T) = SumFunctionOnSet(f, T)
  BY <1>1, SumSame
<1>4. SumFunctionOnSet(f, T) <= SumFunctionOnSet(f, S)
  BY <1>1, SumSubset
<1> QED BY <1>2, <1>3, <1>4

\* What fits in all that was stamped with a day keeps what is whole within its caps.
LEMMA CapsGrow ==
  ASSUME AgencyCoinsConstants, NEW S \in SUBSET SentRow, IsFiniteSet(S), NEW x \in SentRow, x \notin S,
         Leaves(S, x.counted, x.request), NEW d, WithinDay(WholeOn(S, d))
  PROVE  WithinDay(WholeOn(S \cup {x}, d))
<1> DEFINE W == WholeOn(S, d)
           u == Payee[x.request]
<1>1. W \subseteq S /\ W \in SUBSET SentRow /\ IsFiniteSet(W)
  BY FS_Subset DEF WholeOn
<1>2. CASE x.stamp = d /\ x.counted = d
  <2>1. WholeOn(S \cup {x}, d) = W \cup {x} /\ x \notin W
    BY <1>2 DEF WholeOn
  <2> DEFINE D == StampedOn(S, d)
  <2>2. D \in SUBSET SentRow /\ IsFiniteSet(D) /\ W \in SUBSET D
    BY FS_Subset DEF StampedOn, WholeOn
  <2>3. /\ PaidTo(W, u) \in SUBSET PaidTo(D, u) /\ PaidTo(D, u) \in SUBSET SentRow
        /\ IsFiniteSet(PaidTo(D, u)) /\ IsFiniteSet(PaidTo(W, u))
        /\ PaidTo(W, u) \in SUBSET SentRow /\ x \notin PaidTo(W, u)
    <3>1. PaidTo(W, u) \subseteq W /\ PaidTo(D, u) \subseteq D /\ PaidTo(W, u) \subseteq PaidTo(D, u)
      BY <2>2 DEF PaidTo
    <3> QED BY <1>1, <2>1, <2>2, <3>1, FS_Subset
  <2>4. LotsOf(D) + Lot[x.request] <= AgencyCap /\ LotsOf(PaidTo(D, u)) + Lot[x.request] <= PayeeCap
    BY <1>2 DEF Leaves
  <2> HIDE DEF D, W
  <2>5. /\ LotsOf(W) <= LotsOf(D) /\ LotsOf(PaidTo(W, u)) <= LotsOf(PaidTo(D, u))
    BY <2>2, <2>3, LotsSubset
  <2>6. /\ LotsOf(W \cup {x}) = LotsOf(W) + Lot[x.request]
        /\ LotsOf(PaidTo(W, u) \cup {x}) = LotsOf(PaidTo(W, u)) + Lot[x.request]
        /\ LotsOf(W) \in Nat /\ LotsOf(PaidTo(W, u)) \in Nat /\ Lot[x.request] \in Nat
    BY <1>1, <2>1, <2>3, LotsGrow
  <2>7. LotsOf(D) \in Nat /\ LotsOf(PaidTo(D, u)) \in Nat
    BY <2>2, <2>3, LotsType
  <2>8. LotsOf(W \cup {x}) <= AgencyCap /\ LotsOf(PaidTo(W, u) \cup {x}) <= PayeeCap
    BY <2>4, <2>5, <2>6, <2>7 DEF AgencyCoinsConstants
  <2>9. ASSUME NEW y \in W \cup {x}
        PROVE  LotsOf(PaidTo(W \cup {x}, Payee[y.request])) <= PayeeCap
    <3>1. CASE Payee[y.request] = u
      <4>1. PaidTo(W \cup {x}, Payee[y.request]) = PaidTo(W, u) \cup {x}
        BY <3>1 DEF PaidTo
      <4> QED BY <2>8, <4>1
    <3>2. CASE Payee[y.request] # u
      <4>1. y \in W /\ PaidTo(W \cup {x}, Payee[y.request]) = PaidTo(W, Payee[y.request])
        BY <3>2 DEF PaidTo
      <4> QED BY <4>1 DEF WithinDay, W
    <3> QED BY <3>1, <3>2
  <2> QED BY <2>1, <2>8, <2>9 DEF WithinDay
<1>3. CASE ~(x.stamp = d /\ x.counted = d)
  <2>1. WholeOn(S \cup {x}, d) = WholeOn(S, d)
    BY <1>3 DEF WholeOn
  <2> QED BY <2>1
<1> QED BY <1>2, <1>3

\* A finite set of rows is of finitely many requests.
LEMMA RequestedFinite == ASSUME NEW S, IsFiniteSet(S) PROVE IsFiniteSet(Requested(S))
<1> DEFINE f == [x \in S |-> x.request]
<1>1. f \in Surjection(S, Requested(S))
  BY DEF Surjection, Requested
<1> QED BY <1>1, FS_Surjection

LEMMA CapsByDay == CapsHold <=> \A d \in 0..LastDay : WithinDay(WholeOn(sent, d))
BY DEF CapsHold, WithinDay, WholeOn, PaidTo

-----------------------------------------------------------------------------
(* Steps                                                                   *)

LEMMA ChannelStarts == ASSUME AgencyCoinsConstants, ChannelInit PROVE ChannelInv
<1> USE DEF ChannelInit
<1>1. ChannelTypeOK
  BY DEF AgencyCoinsConstants, ChannelTypeOK, Unasked
<1>2. Confirmed(prepay) = {} /\ Requested(sent) = {} /\ sent = {}
  BY DEF Confirmed, Requested
<1>3. IsFiniteSet({})
  BY FS_EmptySet
<1>4. LockHeld /\ RequestsFresh /\ DecidersApart /\ RoomIsLeft /\ Undecided
  BY <1>2 DEF AgencyCoinsConstants, LockHeld, RequestsFresh, DecidersApart, RoomIsLeft, Undecided,
              Unasked, Calls
<1>5. InventoryAddsUp
  <2>1. SumFunctionOnSet(Worth, {}) = 0 /\ SumFunctionOnSet(Lot, {}) = 0
    BY SumEmpty
  <2> QED BY <1>2, <2>1 DEF InventoryAddsUp, Confirmed, Requested
<1>6. CapsHold
  <2>1. \A d : WholeOn(sent, d) = {}
    BY DEF WholeOn
  <2>2. LotsOf({}) = 0
    BY SumEmpty DEF LotsOf
  <2>3. WithinDay({})
    BY <2>2 DEF WithinDay, AgencyCoinsConstants
  <2> QED BY <2>1, <2>3, CapsByDay
<1> QED BY <1>1, <1>2, <1>3, <1>4, <1>5, <1>6 DEF ChannelInv

\* How a step of the call c, which goes on as e, moves the lock.
LockMoves(c, e) ==
    /\ holder' \in {holder, c, NoCall}
    /\ holder' = c <=> e.at \in {"inside", "counted"}
    /\ holder \notin {c, NoCall} => holder' = holder

\* Every step of a call replaces its state, and the lock follows.
LEMMA CallMoves ==
  ASSUME AgencyCoinsConstants, ChannelInv, NEW c \in Calls, NEW e \in CallState,
         doing' = [doing EXCEPT ![c] = e], LockMoves(c, e)
  PROVE  /\ doing' \in [Calls -> CallState] /\ doing'[c] = e
         /\ \A b \in Calls : b # c => doing'[b] = doing[b]
         /\ holder' \in Calls \cup {NoCall} /\ LockHeld'
<1> USE DEF ChannelInv
<1>1. doing \in [Calls -> CallState] /\ holder \in Calls \cup {NoCall} /\ NoCall \notin Calls
  BY DEF ChannelTypeOK, CallState, AgencyCoinsConstants
<1>2. /\ doing' \in [Calls -> CallState] /\ doing'[c] = e
      /\ \A b \in Calls : b # c => doing'[b] = doing[b]
  BY <1>1
<1>3. holder' \in Calls \cup {NoCall}
  BY <1>1 DEF LockMoves
<1>4. ASSUME NEW b \in Calls PROVE doing'[b].at \in {"inside", "counted"} <=> holder' = b
  <2>1. CASE b = c
    BY <1>2, <2>1 DEF LockMoves
  <2>2. CASE b # c
    BY <1>1, <1>2, <2>2 DEF LockMoves, LockHeld
  <2> QED BY <2>1, <2>2
<1> QED BY <1>2, <1>3, <1>4 DEF LockHeld

\* A step of a call that writes no row.
LEMMA QuietCall ==
  ASSUME AgencyCoinsConstants, ChannelInv, NEW c \in Calls, NEW e \in CallState,
         doing' = [doing EXCEPT ![c] = e], LockMoves(c, e),
         UNCHANGED <<prepay, inventory, sent>>,
         day' \in 0..LastDay, trading' \in BOOLEAN, mishaps' \in 0..MaxMishaps,
         c \in Transfers /\ holder' = c => RequestOf[c] \notin Requested(sent),
         c \in Transfers /\ e.at = "counted" =>
             Lot[RequestOf[c]] <= inventory /\ Leaves(sent, e.counted, RequestOf[c]),
         c \in Decisions =>
             /\ e.at # "counted"
             /\ e.at \in {"checked", "begun", "inside"} =>
                   prepay[PrepayOf[c]].state # "none" /\ prepay[PrepayOf[c]].recorder # By[c]
  PROVE  ChannelInv'
<1>1. /\ doing' \in [Calls -> CallState] /\ doing'[c] = e
      /\ \A b \in Calls : b # c => doing'[b] = doing[b]
      /\ holder' \in Calls \cup {NoCall} /\ LockHeld'
  BY CallMoves
<1>2. ChannelTypeOK'
  BY <1>1 DEF ChannelInv, ChannelTypeOK, CallState
<1>3. /\ IsFiniteSet(sent)' /\ IsFiniteSet(Confirmed(prepay))'
      /\ Undecided' /\ InventoryAddsUp' /\ CapsHold'
  BY DEF ChannelInv, Confirmed, Undecided, InventoryAddsUp, CapsHold, LotsOf
<1>4. RequestsFresh'
  <2> SUFFICES ASSUME NEW b \in Transfers, holder' = b PROVE RequestOf[b] \notin Requested(sent)
    BY DEF RequestsFresh, Requested
  <2>1. CASE b # c
    <3>1. holder = b
      BY <2>1 DEF LockMoves, AgencyCoinsConstants, Calls
    <3> QED BY <3>1 DEF ChannelInv, RequestsFresh
  <2> QED BY <2>1
<1>5. DecidersApart'
  <2> SUFFICES ASSUME NEW b \in Decisions
               PROVE  /\ doing'[b].at # "counted"
                      /\ doing'[b].at \in {"checked", "begun", "inside"} =>
                            prepay[PrepayOf[b]].state # "none" /\ prepay[PrepayOf[b]].recorder # By[b]
    BY DEF DecidersApart
  <2> QED BY <1>1 DEF ChannelInv, DecidersApart, Calls
<1>6. RoomIsLeft'
  <2> SUFFICES ASSUME NEW b \in Transfers, doing'[b].at = "counted"
               PROVE  Lot[RequestOf[b]] <= inventory /\ Leaves(sent, doing'[b].counted, RequestOf[b])
    BY DEF RoomIsLeft, Leaves, LotsOf, StampedOn, PaidTo
  <2> QED BY <1>1 DEF ChannelInv, RoomIsLeft, Calls
<1> QED BY <1>1, <1>2, <1>3, <1>4, <1>5, <1>6 DEF ChannelInv

\* Where Goes leads.
LEMMA Going ==
  ASSUME AgencyCoinsConstants, ChannelInv, NEW c \in Calls,
         NEW s \in {"checked", "begun", "inside", "ok", "refused"}, Goes(c, s)
  PROVE  \E e \in CallState : doing' = [doing EXCEPT ![c] = e] /\ e.at = s
<1>1. doing[c] \in CallState /\ doing \in [Calls -> CallState]
  BY DEF ChannelInv, ChannelTypeOK, CallState
<1>2. CASE s \in {"ok", "refused"}
  <2> DEFINE e == [Unasked EXCEPT !.at = s]
  <2>1. e \in CallState /\ e.at = s
    BY <1>2 DEF Unasked, CallState, AgencyCoinsConstants
  <2>2. doing' = [doing EXCEPT ![c] = e]
    BY <1>2 DEF Goes
  <2> QED BY <2>1, <2>2
<1>3. CASE s \notin {"ok", "refused"}
  <2> DEFINE e == [doing[c] EXCEPT !.at = s]
  <2>1. e \in CallState /\ e.at = s
    BY <1>1 DEF CallState
  <2>2. doing' = [doing EXCEPT ![c] = e]
    BY <1>3 DEF Goes
  <2> QED BY <2>1, <2>2
<1> QED BY <1>2, <1>3

LEMMA CheckKeeps ==
  ASSUME AgencyCoinsConstants, ChannelInv, NEW c \in Calls, CheckPrepay(c) \/ CheckTransfer(c)
  PROVE  ChannelInv'
<1>0. /\ day' \in 0..LastDay /\ trading' \in BOOLEAN /\ mishaps' \in 0..MaxMishaps
      /\ UNCHANGED <<prepay, inventory, sent>> /\ holder' = holder
  BY DEF CheckPrepay, CheckTransfer, ChannelInv, ChannelTypeOK
<1>1. doing[c].at = "idle" /\ holder # c
  BY DEF CheckPrepay, CheckTransfer, ChannelInv, LockHeld
<1>2. CASE CheckPrepay(c)
  <2> DEFINE s == IF prepay[PrepayOf[c]].state = "pending" /\ prepay[PrepayOf[c]].recorder # By[c]
                  THEN "checked" ELSE "refused"
  <2>1. Goes(c, s) /\ s \in {"checked", "refused"} /\ c \notin Transfers
    BY <1>2 DEF CheckPrepay, AgencyCoinsConstants
  <2>2. s = "checked" => prepay[PrepayOf[c]].state # "none" /\ prepay[PrepayOf[c]].recorder # By[c]
    OBVIOUS
  <2> HIDE DEF s
  <2>3. PICK e \in CallState : doing' = [doing EXCEPT ![c] = e] /\ e.at = s
    BY <2>1, Going
  <2>4. LockMoves(c, e)
    BY <1>0, <1>1, <2>1, <2>3 DEF LockMoves
  <2> QED BY <1>0, <2>1, <2>2, <2>3, <2>4, QuietCall
<1>3. CASE CheckTransfer(c)
  <2> DEFINE s == IF trading THEN "checked" ELSE "refused"
  <2>1. Goes(c, s) /\ s \in {"checked", "refused"} /\ c \notin Decisions
    BY <1>3 DEF CheckTransfer, AgencyCoinsConstants
  <2> HIDE DEF s
  <2>3. PICK e \in CallState : doing' = [doing EXCEPT ![c] = e] /\ e.at = s
    BY <2>1, Going
  <2>4. LockMoves(c, e)
    BY <1>0, <1>1, <2>1, <2>3 DEF LockMoves
  <2> QED BY <1>0, <1>1, <2>1, <2>3, <2>4, QuietCall
<1> QED BY <1>2, <1>3

LEMMA BeginKeeps ==
  ASSUME AgencyCoinsConstants, ChannelInv, NEW c \in Calls, Begin(c)
  PROVE  ChannelInv'
<1>0. /\ day' \in 0..LastDay /\ trading' \in BOOLEAN /\ mishaps' \in 0..MaxMishaps
      /\ UNCHANGED <<prepay, inventory, sent>> /\ holder' = holder /\ day \in 0..LastDay
  BY DEF Begin, ChannelInv, ChannelTypeOK
<1>1. doing[c].at = "checked" /\ holder # c
  BY DEF Begin, ChannelInv, LockHeld
<1>2. PICK e \in CallState : doing' = [doing EXCEPT ![c] = e] /\ e.at \in {"ok", "begun"}
  <2>1. /\ [Unasked EXCEPT !.at = "ok"] \in CallState
        /\ [Unasked EXCEPT !.at = "ok"].at = "ok"
    BY DEF CallState, Unasked, AgencyCoinsConstants
  <2>2. /\ [Unasked EXCEPT !.at = "begun", !.stamp = day] \in CallState
        /\ [Unasked EXCEPT !.at = "begun", !.stamp = day].at = "begun"
    <3>1. Unasked \in CallState
      BY DEF CallState, Unasked, AgencyCoinsConstants
    <3> QED BY <1>0, <3>1 DEF CallState
  <2> QED BY <2>1, <2>2 DEF Begin
<1>4. LockMoves(c, e)
  BY <1>0, <1>1, <1>2 DEF LockMoves
<1>5. c \in Decisions => prepay[PrepayOf[c]].state # "none" /\ prepay[PrepayOf[c]].recorder # By[c]
  BY <1>1 DEF ChannelInv, DecidersApart
<1> QED BY <1>0, <1>1, <1>2, <1>4, <1>5, QuietCall

LEMMA EnterKeeps ==
  ASSUME AgencyCoinsConstants, ChannelInv, NEW c \in Calls, Enter(c)
  PROVE  ChannelInv'
<1>0. /\ day' \in 0..LastDay /\ trading' \in BOOLEAN /\ mishaps' \in 0..MaxMishaps
      /\ UNCHANGED <<prepay, inventory, sent>> /\ holder = NoCall
  BY DEF Enter, ChannelInv, ChannelTypeOK
<1>1. doing[c].at = "begun" /\ NoCall # c
  BY DEF Enter, AgencyCoinsConstants
<1> DEFINE s == IF Posted(c) THEN "ok" ELSE "inside"
<1>2. Goes(c, s) /\ s \in {"ok", "inside"} /\ holder' = IF s = "inside" THEN c ELSE NoCall
  BY <1>0 DEF Enter
<1>3. s = "inside" /\ c \notin Decisions => RequestOf[c] \notin Requested(sent)
  BY DEF Posted, Requested
<1> HIDE DEF s
<1>4. PICK e \in CallState : doing' = [doing EXCEPT ![c] = e] /\ e.at = s
  BY <1>2, Going
<1>5. LockMoves(c, e)
  BY <1>0, <1>1, <1>2, <1>4 DEF LockMoves
<1>6. c \in Decisions => prepay[PrepayOf[c]].state # "none" /\ prepay[PrepayOf[c]].recorder # By[c]
  BY <1>1 DEF ChannelInv, DecidersApart
<1>7. c \in Transfers => c \notin Decisions
  BY DEF AgencyCoinsConstants
<1>8. c \in Transfers /\ holder' = c => RequestOf[c] \notin Requested(sent)
  BY <1>1, <1>2, <1>3, <1>7
<1> QED BY <1>0, <1>2, <1>4, <1>5, <1>6, <1>8, QuietCall

LEMMA CountKeeps ==
  ASSUME AgencyCoinsConstants, ChannelInv, NEW c \in Calls, CountUsed(c)
  PROVE  ChannelInv'
<1>0. /\ day' \in 0..LastDay /\ trading' \in BOOLEAN /\ mishaps' \in 0..MaxMishaps
      /\ UNCHANGED <<prepay, inventory, sent>> /\ day \in 0..LastDay
      /\ doing \in [Calls -> CallState]
  BY DEF CountUsed, ChannelInv, ChannelTypeOK, CallState
<1>1. doing[c].at = "inside" /\ holder = c /\ c \in Transfers /\ c \notin Decisions /\ NoCall # c
  BY DEF CountUsed, ChannelInv, LockHeld, AgencyCoinsConstants
<1>2. RequestOf[c] \notin Requested(sent)
  BY <1>1 DEF ChannelInv, RequestsFresh
<1>3. CASE inventory >= Lot[RequestOf[c]] /\ WithinCaps(c)
  <2> DEFINE e == [doing[c] EXCEPT !.at = "counted", !.counted = day]
  <2>1. doing' = [doing EXCEPT ![c].at = "counted", ![c].counted = day] /\ holder' = c
    BY <1>1, <1>3 DEF CountUsed
  <2>2. e \in CallState /\ e.at = "counted" /\ e.counted = day
    BY <1>0 DEF CallState
  <2>3. doing' = [doing EXCEPT ![c] = e]
    BY <1>0, <2>1
  <2> HIDE DEF e
  <2>4. LockMoves(c, e)
    BY <1>1, <2>1, <2>2 DEF LockMoves
  <2>5. Leaves(sent, day, RequestOf[c])
    BY <1>3 DEF Leaves, WithinCaps, SentToday, StampedOn, PaidTo
  <2>6. Lot[RequestOf[c]] \in Nat /\ inventory \in Nat
    BY <1>1 DEF AgencyCoinsConstants, RequestIds, ChannelInv, ChannelTypeOK
  <2>7. Lot[RequestOf[c]] <= inventory
    BY <1>3, <2>6
  <2> QED BY <1>0, <1>1, <1>2, <2>2, <2>3, <2>4, <2>5, <2>7, QuietCall
<1>4. CASE ~(inventory >= Lot[RequestOf[c]] /\ WithinCaps(c))
  <2>1. Goes(c, "refused") /\ holder' = NoCall
    BY <1>1, <1>4 DEF CountUsed, Release
  <2>2. PICK e \in CallState : doing' = [doing EXCEPT ![c] = e] /\ e.at = "refused"
    BY <2>1, Going
  <2>3. LockMoves(c, e)
    BY <1>1, <2>1, <2>2 DEF LockMoves
  <2> QED BY <1>0, <1>1, <2>1, <2>2, <2>3, QuietCall
<1> QED BY <1>3, <1>4

LEMMA MishapKeeps ==
  ASSUME AgencyCoinsConstants, ChannelInv, NEW c \in Calls, Mishap(c)
  PROVE  ChannelInv'
<1>0. /\ day' \in 0..LastDay /\ trading' \in BOOLEAN /\ mishaps' \in 0..MaxMishaps
      /\ UNCHANGED <<prepay, inventory, sent>> /\ NoCall # c
  <2>1. mishaps \in 0..MaxMishaps /\ mishaps < MaxMishaps /\ mishaps' = mishaps + 1 /\ MaxMishaps \in Nat
    BY DEF Mishap, ChannelInv, ChannelTypeOK, AgencyCoinsConstants
  <2>2. mishaps' \in 0..MaxMishaps
    BY <2>1
  <2> QED BY <2>2 DEF Mishap, ChannelInv, ChannelTypeOK, AgencyCoinsConstants
<1>1. doing' = [doing EXCEPT ![c] = Unasked] /\ holder' = IF holder = c THEN NoCall ELSE holder
  BY DEF Mishap, Release
<1>2. Unasked \in CallState /\ Unasked.at = "idle"
  BY DEF Unasked, CallState, AgencyCoinsConstants
<1>3. LockMoves(c, Unasked)
  BY <1>0, <1>1, <1>2 DEF LockMoves
<1>4. holder' # c
  BY <1>0, <1>1
<1> QED BY <1>0, <1>1, <1>2, <1>3, <1>4, QuietCall

\* The prepays confirmed after p was written as q, and what they are worth.
LEMMA ConfirmedMoves ==
  ASSUME AgencyCoinsConstants, NEW P \in [Prepays -> PrepayRow], IsFiniteSet(Confirmed(P)),
         NEW p \in Prepays, P[p].state # "confirmed", NEW q \in PrepayRow
  PROVE  /\ IsFiniteSet(Confirmed([P EXCEPT ![p] = q]))
         /\ SumFunctionOnSet(Worth, Confirmed([P EXCEPT ![p] = q]))
              = SumFunctionOnSet(Worth, Confirmed(P)) + (IF q.state = "confirmed" THEN Worth[p] ELSE 0)
         /\ SumFunctionOnSet(Worth, Confirmed(P)) \in Nat
<1> DEFINE C == Confirmed(P)
<1>1. Confirmed([P EXCEPT ![p] = q]) = IF q.state = "confirmed" THEN C \cup {p} ELSE C
  BY DEF Confirmed
<1>2. p \notin C /\ \A x \in C \cup {p} : Worth[x] \in Nat
  BY DEF Confirmed, AgencyCoinsConstants
<1> HIDE DEF C
<1>3. IsFiniteSet(C) /\ IsFiniteSet(C \cup {p})
  BY FS_AddElement DEF C
<1>4. SumFunctionOnSet(Worth, C) \in Nat
  BY <1>2, <1>3, SumType
<1>5. SumFunctionOnSet(Worth, C \cup {p}) = SumFunctionOnSet(Worth, C) + Worth[p]
  BY <1>2, <1>3, SumAdd
<1>6. C = Confirmed(P)
  BY DEF C
<1> QED BY <1>1, <1>3, <1>4, <1>5, <1>6

\* Writing one prepay's row: recorded, or decided by another than its maker.
LEMMA PrepayMoves ==
  ASSUME AgencyCoinsConstants, ChannelInv, NEW p \in Prepays, NEW q \in PrepayRow,
         prepay' = [prepay EXCEPT ![p] = q], UNCHANGED sent,
         prepay[p].state # "confirmed", q.state # "none",
         q.state = "pending" => q.decider = NoAdmin,
         q.decider # NoAdmin => q.decider # q.recorder,
         inventory' = inventory + (IF q.state = "confirmed" THEN Worth[p] ELSE 0)
  PROVE  /\ prepay' \in [Prepays -> PrepayRow] /\ inventory' \in Nat /\ inventory <= inventory'
         /\ IsFiniteSet(Confirmed(prepay))' /\ Undecided' /\ InventoryAddsUp' /\ CapsHold'
         /\ prepay'[p] = q /\ \A x \in Prepays : x # p => prepay'[x] = prepay[x]
<1>1. /\ prepay \in [Prepays -> PrepayRow] /\ inventory \in Nat /\ IsFiniteSet(Confirmed(prepay))
      /\ Worth[p] \in Nat /\ IsFiniteSet(sent) /\ sent \subseteq SentRow
  BY DEF ChannelInv, ChannelTypeOK, PrepayRow, AgencyCoinsConstants, SentRow
<1>2. /\ prepay' \in [Prepays -> PrepayRow]
      /\ prepay'[p] = q /\ \A x \in Prepays : x # p => prepay'[x] = prepay[x]
  BY <1>1
<1>3. inventory' \in Nat /\ inventory <= inventory'
  BY <1>1
<1>4. /\ IsFiniteSet(Confirmed(prepay'))
      /\ SumFunctionOnSet(Worth, Confirmed(prepay'))
           = SumFunctionOnSet(Worth, Confirmed(prepay)) + (IF q.state = "confirmed" THEN Worth[p] ELSE 0)
      /\ SumFunctionOnSet(Worth, Confirmed(prepay)) \in Nat
  BY <1>1, ConfirmedMoves
<1>5. Undecided'
  BY <1>2 DEF ChannelInv, Undecided
<1>6. CapsHold'
  BY DEF ChannelInv, CapsHold, LotsOf
<1>7. InventoryAddsUp'
  <2>1. inventory = SumFunctionOnSet(Worth, Confirmed(prepay)) - SumFunctionOnSet(Lot, Requested(sent))
    BY DEF ChannelInv, InventoryAddsUp, Confirmed, Requested
  <2>2. SumFunctionOnSet(Lot, Requested(sent)) \in Nat
    <3>1. IsFiniteSet(Requested(sent)) /\ \A r \in Requested(sent) : Lot[r] \in Nat
      BY <1>1, RequestedFinite DEF Requested, SentRow, AgencyCoinsConstants
    <3> QED BY <3>1, SumType
  <2>3. inventory' = SumFunctionOnSet(Worth, Confirmed(prepay')) - SumFunctionOnSet(Lot, Requested(sent))
    BY <1>1, <1>4, <2>1, <2>2
  <2>4. \A x \in Prepays : prepay'[x].decider # NoAdmin => prepay'[x].decider # prepay'[x].recorder
    BY <1>2 DEF ChannelInv, InventoryAddsUp
  <2>5. \A x, y \in sent : x.request = y.request => x = y
    BY DEF ChannelInv, InventoryAddsUp
  <2> QED BY <2>3, <2>4, <2>5 DEF InventoryAddsUp, Confirmed, Requested
<1> QED BY <1>2, <1>3, <1>4, <1>5, <1>6, <1>7

\* A call that decides a prepay, as q, and ends.
LEMMA DecisionKeeps ==
  ASSUME AgencyCoinsConstants, ChannelInv, NEW c \in Decisions, NEW e \in CallState,
         doing' = [doing EXCEPT ![c] = e], LockMoves(c, e), e.at \in {"ok", "refused"},
         NEW q \in PrepayRow, prepay' = [prepay EXCEPT ![PrepayOf[c]] = q],
         prepay[PrepayOf[c]].state = "pending", q.state \in {"confirmed", "rejected"},
         q.recorder = prepay[PrepayOf[c]].recorder, q.decider = By[c], q.recorder # By[c],
         inventory' = inventory + (IF q.state = "confirmed" THEN Worth[PrepayOf[c]] ELSE 0),
         UNCHANGED sent,
         day' \in 0..LastDay, trading' \in BOOLEAN, mishaps' \in 0..MaxMishaps
  PROVE  ChannelInv'
<1> DEFINE p == PrepayOf[c]
<1>0. c \in Calls /\ p \in Prepays /\ c \notin Transfers
  BY DEF Calls, AgencyCoinsConstants
<1>1. /\ doing' \in [Calls -> CallState] /\ doing'[c] = e
      /\ \A b \in Calls : b # c => doing'[b] = doing[b]
      /\ holder' \in Calls \cup {NoCall} /\ LockHeld'
  BY <1>0, CallMoves
<1>2. /\ prepay' \in [Prepays -> PrepayRow] /\ inventory' \in Nat /\ inventory <= inventory'
      /\ IsFiniteSet(Confirmed(prepay))' /\ Undecided' /\ InventoryAddsUp' /\ CapsHold'
      /\ prepay'[p] = q /\ \A x \in Prepays : x # p => prepay'[x] = prepay[x]
  BY <1>0, PrepayMoves
<1>3. ChannelTypeOK'
  BY <1>1, <1>2 DEF ChannelInv, ChannelTypeOK, CallState, PrepayRow
<1>4. RequestsFresh'
  BY <1>0 DEF ChannelInv, RequestsFresh, Requested, LockMoves, Calls, AgencyCoinsConstants
<1>5. DecidersApart'
  <2> SUFFICES ASSUME NEW b \in Decisions
               PROVE  /\ doing'[b].at # "counted"
                      /\ doing'[b].at \in {"checked", "begun", "inside"} =>
                            /\ prepay'[PrepayOf[b]].state # "none"
                            /\ prepay'[PrepayOf[b]].recorder # By[b]
    BY DEF DecidersApart
  <2>1. CASE b = c
    BY <1>1, <2>1
  <2>2. CASE b # c
    <3>1. doing'[b] = doing[b] /\ PrepayOf[b] \in Prepays
      BY <1>1, <2>2 DEF Calls, AgencyCoinsConstants
    <3>2. /\ prepay'[PrepayOf[b]].recorder = prepay[PrepayOf[b]].recorder
          /\ prepay[PrepayOf[b]].state # "none" => prepay'[PrepayOf[b]].state # "none"
      BY <1>2, <3>1
    <3> QED BY <3>1, <3>2 DEF ChannelInv, DecidersApart
  <2> QED BY <2>1, <2>2
<1>6. RoomIsLeft'
  <2> SUFFICES ASSUME NEW b \in Transfers, doing'[b].at = "counted"
               PROVE  Lot[RequestOf[b]] <= inventory' /\ Leaves(sent, doing'[b].counted, RequestOf[b])
    BY DEF RoomIsLeft, Leaves, LotsOf, StampedOn, PaidTo
  <2>1. doing'[b] = doing[b]
    BY <1>0, <1>1 DEF Calls
  <2>2. Lot[RequestOf[b]] \in Nat /\ inventory \in Nat
    BY DEF AgencyCoinsConstants, RequestIds, ChannelInv, ChannelTypeOK
  <2>3. Lot[RequestOf[b]] <= inventory /\ Leaves(sent, doing[b].counted, RequestOf[b])
    BY <2>1 DEF ChannelInv, RoomIsLeft
  <2>4. Lot[RequestOf[b]] <= inventory'
    BY <1>2, <2>2, <2>3
  <2> QED BY <2>1, <2>3, <2>4
<1>7. IsFiniteSet(sent)'
  BY DEF ChannelInv
<1> QED BY <1>1, <1>2, <1>3, <1>4, <1>5, <1>6, <1>7 DEF ChannelInv

LEMMA RejectKeeps ==
  ASSUME AgencyCoinsConstants, ChannelInv, NEW c \in Calls, RejectPrepay(c)
  PROVE  ChannelInv'
<1>0. /\ day' \in 0..LastDay /\ trading' \in BOOLEAN /\ mishaps' \in 0..MaxMishaps
      /\ UNCHANGED <<inventory, sent>> /\ holder' = holder
  BY DEF RejectPrepay, ChannelInv, ChannelTypeOK
<1>1. doing[c].at = "idle" /\ holder # c /\ c \in Decisions /\ c \notin Transfers
  BY DEF RejectPrepay, ChannelInv, LockHeld, AgencyCoinsConstants
<1> DEFINE p == PrepayOf[c]
<1>2. CASE prepay[p].state = "pending" /\ prepay[p].recorder # By[c]
  <2> DEFINE q == [prepay[p] EXCEPT !.state = "rejected", !.decider = By[c]]
  <2>1. /\ prepay' = [prepay EXCEPT ![p].state = "rejected", ![p].decider = By[c]]
        /\ Goes(c, "ok")
    BY <1>2 DEF RejectPrepay
  <2>2. p \in Prepays /\ By[c] \in Admins /\ prepay \in [Prepays -> PrepayRow] /\ prepay[p] \in PrepayRow
    BY <1>1 DEF AgencyCoinsConstants, ChannelInv, ChannelTypeOK, PrepayRow
  <2>3. q \in PrepayRow /\ q.state = "rejected" /\ q.recorder = prepay[p].recorder /\ q.decider = By[c]
    BY <2>2 DEF PrepayRow
  <2>4. prepay' = [prepay EXCEPT ![p] = q]
    BY <2>1, <2>2
  <2>5. PICK e \in CallState : doing' = [doing EXCEPT ![c] = e] /\ e.at = "ok"
    BY <2>1, Going
  <2>6. LockMoves(c, e)
    BY <1>0, <1>1, <2>5 DEF LockMoves
  <2> HIDE DEF q
  <2>7. inventory' = inventory + (IF q.state = "confirmed" THEN Worth[p] ELSE 0)
    BY <1>0, <2>3 DEF ChannelInv, ChannelTypeOK
  <2> QED BY <1>0, <1>1, <1>2, <2>7, <2>2, <2>3, <2>4, <2>5, <2>6, DecisionKeeps
<1>3. CASE ~(prepay[p].state = "pending" /\ prepay[p].recorder # By[c])
  <2>1. Goes(c, "refused") /\ prepay' = prepay
    BY <1>3 DEF RejectPrepay
  <2>2. PICK e \in CallState : doing' = [doing EXCEPT ![c] = e] /\ e.at = "refused"
    BY <2>1, Going
  <2>3. LockMoves(c, e)
    BY <1>0, <1>1, <2>2 DEF LockMoves
  <2> QED BY <1>0, <1>1, <2>1, <2>2, <2>3, QuietCall
<1> QED BY <1>2, <1>3

LEMMA ConfirmKeeps ==
  ASSUME AgencyCoinsConstants, ChannelInv, NEW c \in Calls, Confirm(c)
  PROVE  ChannelInv'
<1>0. /\ day' \in 0..LastDay /\ trading' \in BOOLEAN /\ mishaps' \in 0..MaxMishaps
      /\ UNCHANGED sent /\ inventory \in Nat
  BY DEF Confirm, ChannelInv, ChannelTypeOK
<1>1. /\ doing[c].at = "inside" /\ holder = c /\ c \in Decisions /\ c \notin Transfers /\ NoCall # c
      /\ holder' = NoCall
  BY DEF Confirm, Release, ChannelInv, LockHeld, AgencyCoinsConstants
<1> DEFINE p == PrepayOf[c]
<1>2. prepay[p].recorder # By[c]
  BY <1>1 DEF ChannelInv, DecidersApart
<1>3. CASE StillPending(c)
  <2> DEFINE q == [prepay[p] EXCEPT !.state = "confirmed", !.decider = By[c]]
  <2>1. /\ prepay' = [prepay EXCEPT ![p].state = "confirmed", ![p].decider = By[c]]
        /\ Goes(c, "ok") /\ inventory' = inventory + Worth[p] /\ prepay[p].state = "pending"
    BY <1>3 DEF Confirm, Minted, StillPending
  <2>2. p \in Prepays /\ By[c] \in Admins /\ prepay \in [Prepays -> PrepayRow] /\ prepay[p] \in PrepayRow
    BY <1>1 DEF AgencyCoinsConstants, ChannelInv, ChannelTypeOK, PrepayRow
  <2>3. q \in PrepayRow /\ q.state = "confirmed" /\ q.recorder = prepay[p].recorder /\ q.decider = By[c]
    BY <2>2 DEF PrepayRow
  <2>4. prepay' = [prepay EXCEPT ![p] = q]
    BY <2>1, <2>2
  <2>5. PICK e \in CallState : doing' = [doing EXCEPT ![c] = e] /\ e.at = "ok"
    BY <2>1, Going
  <2>6. LockMoves(c, e)
    BY <1>1, <2>5 DEF LockMoves
  <2> HIDE DEF q
  <2>7. inventory' = inventory + (IF q.state = "confirmed" THEN Worth[p] ELSE 0)
    BY <2>1, <2>3
  <2> QED BY <1>0, <1>1, <1>2, <2>1, <2>3, <2>4, <2>5, <2>6, <2>7, DecisionKeeps
<1>4. CASE ~StillPending(c)
  <2>1. Goes(c, "refused") /\ prepay' = prepay /\ inventory' = inventory
    BY <1>0, <1>4 DEF Confirm, Minted
  <2>2. PICK e \in CallState : doing' = [doing EXCEPT ![c] = e] /\ e.at = "refused"
    BY <2>1, Going
  <2>3. LockMoves(c, e)
    BY <1>1, <2>2 DEF LockMoves
  <2> QED BY <1>0, <1>1, <2>1, <2>2, <2>3, QuietCall
<1> QED BY <1>3, <1>4

LEMMA RecordKeeps ==
  ASSUME AgencyCoinsConstants, ChannelInv, NEW p \in Prepays, NEW a \in Admins, RecordPrepay(p, a)
  PROVE  ChannelInv'
<1> DEFINE q == [state |-> "pending", recorder |-> a, decider |-> NoAdmin]
<1>1. /\ q \in PrepayRow /\ q.state = "pending" /\ q.decider = NoAdmin
      /\ prepay' = [prepay EXCEPT ![p] = q] /\ prepay[p].state = "none"
  BY DEF RecordPrepay, PrepayRow
<1>2. UNCHANGED <<day, trading, inventory, sent, doing, holder, mishaps>>
  BY DEF RecordPrepay
<1> HIDE DEF q
<1>3. inventory' = inventory + (IF q.state = "confirmed" THEN Worth[p] ELSE 0)
  BY <1>1, <1>2 DEF ChannelInv, ChannelTypeOK
<1>4. /\ prepay' \in [Prepays -> PrepayRow] /\ inventory' \in Nat
      /\ IsFiniteSet(Confirmed(prepay))' /\ Undecided' /\ InventoryAddsUp' /\ CapsHold'
      /\ prepay'[p] = q /\ \A x \in Prepays : x # p => prepay'[x] = prepay[x]
  BY <1>1, <1>2, <1>3, PrepayMoves
<1>5. ChannelTypeOK' /\ IsFiniteSet(sent)'
  BY <1>2, <1>4 DEF ChannelInv, ChannelTypeOK, PrepayRow
<1>6. LockHeld' /\ RequestsFresh'
  BY <1>2 DEF ChannelInv, LockHeld, RequestsFresh, Requested
<1>7. RoomIsLeft'
  <2> SUFFICES ASSUME NEW b \in Transfers, doing[b].at = "counted"
               PROVE  Lot[RequestOf[b]] <= inventory /\ Leaves(sent, doing[b].counted, RequestOf[b])
    BY <1>2 DEF RoomIsLeft, Leaves, LotsOf, StampedOn, PaidTo
  <2> QED BY DEF ChannelInv, RoomIsLeft
<1>8. DecidersApart'
  <2> SUFFICES ASSUME NEW b \in Decisions
               PROVE  /\ doing[b].at # "counted"
                      /\ doing[b].at \in {"checked", "begun", "inside"} =>
                            /\ prepay'[PrepayOf[b]].state # "none"
                            /\ prepay'[PrepayOf[b]].recorder # By[b]
    BY <1>2 DEF DecidersApart
  <2>1. PrepayOf[b] \in Prepays
    BY DEF AgencyCoinsConstants
  <2> QED BY <1>1, <1>4, <2>1 DEF ChannelInv, DecidersApart
<1> QED BY <1>4, <1>5, <1>6, <1>7, <1>8 DEF ChannelInv

LEMMA TransferKeeps ==
  ASSUME AgencyCoinsConstants, ChannelInv, NEW c \in Calls, Transfer(c)
  PROVE  ChannelInv'
<1> DEFINE r == RequestOf[c]
           x == [request |-> r, stamp |-> doing[c].stamp, counted |-> doing[c].counted]
<1>0. /\ day' \in 0..LastDay /\ trading' \in BOOLEAN /\ mishaps' \in 0..MaxMishaps
      /\ UNCHANGED prepay /\ inventory \in Nat /\ sent \subseteq SentRow /\ IsFiniteSet(sent)
      /\ doing[c] \in CallState
  BY DEF Transfer, ChannelInv, ChannelTypeOK, SentRow, CallState
<1>1. /\ doing[c].at = "counted" /\ holder = c /\ c \in Transfers /\ c \notin Decisions /\ NoCall # c
      /\ holder' = NoCall /\ Goes(c, "ok") /\ r \in RequestIds /\ Lot[r] \in Nat \ {0}
  BY DEF Transfer, Release, ChannelInv, LockHeld, AgencyCoinsConstants, RequestIds
<1>2. /\ x \in SentRow /\ x.request = r /\ x.counted = doing[c].counted
      /\ sent' = sent \cup {x} /\ inventory' = inventory - Lot[r]
  BY <1>0, <1>1 DEF Transfer, SentRow, CallState
<1>3. r \notin Requested(sent) /\ x \notin sent
  BY <1>1, <1>2 DEF ChannelInv, RequestsFresh, Requested
<1>4. Lot[r] <= inventory /\ Leaves(sent, x.counted, x.request)
  BY <1>1, <1>2 DEF ChannelInv, RoomIsLeft
<1> HIDE DEF x
<1>5. PICK e \in CallState : doing' = [doing EXCEPT ![c] = e] /\ e.at = "ok"
  BY <1>1, Going
<1>6. /\ doing' \in [Calls -> CallState] /\ doing'[c] = e
      /\ \A b \in Calls : b # c => doing'[b] = doing[b]
      /\ holder' \in Calls \cup {NoCall} /\ LockHeld'
  <2>1. LockMoves(c, e)
    BY <1>1, <1>5 DEF LockMoves
  <2> QED BY <1>5, <2>1, CallMoves
<1>7. inventory' \in Nat
  BY <1>0, <1>1, <1>2, <1>4
<1>8. ChannelTypeOK'
  BY <1>0, <1>2, <1>6, <1>7 DEF ChannelInv, ChannelTypeOK, CallState, SentRow
<1>9. /\ IsFiniteSet(sent)' /\ IsFiniteSet(Confirmed(prepay))' /\ Undecided'
  BY <1>0, <1>2, FS_AddElement DEF ChannelInv, Confirmed, Undecided
<1>10. RequestsFresh'
  BY <1>1 DEF RequestsFresh, AgencyCoinsConstants, Calls
<1>11. DecidersApart'
  <2> SUFFICES ASSUME NEW b \in Decisions
               PROVE  /\ doing'[b].at # "counted"
                      /\ doing'[b].at \in {"checked", "begun", "inside"} =>
                            prepay[PrepayOf[b]].state # "none" /\ prepay[PrepayOf[b]].recorder # By[b]
    BY <1>0 DEF DecidersApart
  <2> QED BY <1>1, <1>6 DEF ChannelInv, DecidersApart, Calls
<1>12. RoomIsLeft'
  <2>1. \A b \in Transfers : doing'[b].at # "counted"
    BY <1>1, <1>5, <1>6 DEF ChannelInv, LockHeld, Calls
  <2> QED BY <2>1 DEF RoomIsLeft
<1>13. CapsHold'
  <2>1. \A d \in 0..LastDay : WithinDay(WholeOn(sent, d))
    BY CapsByDay DEF ChannelInv
  <2>2. ASSUME NEW d \in 0..LastDay PROVE WithinDay(WholeOn(sent \cup {x}, d))
    BY <1>0, <1>2, <1>3, <1>4, <2>1, CapsGrow
  <2> QED BY <1>2, <2>2 DEF CapsHold, WithinDay, WholeOn, PaidTo
<1>14. InventoryAddsUp'
  <2> DEFINE R == Requested(sent)
  <2>1. inventory = SumFunctionOnSet(Worth, Confirmed(prepay)) - SumFunctionOnSet(Lot, R)
    BY DEF ChannelInv, InventoryAddsUp, Confirmed, Requested
  <2>2. Requested(sent \cup {x}) = R \cup {r}
    BY <1>2 DEF Requested
  <2>3. IsFiniteSet(R) /\ \A y \in R \cup {r} : Lot[y] \in Nat
    BY <1>0, <1>1, RequestedFinite DEF Requested, SentRow, AgencyCoinsConstants
  <2>4. SumFunctionOnSet(Worth, Confirmed(prepay)) \in Nat
    <3>1. IsFiniteSet(Confirmed(prepay)) /\ \A y \in Confirmed(prepay) : Worth[y] \in Nat
      BY DEF ChannelInv, Confirmed, AgencyCoinsConstants
    <3> QED BY <3>1, SumType
  <2>5. r \notin R
    BY <1>3
  <2> HIDE DEF R
  <2>6. SumFunctionOnSet(Lot, R) \in Nat
    BY <2>3, SumType
  <2>7. SumFunctionOnSet(Lot, R \cup {r}) = SumFunctionOnSet(Lot, R) + Lot[r]
    BY <2>3, <2>5, SumAdd
  <2>8. inventory' = SumFunctionOnSet(Worth, Confirmed(prepay)) - SumFunctionOnSet(Lot, Requested(sent'))
    <3>1. Requested(sent') = R \cup {r}
      BY <1>2, <2>2
    <3>2. inventory - Lot[r] = SumFunctionOnSet(Worth, Confirmed(prepay))
                                 - (SumFunctionOnSet(Lot, R) + Lot[r])
      BY <1>1, <2>1, <2>4, <2>6
    <3> QED BY <1>2, <2>7, <3>1, <3>2
  <2>9. \A y, z \in sent' : y.request = z.request => y = z
    BY <1>2, <1>3 DEF ChannelInv, InventoryAddsUp, Requested
  <2>10. \A p \in Prepays : prepay[p].decider # NoAdmin => prepay[p].decider # prepay[p].recorder
    BY DEF ChannelInv, InventoryAddsUp
  <2> QED BY <1>0, <2>8, <2>9, <2>10 DEF InventoryAddsUp, Confirmed, Requested
<1> QED BY <1>6, <1>8, <1>9, <1>10, <1>11, <1>12, <1>13, <1>14 DEF ChannelInv

LEMMA ChannelStep ==
  ASSUME AgencyCoinsConstants, ChannelInv, [ChannelNext]_channelVars
  PROVE  ChannelInv'
<1>1. ASSUME NEW c \in Calls,
             \/ RejectPrepay(c) \/ CheckPrepay(c) \/ CheckTransfer(c) \/ Begin(c) \/ Enter(c)
             \/ CountUsed(c) \/ Transfer(c) \/ Confirm(c) \/ Mishap(c)
      PROVE  ChannelInv'
  BY <1>1, RejectKeeps, CheckKeeps, BeginKeeps, EnterKeeps, CountKeeps, TransferKeeps, ConfirmKeeps,
     MishapKeeps
<1>2. ASSUME NEW p \in Prepays, NEW a \in Admins, RecordPrepay(p, a)
      PROVE  ChannelInv'
  BY <1>2, RecordKeeps
<1>3. CASE Midnight \/ Withdraw \/ UNCHANGED channelVars
  <2>1. /\ day' \in 0..LastDay /\ trading' \in BOOLEAN
        /\ UNCHANGED <<prepay, inventory, sent, doing, holder, mishaps>>
    <3>1. day \in 0..LastDay /\ trading \in BOOLEAN /\ LastDay \in Nat
      BY DEF ChannelInv, ChannelTypeOK, AgencyCoinsConstants
    <3>2. CASE Midnight
      BY <3>1, <3>2 DEF Midnight
    <3>3. CASE Withdraw \/ UNCHANGED channelVars
      BY <3>1, <3>3 DEF Withdraw, channelVars
    <3> QED BY <1>3, <3>2, <3>3
  <2>2. ChannelTypeOK' /\ IsFiniteSet(sent)' /\ IsFiniteSet(Confirmed(prepay))'
    BY <2>1 DEF ChannelInv, ChannelTypeOK, Confirmed
  <2>3. LockHeld' /\ RequestsFresh' /\ DecidersApart' /\ Undecided'
    BY <2>1 DEF ChannelInv, LockHeld, RequestsFresh, Requested, DecidersApart, Undecided
  <2>4. RoomIsLeft'
    BY <2>1 DEF ChannelInv, RoomIsLeft, Leaves, LotsOf, StampedOn, PaidTo
  <2>5. InventoryAddsUp' /\ CapsHold'
    BY <2>1 DEF ChannelInv, InventoryAddsUp, CapsHold, LotsOf
  <2> QED BY <2>2, <2>3, <2>4, <2>5 DEF ChannelInv
<1> QED BY <1>1, <1>2, <1>3 DEF ChannelNext

\* For any agencies' administrators, prepays, requests, amounts and caps, and any
\* overlap, crash or lost answer: the inventory is what was confirmed, by another
\* than recorded it, less a lot for each request, and no cap of a day is passed.
THEOREM ChannelAlwaysHolds == ASSUME AgencyCoinsConstants PROVE ChannelSpec => []ChannelHolds
<1>1. ChannelInit => ChannelInv
  BY ChannelStarts
<1>2. ChannelInv /\ [ChannelNext]_channelVars => ChannelInv'
  BY ChannelStep
<1>3. ChannelInv => ChannelHolds
  BY DEF ChannelInv, ChannelHolds
<1> QED BY <1>1, <1>2, <1>3, PTL DEF ChannelSpec

-----------------------------------------------------------------------------
(* The months of the agencies                                              *)

\* One row of each table, and the job.
GiftRow  == [month : Months, agency : Teams, agent : SubAgents \cup {"owner"}, points : Sizes,
             status : {"sent", "reversed"}, attributed : BOOLEAN]
LevelRow == [band : 0..Len(Bands), rate : Nat, measured : Nat]
JobState == [at : JobStages, todo : SUBSET Months, month : Months,
             owed : SUBSET [to : Payees, points : Nat \ {0}]]

MonthsShaped ==
    /\ today \in Months /\ moves \in 0..MaxMoves /\ crashes \in 0..MaxCrashes
    /\ seats \in [SubAgents -> Teams \cup {Unseated}] /\ sends \in Seq(GiftRow)
    /\ periods \in [Months -> {"none", "open", "closed"}]
    /\ levels \in [Months -> [Payees -> LevelRow]] /\ accrued \in [Months -> [Payees -> Nat]]
    /\ run \in JobState /\ repriced \subseteq Months

\* Rows are written from month 0 on, and months close in order; only the very
\* first run leaves a month open below another.
RowsInOrder ==
    /\ today > 1 => Begun
    /\ \A m \in Months : periods[m] = "none" => \A p \in Payees : levels[m][p] = NoLevel
    /\ \A m \in Months \ {0} :
         /\ periods[m] # "none" => periods[m - 1] # "none"
         /\ periods[m] # "none" /\ m > 1 => periods[m - 1] = "closed"
         /\ periods[m] = "closed" => periods[m - 1] = "closed"

\* The job works on open months of the past, month 0 before all others.
JobSound ==
    /\ \A m \in run.todo : periods[m] = "open" /\ m < today
    /\ run.at = "seed" =>
         /\ run.month = 1 /\ today = 1 /\ periods[0] = "open"
         /\ \A m \in Months \ {0} : periods[m] = "none"
    /\ run.at = "pick" /\ run.todo # {} /\ periods[0] = "open" => 0 \in run.todo
    /\ run.at \in {"open", "post", "next"} => run.month < today /\ run.month \notin run.todo
    /\ run.at \in {"open", "post"} =>
         periods[run.month] = "open" /\ (periods[0] = "open" => run.month = 0)
    /\ run.at = "next" =>
         periods[run.month] = "closed" /\ periods[0] # "open" /\ periods[run.month + 1] # "closed"

\* A level is at least the band of no points, falls by at most one, and is
\* measured on the month before, which had closed.
LevelsSound ==
    \A m \in Months, p \in Payees : levels[m][p] # NoLevel =>
        /\ levels[m][p].band >= BandOf(0)
        /\ m > 0 => levels[m][p].band >= levels[m - 1][p].band - 1
        /\ m > 1 => levels[m][p].measured = Volume(m - 1, p)

\* A month that has postings, or is about to, is over, and each of its gifts
\* that was not reversed is attributed.
Drawn(m) ==
    \/ \E p \in Payees : accrued[m][p] # 0
    \/ periods[m] = "closed"
    \/ run.at = "post" /\ run.month = m
DrawnOnce ==
    \A m \in Months : Drawn(m) =>
        /\ m < today
        /\ \A g \in 1..Len(sends) :
             sends[g].month = m /\ sends[g].status = "sent" => sends[g].attributed

\* What a payee has been posted is the split of the month, and a closed month
\* has been posted to everybody.
Due(m, p) == Owed(m, Attributed(m), p)
PostedIsOwed ==
    \A m \in Months \ repriced : \A p \in Payees :
        accrued[m][p] # 0 \/ periods[m] = "closed" => accrued[m][p] = Due(m, p)

\* The postings to come are the rest of it.
RestIsOwed ==
    run.at = "post" =>
        /\ \A o \in run.owed : o.points = Due(run.month, o.to)
        /\ run.month \notin repriced =>
             \A p \in Payees :
                \/ Due(run.month, p) = 0 \/ accrued[run.month][p] = Due(run.month, p)
                \/ \E o \in run.owed : o.to = p

\* A closed month is followed by a row, but between the two transactions.
Followed ==
    crashes = 0 => \A m \in Months :
        periods[m] = "closed" /\ m < LastMonth =>
            periods[m + 1] # "none" \/ (run.at = "next" /\ run.month = m)

CommissionInv ==
    /\ MonthsShaped /\ RowsInOrder /\ JobSound /\ LevelsSound
    /\ DrawnOnce /\ PostedIsOwed /\ RestIsOwed /\ Followed

-----------------------------------------------------------------------------
LEMMA Extremes ==
  ASSUME NEW S
  PROVE  /\ (\E x \in S : \A y \in S : x >= y) => Max(S) \in S /\ \A y \in S : Max(S) >= y
         /\ (\E x \in S : \A y \in S : x <= y) => Min(S) \in S /\ \A y \in S : Min(S) <= y
BY DEF Max, Min

LEMMA OfTwo ==
  ASSUME NEW a \in Int, NEW b \in Int
  PROVE  /\ Max({a, b}) \in {a, b} /\ Max({a, b}) >= a /\ Max({a, b}) >= b
         /\ Min({a, b}) \in {a, b} /\ Min({a, b}) <= a /\ Min({a, b}) <= b
<1>1. \E x \in {a, b} : \A y \in {a, b} : x >= y
  <2>1. CASE a >= b
    BY <2>1
  <2>2. CASE ~(a >= b)
    BY <2>2
  <2> QED BY <2>1, <2>2
<1>2. \E x \in {a, b} : \A y \in {a, b} : x <= y
  <2>1. CASE a <= b
    BY <2>1
  <2>2. CASE ~(a <= b)
    BY <2>2
  <2> QED BY <2>1, <2>2
<1> QED BY <1>1, <1>2, Extremes

\* Every number of points has a band, and more points no lower one.
LEMMA BandIs ==
  ASSUME CommissionConstants, NEW n \in Nat
  PROVE  BandOf(n) \in 1..Len(Bands) /\ BandOf(n) >= BandOf(0)
<1> DEFINE B(k) == {i \in 1..Len(Bands) : k >= Bands[i].min}
<1>1. Len(Bands) \in Nat \ {0} /\ \A i \in 1..Len(Bands) : Bands[i].min \in Nat
  <2>1. Bands \in Seq([min : Nat, rate : Nat]) /\ Len(Bands) > 0
    BY DEF CommissionConstants
  <2> DEFINE R == [min : Nat, rate : Nat]
  <2>2. Bands \in Seq(R)
    BY <2>1
  <2>3. Len(Bands) \in Nat /\ \A i \in 1..Len(Bands) : Bands[i] \in R
    <3> HIDE DEF R
    <3> QED BY <2>2
  <2> QED BY <2>1, <2>3
<1>2. ASSUME NEW k \in Nat PROVE \E x \in B(k) : \A y \in B(k) : x >= y
  <2> DEFINE id == [i \in B(k) |-> i]
  <2>1. IsFiniteSet(B(k))
    <3>1. IsFiniteSet(1..Len(Bands))
      BY <1>1, FS_Interval
    <3> QED BY <3>1, FS_Subset
  <2>2. 1 \in B(k)
    BY <1>1 DEF CommissionConstants
  <2>3. \A i \in B(k) : id[i] \in Int
    BY <1>1
  <2>4. \E x \in B(k) : \A y \in B(k) : id[x] >= id[y]
    <3> HIDE DEF id, B
    <3> QED BY <2>1, <2>2, <2>3, Greatest
  <2> QED BY <2>4
<1>3. ASSUME NEW k \in Nat
      PROVE  BandOf(k) \in B(k) /\ \A y \in B(k) : BandOf(k) >= y
  <2>1. Max(B(k)) \in B(k) /\ \A y \in B(k) : Max(B(k)) >= y
    <3> HIDE DEF B
    <3> QED BY <1>2, <1>3, Extremes
  <2> QED BY <2>1 DEF BandOf
<1>4. BandOf(0) \in B(0) /\ BandOf(n) \in B(n) /\ \A y \in B(n) : BandOf(n) >= y
  <2> HIDE DEF B
  <2> QED BY <1>3
<1>5. B(0) \subseteq B(n)
  BY <1>1
<1> QED BY <1>4, <1>5

LEMMA BandOfNone == ASSUME CommissionConstants PROVE BandOf(0) \in Nat \ {0}
<1>1. BandOf(0) \in 1..Len(Bands) /\ Len(Bands) \in Nat
  BY BandIs DEF CommissionConstants
<1> QED BY <1>1

LEMMA Rated == ASSUME CommissionConstants, NEW i \in 1..Len(Bands) PROVE Bands[i].rate \in Nat
<1> DEFINE R == [min : Nat, rate : Nat]
<1>1. Bands \in Seq(R)
  BY DEF CommissionConstants
<1>2. Bands[i] \in R
  <2> HIDE DEF R
  <2> QED BY <1>1
<1> QED BY <1>2

LEMMA Gifts ==
  ASSUME CommissionConstants, sends \in Seq(GiftRow)
  PROVE  /\ Len(sends) \in Nat /\ DOMAIN sends = 1..Len(sends) /\ IsFiniteSet(1..Len(sends))
         /\ \A g \in 1..Len(sends) : sends[g] \in GiftRow /\ sends[g].points \in Nat
<1>1. Len(sends) \in Nat /\ DOMAIN sends = 1..Len(sends)
  OBVIOUS
<1>2. \A g \in 1..Len(sends) : sends[g] \in GiftRow
  OBVIOUS
<1>3. \A g \in 1..Len(sends) : sends[g].points \in Nat
  BY <1>2 DEF GiftRow, CommissionConstants
<1>4. IsFiniteSet(1..Len(sends))
  BY <1>1, FS_Interval
<1> QED BY <1>1, <1>2, <1>3, <1>4

LEMMA PointsNat ==
  ASSUME CommissionConstants, sends \in Seq(GiftRow), NEW G \in SUBSET (1..Len(sends))
  PROVE  Points(G) \in Nat
<1> DEFINE f == [g \in DOMAIN sends |-> sends[g].points]
<1>1. IsFiniteSet(G)
  BY Gifts, FS_Subset
<1>2. \A g \in G : f[g] \in Nat
  BY Gifts
<1>3. SumFunctionOnSet(f, G) \in Nat
  <2> HIDE DEF f
  <2> QED BY <1>1, <1>2, SumType
<1> QED BY <1>3 DEF Points

\* What a step keeps of gifts: who they were to, and their points.
Kept(G) ==
    /\ Len(sends') >= Len(sends)
    /\ \A g \in G : /\ sends'[g].agency = sends[g].agency /\ sends'[g].agent = sends[g].agent
                    /\ sends'[g].points = sends[g].points

LEMMA PointsKept ==
  ASSUME CommissionConstants, sends \in Seq(GiftRow), sends' \in Seq(GiftRow),
         NEW G \in SUBSET (1..Len(sends)), NEW H \in SUBSET G, Kept(G)
  PROVE  Points(H)' = Points(H)
<1> DEFINE f == [g \in DOMAIN sends |-> sends[g].points]
           e == [g \in DOMAIN sends' |-> sends'[g].points]
<1>1. IsFiniteSet(H) /\ Len(sends) \in Nat /\ Len(sends') \in Nat
  <2>1. H \subseteq 1..Len(sends) /\ IsFiniteSet(1..Len(sends))
    BY Gifts
  <2>2. Len(sends) \in Nat /\ Len(sends') \in Nat
    OBVIOUS
  <2> QED BY <2>1, <2>2, FS_Subset
<1>2. DOMAIN sends = 1..Len(sends) /\ DOMAIN sends' = 1..Len(sends')
  OBVIOUS
<1>3. Len(sends') >= Len(sends)
  BY DEF Kept
<1>4. \A g \in H : g \in DOMAIN sends /\ g \in DOMAIN sends'
  BY <1>1, <1>2, <1>3
<1>5. \A g \in H : f[g] \in Int /\ f[g] = e[g]
  BY <1>4, Gifts DEF Kept
<1>6. SumFunctionOnSet(f, H) = SumFunctionOnSet(e, H)
  <2> HIDE DEF f, e
  <2> QED BY <1>1, <1>5, SumSame
<1> QED BY <1>6 DEF Points

LEMMA VolumeNat ==
  ASSUME CommissionConstants, sends \in Seq(GiftRow), NEW m, NEW p
  PROVE  Volume(m, p) \in Nat
<1>1. {g \in Attributed(m) : p \in {sends[g].agency, sends[g].agent}} \in SUBSET (1..Len(sends))
  BY DEF Attributed
<1> QED BY <1>1, PointsNat DEF Volume

LEMMA VolumeKept ==
  ASSUME CommissionConstants, sends \in Seq(GiftRow), sends' \in Seq(GiftRow), NEW m, NEW p,
         Attributed(m)' = Attributed(m), Kept(Attributed(m))
  PROVE  Volume(m, p)' = Volume(m, p)
<1>1. PICK A : A = Attributed(m)
  OBVIOUS
<1>2. A \subseteq 1..Len(sends)
  BY <1>1 DEF Attributed
<1>3. PICK H : H = {g \in A : p \in {sends[g].agency, sends[g].agent}}
  OBVIOUS
<1>4. H = {g \in A : p \in {sends'[g].agency, sends'[g].agent}}
  BY <1>1, <1>3 DEF Kept
<1>5. Points(H)' = Points(H)
  BY <1>1, <1>2, <1>3, PointsKept
<1>6. Volume(m, p) = Points(H)
  BY <1>1, <1>3 DEF Volume
<1>7. Volume(m, p)' = Points(H)'
  BY <1>1, <1>4 DEF Volume
<1> QED BY <1>5, <1>6, <1>7

-----------------------------------------------------------------------------
\* A share is a natural number, and a greater one at a greater rate.
LEMMA Shares ==
  ASSUME NEW n \in Nat, NEW r \in Nat, NEW s \in Nat, r <= s
  PROVE  Share(n, r) \in Nat /\ Share(n, r) <= Share(n, s)
<1>1. PICK d \in Nat : s = r + d
  <2>1. s - r \in Nat /\ s = r + (s - r)
    OBVIOUS
  <2> QED BY <2>1
<1>2. n * s = n * r + n * d /\ n * r \in Nat /\ n * d \in Nat
  BY <1>1
<1>3. PICK i \in Nat, j \in Nat : i = n * r /\ j = n * s /\ i <= j
  BY <1>1, <1>2
<1>4. i \div 10 \in Nat /\ i \div 10 <= j \div 10
  <2>1. /\ i \div 10 \in Nat /\ i % 10 \in 0..9 /\ i = 10 * (i \div 10) + (i % 10)
        /\ j \div 10 \in Nat /\ j % 10 \in 0..9 /\ j = 10 * (j \div 10) + (j % 10)
    OBVIOUS
  <2> QED BY <1>3, <2>1
<1> QED BY <1>3, <1>4 DEF Share

Row == Teams \X (SubAgents \cup {"owner"})

LEMMA RowsAre ==
  ASSUME CommissionConstants, sends \in Seq(GiftRow), NEW A \in SUBSET (1..Len(sends))
  PROVE  /\ Rows(A) \subseteq Row /\ IsFiniteSet(Rows(A)) /\ \A r : Of(A, r) \subseteq A
         /\ \A r \in Row : r[1] \in Teams /\ r[2] \in SubAgents \cup {"owner"} /\ r[1] # r[2]
<1>1. \A g \in A : sends[g].agency \in Teams /\ sends[g].agent \in SubAgents \cup {"owner"}
  BY Gifts DEF GiftRow
<1>2. Rows(A) \subseteq Row
  BY <1>1 DEF Rows, Row
<1>3. IsFiniteSet(Teams) /\ IsFiniteSet(SubAgents)
  BY FS_Subset DEF CommissionConstants, Payees
<1>4. IsFiniteSet(SubAgents \cup {"owner"})
  BY <1>3, FS_AddElement
<1>5. IsFiniteSet(Row)
  BY <1>3, <1>4, FS_Product DEF Row
<1>6. \A r \in Row : r[1] \in Teams /\ r[2] \in SubAgents \cup {"owner"} /\ r[1] # r[2]
  BY DEF Row, CommissionConstants, Payees
<1> QED BY <1>2, <1>5, <1>6, FS_Subset DEF Of

Whole(m, A, r) == Share(Points(Of(A, r)), levels[m][r[1]].rate)
Part(m, A, r)  == AgentsPart(m, r[2], r[1], Of(A, r))

LEMMA Parts ==
  ASSUME CommissionConstants, MonthsShaped, NEW m \in Months, NEW A \in SUBSET (1..Len(sends)),
         NEW r \in Row
  PROVE  /\ Whole(m, A, r) \in Nat /\ Part(m, A, r) \in Nat /\ Part(m, A, r) <= Whole(m, A, r)
         /\ r[2] = "owner" => Part(m, A, r) = 0
<1>1. r[1] \in Teams /\ r[2] \in SubAgents \cup {"owner"} /\ Of(A, r) \in SUBSET (1..Len(sends))
  BY RowsAre DEF MonthsShaped
<1>2. PICK n \in Nat : n = Points(Of(A, r))
  BY <1>1, PointsNat DEF MonthsShaped
<1>3. PICK w \in Nat : w = levels[m][r[1]].rate
  BY <1>1 DEF MonthsShaped, LevelRow, Payees
<1>4. Whole(m, A, r) = Share(n, w) /\ Share(n, w) \in Nat
  <2>1. Share(n, w) \in Nat
    BY Shares
  <2> QED BY <1>2, <1>3, <2>1 DEF Whole
<1>5. CASE r[2] = "owner"
  BY <1>4, <1>5 DEF Part, AgentsPart
<1>6. CASE r[2] # "owner"
  <2>1. r[2] \in SubAgents
    BY <1>1, <1>6
  <2>2. PICK v \in Nat : v = levels[m][r[2]].rate
    BY <2>1 DEF MonthsShaped, LevelRow, Payees
  <2>3. AgentRate(m, r[2], r[1]) = Min({v, w})
    BY <1>3, <2>2 DEF AgentRate
  <2>4. Min({v, w}) \in Nat /\ Min({v, w}) <= w
    <3>1. v \in Int /\ w \in Int
      OBVIOUS
    <3>2. Min({v, w}) \in {v, w} /\ Min({v, w}) <= w
      BY <3>1, OfTwo
    <3> QED BY <3>2
  <2>5. Part(m, A, r) = Share(n, Min({v, w}))
    BY <1>2, <1>6, <2>3 DEF Part, AgentsPart
  <2>6. Share(n, Min({v, w})) \in Nat /\ Share(n, Min({v, w})) <= Share(n, w)
    BY <2>4, Shares
  <2> QED BY <1>4, <1>6, <2>5, <2>6
<1> QED BY <1>5, <1>6

\* The parts of a month add up to the agency's rate of what each row is worth.
LEMMA SplitAddsUp ==
  ASSUME CommissionConstants, MonthsShaped, NEW m \in Months, NEW A \in SUBSET (1..Len(sends))
  PROVE  /\ \A p \in Payees : Owed(m, A, p) \in Nat
         /\ SumFunctionOnSet([p \in Payees |-> Owed(m, A, p)], Payees)
              = SumFunctionOnSet([r \in Rows(A) |-> Share(Points(Of(A, r)), levels[m][r[1]].rate)],
                                 Rows(A))
<1> DEFINE whole == [r \in Rows(A) |-> Whole(m, A, r)]
           part  == [r \in Rows(A) |-> Part(m, A, r)]
           gap   == [r \in Rows(A) |-> Whole(m, A, r) - Part(m, A, r)]
           All   == Payees \cup {"owner"}
           ByTeam(p)  == {r \in Rows(A) : r[1] = p}
           ByAgent(p) == {r \in Rows(A) : r[2] = p}
           teams  == [p \in All |-> SumFunctionOnSet(gap, ByTeam(p))]
           agents == [p \in All |-> SumFunctionOnSet(part, ByAgent(p))]
           owed   == [p \in All |-> IF p = "owner" THEN 0 ELSE Owed(m, A, p)]
<1>1. /\ Rows(A) \subseteq Row /\ IsFiniteSet(Rows(A))
      /\ \A r \in Row : r[1] \in Teams /\ r[2] \in SubAgents \cup {"owner"} /\ r[1] # r[2]
  BY RowsAre DEF MonthsShaped
<1>2. IsFiniteSet(All) /\ IsFiniteSet(Payees) /\ "owner" \notin Payees /\ Teams \cap SubAgents = {}
      /\ Payees = Teams \cup SubAgents
  BY FS_AddElement DEF CommissionConstants, Payees
<1>3. \A r \in Rows(A) :
         /\ whole[r] \in Nat /\ part[r] \in Nat /\ gap[r] \in Nat
         /\ whole[r] = gap[r] + part[r] /\ (r[2] = "owner" => part[r] = 0)
  <2> SUFFICES ASSUME NEW r \in Rows(A)
               PROVE  /\ whole[r] \in Nat /\ part[r] \in Nat /\ gap[r] \in Nat
                      /\ whole[r] = gap[r] + part[r] /\ (r[2] = "owner" => part[r] = 0)
    OBVIOUS
  <2>1. /\ Whole(m, A, r) \in Nat /\ Part(m, A, r) \in Nat /\ Part(m, A, r) <= Whole(m, A, r)
        /\ r[2] = "owner" => Part(m, A, r) = 0
    BY <1>1, Parts
  <2> QED BY <2>1
<1>4. \A p : IsFiniteSet(ByTeam(p)) /\ IsFiniteSet(ByAgent(p))
  BY <1>1, FS_Subset
<1>5. ASSUME NEW p \in Payees
      PROVE  /\ Owed(m, A, p) = teams[p] + agents[p]
             /\ teams[p] \in Nat /\ agents[p] \in Nat
  <2> DEFINE cut == [r \in Rows(A) |-> Cut(m, A, r, p)]
             mine == {r \in Rows(A) : p \in {r[1], r[2]}}
  <2>1. Owed(m, A, p) = SumFunctionOnSet(cut, mine)
    BY DEF Owed
  <2>2. teams[p] = SumFunctionOnSet(gap, ByTeam(p)) /\ agents[p] = SumFunctionOnSet(part, ByAgent(p))
    OBVIOUS
  <2>3. \A r \in Rows(A) : /\ r[1] = p => cut[r] = gap[r]
                           /\ r[1] # p => cut[r] = part[r]
    BY DEF Cut, Whole, Part
  <2>4. CASE p \in Teams
    <3>1. ByAgent(p) = {} /\ mine = ByTeam(p)
      BY <1>1, <1>2, <2>4
    <3>2. \A r \in ByTeam(p) : cut[r] \in Int /\ cut[r] = gap[r] /\ gap[r] \in Nat
      BY <1>3, <2>3
    <3> HIDE DEF cut, gap, part, mine, ByTeam, ByAgent, teams, agents
    <3>3. SumFunctionOnSet(cut, mine) = SumFunctionOnSet(gap, ByTeam(p))
      BY <1>4, <3>1, <3>2, SumSame
    <3>4. SumFunctionOnSet(gap, ByTeam(p)) \in Nat
      BY <1>4, <3>2, SumType
    <3>5. SumFunctionOnSet(part, ByAgent(p)) = 0
      BY <3>1, SumEmpty
    <3> QED BY <2>1, <2>2, <3>3, <3>4, <3>5
  <2>5. CASE p \in SubAgents
    <3>1. ByTeam(p) = {} /\ mine = ByAgent(p)
      BY <1>1, <1>2, <2>5
    <3>2. \A r \in ByAgent(p) : cut[r] \in Int /\ cut[r] = part[r] /\ part[r] \in Nat
      BY <1>1, <1>3, <2>3
    <3> HIDE DEF cut, gap, part, mine, ByTeam, ByAgent, teams, agents
    <3>3. SumFunctionOnSet(cut, mine) = SumFunctionOnSet(part, ByAgent(p))
      BY <1>4, <3>1, <3>2, SumSame
    <3>4. SumFunctionOnSet(part, ByAgent(p)) \in Nat
      BY <1>4, <3>2, SumType
    <3>5. SumFunctionOnSet(gap, ByTeam(p)) = 0
      BY <3>1, SumEmpty
    <3> QED BY <2>1, <2>2, <3>3, <3>4, <3>5
  <2> QED BY <1>2, <2>4, <2>5
<1>6. teams["owner"] = 0 /\ agents["owner"] = 0
  <2>1. ByTeam("owner") = {}
    BY <1>1, <1>2
  <2>2. \A r \in ByAgent("owner") : part[r] = 0
    BY <1>3
  <2>3. teams["owner"] = SumFunctionOnSet(gap, ByTeam("owner"))
        /\ agents["owner"] = SumFunctionOnSet(part, ByAgent("owner"))
    OBVIOUS
  <2> HIDE DEF gap, part, ByTeam, ByAgent, teams, agents
  <2>4. SumFunctionOnSet(part, ByAgent("owner")) = 0
    BY <1>4, <2>2, SumZero
  <2> QED BY <2>1, <2>3, <2>4, SumEmpty
<1>7. \A p \in All : teams[p] \in Int /\ agents[p] \in Int /\ owed[p] = teams[p] + agents[p]
  <2> SUFFICES ASSUME NEW p \in All
               PROVE  teams[p] \in Int /\ agents[p] \in Int /\ owed[p] = teams[p] + agents[p]
    OBVIOUS
  <2>1. CASE p = "owner"
    <3>1. owed[p] = 0
      BY <2>1
    <3> HIDE DEF teams, agents, owed
    <3> QED BY <1>6, <2>1, <3>1
  <2>2. CASE p \in Payees
    <3>1. owed[p] = Owed(m, A, p)
      BY <1>2, <2>2
    <3> HIDE DEF teams, agents, owed
    <3> QED BY <1>5, <2>2, <3>1
  <2> QED BY <2>1, <2>2
<1>8. SumFunctionOnSet(owed, All) = SumFunctionOnSet(teams, All) + SumFunctionOnSet(agents, All)
  <2> HIDE DEF teams, agents, owed, All
  <2> QED BY <1>2, <1>7, SumPlus
<1>9. SumFunctionOnSet(teams, All) = SumFunctionOnSet(gap, Rows(A))
  <2> DEFINE h == [r \in Rows(A) |-> r[1]]
  <2>1. \A r \in Rows(A) : h[r] \in All /\ gap[r] \in Int
    BY <1>1, <1>2, <1>3
  <2>2. teams = [p \in All |-> SumFunctionOnSet(gap, {r \in Rows(A) : h[r] = p})]
    <3>1. \A p : ByTeam(p) = {r \in Rows(A) : h[r] = p}
      OBVIOUS
    <3> HIDE DEF gap, h, ByTeam
    <3> QED BY <3>1
  <2> HIDE DEF gap, h, teams, All
  <2> QED BY <1>1, <1>2, <2>1, <2>2, SumGrouped
<1>10. SumFunctionOnSet(agents, All) = SumFunctionOnSet(part, Rows(A))
  <2> DEFINE h == [r \in Rows(A) |-> r[2]]
  <2>1. \A r \in Rows(A) : h[r] \in All /\ part[r] \in Int
    BY <1>1, <1>2, <1>3
  <2>2. agents = [p \in All |-> SumFunctionOnSet(part, {r \in Rows(A) : h[r] = p})]
    <3>1. \A p : ByAgent(p) = {r \in Rows(A) : h[r] = p}
      OBVIOUS
    <3> HIDE DEF part, h, ByAgent
    <3> QED BY <3>1
  <2> HIDE DEF part, h, agents, All
  <2> QED BY <1>1, <1>2, <2>1, <2>2, SumGrouped
<1>11. SumFunctionOnSet(whole, Rows(A))
         = SumFunctionOnSet(gap, Rows(A)) + SumFunctionOnSet(part, Rows(A))
  <2> HIDE DEF whole, gap, part
  <2> QED BY <1>1, <1>3, SumPlus
<1>12. SumFunctionOnSet(owed, All) = SumFunctionOnSet(owed, Payees)
  <2>1. \A p \in Payees \cup {"owner"} : owed[p] \in Int
    <3> HIDE DEF owed, teams, agents
    <3>1. \A p \in All : owed[p] \in Int
      BY <1>7
    <3> QED BY <3>1
  <2>2. owed["owner"] = 0
    OBVIOUS
  <2> HIDE DEF owed
  <2>3. SumFunctionOnSet(owed, Payees \cup {"owner"}) = SumFunctionOnSet(owed, Payees) + 0
    BY <1>2, <2>1, <2>2, SumAdd
  <2>4. SumFunctionOnSet(owed, Payees) \in Int
    BY <1>2, <2>1, SumType
  <2> QED BY <2>3, <2>4
<1>13. SumFunctionOnSet([p \in Payees |-> Owed(m, A, p)], Payees) = SumFunctionOnSet(owed, Payees)
  <2> DEFINE o == [p \in Payees |-> Owed(m, A, p)]
  <2>1. \A p \in Payees : o[p] \in Int /\ o[p] = owed[p]
    <3> SUFFICES ASSUME NEW p \in Payees PROVE o[p] \in Int /\ o[p] = owed[p]
      OBVIOUS
    <3>1. Owed(m, A, p) \in Int
      <4> HIDE DEF teams, agents
      <4> QED BY <1>5
    <3> QED BY <1>2, <3>1
  <2> HIDE DEF o, owed
  <2>2. SumFunctionOnSet(o, Payees) = SumFunctionOnSet(owed, Payees)
    BY <1>2, <2>1, SumSame
  <2> QED BY <2>2 DEF o
<1>14. \A p \in Payees : Owed(m, A, p) \in Nat
  <2> HIDE DEF teams, agents
  <2> QED BY <1>5
<1>15. whole = [r \in Rows(A) |-> Share(Points(Of(A, r)), levels[m][r[1]].rate)]
  BY DEF Whole
<1> HIDE DEF whole, part, gap, owed, teams, agents, All
<1> QED BY <1>8, <1>9, <1>10, <1>11, <1>12, <1>13, <1>14, <1>15

\* What a payee is owed of the gifts A, once these are the month's.
LEMMA OwedKept ==
  ASSUME CommissionConstants, MonthsShaped, sends' \in Seq(GiftRow), NEW m \in Months,
         NEW A \in SUBSET (1..Len(sends)), Attributed(m)' = A, Kept(A), levels'[m] = levels[m], NEW p
  PROVE  Due(m, p)' = Owed(m, A, p)
<1>1. Rows(Attributed(m))' = Rows(A)
  BY DEF Rows, Kept
<1>2. ASSUME NEW r \in Rows(A)
      PROVE  Cut(m, Attributed(m), r, p)' = Cut(m, A, r, p)
  <2>1. Of(Attributed(m), r)' = Of(A, r)
    BY DEF Of, Kept
  <2>2. PICK H : H = Of(A, r)
    OBVIOUS
  <2>3. Points(H)' = Points(H)
    <3>1. H \in SUBSET A
      BY <2>2 DEF Of
    <3> QED BY <3>1, PointsKept DEF MonthsShaped
  <2>4. Points(Of(Attributed(m), r))' = Points(H)'
    BY <2>1, <2>2 DEF Points
  <2>5. AgentsPart(m, r[2], r[1], Of(Attributed(m), r))' = AgentsPart(m, r[2], r[1], Of(A, r))
    BY <2>2, <2>3, <2>4 DEF AgentsPart, AgentRate
  <2> QED BY <2>2, <2>3, <2>4, <2>5 DEF Cut
<1>3. [r \in Rows(Attributed(m))' |-> Cut(m, Attributed(m), r, p)'] = [r \in Rows(A) |-> Cut(m, A, r, p)]
  BY <1>1, <1>2
<1>4. {r \in Rows(Attributed(m))' : p \in {r[1], r[2]}} = {r \in Rows(A) : p \in {r[1], r[2]}}
  BY <1>1
<1> QED BY <1>3, <1>4 DEF Due, Owed

LEMMA WorthKept ==
  ASSUME CommissionConstants, MonthsShaped, sends' \in Seq(GiftRow), NEW m \in Months, NEW p,
         Attributed(m)' = Attributed(m), Kept(Attributed(m)), levels'[m] = levels[m]
  PROVE  Due(m, p)' = Due(m, p)
<1>1. PICK A : A = Attributed(m)
  OBVIOUS
<1>2. A \subseteq 1..Len(sends)
  BY <1>1 DEF Attributed
<1>3. Kept(A)
  BY <1>1
<1>4. Due(m, p)' = Owed(m, A, p)
  BY <1>1, <1>2, <1>3, OwedKept
<1> QED BY <1>1, <1>4 DEF Due

LEMMA SameGifts ==
  ASSUME CommissionConstants, MonthsShaped, UNCHANGED sends
  PROVE  /\ sends' \in Seq(GiftRow) /\ \A m : Attributed(m)' = Attributed(m) /\ Kept(Attributed(m))
         /\ \A m, p : Volume(m, p)' = Volume(m, p)
<1>1. Len(sends) \in Nat
  BY Gifts DEF MonthsShaped
<1>2. sends' \in Seq(GiftRow) /\ \A m : Attributed(m)' = Attributed(m) /\ Kept(Attributed(m))
  BY <1>1 DEF MonthsShaped, Attributed, Kept
<1>3. \A m, p : Volume(m, p)' = Volume(m, p)
  BY DEF Volume, Points, Attributed
<1> QED BY <1>2, <1>3

LEMMA SameWorth ==
  ASSUME CommissionConstants, MonthsShaped, UNCHANGED sends
  PROVE  \A m \in Months : levels'[m] = levels[m] => \A p : Due(m, p)' = Due(m, p)
BY SameGifts, WorthKept

-----------------------------------------------------------------------------
\* A level that is written: a band, at least that of no points, and at most one
\* below the one before; a rate; and what it was measured on.
LEMMA LevelIs ==
  ASSUME CommissionConstants, MonthsShaped, NEW k \in Months, NEW p \in Payees, Live(p)
  PROVE  /\ Level(k, p) \in LevelRow /\ Level(k, p).band > 0 /\ Level(k, p).band >= BandOf(0)
         /\ k > 0 => Level(k, p).band >= levels[k - 1][p].band - 1
         /\ Level(k, p).measured = Volume(k - 1, p)
<1>1. LastMonth \in Nat /\ Months = 0..LastMonth /\ k \in Nat
  BY DEF CommissionConstants, Months
<1>2. ASSUME NEW q \in Payees
      PROVE  /\ Cushioned(k, q) \in 1..Len(Bands) /\ Cushioned(k, q) >= BandOf(0)
             /\ k > 0 => Cushioned(k, q) >= levels[k - 1][q].band - 1
  <2>1. PICK b : b = BandOf(Volume(k - 1, q))
    OBVIOUS
  <2>2. b \in 1..Len(Bands) /\ b >= BandOf(0) /\ BandOf(0) \in Int /\ Len(Bands) \in Nat
    <3>1. Volume(k - 1, q) \in Nat
      BY VolumeNat DEF MonthsShaped
    <3>2. BandOf(0) \in 1..Len(Bands) /\ Len(Bands) \in Nat
      BY BandIs DEF CommissionConstants
    <3> QED BY <2>1, <3>1, <3>2, BandIs
  <2>3. PICK c : c = IF k = 0 THEN 0 ELSE levels[k - 1][q].band - 1
    OBVIOUS
  <2>4. c \in Int /\ c <= Len(Bands)
    <3>1. CASE k = 0
      BY <2>2, <2>3, <3>1
    <3>2. CASE k # 0
      <4>1. k - 1 \in Months
        BY <1>1, <3>2
      <4>2. levels[k - 1][q].band \in 0..Len(Bands)
        BY <4>1 DEF MonthsShaped, LevelRow
      <4> QED BY <2>2, <2>3, <3>2, <4>2
    <3> QED BY <3>1, <3>2
  <2>5. Cushioned(k, q) = Max({b, c})
    BY <2>1, <2>3 DEF Cushioned
  <2>6. Max({b, c}) \in {b, c} /\ Max({b, c}) >= b /\ Max({b, c}) >= c
    <3>1. b \in Int /\ c \in Int
      BY <2>2, <2>4
    <3> QED BY <3>1, OfTwo
  <2>7. Cushioned(k, q) \in 1..Len(Bands) /\ Cushioned(k, q) >= BandOf(0) /\ Cushioned(k, q) >= c
    BY <2>2, <2>4, <2>5, <2>6
  <2>8. k > 0 => c = levels[k - 1][q].band - 1
    BY <1>1, <2>3
  <2> QED BY <2>7, <2>8
<1>3. ASSUME NEW q \in Payees PROVE Bands[Cushioned(k, q)].rate \in Nat
  BY <1>2, Rated
<1>4. Level(k, p).rate \in Nat
  <2>1. CASE p \in Teams
    BY <1>3, <2>1 DEF Level
  <2>2. CASE p \notin Teams
    <3>1. p \in SubAgents /\ seats[p] \in Teams
      BY <2>2 DEF Payees, Live, MonthsShaped
    <3>2. PICK v \in Nat, w \in Nat :
             v = Bands[Cushioned(k, p)].rate /\ w = Bands[Cushioned(k, seats[p])].rate
      BY <1>3, <3>1 DEF Payees
    <3>3. Min({v, w}) \in Nat
      <4>1. v \in Int /\ w \in Int
        OBVIOUS
      <4>2. Min({v, w}) \in {v, w}
        BY <4>1, OfTwo
      <4> QED BY <4>2
    <3> QED BY <2>2, <3>2, <3>3 DEF Level
  <2> QED BY <2>1, <2>2
<1>5. Volume(k - 1, p) \in Nat
  BY VolumeNat DEF MonthsShaped
<1>6. Level(k, p) = [band |-> Cushioned(k, p), measured |-> Volume(k - 1, p), rate |-> Level(k, p).rate]
  BY DEF Level
<1>7. Len(Bands) \in Nat
  BY DEF CommissionConstants
<1> QED BY <1>2, <1>4, <1>5, <1>6, <1>7 DEF LevelRow

\* A month that may be opened: it is not closed, and the one before has a row.
Opening(k) ==
    /\ k \in Months /\ periods[k] # "closed"
    /\ k > 0 => periods[k - 1] # "none"
    /\ k > 1 => periods[k - 1] = "closed"

\* Opening a month writes its row, and levels that were not written yet.
LEMMA OpenWrites ==
  ASSUME CommissionConstants, MonthsShaped, NEW k, Opening(k), Open(k)
  PROVE  /\ periods' = [periods EXCEPT ![k] = "open"]
         /\ levels' \in [Months -> [Payees -> LevelRow]]
         /\ \A m \in Months \ {k} : levels'[m] = levels[m]
         /\ \A p \in Payees : levels'[k][p] = levels[k][p]
                \/ (levels[k][p] = NoLevel /\ Live(p) /\ levels'[k][p] = Level(k, p))
         /\ repriced \subseteq repriced' /\ repriced' \subseteq Months
         /\ levels'[k] # levels[k] /\ (\E p \in Payees : accrued[k][p] > 0) => k \in repriced'
<1>1. LastMonth \in Nat /\ Months = 0..LastMonth /\ k \in Nat /\ k \in Months
  BY DEF CommissionConstants, Months, Opening
<1>2. periods' = [periods EXCEPT ![k] = "open"]
  <2>1. k > 0 => k - 1 \in Months /\ periods[k - 1] # "none"
    BY <1>1 DEF Opening
  <2>2. periods[k] \in {"none", "open"} /\ DOMAIN periods = Months
    BY <1>1 DEF Opening, MonthsShaped
  <2>3. \A j \in Months : (IF j \in {k - 1, k} /\ periods[j] = "none" THEN "open" ELSE periods[j])
                            = (IF j = k THEN "open" ELSE periods[j])
    BY <1>1, <2>1, <2>2
  <2>4. periods' = [j \in Months |-> IF j \in {k - 1, k} /\ periods[j] = "none" THEN "open" ELSE periods[j]]
    BY DEF Open
  <2>5. [periods EXCEPT ![k] = "open"] = [j \in Months |-> IF j = k THEN "open" ELSE periods[j]]
    BY <2>2
  <2> QED BY <2>3, <2>4, <2>5
<1>3. PICK new : new = [p \in Payees |->
         IF Live(p) /\ levels[k][p] = NoLevel THEN Level(k, p) ELSE levels[k][p]]
  OBVIOUS
<1>4. levels' = [levels EXCEPT ![k] = new]
  BY <1>3 DEF Open
<1>5. new \in [Payees -> LevelRow]
  <2>1. \A p \in Payees : levels[k][p] \in LevelRow /\ (Live(p) => Level(k, p) \in LevelRow)
    BY <1>1, LevelIs DEF MonthsShaped
  <2> QED BY <1>3, <2>1
<1>6. levels' \in [Months -> [Payees -> LevelRow]] /\ levels'[k] = new
      /\ \A m \in Months \ {k} : levels'[m] = levels[m]
  BY <1>1, <1>4, <1>5 DEF MonthsShaped
<1>7. \A p \in Payees : new[p] = levels[k][p]
         \/ (levels[k][p] = NoLevel /\ Live(p) /\ new[p] = Level(k, p))
  BY <1>3
<1>8. /\ repriced \subseteq repriced' /\ repriced' \subseteq Months
      /\ levels'[k] # levels[k] /\ (\E p \in Payees : accrued[k][p] > 0) => k \in repriced'
  BY <1>1 DEF Open, MonthsShaped
<1> QED BY <1>2, <1>6, <1>7, <1>8

\* So the rows stay in order ...
LEMMA OpenRows ==
  ASSUME CommissionConstants, MonthsShaped, RowsInOrder, NEW k, Opening(k), Open(k),
         UNCHANGED today
  PROVE  RowsInOrder'
<1>1. LastMonth \in Nat /\ Months = 0..LastMonth /\ k \in Nat /\ k \in Months
  BY DEF CommissionConstants, Months, Opening
<1>2. /\ periods' = [periods EXCEPT ![k] = "open"] /\ DOMAIN periods = Months
      /\ \A m \in Months \ {k} : levels'[m] = levels[m]
  BY OpenWrites DEF MonthsShaped
<1>3. Begun'
  BY <1>1, <1>2 DEF Begun
<1>4. \A m \in Months : periods'[m] = "none" => \A p \in Payees : levels'[m][p] = NoLevel
  BY <1>2 DEF RowsInOrder
<1>5. ASSUME NEW m \in Months \ {0}
      PROVE  /\ periods'[m] # "none" => periods'[m - 1] # "none"
             /\ periods'[m] # "none" /\ m > 1 => periods'[m - 1] = "closed"
             /\ periods'[m] = "closed" => periods'[m - 1] = "closed"
  <2>1. m - 1 \in Months /\ m - 1 # m /\ m \in Nat
    BY <1>1
  <2>2. /\ periods[m] # "none" => periods[m - 1] # "none"
        /\ periods[m] # "none" /\ m > 1 => periods[m - 1] = "closed"
        /\ periods[m] = "closed" => periods[m - 1] = "closed"
    BY DEF RowsInOrder
  <2>3. CASE m = k
    BY <1>1, <1>2, <2>1, <2>2, <2>3 DEF Opening
  <2>4. CASE m - 1 = k
    BY <1>1, <1>2, <2>1, <2>2, <2>4 DEF Opening
  <2>5. CASE m # k /\ m - 1 # k
    BY <1>2, <2>1, <2>2, <2>5
  <2> QED BY <2>3, <2>4, <2>5
<1> QED BY <1>3, <1>4, <1>5 DEF RowsInOrder

\* ... and no level jumps.  Only month 0 gets levels after the month that
\* follows has: these are no higher than the band of no points.
LEMMA OpenLevels ==
  ASSUME CommissionConstants, MonthsShaped, RowsInOrder, LevelsSound, NEW k, Opening(k), Open(k),
         UNCHANGED <<sends, today>>
  PROVE  LevelsSound'
<1>1. LastMonth \in Nat /\ Months = 0..LastMonth /\ k \in Nat /\ k \in Months
  BY DEF CommissionConstants, Months, Opening
<1>2. /\ \A m \in Months \ {k} : levels'[m] = levels[m]
      /\ levels' \in [Months -> [Payees -> LevelRow]]
      /\ \A p \in Payees : levels'[k][p] = levels[k][p]
             \/ (levels[k][p] = NoLevel /\ Live(p) /\ levels'[k][p] = Level(k, p))
  BY OpenWrites
<1>3. \A m, p : Volume(m, p)' = Volume(m, p)
  BY SameGifts
<1>4. BandOf(0)' = BandOf(0) /\ BandOf(0) \in Int /\ BandOf(0) > 0
  <2>1. BandOf(0)' = BandOf(0)
    BY DEF BandOf
  <2> QED BY <2>1, BandOfNone
<1> SUFFICES ASSUME NEW m \in Months, NEW p \in Payees, levels'[m][p] # NoLevel
             PROVE  /\ levels'[m][p].band >= BandOf(0)
                    /\ m > 0 => levels'[m][p].band >= levels'[m - 1][p].band - 1
                    /\ m > 1 => levels'[m][p].measured = Volume(m - 1, p)
  BY <1>3, <1>4 DEF LevelsSound
<1>5. /\ \A i \in Months : levels[i][p].band \in Int /\ levels'[i][p].band \in Int
      /\ m \in Nat /\ (m > 0 => m - 1 \in Months /\ m - 1 # m)
  <2>1. \A i \in Months : levels[i][p] \in LevelRow /\ levels'[i][p] \in LevelRow
    BY <1>2 DEF MonthsShaped
  <2>2. \A i \in Months : levels[i][p].band \in Int /\ levels'[i][p].band \in Int
    BY <2>1 DEF LevelRow
  <2>3. m \in Nat /\ (m > 0 => m - 1 \in Months /\ m - 1 # m)
    BY <1>1
  <2> QED BY <2>2, <2>3
<1>6. CASE m # k /\ (m > 0 => levels'[m - 1][p] = levels[m - 1][p])
  <2>1. levels'[m] = levels[m]
    BY <1>2, <1>6
  <2> QED BY <1>5, <1>6, <2>1 DEF LevelsSound
<1>7. CASE m = k
  <2>1. m > 0 => levels'[m - 1] = levels[m - 1]
    BY <1>2, <1>5, <1>7
  <2>2. CASE levels'[k][p] = levels[k][p]
    BY <1>5, <1>7, <2>1, <2>2 DEF LevelsSound
  <2>3. CASE Live(p) /\ levels'[k][p] = Level(k, p)
    <3>1. /\ Level(k, p).band >= BandOf(0)
          /\ k > 0 => Level(k, p).band >= levels[k - 1][p].band - 1
          /\ Level(k, p).measured = Volume(k - 1, p)
      BY <1>1, <2>3, LevelIs
    <3> QED BY <1>5, <1>7, <2>1, <2>3, <3>1
  <2> QED BY <1>2, <2>2, <2>3
<1>8. CASE m > 0 /\ m - 1 = k /\ levels'[k][p] # levels[k][p]
  <2>1. levels'[m] = levels[m] /\ levels[m][p] # NoLevel
    BY <1>1, <1>2, <1>5, <1>8
  <2>2. periods[m] # "none"
    BY <2>1 DEF RowsInOrder
  <2>3. m \in Months \ {0}
    BY <1>8, <1>5
  <2>4. m > 1 => periods[k] = "closed"
    BY <1>8, <2>2, <2>3 DEF RowsInOrder
  <2>5. m = 1 /\ k = 0
    BY <1>5, <1>8, <2>4 DEF Opening
  <2>6. levels'[0][p].band = BandOf(0)
    <3>1. Live(p) /\ levels'[0][p] = Level(0, p)
      BY <1>2, <1>8, <2>5
    <3>2. Volume(0 - 1, p) = 0
      <4>1. Attributed(0 - 1) = {}
        <5>1. \A g \in 1..Len(sends) : sends[g].month \in 0..LastMonth
          BY <1>1, Gifts DEF GiftRow, MonthsShaped
        <5>2. \A g \in 1..Len(sends) : sends[g].month # 0 - 1
          BY <1>1, <5>1
        <5> QED BY <5>2 DEF Attributed
      <4>2. Volume(0 - 1, p) = Points({})
        BY <4>1 DEF Volume
      <4> QED BY <4>2, SumEmpty DEF Points
    <3>3. Cushioned(0, p) = Max({BandOf(0), 0})
      BY <3>2 DEF Cushioned
    <3>5. Max({BandOf(0), 0}) \in {BandOf(0), 0} /\ Max({BandOf(0), 0}) >= BandOf(0)
      <4>1. 0 \in Int
        OBVIOUS
      <4> QED BY <1>4, <4>1, OfTwo
    <3>6. Max({BandOf(0), 0}) = BandOf(0)
      BY <1>4, <3>5
    <3> QED BY <3>1, <3>3, <3>6 DEF Level
  <2>7. levels[m][p].band >= BandOf(0)
    BY <2>1 DEF LevelsSound
  <2> QED BY <1>4, <1>5, <2>1, <2>5, <2>6, <2>7
<1>9. m # k /\ m > 0 /\ m - 1 # k => levels'[m - 1] = levels[m - 1]
  BY <1>2, <1>5
<1> QED BY <1>6, <1>7, <1>8, <1>9

\* What was posted stays the split: a month with postings whose levels change
\* is repriced.
LEMMA OpenPosted ==
  ASSUME CommissionConstants, MonthsShaped, PostedIsOwed, NEW k, Opening(k), Open(k),
         UNCHANGED <<sends, accrued>>
  PROVE  PostedIsOwed'
<1>1. /\ periods' = [periods EXCEPT ![k] = "open"] /\ k \in Months /\ DOMAIN periods = Months
      /\ \A m \in Months \ {k} : levels'[m] = levels[m]
      /\ repriced \subseteq repriced' /\ repriced' \subseteq Months
      /\ levels'[k] # levels[k] /\ (\E p \in Payees : accrued[k][p] > 0) => k \in repriced'
  BY OpenWrites DEF MonthsShaped, Opening
<1> SUFFICES ASSUME NEW m \in Months \ repriced', NEW p \in Payees,
                    accrued[m][p] # 0 \/ periods'[m] = "closed"
             PROVE  accrued[m][p] = Due(m, p)'
  BY DEF PostedIsOwed
<1>2. CASE levels'[m] = levels[m]
  <2>1. Due(m, p)' = Due(m, p)
    BY <1>2, SameWorth
  <2>2. periods'[m] = "closed" => periods[m] = "closed"
    BY <1>1
  <2> QED BY <1>1, <2>1, <2>2 DEF PostedIsOwed
<1>3. CASE levels'[m] # levels[m]
  <2>1. m = k /\ periods'[m] = "open"
    BY <1>1, <1>3
  <2>2. accrued[m][p] > 0
    <3>1. accrued[m][p] \in Nat /\ accrued[m][p] # 0
      BY <2>1 DEF MonthsShaped
    <3> QED BY <3>1
  <2> QED BY <1>1, <1>3, <2>1, <2>2
<1> QED BY <1>2, <1>3

LEMMA OpenKeeps ==
  ASSUME CommissionConstants, CommissionInv, NEW k, Opening(k), Open(k),
         UNCHANGED <<today, seats, moves, sends, accrued, crashes>>,
         run' \in JobState, run'.at # "post", JobSound',
         run.at = "next" => k = run.month + 1
  PROVE  CommissionInv'
<1> USE DEF CommissionInv
<1>1. /\ periods' = [periods EXCEPT ![k] = "open"] /\ k \in Months /\ DOMAIN periods = Months
      /\ levels' \in [Months -> [Payees -> LevelRow]]
      /\ repriced' \subseteq Months
  BY OpenWrites DEF MonthsShaped, Opening
<1>2. MonthsShaped'
  <2>1. periods' \in [Months -> {"none", "open", "closed"}]
    BY <1>1 DEF MonthsShaped
  <2> QED BY <1>1, <2>1 DEF MonthsShaped
<1>3. RowsInOrder' /\ LevelsSound' /\ PostedIsOwed'
  BY OpenRows, OpenLevels, OpenPosted
<1>4. DrawnOnce'
  <2>1. \A m \in Months : Drawn(m)' => Drawn(m)
    BY <1>1 DEF Drawn
  <2> QED BY <2>1 DEF DrawnOnce
<1>5. RestIsOwed'
  BY DEF RestIsOwed
<1>6. Followed'
  <2> SUFFICES ASSUME crashes = 0, NEW m \in Months, periods'[m] = "closed", m < LastMonth
               PROVE  periods'[m + 1] # "none"
    BY DEF Followed
  <2>1. m + 1 \in Months
    BY DEF CommissionConstants, Months
  <2>2. periods[m] = "closed"
    BY <1>1
  <2>3. periods[m + 1] # "none" \/ m + 1 = k
    BY <2>2 DEF Followed
  <2> QED BY <1>1, <2>1, <2>3
<1> QED BY <1>2, <1>3, <1>4, <1>5, <1>6

-----------------------------------------------------------------------------
LEMMA Calendar ==
  ASSUME CommissionConstants
  PROVE  /\ LastMonth \in Nat /\ Months = 0..LastMonth /\ IsFiniteSet(Months)
         /\ Asleep \in JobState /\ {MaxMoves, MaxGifts, MaxCrashes} \subseteq Nat
<1>1. LastMonth \in Nat /\ {MaxMoves, MaxGifts, MaxCrashes} \subseteq Nat
  BY DEF CommissionConstants
<1>2. IsFiniteSet(Months)
  BY <1>1, FS_Interval DEF Months
<1>3. Asleep \in JobState
  BY <1>1 DEF Asleep, JobState, JobStages, Months
<1> QED BY <1>1, <1>2, <1>3 DEF Months

LEMMA Earliest ==
  ASSUME CommissionConstants, NEW S \in SUBSET Months, S # {}
  PROVE  Min(S) \in S /\ \A y \in S : Min(S) <= y
<1> DEFINE f == [x \in S |-> 0 - x]
<1>1. IsFiniteSet(S) /\ \A x \in S : x \in Nat /\ f[x] \in Int /\ f[x] = 0 - x
  BY Calendar, FS_Subset
<1> HIDE DEF f
<1>2. \E x \in S : \A y \in S : f[x] >= f[y]
  BY <1>1, Greatest
<1>3. \E x \in S : \A y \in S : x <= y
  BY <1>1, <1>2
<1> QED BY <1>3, Extremes

\* Nothing but the job, or nothing at all, has changed.
LEMMA RunKeeps ==
  ASSUME CommissionConstants, CommissionInv, MonthsShaped', JobSound',
         UNCHANGED <<today, sends, periods, levels, accrued, repriced>>,
         run' = run \/ run'.at # "post",
         crashes' = 0 => crashes = 0 /\ (run' = run \/ run.at # "next")
  PROVE  CommissionInv'
<1> USE DEF CommissionInv
<1>1. \A m \in Months : \A p : Due(m, p)' = Due(m, p)
  BY SameWorth
<1>2. RowsInOrder' /\ Followed'
  BY DEF RowsInOrder, Begun, Followed
<1>3. LevelsSound'
  <2>1. \A m, p : Volume(m, p)' = Volume(m, p)
    BY SameGifts
  <2>2. BandOf(0)' = BandOf(0)
    BY DEF BandOf
  <2> QED BY <2>1, <2>2 DEF LevelsSound
<1>4. DrawnOnce'
  <2>1. \A m \in Months : Drawn(m)' => Drawn(m)
    BY DEF Drawn
  <2> QED BY <2>1 DEF DrawnOnce
<1>5. PostedIsOwed'
  BY <1>1 DEF PostedIsOwed
<1>6. RestIsOwed'
  <2>1. CASE run'.at # "post"
    BY <2>1 DEF RestIsOwed
  <2>2. CASE run' = run /\ run.at = "post"
    <3>1. run.month \in Months
      BY DEF MonthsShaped, JobState
    <3> QED BY <1>1, <2>2, <3>1 DEF RestIsOwed
  <2> QED BY <2>1, <2>2
<1> QED BY <1>2, <1>3, <1>4, <1>5, <1>6

LEMMA MoveKeeps ==
  ASSUME CommissionConstants, CommissionInv, NEW s \in SubAgents, NEW x \in Teams \cup {Unseated},
         Move(s, x)
  PROVE  CommissionInv'
<1>1. MonthsShaped'
  <2>1. moves' \in 0..MaxMoves
    BY Calendar DEF Move, CommissionInv, MonthsShaped
  <2>2. seats' \in [SubAgents -> Teams \cup {Unseated}]
    BY DEF Move, CommissionInv, MonthsShaped
  <2> QED BY <2>1, <2>2 DEF Move, CommissionInv, MonthsShaped
<1>2. JobSound'
  BY DEF Move, CommissionInv, JobSound
<1>3. UNCHANGED <<today, sends, periods, levels, accrued, repriced, run, crashes>>
  BY DEF Move
<1> QED BY <1>1, <1>2, <1>3, RunKeeps

LEMMA CrashKeeps ==
  ASSUME CommissionConstants, CommissionInv, Crash
  PROVE  CommissionInv'
<1>1. MonthsShaped'
  <2>1. crashes' \in 0..MaxCrashes
    BY Calendar DEF Crash, CommissionInv, MonthsShaped
  <2>2. run' \in JobState
    BY Calendar DEF Crash
  <2> QED BY <2>1, <2>2 DEF Crash, CommissionInv, MonthsShaped
<1>2. JobSound' /\ run'.at = "idle"
  BY DEF Crash, JobSound, Asleep
<1>3. crashes' # 0
  BY Calendar DEF Crash, CommissionInv, MonthsShaped
<1>4. UNCHANGED <<today, sends, periods, levels, accrued, repriced>>
  BY DEF Crash
<1> QED BY <1>1, <1>2, <1>3, <1>4, RunKeeps

\* A month ends while the job sleeps.
LEMMA MonthEndsKeeps ==
  ASSUME CommissionConstants, CommissionInv, MonthEnds
  PROVE  CommissionInv'
<1> USE DEF CommissionInv
<1>1. /\ today' = today + 1 /\ run.at = "idle" /\ today < LastMonth
      /\ UNCHANGED <<seats, moves, sends, periods, levels, accrued, run, crashes, repriced>>
      /\ today \in Nat /\ LastMonth \in Nat /\ Months = 0..LastMonth
  BY Calendar DEF MonthEnds, MonthsShaped
<1>2. MonthsShaped'
  BY <1>1 DEF MonthsShaped
<1>3. RowsInOrder'
  <2>1. today' > 1 => Begun'
    BY <1>1 DEF MonthEnds, Begun
  <2> QED BY <1>1, <2>1 DEF RowsInOrder
<1>4. JobSound'
  <2>1. \A m \in run.todo : periods[m] = "open" /\ m < today'
    <3>1. \A m \in run.todo : m \in Nat
      BY <1>1 DEF MonthsShaped, JobState
    <3> QED BY <1>1, <3>1 DEF JobSound
  <2> QED BY <1>1, <2>1 DEF JobSound
<1>5. LevelsSound'
  <2>1. \A m, p : Volume(m, p)' = Volume(m, p)
    BY <1>1, SameGifts
  <2>2. BandOf(0)' = BandOf(0)
    BY DEF BandOf
  <2> QED BY <1>1, <2>1, <2>2 DEF LevelsSound
<1>6. DrawnOnce'
  <2>1. \A m \in Months : Drawn(m)' => Drawn(m)
    BY <1>1 DEF Drawn
  <2>2. \A m \in Months : m < today => m < today'
    BY <1>1
  <2> QED BY <1>1, <2>1, <2>2 DEF DrawnOnce
<1>7. PostedIsOwed' /\ RestIsOwed'
  <2>1. \A m \in Months : \A p : Due(m, p)' = Due(m, p)
    BY <1>1, SameWorth
  <2> QED BY <1>1, <2>1 DEF PostedIsOwed, RestIsOwed
<1>8. Followed'
  BY <1>1 DEF Followed
<1> QED BY <1>2, <1>3, <1>4, <1>5, <1>6, <1>7, <1>8

-----------------------------------------------------------------------------
\* Gifts come and go, but not those of a month that was drawn.
LEMMA SendsKeep ==
  ASSUME CommissionConstants, CommissionInv, sends' \in Seq(GiftRow), Kept(1..Len(sends)),
         \A m \in Months : Attributed(m)' = Attributed(m), DrawnOnce',
         UNCHANGED <<today, seats, moves, periods, levels, accrued, run, crashes, repriced>>
  PROVE  CommissionInv'
<1> USE DEF CommissionInv
<1>1. \A m : Kept(Attributed(m))
  BY DEF Kept, Attributed
<1>2. \A m \in Months : \A p : Due(m, p)' = Due(m, p)
  BY <1>1, WorthKept
<1>3. \A m \in Months : \A p : Volume(m, p)' = Volume(m, p)
  BY <1>1, VolumeKept DEF MonthsShaped
<1>4. MonthsShaped' /\ RowsInOrder' /\ JobSound' /\ Followed'
  BY DEF MonthsShaped, RowsInOrder, Begun, JobSound, Followed
<1>5. LevelsSound'
  <2>1. BandOf(0)' = BandOf(0)
    BY DEF BandOf
  <2>2. \A m \in Months : m > 1 => m - 1 \in Months
    BY Calendar
  <2> QED BY <1>3, <2>1, <2>2 DEF LevelsSound
<1>6. PostedIsOwed'
  BY <1>2 DEF PostedIsOwed
<1>7. RestIsOwed'
  <2>1. run.month \in Months
    BY DEF MonthsShaped, JobState
  <2> QED BY <1>2, <2>1 DEF RestIsOwed
<1> QED BY <1>4, <1>5, <1>6, <1>7

LEMMA GiftKeeps ==
  ASSUME CommissionConstants, CommissionInv, NEW x \in Teams, NEW a \in SubAgents \cup {"owner"},
         NEW n \in Sizes, Gift(x, a, n)
  PROVE  CommissionInv'
<1> DEFINE e == [month |-> today, agency |-> x, agent |-> a, points |-> n,
                 status |-> "sent", attributed |-> FALSE]
           L == Len(sends)
<1>1. sends \in Seq(GiftRow) /\ L \in Nat /\ today \in Months
  BY Gifts DEF CommissionInv, MonthsShaped
<1>2. e \in GiftRow
  BY <1>1 DEF GiftRow
<1>3. sends' = Append(sends, e)
  BY DEF Gift
<1>4. /\ sends' \in Seq(GiftRow) /\ Len(sends') = L + 1
      /\ \A g \in 1..L : sends'[g] = sends[g]
      /\ sends'[L + 1] = e
  <2> HIDE DEF e
  <2> QED BY <1>1, <1>2, <1>3
<1>5. 1..Len(sends') = (1..L) \cup {L + 1}
  BY <1>1, <1>4
<1>6. Kept(1..Len(sends))
  BY <1>1, <1>4 DEF Kept
<1>7. \A m \in Months : Attributed(m)' = Attributed(m)
  <2>1. ~ sends'[L + 1].attributed
    BY <1>4
  <2> HIDE DEF e, L
  <2> QED BY <1>4, <1>5, <2>1 DEF Attributed, L
<1>8. DrawnOnce'
  <2> SUFFICES ASSUME NEW m \in Months, Drawn(m)'
               PROVE  /\ m < today'
                      /\ \A g \in 1..Len(sends') :
                            sends'[g].month = m /\ sends'[g].status = "sent" => sends'[g].attributed
    BY DEF DrawnOnce
  <2>1. Drawn(m) /\ today' = today
    BY DEF Drawn, Gift
  <2>2. m < today
    BY <2>1 DEF CommissionInv, DrawnOnce
  <2>3. sends'[L + 1].month # m
    BY <1>1, <1>4, <2>2, Calendar
  <2> HIDE DEF e
  <2> QED BY <1>4, <1>5, <2>1, <2>2, <2>3 DEF CommissionInv, DrawnOnce
<1>9. UNCHANGED <<today, seats, moves, periods, levels, accrued, run, crashes, repriced>>
  BY DEF Gift
<1> QED BY <1>4, <1>6, <1>7, <1>8, <1>9, SendsKeep

LEMMA ReverseKeeps ==
  ASSUME CommissionConstants, CommissionInv, NEW r \in 1..Len(sends), Reverse(r)
  PROVE  CommissionInv'
<1>1. sends \in Seq(GiftRow) /\ Len(sends) \in Nat /\ \A g \in 1..Len(sends) : sends[g] \in GiftRow
  BY Gifts DEF CommissionInv, MonthsShaped
<1>2. PICK e : e = [sends[r] EXCEPT !.status = "reversed"]
  OBVIOUS
<1>3. /\ e \in GiftRow /\ e.agency = sends[r].agency /\ e.agent = sends[r].agent
      /\ e.points = sends[r].points /\ e.month = sends[r].month /\ e.status = "reversed"
      /\ e.attributed = sends[r].attributed
  BY <1>1, <1>2 DEF GiftRow
<1>4. sends' = [sends EXCEPT ![r] = e]
  BY <1>2 DEF Reverse
<1>5. /\ sends' \in Seq(GiftRow) /\ Len(sends') = Len(sends)
      /\ \A g \in 1..Len(sends) : sends'[g] = IF g = r THEN e ELSE sends[g]
  BY <1>1, <1>3, <1>4
<1>6. Kept(1..Len(sends))
  BY <1>1, <1>3, <1>5 DEF Kept
<1>7. \A m \in Months : Attributed(m)' = Attributed(m)
  BY <1>3, <1>5 DEF Attributed
<1>8. DrawnOnce'
  <2>1. \A m \in Months : Drawn(m)' => Drawn(m)
    BY DEF Drawn, Reverse
  <2>2. today' = today
    BY DEF Reverse
  <2> QED BY <1>3, <1>5, <2>1, <2>2 DEF CommissionInv, DrawnOnce
<1>9. UNCHANGED <<today, seats, moves, periods, levels, accrued, run, crashes, repriced>>
  BY DEF Reverse
<1> QED BY <1>5, <1>6, <1>7, <1>8, <1>9, SendsKeep

-----------------------------------------------------------------------------
LEMMA StartKeeps ==
  ASSUME CommissionConstants, CommissionInv, Start
  PROVE  CommissionInv'
<1> USE DEF CommissionInv
<1>1. /\ run.at = "idle" /\ today > 0 /\ today \in Nat /\ 0 \in Months
      /\ UNCHANGED <<today, seats, moves, sends, accrued, crashes>>
      /\ Months = 0..LastMonth /\ LastMonth \in Nat /\ Asleep \in JobState
  BY Calendar DEF Start, MonthsShaped
<1>2. CASE ~Begun
  <2>1. run' = [Asleep EXCEPT !.at = "seed", !.month = today] /\ Open(today - 1)
    BY <1>2 DEF Start
  <2>2. today = 1 /\ \A m \in Months : periods[m] = "none"
    BY <1>1, <1>2 DEF RowsInOrder, Begun
  <2>3. Open(0) /\ Opening(0)
    BY <1>1, <2>1, <2>2 DEF Opening
  <2>4. periods' = [periods EXCEPT ![0] = "open"] /\ DOMAIN periods = Months
    BY <2>3, OpenWrites DEF MonthsShaped
  <2>5. run' \in JobState /\ run'.at = "seed" /\ run'.month = 1 /\ run'.todo = {}
    <3>1. 1 \in Months
      BY <1>1, <2>2 DEF MonthsShaped
    <3> QED BY <1>1, <2>1, <2>2, <3>1 DEF Asleep, JobState, JobStages
  <2>6. JobSound'
    BY <1>1, <2>2, <2>4, <2>5 DEF JobSound
  <2> QED BY <1>1, <2>3, <2>5, <2>6, OpenKeeps
<1>3. CASE Begun
  <2>1. run' = [Asleep EXCEPT !.at = "pick", !.todo = Over] /\ UNCHANGED <<periods, levels, repriced>>
    BY <1>3 DEF Start
  <2>2. run' \in JobState /\ run'.at = "pick" /\ run'.todo = Over
    BY <1>1, <2>1 DEF Asleep, JobState, JobStages, Over
  <2>3. JobSound'
    BY <1>1, <2>1, <2>2 DEF JobSound, Over
  <2>4. MonthsShaped'
    BY <1>1, <2>1, <2>2 DEF MonthsShaped
  <2> QED BY <1>1, <2>1, <2>2, <2>3, <2>4, RunKeeps
<1> QED BY <1>2, <1>3

LEMMA SeedKeeps ==
  ASSUME CommissionConstants, CommissionInv, Seed
  PROVE  CommissionInv'
<1> USE DEF CommissionInv
<1>1. /\ run.at = "seed" /\ UNCHANGED <<today, seats, moves, sends, accrued, crashes>>
      /\ Months = 0..LastMonth /\ LastMonth \in Nat /\ Asleep \in JobState
      /\ run.month \in Months
  BY Calendar DEF Seed, MonthsShaped, JobState
<1>2. /\ run.month = 1 /\ today = 1 /\ periods[0] = "open"
      /\ \A m \in Months \ {0} : periods[m] = "none"
  BY <1>1 DEF JobSound
<1>3. Open(1) /\ Opening(1)
  BY <1>1, <1>2 DEF Opening, Seed
<1>4. periods' = [periods EXCEPT ![1] = "open"] /\ DOMAIN periods = Months
  BY <1>3, OpenWrites DEF MonthsShaped
<1>5. PICK T : T = {m \in Months : periods'[m] = "open" /\ m < 1}
  OBVIOUS
<1>6. run' = [Asleep EXCEPT !.at = "pick", !.todo = T]
  BY <1>2, <1>5 DEF Seed
<1>7. run' \in JobState /\ run'.at = "pick" /\ run'.todo = T
  BY <1>1, <1>5, <1>6 DEF Asleep, JobState, JobStages
<1>8. JobSound'
  <2>1. 0 \in Months
    BY <1>1
  <2> QED BY <1>1, <1>2, <1>5, <1>7, <2>1 DEF JobSound
<1> QED BY <1>1, <1>3, <1>7, <1>8, OpenKeeps

LEMMA PickMonthKeeps ==
  ASSUME CommissionConstants, CommissionInv, PickMonth
  PROVE  CommissionInv'
<1> USE DEF CommissionInv
<1>1. /\ run.at = "pick" /\ UNCHANGED <<today, seats, moves, sends, accrued, crashes>>
      /\ Months = 0..LastMonth /\ LastMonth \in Nat /\ Asleep \in JobState
      /\ run \in JobState /\ run.todo \subseteq Months
  BY Calendar DEF PickMonth, MonthsShaped, JobState
<1>2. CASE run.todo = {}
  <2>1. run' = Asleep /\ UNCHANGED <<periods, levels, repriced>>
    BY <1>2 DEF PickMonth
  <2>2. run'.at = "idle" /\ run'.todo = {}
    BY <2>1 DEF Asleep
  <2>3. JobSound'
    BY <2>2 DEF JobSound
  <2>4. MonthsShaped'
    BY <1>1, <2>1 DEF MonthsShaped
  <2> QED BY <1>1, <2>1, <2>2, <2>3, <2>4, RunKeeps
<1>3. CASE run.todo # {}
  <2>1. PICK m : m = Min(run.todo)
    OBVIOUS
  <2>2. m \in run.todo /\ \A y \in run.todo : m <= y
    BY <1>1, <1>3, <2>1, Earliest
  <2>3. run' = [run EXCEPT !.at = "open", !.month = m, !.todo = run.todo \ {m}] /\ Open(m)
    BY <1>3, <2>1 DEF PickMonth
  <2>4. m \in Months /\ m \in Nat /\ periods[m] = "open" /\ m < today
    BY <1>1, <2>2 DEF JobSound
  <2>5. periods[0] = "open" => m = 0
    <3>1. periods[0] = "open" => 0 \in run.todo
      BY <1>1, <1>3 DEF JobSound
    <3> QED BY <2>2, <2>4, <3>1
  <2>6. Opening(m)
    BY <1>1, <2>4 DEF Opening, RowsInOrder
  <2>7. periods' = [periods EXCEPT ![m] = "open"] /\ DOMAIN periods = Months
    BY <2>3, <2>6, OpenWrites DEF MonthsShaped
  <2>8. periods' = periods
    BY <2>4, <2>7 DEF MonthsShaped
  <2>9. run' \in JobState /\ run'.at = "open" /\ run'.month = m /\ run'.todo = run.todo \ {m}
    BY <1>1, <2>3, <2>4 DEF JobState, JobStages
  <2>10. JobSound'
    BY <1>1, <2>4, <2>5, <2>8, <2>9 DEF JobSound
  <2> QED BY <1>1, <2>3, <2>6, <2>9, <2>10, OpenKeeps
<1> QED BY <1>2, <1>3

LEMMA OpenNextKeeps ==
  ASSUME CommissionConstants, CommissionInv, OpenNext
  PROVE  CommissionInv'
<1> USE DEF CommissionInv
<1>1. /\ run.at = "next" /\ UNCHANGED <<today, seats, moves, sends, accrued, crashes>>
      /\ Months = 0..LastMonth /\ LastMonth \in Nat /\ run \in JobState /\ run.month \in Months
      /\ today \in Months /\ run.month < today
      /\ run' = [run EXCEPT !.at = "pick"] /\ Open(run.month + 1)
  BY Calendar DEF OpenNext, OpensNext, Become, MonthsShaped, JobState, JobSound
<1>2. PICK k \in Months : k = run.month + 1 /\ k # 0
  BY <1>1
<1>3. periods[k - 1] = "closed" /\ periods[k] # "closed" /\ periods[0] # "open" /\ k - 1 = run.month
  BY <1>1, <1>2 DEF JobSound
<1>4. Opening(k) /\ Open(k)
  BY <1>1, <1>2, <1>3 DEF Opening
<1>5. periods' = [periods EXCEPT ![k] = "open"] /\ DOMAIN periods = Months
  BY <1>4, OpenWrites DEF MonthsShaped
<1>6. run' \in JobState /\ run'.at = "pick" /\ run'.todo = run.todo
  BY <1>1 DEF JobState, JobStages
<1>7. JobSound'
  <2>1. 0 \in Months /\ 0 # k
    BY <1>1, <1>2
  <2>2. run.todo \subseteq Months
    BY <1>1 DEF JobState
  <2> QED BY <1>1, <1>3, <1>5, <1>6, <2>1, <2>2 DEF JobSound
<1> QED BY <1>1, <1>2, <1>4, <1>6, <1>7, OpenKeeps

LEMMA CloseKeeps ==
  ASSUME CommissionConstants, CommissionInv, Close
  PROVE  CommissionInv'
<1> USE DEF CommissionInv
<1>1. /\ run.at = "post" /\ run.owed = {}
      /\ UNCHANGED <<today, seats, moves, sends, levels, accrued, crashes, repriced>>
      /\ Months = 0..LastMonth /\ LastMonth \in Nat /\ run \in JobState /\ run.month \in Months
      /\ run' = [run EXCEPT !.at = "next"] /\ periods' = [periods EXCEPT ![run.month] = "closed"]
      /\ DOMAIN periods = Months
  BY Calendar DEF Close, Become, MonthsShaped, JobState
<1>2. PICK k \in Months : k = run.month /\ k \in Nat
  BY <1>1
<1>3. /\ periods[k] = "open" /\ (periods[0] = "open" => k = 0) /\ k < today /\ k \notin run.todo
  BY <1>1, <1>2 DEF JobSound
<1>4. periods' = [periods EXCEPT ![k] = "closed"]
  BY <1>1, <1>2
<1>5. run' \in JobState /\ run'.at = "next" /\ run'.month = k /\ run'.todo = run.todo
  BY <1>1, <1>2 DEF JobState, JobStages
<1>6. MonthsShaped'
  <2>1. periods' \in [Months -> {"none", "open", "closed"}]
    BY <1>4 DEF MonthsShaped
  <2> QED BY <1>1, <1>5, <2>1 DEF MonthsShaped
<1>7. k > 0 => periods[k - 1] = "closed"
  <2>1. CASE k > 1
    BY <1>2, <1>3, <2>1 DEF RowsInOrder
  <2>2. CASE k = 1
    <3>0. 0 \in Months
      BY <1>1
    <3>1. periods[0] # "open" /\ periods[0] \in {"none", "open", "closed"}
      BY <1>3, <2>2, <3>0 DEF MonthsShaped
    <3>2. k \in Months \ {0} /\ k - 1 = 0 /\ periods[k] # "none"
      BY <1>3, <2>2
    <3>3. periods[k - 1] # "none"
      BY <3>2 DEF RowsInOrder
    <3> QED BY <3>1, <3>2, <3>3
  <2> QED BY <1>2, <2>1, <2>2
<1>8. RowsInOrder'
  <2>1. today' > 1 => Begun'
    BY <1>1, <1>2, <1>4 DEF Begun
  <2>2. ASSUME NEW m \in Months \ {0}
        PROVE  /\ periods'[m] # "none" => periods'[m - 1] # "none"
               /\ periods'[m] # "none" /\ m > 1 => periods'[m - 1] = "closed"
               /\ periods'[m] = "closed" => periods'[m - 1] = "closed"
    <3>1. m - 1 \in Months /\ m - 1 # m /\ m > 0
      BY <1>1
    <3>2. /\ periods[m] # "none" => periods[m - 1] # "none"
          /\ periods[m] # "none" /\ m > 1 => periods[m - 1] = "closed"
          /\ periods[m] = "closed" => periods[m - 1] = "closed"
      BY DEF RowsInOrder
    <3>3. CASE m = k
      BY <1>1, <1>4, <1>7, <3>1, <3>3
    <3>4. CASE m - 1 = k
      BY <1>1, <1>4, <3>1, <3>4
    <3>5. CASE m # k /\ m - 1 # k
      BY <1>1, <1>4, <3>1, <3>2, <3>5
    <3> QED BY <3>3, <3>4, <3>5
  <2>3. \A m \in Months : periods'[m] = "none" => \A p \in Payees : levels'[m][p] = NoLevel
    BY <1>1, <1>4 DEF RowsInOrder
  <2> QED BY <2>1, <2>2, <2>3 DEF RowsInOrder
<1>9. JobSound'
  <2>1. 0 \in Months /\ k + 1 \in Months /\ k + 1 # k /\ k + 1 # 0
    BY <1>1, <1>2, <1>3 DEF MonthsShaped
  <2>2. periods[k + 1] # "closed"
    <3>1. (k + 1) - 1 = k
      BY <1>2
    <3> QED BY <1>3, <2>1, <3>1 DEF RowsInOrder
  <2>3. run.todo \subseteq Months
    BY <1>1 DEF JobState
  <2>4. \A m \in run.todo : periods'[m] = "open" /\ m < today
    BY <1>1, <1>3, <1>4, <2>3 DEF JobSound
  <2>5. periods'[k] = "closed" /\ periods'[0] # "open" /\ periods'[k + 1] # "closed"
    BY <1>1, <1>3, <1>4, <2>1, <2>2
  <2> QED BY <1>1, <1>3, <1>5, <2>4, <2>5 DEF JobSound
<1>10. LevelsSound'
  <2>1. \A m, p : Volume(m, p)' = Volume(m, p)
    BY <1>1, SameGifts
  <2>2. BandOf(0)' = BandOf(0)
    BY DEF BandOf
  <2> QED BY <1>1, <2>1, <2>2 DEF LevelsSound
<1>11. DrawnOnce'
  <2>1. \A m \in Months : Drawn(m)' => Drawn(m)
    BY <1>1, <1>2, <1>4, <1>5 DEF Drawn
  <2> QED BY <1>1, <2>1 DEF DrawnOnce
<1>12. \A m \in Months : \A p : Due(m, p)' = Due(m, p)
  BY <1>1, SameWorth
<1>13. PostedIsOwed'
  <2> SUFFICES ASSUME NEW m \in Months \ repriced, NEW p \in Payees,
                      accrued[m][p] # 0 \/ periods'[m] = "closed"
               PROVE  accrued[m][p] = Due(m, p)
    BY <1>1, <1>12 DEF PostedIsOwed
  <2>1. CASE accrued[m][p] # 0 \/ periods[m] = "closed"
    BY <2>1 DEF PostedIsOwed
  <2>2. CASE accrued[m][p] = 0 /\ m = k
    BY <1>1, <1>2, <2>2 DEF RestIsOwed
  <2> QED BY <1>1, <1>4, <2>1, <2>2
<1>14. RestIsOwed'
  BY <1>5 DEF RestIsOwed
<1>15. Followed'
  <2> SUFFICES ASSUME crashes = 0, NEW m \in Months, periods'[m] = "closed", m < LastMonth
               PROVE  periods'[m + 1] # "none" \/ m = k
    BY <1>1, <1>5 DEF Followed
  <2>1. m = k \/ periods[m] = "closed"
    BY <1>1, <1>4
  <2>2. m # k => periods[m + 1] # "none"
    BY <1>1, <2>1 DEF Followed
  <2>3. m + 1 \in Months
    BY <1>1
  <2> QED BY <1>1, <1>4, <2>2, <2>3
<1> QED BY <1>6, <1>8, <1>9, <1>10, <1>11, <1>13, <1>14, <1>15

\* The gifts are attributed, and split; what the split was before, if any of it
\* was posted, it is now.
LEMMA DeriveKeeps ==
  ASSUME CommissionConstants, CommissionInv, Derive
  PROVE  CommissionInv'
<1> USE DEF CommissionInv
<1>1. /\ run.at = "open" /\ UNCHANGED <<today, seats, moves, periods, levels, accrued, crashes, repriced>>
      /\ Months = 0..LastMonth /\ LastMonth \in Nat /\ run \in JobState /\ run.month \in Months
      /\ sends \in Seq(GiftRow) /\ Len(sends) \in Nat /\ DOMAIN sends = 1..Len(sends)
      /\ \A g \in 1..Len(sends) : sends[g] \in GiftRow
  BY Calendar, Gifts DEF Derive, MonthsShaped, JobState
<1>2. PICK k \in Months : k = run.month /\ k < today /\ periods[k] = "open"
                          /\ k \notin run.todo /\ (periods[0] = "open" => k = 0)
  BY <1>1 DEF JobSound
<1>3. PICK A : A = Derived(k)
  OBVIOUS
<1>4. A \in SUBSET (1..Len(sends)) /\ \A g \in A : sends[g].month = k
  BY <1>3 DEF Derived, Attributed
<1>5. PICK owed : owed = {[to |-> p, points |-> Owed(k, A, p)] : p \in Payees}
  OBVIOUS
<1>6. /\ sends' = [g \in 1..Len(sends) |-> IF g \in A THEN [sends[g] EXCEPT !.attributed = TRUE]
                                           ELSE sends[g]]
      /\ run' = [run EXCEPT !.at = "post", !.owed = {o \in owed : o.points > 0}]
  BY <1>1, <1>2, <1>3, <1>5 DEF Derive
<1>7. sends' \in Seq(GiftRow) /\ Len(sends') = Len(sends)
  <2>1. \A g \in 1..Len(sends) : [sends[g] EXCEPT !.attributed = TRUE] \in GiftRow
    BY <1>1 DEF GiftRow
  <2>2. sends' \in [1..Len(sends) -> GiftRow]
    BY <1>1, <1>6, <2>1
  <2>3. \A n \in Nat : \A R, q : q \in [1..n -> R] => q \in Seq(R) /\ Len(q) = n
    OBVIOUS
  <2> QED BY <1>1, <2>2, <2>3
<1>8. \A g \in 1..Len(sends) :
         /\ sends'[g].month = sends[g].month /\ sends'[g].agency = sends[g].agency
         /\ sends'[g].agent = sends[g].agent /\ sends'[g].points = sends[g].points
         /\ sends'[g].status = sends[g].status
         /\ sends'[g].attributed = (g \in A \/ sends[g].attributed)
  BY <1>1, <1>6 DEF GiftRow
<1>9. Kept(1..Len(sends)) /\ Kept(A) /\ \A m : Kept(Attributed(m))
  BY <1>1, <1>4, <1>7, <1>8 DEF Kept, Attributed
<1>10. Attributed(k)' = A
  BY <1>3, <1>4, <1>7, <1>8 DEF Derived, Attributed
<1>11. \A m \in Months \ {k} : Attributed(m)' = Attributed(m)
  BY <1>4, <1>7, <1>8 DEF Attributed
<1>12. (\E p \in Payees : accrued[k][p] # 0) => A = Attributed(k)
  BY <1>3 DEF Derived, Attributed, DrawnOnce, Drawn
<1>13. \A p : Due(k, p)' = Owed(k, A, p)
  BY <1>1, <1>4, <1>7, <1>9, <1>10, OwedKept
<1>14. \A m \in Months \ {k} : \A p : Due(m, p)' = Due(m, p)
  BY <1>1, <1>7, <1>9, <1>11, WorthKept
<1>15. \A p \in Payees : Owed(k, A, p) \in Nat
  BY <1>4, SplitAddsUp
<1>16. /\ run' \in JobState /\ run'.at = "post" /\ run'.month = k /\ run'.todo = run.todo
       /\ run'.owed = {o \in owed : o.points > 0}
  <2>1. \A p \in Payees : Owed(k, A, p) > 0 =>
           [to |-> p, points |-> Owed(k, A, p)] \in [to : Payees, points : Nat \ {0}]
    BY <1>15
  <2>2. {o \in owed : o.points > 0} \subseteq [to : Payees, points : Nat \ {0}]
    BY <1>5, <2>1
  <2> QED BY <1>1, <1>2, <1>6, <2>2 DEF JobState, JobStages
<1>17. MonthsShaped' /\ RowsInOrder'
  BY <1>1, <1>7, <1>16 DEF MonthsShaped, RowsInOrder, Begun
<1>18. JobSound'
  BY <1>1, <1>2, <1>16 DEF JobSound
<1>19. LevelsSound'
  <2>1. BandOf(0)' = BandOf(0)
    BY DEF BandOf
  <2> SUFFICES ASSUME NEW m \in Months, NEW p \in Payees, levels[m][p] # NoLevel, m > 1
               PROVE  levels[m][p].measured = Volume(m - 1, p)'
    BY <1>1, <2>1 DEF LevelsSound
  <2>2. m - 1 \in Months /\ m \in Months \ {0}
    BY <1>1
  <2>3. periods[m - 1] = "closed"
    BY <2>2 DEF RowsInOrder
  <2>4. m - 1 # k
    BY <1>2, <2>3
  <2>5. Volume(m - 1, p)' = Volume(m - 1, p)
    BY <1>1, <1>7, <1>9, <1>11, <2>2, <2>4, VolumeKept
  <2> QED BY <2>5 DEF LevelsSound
<1>20. DrawnOnce'
  <2> SUFFICES ASSUME NEW m \in Months, Drawn(m)'
               PROVE  /\ m < today
                      /\ \A g \in 1..Len(sends) :
                            sends'[g].month = m /\ sends'[g].status = "sent" => sends'[g].attributed
    BY <1>1, <1>7 DEF DrawnOnce
  <2>1. CASE m = k
    <3>1. \A g \in 1..Len(sends) : sends[g].month = k /\ sends[g].status = "sent" => g \in A
      BY <1>3 DEF Derived
    <3>2. \A g \in 1..Len(sends) :
             sends'[g].month = k /\ sends'[g].status = "sent" => sends'[g].attributed
      BY <1>8, <3>1
    <3>3. k < today
      BY <1>2
    <3> QED BY <2>1, <3>2, <3>3
  <2>2. CASE m # k
    <3>1. Drawn(m)
      BY <1>1, <1>2, <1>16, <2>2 DEF Drawn
    <3>2. m < today
      BY <3>1 DEF DrawnOnce
    <3>3. \A g \in 1..Len(sends) :
             sends[g].month = m /\ sends[g].status = "sent" => sends[g].attributed
      BY <3>1 DEF DrawnOnce
    <3>4. \A g \in 1..Len(sends) :
             sends'[g].month = m /\ sends'[g].status = "sent" => sends'[g].attributed
      BY <1>8, <3>3
    <3> QED BY <3>2, <3>4
  <2> QED BY <2>1, <2>2
<1>21. PostedIsOwed'
  <2> SUFFICES ASSUME NEW m \in Months \ repriced, NEW p \in Payees,
                      accrued[m][p] # 0 \/ periods[m] = "closed"
               PROVE  accrued[m][p] = Due(m, p)'
    BY <1>1 DEF PostedIsOwed
  <2>1. accrued[m][p] = Due(m, p)
    BY DEF PostedIsOwed
  <2>2. CASE m = k
    <3>1. A = Attributed(k)
      BY <1>2, <1>12, <2>2
    <3>2. Due(k, p)' = Due(k, p)
      BY <1>13, <3>1 DEF Due
    <3> QED BY <2>1, <2>2, <3>2
  <2>3. CASE m # k
    BY <1>14, <2>1, <2>3
  <2> QED BY <2>2, <2>3
<1>22. RestIsOwed'
  <2>1. \A o \in run'.owed : o.points = Due(k, o.to)'
    BY <1>5, <1>13, <1>16
  <2>2. \A p \in Payees : Due(k, p)' = 0 \/ \E o \in run'.owed : o.to = p
    <3> SUFFICES ASSUME NEW p \in Payees, Due(k, p)' # 0
                 PROVE  \E o \in run'.owed : o.to = p
      OBVIOUS
    <3>1. Owed(k, A, p) > 0
      BY <1>13, <1>15
    <3>2. [to |-> p, points |-> Owed(k, A, p)] \in owed
      BY <1>5
    <3>3. [to |-> p, points |-> Owed(k, A, p)] \in run'.owed
      BY <1>16, <3>1, <3>2
    <3> QED BY <3>3
  <2>3. run'.month = k
    BY <1>16
  <2> QED BY <2>1, <2>2, <2>3 DEF RestIsOwed
<1>23. Followed'
  BY <1>1, <1>16 DEF Followed
<1> QED BY <1>17, <1>18, <1>19, <1>20, <1>21, <1>22, <1>23

\* A payee is posted its part, once.
LEMMA PostKeeps ==
  ASSUME CommissionConstants, CommissionInv, Post
  PROVE  CommissionInv'
<1> USE DEF CommissionInv
<1>1. /\ run.at = "post" /\ UNCHANGED <<today, seats, moves, sends, periods, levels, crashes, repriced>>
      /\ Months = 0..LastMonth /\ LastMonth \in Nat /\ run \in JobState /\ run.month \in Months
      /\ Asleep \in JobState /\ accrued \in [Months -> [Payees -> Nat]]
  BY Calendar DEF Post, MonthsShaped, JobState
<1>2. PICK k \in Months : k = run.month /\ k < today /\ periods[k] = "open"
                          /\ k \notin run.todo /\ (periods[0] = "open" => k = 0)
  BY <1>1 DEF JobSound
<1>3. PICK o \in run.owed :
         IF Replays(o)
         THEN /\ UNCHANGED accrued
              /\ run' = IF accrued[run.month][o.to] = o.points
                        THEN [run EXCEPT !.owed = run.owed \ {o}] ELSE Asleep
         ELSE /\ accrued' = [accrued EXCEPT ![run.month][o.to] = accrued[run.month][o.to] + o.points]
              /\ run' = [run EXCEPT !.owed = run.owed \ {o}]
  BY DEF Post
<1>4. o \in [to : Payees, points : Nat \ {0}] /\ o.to \in Payees /\ o.points = Due(k, o.to)
  BY <1>1, <1>2 DEF JobState, RestIsOwed
<1>5. \A m \in Months : \A p : Due(m, p)' = Due(m, p)
  BY <1>1, SameWorth
<1>6. CASE run' = Asleep
  <2>1. UNCHANGED accrued
    <3>1. run'.at = "idle"
      BY <1>6 DEF Asleep
    <3>2. [run EXCEPT !.owed = run.owed \ {o}].at = "post"
      BY <1>1 DEF JobState
    <3> QED BY <1>3, <3>1, <3>2
  <2>2. run'.at = "idle" /\ run'.todo = {}
    BY <1>6 DEF Asleep
  <2>3. JobSound'
    BY <2>2 DEF JobSound
  <2>4. MonthsShaped'
    BY <1>1, <1>6, <2>1 DEF MonthsShaped
  <2> QED BY <1>1, <2>1, <2>2, <2>3, <2>4, RunKeeps
<1>7. CASE /\ run' = [run EXCEPT !.owed = run.owed \ {o}]
           /\ \/ UNCHANGED accrued /\ accrued[k][o.to] = o.points
              \/ /\ accrued[k][o.to] = 0
                 /\ accrued' = [accrued EXCEPT ![k][o.to] = accrued[k][o.to] + o.points]
  <2>1. /\ run' \in JobState /\ run'.at = "post" /\ run'.month = k /\ run'.todo = run.todo
        /\ run'.owed = run.owed \ {o}
    BY <1>1, <1>2, <1>7 DEF JobState
  <2>2. /\ accrued' \in [Months -> [Payees -> Nat]] /\ accrued'[k][o.to] = o.points
        /\ \A m \in Months, p \in Payees : m # k \/ p # o.to => accrued'[m][p] = accrued[m][p]
    <3>1. CASE UNCHANGED accrued /\ accrued[k][o.to] = o.points
      BY <1>1, <3>1
    <3>2. CASE /\ accrued[k][o.to] = 0
               /\ accrued' = [accrued EXCEPT ![k][o.to] = accrued[k][o.to] + o.points]
      <4>1. accrued[k][o.to] + o.points = o.points /\ o.points \in Nat
        BY <1>4, <3>2
      <4>2. accrued' = [accrued EXCEPT ![k][o.to] = o.points]
        BY <3>2, <4>1
      <4> QED BY <1>1, <1>4, <4>1, <4>2
    <3> QED BY <1>7, <3>1, <3>2
  <2>3. MonthsShaped' /\ RowsInOrder' /\ Followed'
    BY <1>1, <2>1, <2>2 DEF MonthsShaped, RowsInOrder, Begun, Followed
  <2>4. JobSound'
    BY <1>1, <1>2, <2>1 DEF JobSound
  <2>5. LevelsSound'
    <3>1. \A m, p : Volume(m, p)' = Volume(m, p)
      BY <1>1, SameGifts
    <3>2. BandOf(0)' = BandOf(0)
      BY DEF BandOf
    <3> QED BY <1>1, <3>1, <3>2 DEF LevelsSound
  <2>6. DrawnOnce'
    <3>1. \A m \in Months : Drawn(m)' => Drawn(m)
      BY <1>1, <1>2, <2>1, <2>2 DEF Drawn
    <3> QED BY <1>1, <3>1 DEF DrawnOnce
  <2>7. PostedIsOwed'
    <3> SUFFICES ASSUME NEW m \in Months \ repriced, NEW p \in Payees,
                        accrued'[m][p] # 0 \/ periods[m] = "closed"
                 PROVE  accrued'[m][p] = Due(m, p)
      BY <1>1, <1>5 DEF PostedIsOwed
    <3>1. CASE m = k /\ p = o.to
      BY <1>4, <2>2, <3>1
    <3>2. CASE m # k \/ p # o.to
      BY <2>2, <3>2 DEF PostedIsOwed
    <3> QED BY <3>1, <3>2
  <2>8. RestIsOwed'
    <3>1. \A q \in run'.owed : q.points = Due(k, q.to)
      BY <1>1, <1>2, <2>1 DEF RestIsOwed
    <3>2. ASSUME k \notin repriced, NEW p \in Payees
          PROVE  \/ Due(k, p) = 0 \/ accrued'[k][p] = Due(k, p)
                 \/ \E q \in run'.owed : q.to = p
      <4>1. CASE p = o.to
        BY <1>4, <2>2, <4>1
      <4>2. CASE p # o.to
        <5>1. \/ Due(k, p) = 0 \/ accrued[k][p] = Due(k, p)
              \/ \E q \in run.owed : q.to = p
          BY <1>1, <1>2, <3>2 DEF RestIsOwed
        <5>2. accrued'[k][p] = accrued[k][p]
          BY <2>2, <4>2
        <5>3. (\E q \in run.owed : q.to = p) => \E q \in run'.owed : q.to = p
          BY <2>1, <4>2
        <5> QED BY <5>1, <5>2, <5>3
      <4> QED BY <4>1, <4>2
    <3> QED BY <1>1, <1>5, <2>1, <3>1, <3>2 DEF RestIsOwed
  <2> QED BY <2>3, <2>4, <2>5, <2>6, <2>7, <2>8
<1> QED BY <1>2, <1>3, <1>6, <1>7 DEF Replays

-----------------------------------------------------------------------------
LEMMA CommissionStarts == ASSUME CommissionConstants, CommissionInit PROVE CommissionInv
<1>1. LastMonth \in Nat /\ Months = 0..LastMonth /\ Asleep \in JobState
      /\ {MaxMoves, MaxCrashes} \subseteq Nat
  BY Calendar
<1>2. NoLevel \in LevelRow
  <2>1. Len(Bands) \in Nat
    BY DEF CommissionConstants
  <2> QED BY <2>1 DEF NoLevel, LevelRow
<1>3. sends = <<>> /\ sends \in Seq(GiftRow) /\ Len(sends) = 0
  BY DEF CommissionInit
<1>4. MonthsShaped
  BY <1>1, <1>2, <1>3 DEF CommissionInit, MonthsShaped
<1>5. \A m \in Months : /\ periods[m] = "none"
                        /\ \A p \in Payees : levels[m][p] = NoLevel /\ accrued[m][p] = 0
  BY DEF CommissionInit
<1>6. today = 0 /\ run.at = "idle" /\ run.todo = {}
  BY DEF CommissionInit, Asleep
<1>7. RowsInOrder /\ JobSound /\ LevelsSound /\ Followed
  BY <1>1, <1>5, <1>6 DEF RowsInOrder, JobSound, LevelsSound, Followed
<1>8. DrawnOnce /\ PostedIsOwed /\ RestIsOwed
  BY <1>5, <1>6 DEF DrawnOnce, Drawn, PostedIsOwed, RestIsOwed
<1> QED BY <1>4, <1>7, <1>8 DEF CommissionInv

LEMMA CommissionStep ==
  ASSUME CommissionConstants, CommissionInv, [CommissionNext]_commissionVars
  PROVE  CommissionInv'
<1>1. ASSUME NEW x \in Teams, NEW a \in SubAgents \cup {"owner"}, NEW n \in Sizes, Gift(x, a, n)
      PROVE  CommissionInv'
  BY <1>1, GiftKeeps
<1>2. ASSUME NEW g \in 1..Len(sends), Reverse(g) PROVE CommissionInv'
  BY <1>2, ReverseKeeps
<1>3. ASSUME NEW s \in SubAgents, NEW x \in Teams \cup {Unseated}, Move(s, x)
      PROVE  CommissionInv'
  BY <1>3, MoveKeeps
<1>4. CASE MonthEnds \/ Job \/ Crash
  BY <1>4, MonthEndsKeeps, StartKeeps, SeedKeeps, PickMonthKeeps, DeriveKeeps, PostKeeps,
     CloseKeeps, OpenNextKeeps, CrashKeeps DEF Job
<1>5. CASE UNCHANGED commissionVars
  <2>1. UNCHANGED <<today, sends, periods, levels, accrued, repriced, run, crashes, seats, moves>>
    BY <1>5 DEF commissionVars
  <2>2. MonthsShaped' /\ JobSound'
    BY <2>1 DEF CommissionInv, MonthsShaped, JobSound
  <2> QED BY <2>1, <2>2, RunKeeps
<1> QED BY <1>1, <1>2, <1>3, <1>4, <1>5 DEF CommissionNext

\* What the invariant says of closed months, payee by payee, adds up.
LEMMA CommissionShows == ASSUME CommissionConstants, CommissionInv PROVE CommissionHolds
<1> USE DEF CommissionInv
<1>1. LastMonth \in Nat /\ Months = 0..LastMonth
  BY Calendar
<1>2. CommissionTypeOK
  <2>1. \A g \in 1..Len(sends) : sends[g] \in GiftRow
    BY Gifts DEF MonthsShaped
  <2>2. \A m \in Months, p \in Payees : levels[m][p].band \in 0..Len(Bands) /\ accrued[m][p] \in Nat
    <3>1. \A m \in Months, p \in Payees : levels[m][p] \in LevelRow /\ accrued[m][p] \in Nat
      BY DEF MonthsShaped
    <3> QED BY <3>1 DEF LevelRow
  <2>3. run.at \in JobStages /\ run.todo \subseteq Months /\ run.month \in Months
    BY DEF MonthsShaped, JobState
  <2> QED BY <2>1, <2>2, <2>3 DEF MonthsShaped, CommissionTypeOK, GiftRow
<1>3. FallsByOne /\ MeasuredWhole
  BY <1>1 DEF FallsByOne, MeasuredWhole, LevelsSound
<1>4. NoneForgotten
  BY DEF NoneForgotten, Followed
<1>5. SplitIsWhole
  <2> SUFFICES ASSUME NEW m \in Months, periods[m] = "closed", m \notin repriced
               PROVE  SumFunctionOnSet(accrued[m], Payees)
                        = LET A == Attributed(m)
                          IN  SumFunctionOnSet(
                                [r \in Rows(A) |-> Share(Points(Of(A, r)), levels[m][r[1]].rate)],
                                Rows(A))
    BY DEF SplitIsWhole
  <2>1. PICK A : A = Attributed(m)
    OBVIOUS
  <2>2. A \in SUBSET (1..Len(sends))
    BY <2>1 DEF Attributed
  <2>3. accrued[m] = [p \in Payees |-> Owed(m, A, p)]
    <3>1. \A p \in Payees : accrued[m][p] = Owed(m, A, p)
      BY <2>1 DEF PostedIsOwed, Due
    <3>2. accrued[m] \in [Payees -> Nat]
      BY DEF MonthsShaped
    <3> QED BY <3>1, <3>2
  <2>4. SumFunctionOnSet([p \in Payees |-> Owed(m, A, p)], Payees)
          = SumFunctionOnSet([r \in Rows(A) |-> Share(Points(Of(A, r)), levels[m][r[1]].rate)],
                             Rows(A))
    BY <2>2, SplitAddsUp
  <2> QED BY <2>1, <2>3, <2>4
<1> QED BY <1>2, <1>3, <1>4, <1>5 DEF CommissionHolds

\* For any agencies, agents, bands and gifts, and whenever the job dies: a
\* closed month costs the agency's rate of its gifts, however these are split
\* and resumed, levels fall by one at most and are measured on a whole month,
\* and no month is forgotten unless the job died.
THEOREM CommissionAlwaysHolds == ASSUME CommissionConstants PROVE CommissionSpec => []CommissionHolds
<1>1. CommissionInit => CommissionInv
  BY CommissionStarts
<1>2. CommissionInv /\ [CommissionNext]_commissionVars => CommissionInv'
  BY CommissionStep
<1>3. CommissionInv => CommissionHolds
  BY CommissionShows
<1> QED BY <1>1, <1>2, <1>3, PTL DEF CommissionSpec
===============================================================================
