------------------------------ MODULE Membership ------------------------------
(***************************************************************************)
(* Who is in which agency (agency/agency.service.ts, agents.service.ts,    *)
(* admin.service.ts): two dated links, host to agent and agent to agency,  *)
(* that both sides agree to, and the five rules of quitting.               *)
(*                                                                         *)
(* A transaction about a host locks the host's users row; removeAgent does *)
(* not.  The two transactions that read before they write, accepting a     *)
(* request and applying to quit, are two steps each, with the host locked  *)
(* in between; the others are one.  The sub_agent role row is granted and  *)
(* revoked with the seat.                                                  *)
(* X_Fault is X with a fault; nothing uses it.                             *)
(***************************************************************************)
EXTENDS Integers

CONSTANTS
    Agencies, Agents, Hosts,
    Owner,        \* [Agencies -> Agents], for good
    Checked,      \* the hosts who ever attempted face authentication
    MaxLinks      \* bound: host_agent_assignments rows per host

VARIABLES
    standing,     \* agencies.status
    seat,         \* per agent, the agency of the open agent_agency_assignments row
    link,         \* per host, the latest host_agent_assignments row: [id, agent, recent]
    request,      \* the pending agency_join_requests row of a host and an agent
    invited,      \* pending agent_invites, <<agency, agent>>
    quit,         \* per host, the latest agency_quit_requests row
    busy,         \* per host, the transaction that has the host locked
    stranded      \* ghost: hosts linked to an agent removed since it was read

membershipVars == <<standing, seat, link, request, invited, quit, busy, stranded>>

Nobody   == "nobody"
NoAgency == "none"
Idle     == [op |-> "idle", agent |-> Nobody, id |-> 0]
NoQuit   == [status |-> "none", of |-> 0, age |-> 0, window |-> FALSE]
LetGo    == {"approved", "auto_left", "direct"}

MembershipConstants ==
    /\ Nobody \notin Agents /\ NoAgency \notin Agencies /\ MaxLinks \in Nat
    /\ Owner \in [Agencies -> Agents] /\ Checked \subseteq Hosts
    /\ \A x, y \in Agencies : Owner[x] = Owner[y] => x = y

MembershipTypeOK ==
    /\ standing \in [Agencies -> {"active", "suspended", "closed"}]
    /\ seat \in [Agents -> Agencies \cup {NoAgency}]
    /\ link \in [Hosts -> [id : 0..MaxLinks, agent : Agents \cup {Nobody}, recent : BOOLEAN]]
    /\ request \in [Hosts \X Agents -> {"none", "host_applied", "agent_invited"}]
    /\ invited \subseteq Agencies \X Agents
    /\ quit \in [Hosts -> [status : LetGo \cup {"none", "pending", "rejected"}, of : 0..MaxLinks,
                           age : 0..2, window : BOOLEAN]]
    /\ busy \in [Hosts -> [op : {"idle", "accept", "quit", "leave"}, agent : Agents \cup {Nobody},
                           id : 0..MaxLinks]]
    /\ stranded \subseteq Hosts

MembershipInit ==
    /\ standing = [x \in Agencies |-> "active"]
    /\ seat = [a \in Agents |-> IF \E x \in Agencies : Owner[x] = a
                                THEN CHOOSE x \in Agencies : Owner[x] = a ELSE NoAgency]
    /\ link = [h \in Hosts |-> [id |-> 0, agent |-> Nobody, recent |-> FALSE]]
    /\ request = [p \in Hosts \X Agents |-> "none"]
    /\ invited = {} /\ stranded = {}
    /\ quit = [h \in Hosts |-> NoQuit] /\ busy = [h \in Hosts |-> Idle]

-----------------------------------------------------------------------------
\* agentSeat: a seat in an agency that is active.
Seated(a) == seat[a] # NoAgency /\ standing[seat[a]] = "active"

\* currentMembership: an open link to an agent with an open seat, of any standing.
AgencyOf(h) == IF link[h].agent = Nobody THEN NoAgency ELSE seat[link[h].agent]

Free(h) == busy[h] = Idle

Linked(h, a) == [id |-> link[h].id + 1, agent |-> a, recent |-> TRUE]
Unlinked(h)  == [link[h] EXCEPT !.agent = Nobody, !.recent = FALSE]

\* applyToAgent, by the host, or inviteHost, by the agent with the host's code.
AskToJoin(h, a, direction) ==
    /\ Free(h) /\ h # a /\ AgencyOf(h) = NoAgency /\ Seated(a) /\ request[h, a] = "none"
    /\ request' = [request EXCEPT ![<<h, a>>] = direction]
    /\ UNCHANGED <<standing, seat, link, invited, quit, busy, stranded>>

\* cancelRequest by its sender, a refusal by the other, expireJoinRequests.
Drop(h, a) ==
    /\ request[h, a] # "none" /\ ~(busy[h].op = "accept" /\ busy[h].agent = a)
    /\ request' = [request EXCEPT ![<<h, a>>] = "none"]
    /\ UNCHANGED <<standing, seat, link, invited, quit, busy, stranded>>

\* answerRequest, yes: host and request are locked; membership and seat are read.
Answer(h, a) ==
    /\ Free(h) /\ request[h, a] # "none" /\ AgencyOf(h) = NoAgency /\ Seated(a)
    /\ busy' = [busy EXCEPT ![h] = [op |-> "accept", agent |-> a, id |-> 0]]
    /\ UNCHANGED <<standing, seat, link, request, invited, quit, stranded>>

\* The writes; no link may overlap an open one, so an orphaned link refuses them.
Accept(h) ==
    LET a == busy[h].agent
    IN  /\ busy[h].op = "accept" /\ link[h].id < MaxLinks
        /\ busy' = [busy EXCEPT ![h] = Idle]
        /\ IF link[h].agent # Nobody THEN UNCHANGED <<link, request, stranded>>
           ELSE /\ link' = [link EXCEPT ![h] = Linked(h, a)]
                /\ request' = [p \in DOMAIN request |-> IF p[1] = h THEN "none" ELSE request[p]]
                /\ stranded' = IF seat[a] = NoAgency THEN stranded \cup {h} ELSE stranded
        /\ UNCHANGED <<standing, seat, invited, quit>>

-----------------------------------------------------------------------------
\* inviteAgent: a person without a seat who is nobody's host.
Invite(x, a) ==
    /\ standing[x] = "active" /\ seat[a] = NoAgency /\ <<x, a>> \notin invited
    /\ a \in Hosts => Free(a) /\ link[a].agent = Nobody
    /\ invited' = invited \cup {<<x, a>>}
    /\ UNCHANGED <<standing, seat, link, request, quit, busy, stranded>>

\* cancelAgentInvite, a refusal, or time.
Uninvite(x, a) ==
    /\ <<x, a>> \in invited /\ invited' = invited \ {<<x, a>>}
    /\ UNCHANGED <<standing, seat, link, request, quit, busy, stranded>>

\* answerAgentInvite, yes: the seat is per person and is revived; other offers go.
Join(x, a) ==
    /\ <<x, a>> \in invited /\ standing[x] = "active" /\ seat[a] = NoAgency
    /\ a \in Hosts => Free(a) /\ link[a].agent = Nobody
    /\ seat' = [seat EXCEPT ![a] = x]
    /\ invited' = {p \in invited : p[2] # a}
    /\ UNCHANGED <<standing, link, request, quit, busy, stranded>>

Moved_Fault(a) == {}

\* The hosts removeAgent moves: those whose link to the agent it can see.
Moved(a) == {h \in Hosts : link[h].agent = a}

\* removeAgent, by one who may manage agents: the hosts go to the owner.
RemoveAgent(x, a) ==
    /\ seat[a] = x /\ standing[x] = "active" /\ a # Owner[x]
    /\ \A h \in Moved(a) : link[h].id < MaxLinks
    /\ link' = [h \in Hosts |-> IF h \in Moved(a) THEN Linked(h, Owner[x]) ELSE link[h]]
    /\ seat' = [seat EXCEPT ![a] = NoAgency]
    /\ UNCHANGED <<standing, request, invited, quit, busy, stranded>>

\* setAgencyStatus: closed is final, and nobody is moved.
SetStanding(x, s) ==
    /\ standing[x] \notin {s, "closed"}
    /\ standing' = [standing EXCEPT ![x] = s]
    /\ UNCHANGED <<seat, link, request, invited, quit, busy, stranded>>

-----------------------------------------------------------------------------
\* Rules 2 and 3: never face authenticated, or joined within a day.
Direct(h) == h \notin Checked \/ link[h].recent

\* applyToQuit: the host is locked, and the membership read.
ApplyToQuit(h) ==
    /\ Free(h) /\ AgencyOf(h) # NoAgency
    /\ quit[h].status = "none" \/ (quit[h].status # "pending" /\ quit[h].age = 2)
    /\ busy' = [busy EXCEPT ![h] = [op |-> IF Direct(h) THEN "leave" ELSE "quit",
                                    agent |-> Nobody, id |-> link[h].id]]
    /\ UNCHANGED <<standing, seat, link, request, invited, quit, stranded>>

\* endAssignment: of that row, if it is still open.
Ended(h, id) == IF link[h].id = id THEN [link EXCEPT ![h] = Unlinked(h)] ELSE link

Quit(h) ==
    /\ busy[h].op \in {"quit", "leave"}
    /\ busy' = [busy EXCEPT ![h] = Idle]
    /\ quit' = [quit EXCEPT ![h] =
         [status |-> IF busy[h].op = "leave" THEN "direct" ELSE "pending", of |-> busy[h].id,
          age |-> 0, window |-> FALSE]]
    /\ link' = IF busy[h].op = "leave" THEN Ended(h, busy[h].id) ELSE link
    /\ UNCHANGED <<standing, seat, request, invited, stranded>>

\* decideQuit by the owner of the agency: no, and for a while still yes.
Reject(h) ==
    /\ Free(h) /\ quit[h].status = "pending"
    /\ quit' = [quit EXCEPT ![h].status = "rejected", ![h].window = TRUE]
    /\ UNCHANGED <<standing, seat, link, request, invited, busy, stranded>>

Approve(h) ==
    /\ Free(h) /\ (quit[h].status = "pending" \/ quit[h].window)
    /\ quit' = [quit EXCEPT ![h].status = "approved", ![h].window = FALSE]
    /\ link' = Ended(h, quit[h].of)
    /\ UNCHANGED <<standing, seat, request, invited, busy, stranded>>

AutoEnded_Fault(h) == link
AutoEnded(h)       == Ended(h, quit[h].of)

\* autoLeaveOverdue: rule 1.
AutoLeave(h) ==
    /\ Free(h) /\ quit[h].status = "pending" /\ quit[h].age >= 1
    /\ quit' = [quit EXCEPT ![h].status = "auto_left"]
    /\ link' = AutoEnded(h)
    /\ UNCHANGED <<standing, seat, request, invited, busy, stranded>>

\* Time passes: a day since joining; the seven and the thirty days of an
\* application; the fourteen after its rejection.
Time(h) ==
    /\ \/ link[h].recent /\ link' = [link EXCEPT ![h].recent = FALSE] /\ UNCHANGED quit
       \/ /\ quit[h].status # "none" /\ quit[h].age < 2
          /\ quit' = [quit EXCEPT ![h].age = @ + 1] /\ UNCHANGED link
       \/ quit[h].window /\ quit' = [quit EXCEPT ![h].window = FALSE] /\ UNCHANGED link
    /\ UNCHANGED <<standing, seat, request, invited, busy, stranded>>

MembershipNext ==
    \/ \E h \in Hosts :
         \/ Accept(h) \/ ApplyToQuit(h) \/ Quit(h) \/ Reject(h) \/ Approve(h) \/ AutoLeave(h) \/ Time(h)
         \/ \E a \in Agents : \/ \E d \in {"host_applied", "agent_invited"} : AskToJoin(h, a, d)
                              \/ Drop(h, a) \/ Answer(h, a)
    \/ \E x \in Agencies :
         \/ \E a \in Agents : Invite(x, a) \/ Uninvite(x, a) \/ Join(x, a) \/ RemoveAgent(x, a)
         \/ \E s \in {"active", "suspended", "closed"} : SetStanding(x, s)

MembershipSpec == MembershipInit /\ [][MembershipNext]_membershipVars

-----------------------------------------------------------------------------
(* Properties                                                              *)

\* "Both routes need both sides to agree", and "no poaching": a host comes into
\* an agency from none, by a request that is being accepted.
Consented(h) ==
    AgencyOf(h)' \notin {AgencyOf(h), NoAgency} =>
        AgencyOf(h) = NoAgency /\ (busy[h].op = "accept" \/ h \in stranded)

\* A host who is let go leaves, unless a removal moved the host meanwhile; and
\* removing an agent drops nobody: only who is let go leaves.
LetGoLeaves(h) ==
    LET now == quit'[h] # quit[h] /\ quit'[h].status \in LetGo
    IN  /\ now /\ quit'[h].of = link[h].id => AgencyOf(h)' = NoAgency
        /\ AgencyOf(h) # NoAgency /\ AgencyOf(h)' = NoAgency => now

\* An open link leads to a seat, unless the seat went while a request was being
\* accepted.
Housed(h) == link'[h].agent # Nobody => seat'[link'[h].agent] # NoAgency \/ h \in stranded'

\* All of it, for every host and step, whoever removes, suspends, joins or waits.
MembershipKept == \A h \in Hosts : Consented(h) /\ LetGoLeaves(h) /\ Housed(h)

MembershipHolds == []MembershipTypeOK /\ [][MembershipKept]_membershipVars

\* "An application left undecided lets the host go", and "approved: the owner
\* agreed": a host whose application is answered so is then in no agency.
LetGoMeansGone ==
    [][\A h \in Hosts : quit'[h] # quit[h] /\ quit'[h].status \in LetGo
                          => AgencyOf(h)' = NoAgency]_membershipVars
===============================================================================
