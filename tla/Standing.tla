------------------------------- MODULE Standing -------------------------------
(***************************************************************************)
(* Whether a host may broadcast: enforcement (verification/                *)
(* enforcement.service.ts), appeals (appeals.service.ts), the reports a    *)
(* moderator closes (moderation/reports.queue.ts, admin.routes.ts), the    *)
(* photo (verification.service.ts, queue.service.ts) and the gate of       *)
(* goLive (rooms/live.service.ts).  One host.                              *)
(*                                                                         *)
(* enforce() writes the standing and its log entry in one transaction and  *)
(* closes rooms after it; every other handler reads in one statement and   *)
(* writes in a later one, and its process may die between two of them.     *)
(* X_Fault is X with a fault; nothing uses it.                             *)
(***************************************************************************)
EXTENDS Integers, Sequences, SequencesExt

CONSTANTS
    Acts,         \* requests of staff and of the host
    Deed,         \* [Acts -> [do, by, verdict, of]]
    Casts,        \* sets of requests, of which the first state chooses one
    Reports,      \* numbers of the reports about the host
    AboutRoom,    \* the reports that name his first room
    PhotoNeeded,  \* requireApprovedToGoLive
    MaxLog        \* bound: measures taken

VARIABLES
    cast,         \* the requests made
    suspended,    \* host_suspended_at is set
    log,          \* enforcement_actions, in order: [act, by, source, of]
    appeal,       \* per suspension in the log: its row of appeals
    report,       \* per report: "none", "open", "actioned" or "dismissed"
    photo,        \* host_verifications.status
    rooms,        \* rooms opened so far
    live,         \* the last of them is live
    act,          \* per request: [at, of, room]
    slipped,      \* ghost: the live room was let in before its host's suspension
    died,         \* ghost: a process that had to close the live room died
    racing        \* ghost: submissions under way when a photo was approved

standingVars ==
    <<cast, suspended, log, appeal, report, photo, rooms, live, act, slipped, died, racing>>

Doing(c) == Deed[c].do
Doer(c)  == Deed[c].by
Staff    == {Doer(c) : c \in Acts}
NoAppeal == [status |-> "none", reviewer |-> "none"]
Stages   == {"idle", "enforce", "list", "close", "settle", "file", "create", "write", "over"}
Entries  == 1..MaxLog

StandingConstants ==
    /\ \A c \in Acts :
          /\ Doing(c) \in {"suspend", "unsuspend", "appeal", "report", "review", "file", "live",
                       "submit"}
          /\ Doing(c) = "appeal" => Deed[c].verdict \in {"upheld", "overturned"}
          /\ Doing(c) = "report" =>
                Deed[c].of \in Reports /\ Deed[c].verdict \in {"dismiss", "suspend", "end_room"}
          /\ Doing(c) = "review" => Deed[c].verdict \in {"approved", "rejected"}
    /\ Casts \subseteq SUBSET Acts /\ Reports \subseteq Nat /\ AboutRoom \subseteq Reports
    /\ PhotoNeeded \in BOOLEAN /\ MaxLog \in Nat

StandingTypeOK ==
    /\ cast \in Casts /\ suspended \in BOOLEAN
    /\ Len(log) <= MaxLog
    /\ \A e \in Range(log) : e.act \in {"suspend", "unsuspend", "end_room"} /\ e.by \in Staff
    /\ appeal \in [Entries -> [status : {"none", "open", "upheld", "overturned"},
                               reviewer : Staff \cup {"none"}]]
    /\ report \in [Reports -> {"none", "open", "actioned", "dismissed"}]
    /\ photo \in {"none", "pending", "approved", "rejected"}
    /\ rooms \in Nat /\ live \in BOOLEAN /\ slipped \in BOOLEAN /\ died \in BOOLEAN
    /\ racing \subseteq Acts
    /\ act \in [Acts -> [at : Stages, of : Nat, room : Nat]]

StandingInit ==
    /\ cast \in Casts /\ suspended = FALSE /\ log = <<>>
    /\ appeal = [i \in Entries |-> NoAppeal] /\ report = [r \in Reports |-> "none"]
    /\ photo = IF \E c \in cast : Doing(c) = "submit" THEN "none" ELSE "approved"
    /\ rooms = 0 /\ live = FALSE
    /\ act = [c \in Acts |-> [at |-> "idle", of |-> 0, room |-> 0]]
    /\ slipped = FALSE /\ died = FALSE /\ racing = {}

-----------------------------------------------------------------------------
Go(c, stage) == act' = [act EXCEPT ![c].at = stage]
Settles(c)   == Doing(c) \in {"appeal", "report"}
After(c)     == IF Settles(c) THEN "settle" ELSE "over"

\* decideAppeal, the first query: open, and not of the one who suspended.
ReadAppeal(c) ==
    /\ Doing(c) = "appeal" /\ act[c].at = "idle"
    /\ \E i \in Entries :
          /\ appeal[i].status = "open" /\ log[i].by # Doer(c)
          /\ act' = [act EXCEPT ![c] =
                 [at |-> IF Deed[c].verdict = "overturned" THEN "enforce" ELSE "settle",
                  of |-> i, room |-> 0]]
    /\ UNCHANGED <<cast, suspended, log, appeal, report, photo, rooms, live, slipped, died,
                   racing>>

\* POST /reports/decide, openReport: open, and for end_room still live.
ReadReport(c) ==
    /\ Doing(c) = "report" /\ act[c].at = "idle" /\ report[Deed[c].of] = "open"
    /\ Deed[c].verdict = "end_room" => Deed[c].of \in AboutRoom /\ live /\ rooms = 1
    /\ Go(c, IF Deed[c].verdict = "dismiss" THEN "settle" ELSE "enforce")
    /\ UNCHANGED <<cast, suspended, log, appeal, report, photo, rooms, live, slipped, died,
                   racing>>

\* What enforce() is called with.
Measure(c) ==
    CASE Doing(c) = "appeal" -> "unsuspend" [] Doing(c) = "report" -> Deed[c].verdict
      [] OTHER -> Doing(c)

Ready(c) == act[c].at = "enforce" \/ (act[c].at = "idle" /\ Doing(c) \in {"suspend", "unsuspend"})

\* Where enforce() goes on: a suspension looks for rooms, end_room has its own.
Closing_Fault(c) ==
    CASE Measure(c) = "end_room" -> "close" [] OTHER -> After(c)
Closing(c) ==
    CASE Measure(c) = "suspend" -> "list" [] Measure(c) = "end_room" -> "close" [] OTHER -> After(c)

\* enforce, its transaction: the standing and the log entry.
Enforce(c) ==
    /\ Ready(c) /\ Len(log) < MaxLog
    /\ suspended' = CASE Measure(c) = "suspend" -> TRUE
                      [] Measure(c) = "unsuspend" -> FALSE [] OTHER -> suspended
    /\ log' = Append(log, [act |-> Measure(c), by |-> Doer(c), source |-> Doing(c),
                           of |-> IF Doing(c) = "report" THEN Deed[c].of ELSE act[c].of])
    /\ act' = [act EXCEPT ![c] = [at |-> Closing(c), of |-> act[c].of, room |-> 1]]
    /\ UNCHANGED <<cast, appeal, report, photo, rooms, live, slipped, died, racing>>

\* suspend: the rooms live now; a host has one at most.
List(c) ==
    /\ act[c].at = "list"
    /\ act' = [act EXCEPT ![c].at = IF live THEN "close" ELSE After(c), ![c].room = rooms]
    /\ UNCHANGED <<cast, suspended, log, appeal, report, photo, rooms, live, slipped, died,
                   racing>>

NotLive == live' = FALSE /\ slipped' = FALSE /\ died' = FALSE

\* closeBroadcast under the room's lock; ended already is no error.
Close(c) ==
    /\ act[c].at = "close"
    /\ IF live /\ rooms = act[c].room THEN NotLive ELSE UNCHANGED <<live, slipped, died>>
    /\ Go(c, After(c))
    /\ UNCHANGED <<cast, suspended, log, appeal, report, photo, rooms, racing>>

\* decideAppeal, the last statement: of an open appeal only.
SettleAppeal_Fault(c) ==
    /\ Doing(c) = "appeal" /\ act[c].at = "settle"
    /\ appeal' = [appeal EXCEPT ![act[c].of] = [status |-> Deed[c].verdict, reviewer |-> Doer(c)]]
    /\ Go(c, "over")
    /\ UNCHANGED <<cast, suspended, log, report, photo, rooms, live, slipped, died, racing>>

SettleAppeal(c) ==
    /\ Doing(c) = "appeal" /\ act[c].at = "settle"
    /\ appeal' = IF appeal[act[c].of].status = "open"
                 THEN [appeal EXCEPT ![act[c].of] = [status |-> Deed[c].verdict, reviewer |-> Doer(c)]]
                 ELSE appeal
    /\ Go(c, "over")
    /\ UNCHANGED <<cast, suspended, log, report, photo, rooms, live, slipped, died, racing>>

\* resolveReport: its own report, and after a suspension every open one.
Answers_Fault(c) == Reports
Answers(c) == IF Deed[c].verdict = "suspend" THEN Reports ELSE {Deed[c].of}

SettleReport(c) ==
    /\ Doing(c) = "report" /\ act[c].at = "settle"
    /\ report' = [r \in Reports |->
                     IF r \in Answers(c) /\ report[r] = "open"
                     THEN IF Deed[c].verdict = "dismiss" THEN "dismissed" ELSE "actioned"
                     ELSE report[r]]
    /\ Go(c, "over")
    /\ UNCHANGED <<cast, suspended, log, appeal, photo, rooms, live, slipped, died, racing>>

\* fileReport, by anybody (in a cast with staff who decide reports).
FileReport(r) ==
    /\ report[r] = "none" /\ (r \in AboutRoom => rooms > 0)
    /\ \E c \in cast : Doing(c) = "report"
    /\ report' = [report EXCEPT ![r] = "open"]
    /\ UNCHANGED <<cast, suspended, log, appeal, photo, rooms, live, act, slipped, died, racing>>

-----------------------------------------------------------------------------
Suspensions == {i \in DOMAIN log : log[i].act = "suspend"}
IsLatest(i) == i \in Suspensions /\ \A j \in Suspensions : j <= i

\* fileAppeal, its reads: suspended, and no appeal against the latest.
ReadStanding(c) ==
    /\ Doing(c) = "file" /\ act[c].at = "idle"
    /\ suspended
    /\ \E i \in Suspensions :
          /\ IsLatest(i) /\ appeal[i].status = "none"
          /\ act' = [act EXCEPT ![c] = [at |-> "file", of |-> i, room |-> 0]]
    /\ UNCHANGED <<cast, suspended, log, appeal, report, photo, rooms, live, slipped, died,
                   racing>>

\* The insert; a second row for one suspension is dropped.
FileAppeal(c) ==
    /\ act[c].at = "file"
    /\ appeal' = IF appeal[act[c].of].status = "none"
                 THEN [appeal EXCEPT ![act[c].of].status = "open"] ELSE appeal
    /\ Go(c, "over")
    /\ UNCHANGED <<cast, suspended, log, report, photo, rooms, live, slipped, died, racing>>

\* goLive: assertMayGoLive, and later the transaction that opens the room.
Gate_Fault == PhotoNeeded => photo = "approved"
Gate       == ~suspended /\ (PhotoNeeded => photo = "approved")

MayGoLive(c) ==
    /\ Doing(c) = "live" /\ act[c].at = "idle"
    /\ act' = [act EXCEPT ![c].at = IF Gate THEN "create" ELSE "over", ![c].of = Len(log)]
    /\ UNCHANGED <<cast, suspended, log, appeal, report, photo, rooms, live, slipped, died,
                   racing>>

GoLive(c) ==
    /\ act[c].at = "create"
    /\ Go(c, "over")
    /\ IF live THEN UNCHANGED <<rooms, live, slipped, died>>
       ELSE /\ live' = TRUE /\ rooms' = rooms + 1
            /\ slipped' = \E i \in Suspensions : i > act[c].of
            /\ died' = FALSE
    /\ UNCHANGED <<cast, suspended, log, appeal, report, photo, racing>>

\* endBroadcast, by the host.
EndRoom ==
    /\ live /\ NotLive
    /\ UNCHANGED <<cast, suspended, log, appeal, report, photo, rooms, act, racing>>

\* submitVerification: the status is read, and later the row is written whole.
Submittable_Fault == photo # "pending"
Submittable       == photo \notin {"pending", "approved"}

ReadPhoto(c) ==
    /\ Doing(c) = "submit" /\ act[c].at = "idle" /\ Submittable
    /\ Go(c, "write")
    /\ UNCHANGED <<cast, suspended, log, appeal, report, photo, rooms, live, slipped, died,
                   racing>>

Submit(c) ==
    /\ act[c].at = "write"
    /\ photo' = "pending"
    /\ Go(c, "over")
    /\ UNCHANGED <<cast, suspended, log, appeal, report, rooms, live, slipped, died, racing>>

\* decideVerification: of a pending photo only.
Decidable_Fault == photo # "none"
Decidable       == photo = "pending"

Decide(c) ==
    /\ Doing(c) = "review" /\ act[c].at = "idle" /\ Decidable
    /\ photo' = Deed[c].verdict
    /\ racing' = IF photo' = "approved" THEN {d \in Acts : act[d].at = "write"} ELSE racing
    /\ Go(c, "over")
    /\ UNCHANGED <<cast, suspended, log, appeal, report, rooms, live, slipped, died>>

\* The process of a request dies, or a statement of it fails.
Die(c) ==
    /\ act[c].at \notin {"idle", "over"}
    /\ died' = (died \/ (live /\ act[c].at \in {"list", "close"}))
    /\ Go(c, "over")
    /\ UNCHANGED <<cast, suspended, log, appeal, report, photo, rooms, live, slipped, racing>>

StandingNext ==
    \/ \E c \in cast :
          \/ ReadAppeal(c) \/ ReadReport(c) \/ Enforce(c) \/ List(c) \/ Close(c)
          \/ SettleAppeal(c) \/ SettleReport(c) \/ ReadStanding(c) \/ FileAppeal(c)
          \/ MayGoLive(c) \/ GoLive(c) \/ ReadPhoto(c) \/ Submit(c) \/ Decide(c) \/ Die(c)
    \/ \E r \in Reports : FileReport(r)
    \/ EndRoom

StandingSpec == StandingInit /\ [][StandingNext]_standingVars

-----------------------------------------------------------------------------
\* A suspended host's stream does not go on, unless he was being let in when he
\* was suspended, or the process that had to close the room died.
StreamEnds ==
    live /\ suspended =>
        \/ slipped \/ died
        \/ \E c \in Acts : act[c].at = "list" \/ (act[c].at = "close" /\ act[c].room = rooms)

\* An appeal granted has its lifting in the log, by the same reviewer, who did
\* not suspend; and what closed a report as actioned is in the log too.
DecisionsAreLogged ==
    /\ \A i \in Entries :
          appeal[i].status = "overturned" =>
              /\ log[i].by # appeal[i].reviewer
              /\ \E j \in DOMAIN log :
                    /\ j > i
                    /\ log[j] = [act |-> "unsuspend", by |-> appeal[i].reviewer,
                                 source |-> "appeal", of |-> i]
    /\ \A r \in Reports :
          report[r] = "actioned" =>
              \E e \in Range(log) : e.source = "report" /\ (e.of = r \/ e.act = "suspend")

\* A decision stays: of an appeal, of a report, and an approved photo, which
\* only a submission that was under way when it was approved can undo.
DecisionsStay ==
    /\ \A i \in Entries : appeal[i].status \in {"upheld", "overturned"} => appeal'[i] = appeal[i]
    /\ \A r \in Reports : report[r] \in {"actioned", "dismissed"} => report'[r] = report[r]
    /\ photo = "approved" /\ photo' # photo => \E c \in racing : act[c].at = "write" /\ act'[c].at = "over"

\* All three, and the types.
StandingKept  == StreamEnds' /\ DecisionsAreLogged' /\ DecisionsStay
StandingHolds == []StandingTypeOK /\ [][StandingKept]_standingVars
===============================================================================
