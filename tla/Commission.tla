------------------------------ MODULE Commission ------------------------------
(***************************************************************************)
(* What an agency earns (agency/commission.service.ts) and the daily job   *)
(* that closes the months that are over (workers/jobs/commission.ts).      *)
(*                                                                         *)
(* A month's rates are fixed from the month before; closing it attributes  *)
(* its gifts, splits them between the agency and its agents, and posts     *)
(* once per payee.  Every transaction of the job is a step, and the job    *)
(* can die between any two.  Points, bands and rates are small numbers,    *)
(* rates in tenths; agencies stay active and none is the in-house one.     *)
(* Opening a month also opens the one before it, so that once a row exists *)
(* there is always an open month of the past: those before month 0, which  *)
(* have no gifts, are left out.  X_Fault is X with a fault.                *)
(***************************************************************************)
EXTENDS Integers, FiniteSets, FiniteSetsExt, Sequences, Functions

CONSTANTS
    Teams,        \* agencies, each with its agents
    SubAgents,
    Bands,        \* sequence of [min, rate], ascending
    Sizes,        \* points of a gift
    LastMonth,    \* bound: the months
    MaxGifts,     \* bound: gift_sends
    MaxMoves,     \* bound: times a sub-agent is seated or removed
    MaxCrashes    \* bound: times the job dies

VARIABLES
    today,        \* istMonth()
    seats,        \* per sub-agent, the agency of the open agent_agency_assignments row
    moves,
    sends,        \* gift_sends, with the agent and agency that held the host then
    periods,      \* commission_periods.status
    levels,       \* commission_levels, by month and payee
    accrued,      \* commission_accruals.points, by month and payee
    run,          \* the job
    crashes,
    repriced      \* ghost: months with a level written after a posting

commissionVars == <<today, seats, moves, sends, periods, levels, accrued, run, crashes, repriced>>

Unseated == "unseated"
Months   == 0..LastMonth
Payees   == Teams \cup SubAgents
JobStages   == {"idle", "seed", "pick", "open", "post", "close", "next"}
NoLevel  == [band |-> 0, rate |-> 0, measured |-> 0]
Asleep   == [at |-> "idle", todo |-> {}, month |-> 0, owed |-> {}]

CommissionConstants ==
    /\ Unseated \notin Teams /\ Teams \cap SubAgents = {} /\ "owner" \notin Payees
    /\ IsFiniteSet(Payees) /\ Bands \in Seq([min : Nat, rate : Nat])
    /\ Len(Bands) > 0 /\ Bands[1].min = 0
    /\ \A i \in 1..Len(Bands) : \A j \in 1..i : Bands[j].min <= Bands[i].min
    /\ Sizes \subseteq Nat /\ {LastMonth, MaxGifts, MaxMoves, MaxCrashes} \subseteq Nat

CommissionTypeOK ==
    /\ today \in Months /\ moves \in 0..MaxMoves /\ crashes \in 0..MaxCrashes
    /\ seats \in [SubAgents -> Teams \cup {Unseated}]
    /\ \A g \in 1..Len(sends) :
         sends[g] \in [month : Months, agency : Teams, agent : SubAgents \cup {"owner"},
                       points : Sizes, status : {"sent", "reversed"}, attributed : BOOLEAN]
    /\ periods \in [Months -> {"none", "open", "closed"}]
    /\ \A m \in Months, p \in Payees :
         levels[m][p].band \in 0..Len(Bands) /\ accrued[m][p] \in Nat
    /\ run.at \in JobStages /\ run.todo \subseteq Months /\ run.month \in Months

CommissionInit ==
    /\ today = 0 /\ moves = 0 /\ sends = <<>> /\ crashes = 0 /\ run = Asleep /\ repriced = {}
    /\ seats = [s \in SubAgents |-> Unseated]
    /\ periods = [m \in Months |-> "none"]
    /\ levels = [m \in Months |-> [p \in Payees |-> NoLevel]]
    /\ accrued = [m \in Months |-> [p \in Payees |-> 0]]

-----------------------------------------------------------------------------
\* A gift to a host of the agency's owner, or of one of its agents.
Gift(x, a, n) ==
    /\ Len(sends) < MaxGifts /\ (a # "owner" => seats[a] = x)
    /\ sends' = Append(sends, [month |-> today, agency |-> x, agent |-> a, points |-> n,
                               status |-> "sent", attributed |-> FALSE])
    /\ UNCHANGED <<today, seats, moves, periods, levels, accrued, run, crashes, repriced>>

\* Once attributed, its reversal changes nothing here.
Reverse(g) ==
    /\ sends[g].status = "sent" /\ ~sends[g].attributed
    /\ sends' = [sends EXCEPT ![g].status = "reversed"]
    /\ UNCHANGED <<today, seats, moves, periods, levels, accrued, run, crashes, repriced>>

\* A sub-agent is seated or removed: Membership.
Move(s, x) ==
    /\ moves < MaxMoves /\ seats[s] # x /\ (seats[s] = Unseated \/ x = Unseated)
    /\ seats' = [seats EXCEPT ![s] = x] /\ moves' = moves + 1
    /\ UNCHANGED <<today, sends, periods, levels, accrued, run, crashes, repriced>>

\* The job first runs in month 1, by when there have been gifts; it starts at
\* five in the morning and takes minutes.
Begun == \E m \in Months : periods[m] # "none"

MonthEnds ==
    /\ today < LastMonth /\ (today > 0 => Begun) /\ run.at = "idle" /\ today' = today + 1
    /\ UNCHANGED <<seats, moves, sends, periods, levels, accrued, run, crashes, repriced>>

-----------------------------------------------------------------------------
Attributed(m) == {g \in 1..Len(sends) : sends[g].attributed /\ sends[g].month = m}

Points(G) == SumFunctionOnSet([g \in DOMAIN sends |-> sends[g].points], G)

\* volumes: an agency counts its whole team, an agent its own hosts.
Volume(m, p) == Points({g \in Attributed(m) : p \in {sends[g].agency, sends[g].agent}})

\* bandFor
BandOf(points) == Max({i \in 1..Len(Bands) : points >= Bands[i].min})

\* cushion: the band earned, but at most one below the one of the month before.
Cushioned_Fault(m, p) == BandOf(Volume(m - 1, p))
Cushioned(m, p) == Max({BandOf(Volume(m - 1, p)), IF m = 0 THEN 0 ELSE levels[m - 1][p].band - 1})

\* A row of commission_levels: an agent's rate is capped at the agency's.
Level(m, p) ==
    LET rate == Bands[Cushioned(m, p)].rate
    IN  [band |-> Cushioned(m, p), measured |-> Volume(m - 1, p),
         rate |-> IF p \in Teams THEN rate
                  ELSE Min({rate, Bands[Cushioned(m, seats[p])].rate})]

Live(p) == p \in Teams \/ seats[p] # Unseated

\* openPeriod: rows for the month and the one before; levels not written yet.
Open(m) ==
    /\ periods' = [k \in Months |-> IF k \in {m - 1, m} /\ periods[k] = "none" THEN "open"
                                    ELSE periods[k]]
    /\ levels' = [levels EXCEPT ![m] = [p \in Payees |->
         IF Live(p) /\ @[p] = NoLevel THEN Level(m, p) ELSE @[p]]]
    /\ repriced' = IF levels'[m] # levels[m] /\ \E p \in Payees : accrued[m][p] > 0
                   THEN repriced \cup {m} ELSE repriced

-----------------------------------------------------------------------------
Over == {m \in Months : periods[m] = "open" /\ m < today}

Become(at) == run' = [run EXCEPT !.at = at]

\* The job: the months that are over and open; the very first run has no row.
Start ==
    /\ run.at = "idle" /\ today > 0
    /\ IF ~Begun
       THEN /\ run' = [Asleep EXCEPT !.at = "seed", !.month = today]
            /\ Open(today - 1)
       ELSE /\ Over # {} /\ run' = [Asleep EXCEPT !.at = "pick", !.todo = Over]
            /\ UNCHANGED <<periods, levels, repriced>>
    /\ UNCHANGED <<today, seats, moves, sends, accrued, crashes>>

Seed ==
    /\ run.at = "seed" /\ Open(run.month)
    /\ run' = [Asleep EXCEPT !.at = "pick", !.todo = {m \in Months : periods'[m] = "open" /\ m < run.month}]
    /\ UNCHANGED <<today, seats, moves, sends, accrued, crashes>>

\* closePeriod of the earliest: its levels first.
PickMonth ==
    /\ run.at = "pick"
    /\ IF run.todo = {} THEN run' = Asleep /\ UNCHANGED <<periods, levels, repriced>>
       ELSE LET m == Min(run.todo)
            IN  /\ run' = [run EXCEPT !.at = "open", !.month = m, !.todo = @ \ {m}]
                /\ Open(m)
    /\ UNCHANGED <<today, seats, moves, sends, accrued, crashes>>

Share(points, rate) == (points * rate) \div 10

\* What the month's gifts G under one agent of one agency are worth to each.
AgentRate_Fault(m, a, x) == levels[m][a].rate
AgentRate(m, a, x) == Min({levels[m][a].rate, levels[m][x].rate})

AgentsPart(m, a, x, G) == IF a = "owner" THEN 0 ELSE Share(Points(G), AgentRate(m, a, x))

Rows(A) == {<<sends[g].agency, sends[g].agent>> : g \in A}
Of(A, r) == {g \in A : <<sends[g].agency, sends[g].agent>> = r}

\* The split of a row, an agency and an agent: the agency keeps the gap.
Cut(m, A, r, p) ==
    LET part == AgentsPart(m, r[2], r[1], Of(A, r))
    IN  IF p = r[1] THEN Share(Points(Of(A, r)), levels[m][p].rate) - part ELSE part

Owed(m, A, p) ==
    SumFunctionOnSet([r \in Rows(A) |-> Cut(m, A, r, p)], {r \in Rows(A) : p \in {r[1], r[2]}})

\* deriveAttributions: the gifts of the month, but those reversed by now.
Derived(m) ==
    Attributed(m) \cup {g \in 1..Len(sends) : sends[g].month = m /\ sends[g].status = "sent"}

Derive ==
    /\ run.at = "open"
    /\ LET A    == Derived(run.month)
           owed == {[to |-> p, points |-> Owed(run.month, A, p)] : p \in Payees}
       IN  /\ sends' = [g \in DOMAIN sends |-> IF g \in A THEN [sends[g] EXCEPT !.attributed = TRUE]
                                               ELSE sends[g]]
           /\ run' = [run EXCEPT !.at = "post", !.owed = {o \in owed : o.points > 0}]
    /\ UNCHANGED <<today, seats, moves, periods, levels, accrued, crashes, repriced>>

\* postAccrual: once per month and payee; other points under the same key throw.
Replays_Fault(o) == FALSE
Replays(o)       == accrued[run.month][o.to] # 0

Post ==
    /\ run.at = "post" /\ run.owed # {}
    /\ \E o \in run.owed :
         /\ o.to \in SubAgents => \A other \in run.owed : other.to \in SubAgents
         /\ IF Replays(o)
            THEN /\ UNCHANGED accrued
                 /\ run' = IF accrued[run.month][o.to] = o.points
                           THEN [run EXCEPT !.owed = @ \ {o}] ELSE Asleep
            ELSE /\ accrued' = [accrued EXCEPT ![run.month][o.to] = @ + o.points]
                 /\ run' = [run EXCEPT !.owed = @ \ {o}]
    /\ UNCHANGED <<today, seats, moves, sends, periods, levels, crashes, repriced>>

Close ==
    /\ run.at = "post" /\ run.owed = {} /\ Become("next")
    /\ periods' = [periods EXCEPT ![run.month] = "closed"]
    /\ UNCHANGED <<today, seats, moves, sends, levels, accrued, crashes, repriced>>

\* The month that follows opens only here.
OpensNext_Fault == FALSE
OpensNext       == TRUE

OpenNext ==
    /\ run.at = "next" /\ Become("pick")
    /\ IF OpensNext THEN Open(run.month + 1) ELSE UNCHANGED <<periods, levels, repriced>>
    /\ UNCHANGED <<today, seats, moves, sends, accrued, crashes>>

Job == Start \/ Seed \/ PickMonth \/ Derive \/ Post \/ Close \/ OpenNext

Crash ==
    /\ run.at # "idle" /\ crashes < MaxCrashes /\ crashes' = crashes + 1 /\ run' = Asleep
    /\ UNCHANGED <<today, seats, moves, sends, periods, levels, accrued, repriced>>

CommissionNext ==
    \/ \E x \in Teams, a \in SubAgents \cup {"owner"}, n \in Sizes : Gift(x, a, n)
    \/ \E g \in 1..Len(sends) : Reverse(g)
    \/ \E s \in SubAgents, x \in Teams \cup {Unseated} : Move(s, x)
    \/ MonthEnds \/ Job \/ Crash

CommissionSpec     == CommissionInit /\ [][CommissionNext]_commissionVars
FairCommission == CommissionSpec /\ WF_commissionVars(Job)

-----------------------------------------------------------------------------
(* Properties                                                              *)

\* "The total cost is always team points x the agency's rate, whatever the shape
\* of the tree": for a closed month the accruals of all payees add up to that,
\* per agency and agent rounded down, over the gifts that were not reversed when
\* it closed; whoever was removed and whatever was resumed, unless an agent
\* removed by the first attempt is seated again by the second.
SplitIsWhole ==
    \A m \in Months : periods[m] = "closed" /\ m \notin repriced =>
        SumFunctionOnSet(accrued[m], Payees)
          = LET A == Attributed(m)
            IN  SumFunctionOnSet(
                    [r \in Rows(A) |-> Share(Points(Of(A, r)), levels[m][r[1]].rate)], Rows(A))

\* "A level falls by at most one step a period."
FallsByOne ==
    \A m \in Months \ {0}, p \in Payees :
        levels[m][p] # NoLevel => levels[m][p].band >= levels[m - 1][p].band - 1

\* "October's team volume sets the rate for every gift in November": a level is
\* measured on the whole month before, except those the very first run wrote.
MeasuredWhole ==
    \A m \in Months \ {0}, p \in Payees :
        levels[m][p] # NoLevel /\ periods[m - 1] = "closed" /\ m > 1 =>
            levels[m][p].measured = Volume(m - 1, p)

\* Unless the job died, a closed month is followed by one that will close.
NoneForgotten ==
    crashes = 0 /\ run.at \notin {"next"} =>
        \A m \in Months : periods[m] = "closed" /\ m < LastMonth => periods[m + 1] # "none"

CommissionHolds ==
    CommissionTypeOK /\ SplitIsWhole /\ FallsByOne /\ MeasuredWhole /\ NoneForgotten

\* "Daily and idempotent means a missed day costs nothing: the next run closes
\* it": every month that is over closes, whenever the job dies.
EveryMonthCloses == \A m \in Months : today > m ~> periods[m] = "closed"
===============================================================================
