------------------------------- MODULE Rewards --------------------------------
(***************************************************************************)
(* Free coins (rewards/rewards.service.ts, tasks.service.ts): the welcome  *)
(* bonus, the daily check-in, watching, daily tasks, inviting a friend.    *)
(*                                                                         *)
(* Every claim reads what it needs, chooses a key and posts a grant under  *)
(* it; nothing is locked between.  The ledger posts a key once, as         *)
(* LedgerAbs promises, with its reward_claims row.                         *)
(* X_Fault is X with a fault; nothing uses it.                             *)
(***************************************************************************)
EXTENDS Integers, FiniteSets, FiniteSetsExt

CONSTANTS
    People,
    Phone,        \* [People -> phones]
    Bannable,     \* people staff may ban
    Claimers,     \* calls, each used again and again
    Wants,        \* per call, [kind, who, code]: whose it is, and whose invite code
    Scenes,       \* bound: the calls of one behaviour and the day it ends
    Ladder,       \* days of the check-in ladder
    WatchCap, TaskTarget  \* watch intervals: the daily cap, the task's target

VARIABLES
    today,
    scene,
    banned,
    claims,       \* reward_claims; hurried is a ghost, see DecideClaim
    referrals,    \* per friend, the referrer, or NoReferrer
    rewarded,     \* friends with rewarded_at
    claiming      \* per call: stage, its day, the claim it decided on

rewardVars == <<today, scene, banned, claims, referrals, rewarded, claiming>>

NoReferrer == "nobody"
Final      == scene.last
ClaimKinds == {"signup", "checkin", "watch", "task", "referral", "attach"}
Claim  == [kind : ClaimKinds, who : People, day : 0..Final, slot : 0..WatchCap,
           payee : People, streak : 0..Ladder, hurried : BOOLEAN]
Key(x) == <<x.kind, x.who, x.day, x.slot>>

RewardsConstants ==
    /\ NoReferrer \notin People /\ Bannable \subseteq People /\ Scenes \subseteq [calls : SUBSET Claimers, last : Nat]
    /\ Wants \in [Claimers -> [kind : ClaimKinds, who : People, code : People]]
    /\ Ladder \in Nat \ {0} /\ WatchCap \in Nat /\ TaskTarget \in Nat

NoClaim(c) == [kind |-> Wants[c].kind, who |-> Wants[c].who, day |-> 0, slot |-> 0,
               payee |-> Wants[c].who, streak |-> 0, hurried |-> FALSE]
NotAsked(c) == [at |-> "idle", day |-> 0, claim |-> NoClaim(c)]

RewardsTypeOK ==
    /\ today \in 0..Final /\ scene \in Scenes /\ banned \subseteq Bannable
    /\ claims \subseteq Claim /\ rewarded \subseteq People
    /\ referrals \in [People -> People \cup {NoReferrer}]
    /\ claiming \in [Claimers -> [at : {"idle", "asked", "granting"}, day : 0..Final,
                                  claim : Claim]]

RewardsInit ==
    /\ today = 0 /\ scene \in Scenes /\ banned = {} /\ claims = {} /\ rewarded = {}
    /\ referrals = [p \in People |-> NoReferrer]
    /\ claiming = [c \in Claimers |-> NotAsked(c)]

-----------------------------------------------------------------------------
\* The request arrives, or the gateway's timer fires: istDate() is read.
Ask(c) ==
    /\ c \in scene.calls /\ claiming[c].at = "idle"
    /\ claiming' = [claiming EXCEPT ![c].at = "asked", ![c].day = today]
    /\ UNCHANGED <<today, scene, banned, claims, referrals, rewarded>>

Made(k, p, d) == {x \in claims : x.kind = k /\ x.who = p /\ x.day = d}

TakenOnDevice_Fault(p) == FALSE

\* Whether another account on the phone took the welcome bonus.
TakenOnDevice(p) ==
    \E x \in claims : x.kind = "signup" /\ x.who # p /\ Phone[x.who] = Phone[p]

StreakDay_Fault(p, d) ==
    LET before == {x \in claims : x.kind = "checkin" /\ x.who = p}
    IN  IF before # {} THEN (Max({x.streak : x \in before}) % Ladder) + 1 ELSE 1

\* Yesterday's claim continues the ladder; otherwise it starts over.
StreakDay(p, d) ==
    IF \E x \in Made("checkin", p, d - 1) : TRUE
    THEN ((CHOOSE x \in Made("checkin", p, d - 1) : TRUE).streak % Ladder) + 1 ELSE 1

Earned(p, d) == Cardinality(Made("watch", p, d))

WatchSlot_Fault(p, d) == CHOOSE n \in 0..WatchCap : \A x \in Made("watch", p, d) : x.slot # n
WatchSlot(p, d)       == Earned(p, d) + 1

\* The refusals of each kind, from what it reads.
WelcomeAllowed(p)     == Made("signup", p, 0) = {} /\ ~TakenOnDevice(p)
CheckinAllowed(p, d)  == Made("checkin", p, d) = {}
WatchAllowed(p, d)    == p \notin banned /\ Earned(p, d) < WatchCap
TaskAllowed(p, d)     == Made("task", p, d) = {} /\ Earned(p, d) >= TaskTarget
ReferralAllowed(f)    == referrals[f] \notin banned \cup {NoReferrer} /\ f \notin rewarded
AttachAllowed(p, who) ==
    who # p /\ who \notin banned /\ Phone[who] # Phone[p] /\ referrals[p] = NoReferrer

Allowed(c) ==
    LET w == Wants[c]
        d == claiming[c].day
    IN  CASE w.kind = "signup"   -> WelcomeAllowed(w.who)
          [] w.kind = "checkin"  -> CheckinAllowed(w.who, d)
          [] w.kind = "watch"    -> WatchAllowed(w.who, d)
          [] w.kind = "task"     -> TaskAllowed(w.who, d)
          [] w.kind = "referral" -> ReferralAllowed(w.who)
          [] w.kind = "attach"   -> AttachAllowed(w.who, w.code)

\* The claim and its key: for ever, of a day, or of a slot of a day.
Intended(c) ==
    LET w == Wants[c]
        d == claiming[c].day
        n == NoClaim(c)
    IN  CASE w.kind = "checkin"  -> [n EXCEPT !.day = d, !.streak = StreakDay(w.who, d)]
          [] w.kind = "watch"    -> [n EXCEPT !.day = d, !.slot = WatchSlot(w.who, d)]
          [] w.kind = "task"     -> [n EXCEPT !.day = d]
          [] w.kind = "referral" -> [n EXCEPT !.payee = referrals[w.who]]
          [] OTHER               -> n

\* Whether another call has decided and not posted yet, or was asked on an
\* earlier day and has not even decided.
Crowded(c) ==
    \E b \in Claimers \ {c} :
        \/ claiming[b].at = "granting"
        \/ claiming[b].at = "asked" /\ claiming[b].day < claiming[c].day

\* The reads.  A claim is hurried that could not see one decided before it.
DecideClaim(c) ==
    /\ claiming[c].at = "asked"
    /\ claiming' = [claiming EXCEPT ![c] =
         IF Allowed(c) THEN [@ EXCEPT !.at = "granting",
                                      !.claim = [Intended(c) EXCEPT !.hurried = Crowded(c)]]
         ELSE NotAsked(c)]
    /\ UNCHANGED <<today, scene, banned, claims, referrals, rewarded>>

Finish(c) == claiming' = [claiming EXCEPT ![c] = NotAsked(c)]

\* grant: the key decides; a referral is marked in the same transaction.
Grant(c) ==
    LET x == claiming[c].claim
    IN  /\ x.kind # "attach" /\ claiming[c].at = "granting"
        /\ IF \E y \in claims : Key(y) = Key(x) THEN UNCHANGED <<claims, rewarded>>
           ELSE /\ claims' = claims \cup {x}
                /\ rewarded' = IF x.kind = "referral" THEN rewarded \cup {x.who} ELSE rewarded
        /\ Finish(c)
        /\ UNCHANGED <<today, scene, banned, referrals>>

Attached_Fault(c) == Wants[c].code
Attached(c) == IF referrals[Wants[c].who] = NoReferrer THEN Wants[c].code ELSE referrals[Wants[c].who]

\* attachReferral inserts, ON CONFLICT DO NOTHING.
Attach(c) ==
    /\ Wants[c].kind = "attach" /\ claiming[c].at = "granting"
    /\ referrals' = [referrals EXCEPT ![Wants[c].who] = Attached(c)]
    /\ Finish(c)
    /\ UNCHANGED <<today, scene, banned, claims, rewarded>>

\* The process dies before the posting commits.
LoseClaim(c) ==
    /\ claiming[c].at # "idle"
    /\ Finish(c)
    /\ UNCHANGED <<today, scene, banned, claims, referrals, rewarded>>

NextDay ==
    /\ today < scene.last /\ today' = today + 1
    /\ UNCHANGED <<scene, banned, claims, referrals, rewarded, claiming>>

BanPerson(p) ==
    /\ p \in Bannable \ banned /\ banned' = banned \cup {p}
    /\ UNCHANGED <<today, scene, claims, referrals, rewarded, claiming>>

RewardsNext ==
    \/ \E c \in Claimers : Ask(c) \/ DecideClaim(c) \/ Grant(c) \/ Attach(c) \/ LoseClaim(c)
    \/ \E p \in People : BanPerson(p)
    \/ NextDay

RewardsSpec == RewardsInit /\ [][RewardsNext]_rewardVars

-----------------------------------------------------------------------------
(* Properties                                                              *)

\* "Neither can ever claim slot 11": whatever races, a day's watch claims are the
\* slots from the first on, and no more than the cap; and a task was earned.
WatchIsCapped ==
    \A x \in claims :
        LET seen == Made("watch", x.who, x.day)
        IN  /\ {y.slot : y \in seen} = 1..Cardinality(seen)
            /\ Cardinality(seen) <= WatchCap
            /\ x.kind = "task" => Cardinality(seen) >= TaskTarget

\* The ladder "can never disagree with the claims that exist": a claim goes on
\* from yesterday's and starts over without one, except a claim decided on while
\* yesterday's, asked for before midnight, was still on its way.
LadderFollowsClaims ==
    \A x \in claims : x.kind = "checkin" /\ ~x.hurried =>
        LET before == {y \in Made("checkin", x.who, x.day - 1) : ~y.hurried}
        IN  /\ Cardinality(Made("checkin", x.who, x.day)) = 1
            /\ before # {} => \E y \in before : x.streak = (y.streak % Ladder) + 1
            /\ (x.day = 0 \/ Made("checkin", x.who, x.day - 1) = {}) => x.streak = 1

\* One welcome bonus a phone, except to accounts that claim it at one time.
OneWelcomePerPhone ==
    \A x, y \in claims :
        x.kind = "signup" /\ y.kind = "signup" /\ ~x.hurried /\ ~y.hurried
            => x = y \/ Phone[x.who] # Phone[y.who]

\* "A referrer is paid once per friend, ever", and it is the one whose code the
\* friend used first, though purchases are announced twice and codes race.
ReferrerPaidOnce ==
    \A f \in People :
        LET paid == {x \in claims : x.kind = "referral" /\ x.who = f}
        IN  /\ Cardinality(paid) <= 1 /\ (paid # {} <=> f \in rewarded)
            /\ \A x \in paid : x.payee = referrals[f]

\* All four, and the types.
RewardsHold ==
    RewardsTypeOK /\ WatchIsCapped /\ LadderFollowsClaims /\ OneWelcomePerPhone /\ ReferrerPaidOnce
===============================================================================
