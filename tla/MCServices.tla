------------------------------ MODULE MCServices ------------------------------
(***************************************************************************)
(* Services that share no state, checked side by side: the first state     *)
(* chooses one of them, and only that one moves.                           *)
(***************************************************************************)
EXTENDS MCPurchase, Sessions, Spend, Standing, Gifting, Rewards, Wardrobe, Gateway

VARIABLE service

shopping == <<pc, tries, crashes, mine, purchases, posted, purged, total, level, unlocked>>
-----------------------------------------------------------------------------
SomePrices == [rose |-> 1, kite |-> 2]

\* A low cap without a pause, and raises with a pause, a longer one, and one for ever.
SomeAsks ==
    {[cap |-> 2, pause |-> "none"], [cap |-> 9, pause |-> "30d"], [cap |-> 9, pause |-> "90d"],
     [cap |-> 9, pause |-> "permanent"]}

SomeCosts == [small |-> 1, large |-> 2]

\* Two accounts of one phone; ladders, watching and codes raced by two calls each.
Want(k, w, c) == [kind |-> k, who |-> w, code |-> c]

SomeWants ==
    [s1 |-> Want("signup", "ann", "ann"), s2 |-> Want("signup", "ben", "ann"),
     k1 |-> Want("checkin", "ann", "ann"), k2 |-> Want("checkin", "ann", "ann"),
     w1 |-> Want("watch", "ann", "ann"), w2 |-> Want("watch", "ann", "ann"),
     t |-> Want("task", "ann", "ann"),
     a1 |-> Want("attach", "cat", "ann"), a2 |-> Want("attach", "cat", "ben"),
     p1 |-> Want("referral", "cat", "ann"), p2 |-> Want("referral", "cat", "ann")]

SomeClaimers == DOMAIN SomeWants
Phones       == [ann |-> "red", ben |-> "red", cat |-> "blue"]

SomeScenes ==
    {[calls |-> {}, last |-> 0], [calls |-> {"s1", "s2"}, last |-> 0], [calls |-> {"k1", "k2"}, last |-> 2],
     [calls |-> {"w1", "w2", "t"}, last |-> 1], [calls |-> {"a1", "a2", "p1", "p2"}, last |-> 0]}

\* A host, a viewer who may drop or switch rooms, and another; both mics
\* wanted twice; timers that overlap or come late.
SocketOwner == [h1 |-> "h", v1 |-> "v", w1 |-> "w"]
RoomHost    == [hall |-> "h", attic |-> "x"]

Msg(t, s, r, u, yes) == [t |-> t, from |-> s, room |-> r, user |-> u, yes |-> yes]

SomeMessages ==
    [j1 |-> Msg("join", "v1", "hall", "v", TRUE), j2 |-> Msg("join", "w1", "hall", "w", TRUE),
     j3 |-> Msg("join", "v1", "attic", "v", TRUE), l1 |-> Msg("leave", "v1", "hall", "v", TRUE),
     a2 |-> Msg("auth", "w1", "hall", "w", TRUE), t1 |-> Msg("chat", "h1", "hall", "h", TRUE),
     t2 |-> Msg("chat", "v1", "hall", "v", FALSE), t3 |-> Msg("chat", "v1", "hall", "v", TRUE),
     r1 |-> Msg("request", "v1", "hall", "v", TRUE), r2 |-> Msg("request", "v1", "hall", "v", TRUE),
     r3 |-> Msg("request", "w1", "hall", "w", TRUE), k1 |-> Msg("cancel", "v1", "hall", "v", TRUE),
     g1 |-> Msg("resolve", "h1", "hall", "v", TRUE), g2 |-> Msg("resolve", "h1", "hall", "v", TRUE),
     g3 |-> Msg("resolve", "h1", "hall", "w", TRUE), d1 |-> Msg("resolve", "h1", "hall", "v", FALSE),
     x1 |-> Msg("tick", "v1", "hall", "v", TRUE), x2 |-> Msg("tick", "v1", "hall", "v", TRUE)]

Everyone == [h1 |-> "hall", v1 |-> "hall", w1 |-> "hall"]
HostAndV == [h1 |-> "hall", v1 |-> "hall"]
Viewers  == [v1 |-> "hall", w1 |-> "hall"]
JustV    == [v1 |-> "hall"]

Play(calls, inside, last, drops, outside) ==
    [calls |-> calls, inside |-> inside, last |-> last, drops |-> drops, outside |-> outside]

Owners   == DOMAIN SocketOwner
Houses   == DOMAIN RoomHost
Handled  == DOMAIN SomeMessages

Plays ==
    {Play({}, <<>>, 0, {}, {}), Play({"j1", "j3", "l1", "t1"}, HostAndV, 0, {"v1"}, {}),
     Play({"a2", "j2", "t3"}, HostAndV, 0, {"w1"}, {"kick"}),
     Play({"j2", "t1", "t2", "t3"}, Everyone, 0, {}, {}),
     Play({"r1", "r2", "k1", "r3", "g1", "g2", "g3"}, Everyone, 0, {}, {}),
     Play({"r1", "g1"}, Everyone, 0, {}, {"http"}),
     Play({"r1", "g1", "d1", "j2"}, HostAndV, 0, {}, {"end"}),
     Play({"x1", "x2"}, Viewers, 2, {}, {}), Play({"x1", "x2"}, JustV, 3, {}, {"loses"}),
     Play({"x1", "l1", "j1"}, JustV, 4, {}, {}), Play({"x1", "l1", "j3"}, JustV, 4, {}, {"loses"}),
     Play({"x1"}, JustV, 5, {}, {"pings"})}

\* Two frames, of which a level brings one and a tier bundles it; one request
\* to buy sent twice.
KindOf    == [oak |-> "frame", elm |-> "frame", ink |-> "bubble", gold |-> "vip"]
DaysOf    == [oak |-> 1, elm |-> 2, ink |-> 1, gold |-> 2]
Bundles   == [oak |-> {}, elm |-> {}, ink |-> {}, gold |-> {"elm", "ink"}]

Errand(d, i, k) == [do |-> d, item |-> i, key |-> k]

SomeOrders ==
    [b1 |-> Errand("buy", "oak", "x"), b2 |-> Errand("buy", "oak", "x"), b3 |-> Errand("buy", "elm", "y"),
     v1 |-> Errand("buy", "gold", "z"), w1 |-> Errand("wear", "elm", "w"), u1 |-> Errand("bare", "elm", "u")]

SomeOrderers == DOMAIN SomeOrders
Catalogue    == DOMAIN KindOf

\* Two suspensions and the appeals against them; going live while one falls;
\* reports two moderators answer; two photos and two verdicts.
Act(d, b, v, o) == [do |-> d, by |-> b, verdict |-> v, of |-> o]

SomeDeeds ==
    [s1 |-> Act("suspend", "ann", "-", 0), s2 |-> Act("suspend", "ben", "-", 0),
     u1 |-> Act("unsuspend", "ann", "-", 0), a1 |-> Act("appeal", "ben", "overturned", 0),
     a2 |-> Act("appeal", "cat", "upheld", 0), f1 |-> Act("file", "hal", "-", 0),
     f2 |-> Act("file", "hal", "-", 0), g1 |-> Act("live", "hal", "-", 0),
     g2 |-> Act("live", "hal", "-", 0), e1 |-> Act("report", "ann", "suspend", 1),
     e2 |-> Act("report", "ben", "end_room", 2), e3 |-> Act("report", "cat", "dismiss", 1),
     p1 |-> Act("submit", "hal", "-", 0), p2 |-> Act("submit", "hal", "-", 0),
     d1 |-> Act("review", "ann", "approved", 0), d2 |-> Act("review", "ben", "rejected", 0)]

SomeActs == DOMAIN SomeDeeds

SomeCasts ==
    {{}, {"s1", "s2", "f1", "f2", "a1", "a2"}, {"s1", "u1", "g1", "g2", "e2"},
     {"g1", "e1", "e2", "e3"}, {"p1", "p2", "d1", "d2", "g1"}}

\* What the .cfg gives the constants.  TLC evaluates what a .cfg names at every
\* use, but what that names only once.
TheUserOf    == Account
TheReceiptOf == Receipt
ThePackOf    == TwoPacks
TheCoins     == CoinsOf
TheMaxTries  == R1Twice
TheCost      == SomeCosts
TheAsks      == SomeAsks
TheActs      == SomeActs
TheDeed      == SomeDeeds
TheCasts     == SomeCasts
ThePrice     == SomePrices
ThePhone     == Phones
TheClaimers  == SomeClaimers
TheWants     == SomeWants
TheScenes    == SomeScenes
TheSockets   == Owners
TheOwnerOf   == SocketOwner
TheRooms     == Houses
TheHostOf    == RoomHost
TheHandlers  == Handled
TheMessages  == SomeMessages
TheEpisodes  == Plays
TheItems     == Catalogue
TheKind      == KindOf
TheDays      == DaysOf
TheBundle    == Bundles
TheOrders    == SomeOrderers
TheWish      == SomeOrders

ASSUME SessionsConstants
ASSUME GiftingConstants
ASSUME SpendConstants /\ NoCapIsAboveAll
ASSUME RewardsConstants
ASSUME GatewayConstants
ASSUME WardrobeConstants
ASSUME StandingConstants

-----------------------------------------------------------------------------
\* The services that are not chosen wait in one first state, of the fewest calls.
Fewest(S) == CHOOSE x \in S : \A y \in S : Cardinality(x.calls) <= Cardinality(y.calls)

ServicesInit ==
    /\ service \in {"purchases", "sessions", "gifting", "spending", "free", "gateway", "wardrobe", "standing"}
    /\ Init /\ SessionsInit /\ GiftingInit /\ SpendInit
    /\ WardrobeInit /\ StandingInit
    /\ service # "standing" => cast = {}
    /\ RewardsInit /\ (service # "free" => scene = Fewest(Scenes))
    /\ GatewayInit /\ (service # "gateway" => play = Fewest(Episodes))

\* Only the service s moves.
Only(s) ==
    /\ service = s /\ UNCHANGED service
    /\ s # "purchases" => UNCHANGED shopping
    /\ s # "sessions" => UNCHANGED sessionVars
    /\ s # "gifting" => UNCHANGED giftVars
    /\ s # "spending" => UNCHANGED spendVars
    /\ s # "free" => UNCHANGED rewardVars
    /\ s # "gateway" => UNCHANGED gatewayVars
    /\ s # "wardrobe" => UNCHANGED wardrobeVars
    /\ s # "standing" => UNCHANGED standingVars

ServicesNext ==
    \/ Only("purchases") /\ Next
    \/ Only("sessions") /\ SessionsNext
    \/ Only("gifting") /\ GiftingNext
    \/ Only("spending") /\ SpendNext
    \/ Only("free") /\ RewardsNext
    \/ Only("gateway") /\ GatewayNext
    \/ Only("wardrobe") /\ WardrobeNext
    \/ Only("standing") /\ StandingNext

ServicesSpec ==
    ServicesInit
        /\ [][ServicesNext]_<<service, shopping, sessionVars, giftVars, spendVars, rewardVars,
                               gatewayVars, wardrobeVars, standingVars>>

-----------------------------------------------------------------------------
(* Properties: each is stated with its reason in the module of its service *)
(* and checked by its own name; each says, too, that the state has its     *)
(* type (of purchases, TypeOK).                                            *)
================================================================================
