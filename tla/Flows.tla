------------------------------- MODULE Flows -------------------------------
(***************************************************************************)
(* The leg builders (economy/flows.ts) and the rate arithmetic under them  *)
(* (economy/rates.ts): one operator per money flow, the sequence of legs   *)
(* it hands to postTransaction.  An account is <<code, scope>>; system     *)
(* accounts have the scope "system".  purchaseLegs_GemsFirst and            *)
(* giftLegs_UnroundedPayout are those with a fault; nothing here uses them.*)
(***************************************************************************)
EXTENDS Integers, Sequences, Functions

FaceValueUnitsPerRupee == 130
PointsPerRupee         == 260
CoinToGemRateBp        == 12000

unitsToPaise(units)             == (units * 100) \div FaceValueUnitsPerRupee
pointsToPaise(points)           == (points * 100) \div PointsPerRupee
giftPoints(coins, payoutRateBp) == (coins * payoutRateBp) \div 10000
coinsToGems(coins, rateBp)      == (coins * rateBp) \div 10000

Scoped(code, scope) == <<code, scope>>
System(code)        == <<code, "system">>

\* The codes of SCOPED_ACCOUNTS that these flows use: those with a balance row.
ScopedCodes ==
    {"user_coins", "user_gems", "agency_inventory", "host_points_held",
     "agent_points_held", "agency_points_held"}

CoinCodes  == {"user_coins", "user_gems", "agency_inventory", "system_coin_float"}
PointCodes == {"host_points_held", "agent_points_held", "agency_points_held",
               "system_point_float"}
UnitOfAccount(a) ==
    IF a[1] \in CoinCodes THEN "coin" ELSE IF a[1] \in PointCodes THEN "point" ELSE "paise"

Leg(account, amount) == [acct |-> account, amount |-> amount]

\* Zero-amount legs are skipped: the ledger rejects them.
nonZero(legs) ==
    LET kept[n \in 0..Len(legs)] ==
          IF n = 0 THEN <<>>
          ELSE IF legs[n].amount = 0 THEN kept[n - 1] ELSE Append(kept[n - 1], legs[n])
    IN kept[Len(legs)]

CashAccount(channel) ==
    [iap |-> "cash_iap", web |-> "cash_web", reseller |-> "cash_reseller"][channel]
DiscountAccount(channel) ==
    IF channel = "reseller" THEN "discount_reseller" ELSE "discount_pack"

purchaseLegs_GemsFirst(user, coins, gems, cashPaise, channel) ==
    LET face == unitsToPaise(coins + gems)
    IN nonZero(<<
        Leg(Scoped("user_gems", user), gems),
        Leg(Scoped("user_coins", user), coins),
        Leg(System("system_coin_float"), -(coins + gems)),
        Leg(System(CashAccount(channel)), cashPaise),
        Leg(System(DiscountAccount(channel)), face - cashPaise),
        Leg(System("deferred_revenue"), -face)>>)

purchaseLegs(user, coins, gems, cashPaise, channel) ==
    LET face == unitsToPaise(coins + gems)
    IN nonZero(<<
        Leg(Scoped("user_coins", user), coins),
        Leg(Scoped("user_gems", user), gems),
        Leg(System("system_coin_float"), -(coins + gems)),
        Leg(System(CashAccount(channel)), cashPaise),
        Leg(System(DiscountAccount(channel)), face - cashPaise),
        Leg(System("deferred_revenue"), -face)>>)

resellerPrepayLegs(agency, coins, cashPaise) ==
    LET face == unitsToPaise(coins)
    IN nonZero(<<
        Leg(Scoped("agency_inventory", agency), coins),
        Leg(System("system_coin_float"), -coins),
        Leg(System("cash_reseller"), cashPaise),
        Leg(System("discount_reseller"), face - cashPaise),
        Leg(System("deferred_revenue"), -face)>>)

agencyTransferLegs(agency, user, coins) ==
    nonZero(<<Leg(Scoped("agency_inventory", agency), -coins),
              Leg(Scoped("user_coins", user), coins)>>)

giftLegs_UnroundedPayout(user, host, coins, payoutRateBp) ==
    LET points == giftPoints(coins, payoutRateBp)
        value  == unitsToPaise(coins)
    IN nonZero(<<
        Leg(Scoped("user_coins", user), -coins),
        Leg(System("system_coin_float"), coins),
        Leg(System("system_point_float"), -points),
        Leg(Scoped("host_points_held", host), points),
        Leg(System("deferred_revenue"), value),
        Leg(System("revenue_gifting"), -value),
        Leg(System("expense_host_payout"), pointsToPaise(points)),
        Leg(System("points_payable"), -((value * payoutRateBp) \div 10000))>>)

giftLegs(user, host, coins, payoutRateBp) ==
    LET points == giftPoints(coins, payoutRateBp)
        value  == unitsToPaise(coins)
        payout == pointsToPaise(points)
    IN nonZero(<<
        Leg(Scoped("user_coins", user), -coins),
        Leg(System("system_coin_float"), coins),
        Leg(System("system_point_float"), -points),
        Leg(Scoped("host_points_held", host), points),
        Leg(System("deferred_revenue"), value),
        Leg(System("revenue_gifting"), -value),
        Leg(System("expense_host_payout"), payout),
        Leg(System("points_payable"), -payout)>>)

cosmeticPurchaseLegs(user, gems) ==
    LET value == unitsToPaise(gems)
    IN nonZero(<<
        Leg(Scoped("user_gems", user), -gems),
        Leg(System("system_coin_float"), gems),
        Leg(System("deferred_revenue"), value),
        Leg(System("revenue_cosmetics"), -value)>>)

conversionLegs(user, coins, rateBp) ==
    LET gems  == coinsToGems(coins, rateBp)
        bonus == gems - coins
        paise == unitsToPaise(bonus)
    IN nonZero(<<
        Leg(Scoped("user_coins", user), -coins),
        Leg(Scoped("user_gems", user), gems),
        Leg(System("system_coin_float"), -bonus),
        Leg(System("discount_conversion_bonus"), paise),
        Leg(System("deferred_revenue"), -paise)>>)

freeCoinGrantLegs(user, coins) ==
    LET value == unitsToPaise(coins)
    IN nonZero(<<
        Leg(System("system_coin_float"), -coins),
        Leg(Scoped("user_coins", user), coins),
        Leg(System("expense_free_coins"), value),
        Leg(System("deferred_revenue"), -value)>>)

\* postAccrual (agency/commission.service.ts) builds its legs in place.
accrualLegs(payeeType, payee, points) ==
    LET account == IF payeeType = "agency" THEN "agency_points_held"
                                           ELSE "agent_points_held"
        paise   == pointsToPaise(points)
        made    == Leg(System("system_point_float"), -points)
        held    == Leg(Scoped(account, payee), points)
    IN IF paise > 0
       THEN <<made, held, Leg(System("expense_agency_commission"), paise),
              Leg(System("points_payable"), -paise)>>
       ELSE <<made, held>>

-----------------------------------------------------------------------------
AmountsOf(legs) == [i \in DOMAIN legs |-> legs[i].amount]
OfUnit(legs, u) == {i \in DOMAIN legs : UnitOfAccount(legs[i].acct) = u}

\* What assertBalanced demands.
LegsBalance(legs) ==
    /\ \A i \in DOMAIN legs : legs[i].amount # 0
    /\ \A u \in {"coin", "point", "paise"} :
         SumFunctionOnSet(AmountsOf(legs), OfUnit(legs, u)) = 0
=============================================================================
