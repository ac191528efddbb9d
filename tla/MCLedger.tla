------------------------------ MODULE MCLedger ------------------------------
(***************************************************************************)
(* Instances of Ledger for TLC, with the legs of the real flows at the     *)
(* real rates.  One user u, one host h, one agency ag.                     *)
(***************************************************************************)
EXTENDS Economy

CONSTANTS g1, g2, g3, b1, c1, p1, t1, k1, k2, k3, k4

AllLegs(legsOf) == UNION {{legsOf[r][i].acct : i \in DOMAIN legsOf[r]} : r \in Requests}

\* A gift sent twice under one key (g1 itself again after a lost answer, g2 an
\* overlapping duplicate), another gift under the same key (g3), and a
\* conversion the balance cannot cover as well (c1).
KeyOfPosting == [r \in Requests |-> IF r \in {g1, g2, g3} THEN k1 ELSE k2]
IdentityOfPosting == [r \in Requests |-> IF r = g2 THEN g1 ELSE r]
OneType == [r \in Requests |-> "any"]
GiftOfFive  == giftLegs("u", "h", 5, 6000)
GiftOfThree == giftLegs("u", "h", 3, 6000)
Conversion  == conversionLegs("u", 15, CoinToGemRateBp)
LegsOfPosting == [r \in Requests |->
    CASE r \in {g1, g2} -> GiftOfFive [] r = g3 -> GiftOfThree [] r = c1 -> Conversion]
AccountsPosting == AllLegs(LegsOfPosting)
TrackedPosting == {a \in AccountsPosting : a[1] \in ScopedCodes}
UnitOfPosting == [a \in AccountsPosting |-> UnitOfAccount(a)]
OpeningPosting == [a \in TrackedPosting |-> IF a[1] = "user_coins" THEN 19 ELSE 0]
G1Twice == [r \in Requests |-> IF r = g1 THEN 2 ELSE 1]
OneTry  == [r \in Requests |-> 1]

\* The flows that lock two accounts of one user, or a user's and another's, in
\* the order their legs have, which is what could deadlock on the account rows;
\* and a conversion that names its first leg only.
KeyOfFlows == [r \in Requests |-> CASE r = b1 -> k1 [] r = c1 -> k2 [] r = p1 -> k3
                                   [] r = t1 -> k4]
IdentityOfFlows == [r \in Requests |-> r]
Bonus       == conversionLegs("u", 7, CoinToGemRateBp)
Partial     == SubSeq(Bonus, 1, 1)
WebPurchase == purchaseLegs("u", 3, 1, 2, "web")
ToUser      == agencyTransferLegs("ag", "u", 2)
LegsOfFlows == [r \in Requests |->
    CASE r = b1 -> Partial [] r = c1 -> Bonus [] r = p1 -> WebPurchase [] r = t1 -> ToUser]
AccountsFlows == AllLegs(LegsOfFlows)
TrackedFlows == {a \in AccountsFlows : a[1] \in ScopedCodes}
UnitOfFlows == [a \in AccountsFlows |-> UnitOfAccount(a)]
OpeningFlows == [a \in TrackedFlows |-> IF a[1] = "user_coins" THEN 15
                                         ELSE IF a[1] = "agency_inventory" THEN 2 ELSE 0]

\* Small amounts, prices and rates, from a price of nothing to a conversion that
\* doubles the coins.
SmallAmounts == 1..12 \cup {15, 17, 25, 130}
SmallPrices  == 0..4 \cup {19, 100}
SomeRates    == {0, 1, 3333, 6000, 10000, 12000, 20000}
AllRequests  == Requests
NotByHand    == Requests \ {b1}
=============================================================================
