------------------------------- MODULE MCAgency -------------------------------
(***************************************************************************)
(* The ledger and three services of the agencies, which share no state,    *)
(* checked side by side: the first state chooses one, and only it moves.   *)
(***************************************************************************)
EXTENDS MCLedger, MCMembership, AgencyCoins, MCCommission

VARIABLE desk

\* Request "a" twice and a smaller one to somebody else; a prepay that two
\* administrators, one of them perhaps its maker, confirm and reject.
RequestOfCall == [t1 |-> "a", t2 |-> "a", t3 |-> "b"]
Lots          == [a |-> 2, b |-> 1]
Recipients    == [a |-> "uma", b |-> "vic"]
Worths        == [p |-> 4]
PrepayOfCall  == [x |-> "p", y |-> "p", z |-> "p"]
Deciders      == [x |-> "ann", y |-> "ben", z |-> "ben"]
Verdicts      == [x |-> "confirm", y |-> "confirm", z |-> "reject"]

\* What the .cfg gives the constants.  TLC evaluates what a .cfg names at every
\* use, but what that names only once.
TheAccounts   == AccountsPosting
TheTracked    == TrackedPosting
TheKeyOf      == KeyOfPosting
TheIdentityOf == IdentityOfPosting
TheTypeOf     == OneType
TheLegsOf     == LegsOfPosting
TheUnitOf     == UnitOfPosting
TheOpening    == OpeningPosting
TheAmounts    == SmallAmounts
ThePrices     == SmallPrices
TheRates      == SomeRates
TheFromFlows  == AllRequests
TheMaxTries   == G1Twice
TheOwner      == AgencyOwner
TheRequestOf  == RequestOfCall
TheLot        == Lots
ThePayee      == Recipients
TheWorth      == Worths
ThePrepayOf   == PrepayOfCall
TheBy         == Deciders
TheVerdict    == Verdicts
TheBands      == ThreeBands

ASSUME AgencyCoinsConstants
ASSUME MembershipConstants
ASSUME CommissionConstants

-----------------------------------------------------------------------------
AgencyInit ==
    /\ desk \in {"postings", "members", "coins", "months"}
    /\ Init /\ MembershipInit /\ ChannelInit /\ CommissionInit

\* Only the desk d works.
Only(d) ==
    /\ desk = d /\ UNCHANGED desk
    /\ d # "postings" => UNCHANGED vars
    /\ d # "members" => UNCHANGED membershipVars
    /\ d # "coins" => UNCHANGED channelVars
    /\ d # "months" => UNCHANGED commissionVars

AgencyNext ==
    \/ Only("postings") /\ Next
    \/ Only("members") /\ MembershipNext
    \/ Only("coins") /\ ChannelNext
    \/ Only("months") /\ CommissionNext

AgencySpec ==
    AgencyInit /\ [][AgencyNext]_<<desk, vars, membershipVars, channelVars, commissionVars>>
===============================================================================
