------------------------------ MODULE Economy ------------------------------
(***************************************************************************)
(* The ledger under the flows: postings whose legs economy/flows.ts built, *)
(* and others, whose legs somebody wrote by hand.                          *)
(***************************************************************************)
EXTENDS Ledger, Flows

CONSTANTS
    Amounts,      \* what is bought, given, granted, converted or accrued
    Prices,       \* what is paid for it in paise, nothing included
    Rates,        \* payout and conversion rates, in basis points
    FromFlows     \* the requests whose legs are those of a flow

\* Every sequence of legs a flow hands to postTransaction.
FlowLegs ==
    UNION {
      {purchaseLegs("u", n, gems, paid, channel) :
         n \in Amounts, gems \in Amounts \cup {0}, paid \in Prices,
         channel \in {"iap", "web", "reseller"}},
      {resellerPrepayLegs("ag", n, paid) : n \in Amounts, paid \in Prices},
      {agencyTransferLegs("ag", "u", n) : n \in Amounts},
      {giftLegs("u", "h", n, rate) : n \in Amounts, rate \in Rates},
      {cosmeticPurchaseLegs("u", n) : n \in Amounts},
      {conversionLegs("u", n, rate) : n \in Amounts, rate \in Rates},
      {freeCoinGrantLegs("u", n) : n \in Amounts},
      {accrualLegs(payee, "p", n) : n \in Amounts, payee \in {"agency", "agent"}}}

ASSUME EconomyConstants ==
    /\ Amounts \subseteq Nat \ {0} /\ Prices \subseteq Nat /\ Rates \subseteq Nat
    /\ FromFlows \subseteq Requests
    /\ \A r \in FromFlows :
         /\ LegsOf[r] \in FlowLegs
         /\ \A i \in Steps(r) :
              UnitOf[LegsOf[r][i].acct] = UnitOfAccount(LegsOf[r][i].acct)

\* Whatever the amounts, rates and channel, rounding and dropped zero legs
\* included, every flow builds legs that balance in coins, points and paise ...
FlowsBalance == \A legs \in FlowLegs : LegsBalance(legs)

\* ... so the books balance in every unit, and postTransaction never refuses the
\* legs a flow built.
EveryFlowBalances ==
    FlowsBalance /\ BooksBalance /\ \A r \in FromFlows : answer[r] # "unbalanced"
=============================================================================
