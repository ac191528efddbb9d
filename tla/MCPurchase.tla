------------------------------ MODULE MCPurchase ------------------------------
(* Instances of Purchase for TLC.                                            *)
EXTENDS Purchase

CONSTANTS r1, r2, r3, r4, u1, u2, c1, c2, small, big

CoinsOf   == [p \in Packs |-> IF p = small THEN 1 ELSE 2]

\* r1, r2 and r4 carry one receipt under three client keys, r4 from another
\* account; r3 is the first account's other purchase.
Receipt  == [r \in Requests |-> IF r = r3 THEN c2 ELSE c1]
Account  == [r \in Requests |-> IF r = r4 THEN u2 ELSE u1]
TwoPacks == [r \in Requests |-> IF r = r3 THEN big ELSE small]
OnePack  == [r \in Requests |-> small]

R1Twice  == [r \in Requests |-> IF r = r1 THEN 2 ELSE 1]
===============================================================================
