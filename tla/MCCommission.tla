----------------------------- MODULE MCCommission -----------------------------
(* One agency, its owner and a sub-agent, three bands, for TLC.               *)
EXTENDS Commission

ThreeBands == <<[min |-> 0, rate |-> 3], [min |-> 3, rate |-> 5], [min |-> 12, rate |-> 7]>>
===============================================================================
