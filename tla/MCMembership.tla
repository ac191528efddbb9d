----------------------------- MODULE MCMembership -----------------------------
(* Two agencies with their owners, one sub-agent and one host, for TLC.       *)
EXTENDS Membership

AgencyOwner == [X |-> "o", Y |-> "p"]
===============================================================================
