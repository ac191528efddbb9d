------------------------------- MODULE MCSeats -------------------------------
(* Instances of Seats for TLC.                                              *)
EXTENDS Seats
==============================================================================
