------------------------------- MODULE MCOutbox -------------------------------
(* Instances of Outbox for TLC: two rooms, whose events interleave.          *)
EXTENDS Outbox

TwoRooms    == [e \in Events |-> IF e % 2 = 1 THEN "room_a" ELSE "room_b"]
OneRoom     == [e \in Events |-> "room_a"]
AllRepeat   == [e \in Events |-> "push"]
FirstClaims == [e \in Events |-> IF e = 1 THEN "claim" ELSE "push"]
===============================================================================
