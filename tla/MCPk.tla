--------------------------------- MODULE MCPk ---------------------------------
(* Instances of Pk for TLC, where hosts of one kind are interchangeable.     *)
EXTENDS Pk, TLC

CONSTANTS Random    \* hosts who find each other at random

Interchangeable == Permutations(Random) \cup Permutations(Taps)

\* Two scenes: the hosts of Random are live, or the others are or may go live.
\* A host of the other scene has had its shows.
Live(hs) == [h \in Hosts |-> IF h \in hs \cap StartOnAir THEN 1 ELSE 0]

ScenesInit ==
    \E hs \in {Random, Hosts \ Random} :
        /\ shows = [h \in Hosts |-> IF h \in hs THEN Live(hs)[h] ELSE MaxShows]
        /\ onAir = Live(hs)
        /\ Quiet

ScenesSpec == ScenesInit /\ [][PkNext]_pkVars
===============================================================================
