---------------------------- MODULE MCTwoClusters ----------------------------
(* Instances of LatitudeMachine with a second cluster, B, that has the      *)
(* control plane machine other.                                             *)
EXTENDS MCLatitudeMachine

CONSTANTS other, A, B

TwoClusters == [m \in Machines |-> IF m = other THEN B ELSE A]

OwnNamespace == [c \in Clusters |-> IF c = A THEN "default" ELSE "tenant"]
=============================================================================
