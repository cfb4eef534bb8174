-------------------------- MODULE MCLatitudeMachine --------------------------
(* Instances of LatitudeMachine with the machines of one cluster.           *)
EXTENDS LatitudeMachine, TLC

OneCluster == [m \in Machines |-> CHOOSE c \in Clusters : TRUE]

OneNamespace == [c \in Clusters |-> "default"]

\* IDs are handed out in no particular order, and no property tells them apart.
IDs == Permutations(Servers) \union Permutations(UserData)
=============================================================================
