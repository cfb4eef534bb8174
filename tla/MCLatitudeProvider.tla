-------------------------- MODULE MCLatitudeProvider --------------------------
(* Instances of LatitudeProvider with one cluster.                            *)
EXTENDS LatitudeProvider, TLC

OneCluster == [m \in Machines |-> CHOOSE c \in Clusters : TRUE]

OneNamespace == [c \in Clusters |-> "default"]

OwnName == [c \in Clusters |-> c]

IDs == Permutations(Servers) \union Permutations(UserData)
         \union Permutations(VLANs \ Foreign)
=============================================================================
