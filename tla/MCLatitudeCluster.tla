-------------------------- MODULE MCLatitudeCluster --------------------------
(* Instances of LatitudeCluster.  c is a cluster, d another one.            *)
EXTENDS LatitudeCluster, TLC

CONSTANT d

\* The clusters have names of their own.
OwnName == [k \in Clusters |-> k]

\* Two clusters of two namespaces with the same name and the same subnet.
SameName == [k \in Clusters |-> "capl-prod-10.8.0.0/24"]

\* The machines of d are not modelled.
OneControlPlane == [h \in Hosts |-> CHOOSE k \in Clusters : k # d]

IDs == Permutations(VLANs \ Foreign) \union Permutations(Hosts)
=============================================================================
