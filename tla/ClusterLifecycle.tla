--------------------------- MODULE ClusterLifecycle ---------------------------
(***************************************************************************)
(* What the two controllers promise together: the order of a cluster's     *)
(* life.  Its network comes before it is ready, its servers come after,    *)
(* its endpoint is found among them and kept, and in the end the servers   *)
(* leave the network before the network is released.                       *)
(***************************************************************************)
CONSTANTS Clusters, Servers, VLANs

VARIABLES
    phase,     \* of a cluster: provisioning, ready or gone
    leaving,   \* the clusters whose deletion was requested
    network,   \* the live VLANs made for a cluster
    fleet,     \* the live servers of a cluster
    attached,  \* those of them in the cluster's VLAN
    endpoint   \* the clusters that have one

vars == <<phase, leaving, network, fleet, attached, endpoint>>

Init ==
    /\ phase = [c \in Clusters |-> "provisioning"]
    /\ leaving = {}
    /\ network = [c \in Clusters |-> {}]
    /\ fleet = [c \in Clusters |-> {}]
    /\ attached = [c \in Clusters |-> {}]
    /\ endpoint = {}

\* One network for each cluster, and none that another cluster has.
CreateNetwork(c, v) ==
    /\ phase[c] = "provisioning"
    /\ network[c] = {}
    /\ \A d \in Clusters : v \notin network[d]
    /\ network' = [network EXCEPT ![c] = {v}]
    /\ UNCHANGED <<phase, leaving, fleet, attached, endpoint>>

BecomeReady(c) ==
    /\ phase[c] = "provisioning"
    /\ phase' = [phase EXCEPT ![c] = "ready"]
    /\ UNCHANGED <<leaving, network, fleet, attached, endpoint>>

StartServer(c, s) ==
    /\ phase[c] = "ready"
    /\ \A d \in Clusters : s \notin fleet[d]
    /\ fleet' = [fleet EXCEPT ![c] = @ \union {s}]
    /\ UNCHANGED <<phase, leaving, network, attached, endpoint>>

Attach(c, s) ==
    /\ phase[c] = "ready"
    /\ s \in fleet[c]
    /\ attached' = [attached EXCEPT ![c] = @ \union {s}]
    /\ UNCHANGED <<phase, leaving, network, fleet, endpoint>>

StopServer(c, s) ==
    /\ s \in fleet[c]
    /\ fleet' = [fleet EXCEPT ![c] = @ \ {s}]
    /\ attached' = [attached EXCEPT ![c] = @ \ {s}]
    /\ UNCHANGED <<phase, leaving, network, endpoint>>

DiscoverEndpoint(c) ==
    /\ phase[c] = "ready"
    /\ c \notin endpoint
    /\ endpoint' = endpoint \union {c}
    /\ UNCHANGED <<phase, leaving, network, fleet, attached>>

Leave(c) ==
    /\ leaving' = leaving \union {c}
    /\ UNCHANGED <<phase, network, fleet, attached, endpoint>>

\* A server that is still attached keeps the network.
ReleaseNetwork(c) ==
    /\ c \in leaving
    /\ attached[c] = {}
    /\ network' = [network EXCEPT ![c] = {}]
    /\ UNCHANGED <<phase, leaving, fleet, attached, endpoint>>

Vanish(c) ==
    /\ c \in leaving
    /\ attached[c] = {}
    /\ phase' = [phase EXCEPT ![c] = "gone"]
    /\ UNCHANGED <<leaving, network, fleet, attached, endpoint>>

Next ==
    \E c \in Clusters :
        \/ BecomeReady(c)
        \/ DiscoverEndpoint(c)
        \/ Leave(c)
        \/ ReleaseNetwork(c)
        \/ Vanish(c)
        \/ \E v \in VLANs : CreateNetwork(c, v)
        \/ \E s \in Servers : \/ StartServer(c, s)
                              \/ Attach(c, s)
                              \/ StopServer(c, s)

Spec == Init /\ [][Next]_vars
=============================================================================
