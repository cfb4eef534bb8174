--------------------------- MODULE MachineContract ---------------------------
(***************************************************************************)
(* What the LatitudeMachine controller promises cluster-api and the owner  *)
(* of the Latitude.sh account, without a word of how: each machine is      *)
(* provisioned once, to become ready or failed for good; the server its    *)
(* status claims is its own, is exchanged only when it was lost to someone *)
(* else and the machine is not ready yet, and is released by nothing but   *)
(* the deletion of the machine, which takes it along.                      *)
(***************************************************************************)
CONSTANTS Machines, Servers, None

VARIABLES
    phase,     \* what the status of the machine says
    leaving,   \* the machines whose deletion was requested
    claim,     \* the server in the status of the machine
    released,  \* the servers the controller has deleted
    lost       \* the servers somebody else has removed

vars == <<phase, leaving, claim, released, lost>>

Init ==
    /\ phase = [m \in Machines |-> "pending"]
    /\ leaving = {}
    /\ claim = [m \in Machines |-> None]
    /\ released = {}
    /\ lost = {}

Claims == {claim[m] : m \in Machines} \ {None}

\* What m may give up: nothing, or a server it has lost.
Free(m) == claim[m] \in {None} \union lost

\* A server nobody claims, and nobody has released, is found for the machine.
Claim(m, s) ==
    /\ phase[m] = "pending"
    /\ Free(m)
    /\ s \notin Claims \union released
    /\ claim' = [claim EXCEPT ![m] = s]
    /\ UNCHANGED <<phase, leaving, released, lost>>

\* The machine finds that it has lost its server.
Drop(m) ==
    /\ phase[m] = "pending"
    /\ Free(m)
    /\ claim' = [claim EXCEPT ![m] = None]
    /\ UNCHANGED <<phase, leaving, released, lost>>

\* The machine is up, on the server it has claimed.
BecomeReady(m) ==
    /\ phase[m] = "pending"
    /\ claim[m] # None
    /\ phase' = [phase EXCEPT ![m] = "ready"]
    /\ UNCHANGED <<leaving, claim, released, lost>>

\* The machine cannot be provisioned; it holds on to what it has.
Fail(m) ==
    /\ phase[m] = "pending"
    /\ phase' = [phase EXCEPT ![m] = "failed"]
    /\ \/ UNCHANGED claim
       \/ Free(m) /\ claim' = [claim EXCEPT ![m] = None]
    /\ UNCHANGED <<leaving, released, lost>>

RequestDeletion(m) ==
    /\ phase[m] # "gone"
    /\ leaving' = leaving \union {m}
    /\ phase' \in {phase, [phase EXCEPT ![m] = "gone"]}
    /\ phase'[m] = "gone" => claim[m] = None
    /\ UNCHANGED <<claim, released, lost>>

\* A server is deleted: its machine's deletion was requested.
Release(m) ==
    /\ m \in leaving
    /\ claim[m] # None
    /\ released' = released \union {claim[m]}
    /\ UNCHANGED <<phase, leaving, claim, lost>>

Leave(m) ==
    /\ m \in leaving
    /\ claim[m] # None => claim[m] \in released
    /\ phase' = [phase EXCEPT ![m] = "gone"]
    /\ UNCHANGED <<leaving, claim, released, lost>>

Lose(s) ==
    /\ lost' = lost \union {s}
    /\ UNCHANGED <<phase, leaving, claim, released>>

Next ==
    \/ \E s \in Servers : Lose(s)
    \/ \E m \in Machines :
        \/ \E s \in Servers : Claim(m, s)
        \/ Drop(m)
        \/ BecomeReady(m)
        \/ Fail(m)
        \/ RequestDeletion(m)
        \/ Release(m)
        \/ Leave(m)

Spec == Init /\ [][Next]_vars
=============================================================================
