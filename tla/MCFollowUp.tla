----------------------------- MODULE MCFollowUp -----------------------------
(* Instances of FollowUp: the message of a user and two follow-ups.        *)
EXTENDS FollowUp

CONSTANTS e1, e2, e3, alice

Three == {e1, e2, e3}

OneUser == [e \in Events |-> alice]

AllFaults == FaultKinds
LoopFault == {"loop"}
=============================================================================
