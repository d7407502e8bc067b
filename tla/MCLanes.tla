------------------------------- MODULE MCLanes -------------------------------
(***************************************************************************)
(* Four replicas: f + 1 is 2 and a quorum is 3.                            *)
(***************************************************************************)
EXTENDS Lanes

CONSTANTS r1, r2, r3, r4

FourReplicas == <<r1, r2, r3, r4>>

\* r1 makes two headers, the others none.
TwoHeaders == [r \in Replicas |-> IF r = r1 THEN 2 ELSE 0]
Second == {<<r1, 2>>}
=============================================================================
