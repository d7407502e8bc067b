--------------------------- MODULE MCSlotPipeline ---------------------------
(***************************************************************************)
(* Two replicas take turns at leading and need each other for every slot;  *)
(* four tolerate one that is down.                                         *)
(***************************************************************************)
EXTENDS SlotPipeline

CONSTANTS r1, r2, r3, r4

TwoReplicas == <<r1, r2>>
FourReplicas == <<r1, r2, r3, r4>>

\* Updates are applied at the second slot of their epoch.
UpAndDown == {[epoch |-> 0, k |-> 2], [epoch |-> 1, k |-> 1]}
=============================================================================
