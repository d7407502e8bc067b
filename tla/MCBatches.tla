----------------------------- MODULE MCBatches -----------------------------
(***************************************************************************)
(* A small instance of Batches: one worker makes batches, the partition    *)
(* puts it on a side of its own.                                           *)
(***************************************************************************)
EXTENDS Batches

CONSTANTS r1, r2

Alone == [r \in Replicas |-> {r}]
=============================================================================
