----------------------------- MODULE OrderedLog -----------------------------
(***************************************************************************)
(* What a replica's Committer promises the application: committed slots    *)
(* are executed one after the other, and a slot delivers every header up   *)
(* to the tips of its cut that no earlier slot delivered, once             *)
(* (primary/src/committer.rs).                                             *)
(***************************************************************************)
EXTENDS Integers

CONSTANTS
    Lanes,          \* the authors of headers
    MaxHeight,      \* bound: the last height of a lane
    MaxSlot         \* bound: the last slot

VARIABLES
    cut,                \* the committed cut of each slot
    last_executed_slot,
    delivered           \* how often each header was output

vars == <<cut, last_executed_slot, delivered>>

Headers == Lanes \X (1 .. MaxHeight)

\* The headers that are delivered once the slots up to s are executed.
Covered(c, s) == {x \in Headers : \E t \in 1 .. s : x[2] <= c[t][x[1]]}

Init ==
    /\ cut \in [1 .. MaxSlot -> [Lanes -> 0 .. MaxHeight]]
    /\ last_executed_slot = 0
    /\ delivered = [x \in Headers |-> 0]

Execute ==
    /\ last_executed_slot < MaxSlot
    /\ last_executed_slot' = last_executed_slot + 1
    /\ delivered' = [x \in Headers |->
           IF x \in Covered(cut, last_executed_slot + 1) THEN 1 ELSE 0]
    /\ UNCHANGED cut

Spec == Init /\ [][Execute]_vars
=============================================================================
