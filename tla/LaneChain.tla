------------------------------ MODULE LaneChain ------------------------------
(***************************************************************************)
(* What dissemination promises the consensus: every author has a chain of  *)
(* headers, a replica holds a header only with all its ancestors, and a    *)
(* chain is extended only when its last header is held by enough replicas  *)
(* for one of them to survive the faults.                                  *)
(***************************************************************************)
EXTENDS Integers, FiniteSets

CONSTANTS
    Replicas,
    Threshold,      \* how many replicas hold a header that has a child
    MaxHeight       \* bound: author -> the last height of its lane

VARIABLES
    lane,           \* the height of each author's last header
    held            \* the headers each replica holds

vars == <<lane, held>>

Holders(x) == {r \in Replicas : x \in held[r]}

Init ==
    /\ lane = [a \in Replicas |-> 0]
    /\ held = [r \in Replicas |-> {}]

\* The author holds its new header at once.
Extend(a) ==
    /\ lane[a] < MaxHeight[a]
    /\ lane[a] > 0 => Cardinality(Holders(<<a, lane[a]>>)) >= Threshold
    /\ lane' = [lane EXCEPT ![a] = @ + 1]
    /\ held' = [held EXCEPT ![a] = @ \cup {<<a, lane[a] + 1>>}]

Hold(r, a, h) ==
    /\ h <= lane[a]
    /\ \A i \in 1 .. h - 1 : <<a, i>> \in held[r]
    /\ held' = [held EXCEPT ![r] = @ \cup {<<a, h>>}]
    /\ UNCHANGED lane

Next ==
    \/ \E a \in Replicas : Extend(a)
    \/ \E r, a \in Replicas : \E h \in 1 .. MaxHeight[a] : Hold(r, a, h)

Spec == Init /\ [][Next]_vars
=============================================================================
