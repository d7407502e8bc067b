--------------------------- MODULE MCEpochReports ---------------------------
(***************************************************************************)
(* A small instance of EpochReports: four replicas, two of which run the   *)
(* code and lead, and one of which may pollute its report.                 *)
(***************************************************************************)
EXTENDS EpochReports

CONSTANTS a, b, c, d

Instance(slot, view) == [slot |-> slot, view |-> view]

SomeInstances == {Instance(1, 1), Instance(2, 1), Instance(2, 2)}

SomeLeader == [i \in SomeInstances |-> IF i.view = 1 THEN a ELSE b]

Rewarded == [r \in {a, b, c, d} |-> IF r = a THEN 1 ELSE IF r = b THEN 2 ELSE 3]
Polluted == [r \in {a, b, c, d} |-> 0]
=============================================================================
