---------------------------- MODULE MCHeaderSync ----------------------------
(***************************************************************************)
(* Small instances of HeaderSync: two slots, three lanes, of which l2 and  *)
(* l3 have no header yet.  Their genesis headers are in every cut and take *)
(* part in its order.                                                      *)
(***************************************************************************)
EXTENDS HeaderSync

CONSTANTS l1, l2, l3

Message(k, s, v, o) == [kind |-> k, slot |-> s, view |-> v, order |-> o]

\* The messages of slot 1 and the Commit of slot 2, no two with the same order
\* of proposals.
TwoSlots == {Message("Prepare", 1, 1, <<l1, l2, l3>>), Message("Confirm", 1, 1, <<l2, l1, l3>>),
             Message("Commit", 1, 1, <<l3, l2, l1>>), Message("Commit", 2, 1, <<l2, l3, l1>>)}

\* The Prepare and the Commit of a slot with the same order.
SameOrder == {Message("Prepare", 1, 1, <<l1, l2, l3>>), Message("Commit", 1, 1, <<l1, l2, l3>>)}

\* A slot's cut is not empty, and two slots do not have the same cut.  The
\* leader of a later view takes the tips it has, which may be behind the cut
\* of the slot before.
SomeCuts == {f \in [Slots -> [Lanes -> 0 .. MaxHeight]] :
                /\ \A s \in Slots : f[s][l1] > 0 /\ f[s][l2] = 0 /\ f[s][l3] = 0
                /\ \A s, t \in Slots : f[s] = f[t] => s = t}

\* Only the second header of l1 arrives by itself.
AllButSecond == Headers \ {<<l1, 2>>}
Second == {<<l1, 2>>}
=============================================================================
