------------------------------ MODULE Committee ------------------------------
(***************************************************************************)
(* The committee every replica is configured with (config/src/lib.rs) and  *)
(* the round-robin leader schedule computed from it                        *)
(* (primary/src/leader.rs).  Every authority has stake 1, as in every      *)
(* committee the repository generates, so a weight is a number of          *)
(* replicas.                                                               *)
(***************************************************************************)
EXTENDS Integers, Sequences, FiniteSets

CONSTANT Authorities    \* the public keys, in their sorted order

Replicas == {Authorities[i] : i \in DOMAIN Authorities}
Size == Len(Authorities)

\* With a single authority a vote is a certificate of its own; the thresholds
\* below tell one vote from a quorum from two authorities on.
ASSUME CommitteeAssumption ==
    /\ Authorities \in Seq(Replicas)
    /\ Size >= 2
    /\ \A i, j \in DOMAIN Authorities : Authorities[i] = Authorities[j] => i = j

QuorumThreshold == (2 * Size) \div 3 + 1
ValidityThreshold == (Size + 2) \div 3
FastThreshold == Size

\* The leader of a view of a slot: the sorted keys in turn, shifted by one at
\* every slot and at every view.
Leader(slot, view) == Authorities[((view + slot) % Size) + 1]

IsQuorum(S) == Cardinality(S) >= QuorumThreshold
=============================================================================
