--------------------------- MODULE CommitteeProofs ---------------------------
EXTENDS Committee, FiniteSetTheorems, WellFoundedInduction, TLAPS

LEMMA SizeIsNatural == Size \in Nat /\ Size >= 2
BY CommitteeAssumption DEF Size

\* There are Size replicas: the sorted keys are a bijection.
LEMMA ReplicasFinite == IsFiniteSet(Replicas) /\ Cardinality(Replicas) = Size
<1>1. DOMAIN Authorities = 1 .. Size
  BY CommitteeAssumption DEF Size
<1>2. Authorities \in Bijection(1 .. Size, Replicas)
  <2>1. Authorities \in [1 .. Size -> Replicas]
    BY <1>1, CommitteeAssumption DEF Size
  <2>2. \A i, j \in 1 .. Size : Authorities[i] = Authorities[j] => i = j
    BY <1>1, CommitteeAssumption
  <2>3. \A r \in Replicas : \E i \in 1 .. Size : Authorities[i] = r
    BY <1>1 DEF Replicas
  <2> QED
    BY <2>1, <2>2, <2>3 DEF Bijection, Injection, Surjection, IsInjective
<1>3. IsFiniteSet(1 .. Size) /\ Cardinality(1 .. Size) = Size
  BY FS_Interval, SizeIsNatural
<1> QED
  BY <1>2, <1>3, FS_Bijection DEF ExistsBijection

LEMMA SubsetsFinite ==
    ASSUME NEW S, S \subseteq Replicas
    PROVE  IsFiniteSet(S) /\ Cardinality(S) \in Nat /\ Cardinality(S) <= Size
BY ReplicasFinite, FS_Subset, FS_CardinalityType

LEMMA LeaderIsReplica == \A slot, view \in Nat : Leader(slot, view) \in Replicas
<1>1. \A n \in Nat : (n % Size) + 1 \in 1 .. Size
  BY SizeIsNatural
<1>2. DOMAIN Authorities = 1 .. Size
  BY CommitteeAssumption DEF Size
<1> QED
  BY <1>1, <1>2 DEF Leader, Replicas

LEMMA QuorumBounds ==
    /\ QuorumThreshold \in Nat
    /\ QuorumThreshold >= 2
    /\ QuorumThreshold <= FastThreshold
    /\ 2 * QuorumThreshold > Size
BY SizeIsNatural DEF QuorumThreshold, FastThreshold

\* Everyone voted when as many votes as replicas are there.
LEMMA FullSet ==
    ASSUME NEW S, S \subseteq Replicas, Cardinality(S) >= Size
    PROVE  S = Replicas
BY ReplicasFinite, SubsetsFinite, FS_Subset

(***************************************************************************)
(* Two quorums share at least as many replicas as the validity threshold   *)
(* (f + 1) asks for: what a quorum voted for is reported by that many of   *)
(* any quorum of Timeouts.                                                 *)
(***************************************************************************)
THEOREM QuorumsShareValidity ==
    ASSUME NEW P, NEW Q, P \subseteq Replicas, Q \subseteq Replicas,
           IsQuorum(P), IsQuorum(Q)
    PROVE  Cardinality(P \cap Q) >= ValidityThreshold
<1>1. /\ IsFiniteSet(P) /\ Cardinality(P) \in Nat
      /\ IsFiniteSet(Q) /\ Cardinality(Q) \in Nat
      /\ Cardinality(P \cap Q) \in Nat
      /\ Cardinality(P \cup Q) \in Nat /\ Cardinality(P \cup Q) <= Size
  <2>1. P \cap Q \subseteq Replicas /\ P \cup Q \subseteq Replicas
    OBVIOUS
  <2> QED
    BY <2>1, SubsetsFinite
<1>2. Cardinality(P \cup Q) = Cardinality(P) + Cardinality(Q) - Cardinality(P \cap Q)
  BY <1>1, FS_Union
<1>3. Cardinality(P) >= QuorumThreshold /\ Cardinality(Q) >= QuorumThreshold
  BY DEF IsQuorum
<1>4. 2 * QuorumThreshold - Size >= ValidityThreshold
  BY SizeIsNatural DEF QuorumThreshold, ValidityThreshold
<1> QED
  BY <1>1, <1>2, <1>3, <1>4, QuorumBounds, SizeIsNatural DEF ValidityThreshold
-----------------------------------------------------------------------------
(***************************************************************************)
(* Induction, for the proofs that walk over slots, views or a sequence: it *)
(* is stated for sets, as the first-order provers can instantiate them.    *)
(***************************************************************************)
\* A set of numbers has a least one.
LEMMA LeastNatural ==
    ASSUME NEW T, T \subseteq Nat, T # {}
    PROVE  \E x \in T : \A y \in T : x <= y
<1> PICK R : R = {p \in Nat \X Nat : p[1] < p[2]}
  OBVIOUS
<1>1. IsWellFoundedOn(R, Nat)
  BY NatLessThanWellFounded DEF OpToRel
<1>2. PICK x \in T : \A y \in T : <<y, x>> \notin R
  BY <1>1, WFMin
<1>3. \A y \in T : ~(y < x)
  <2> SUFFICES ASSUME NEW y \in T, y < x PROVE FALSE
    OBVIOUS
  <2>1. <<y, x>> \in R
    OBVIOUS
  <2> QED
    BY <1>2, <2>1
<1> QED
  BY <1>3

\* Induction up to n, for the set of the numbers that satisfy what is proved.
LEMMA UpTo ==
    ASSUME NEW n \in Nat, NEW T, 0 \in T, \A i \in 1 .. n : i - 1 \in T => i \in T
    PROVE  \A i \in 0 .. n : i \in T
<1> SUFFICES ASSUME NEW k \in 0 .. n, k \notin T PROVE FALSE
  OBVIOUS
<1>1. PICK x \in 0 .. n \ T : \A y \in 0 .. n \ T : x <= y
  <2> PICK U : U = (0 .. n) \ T
    OBVIOUS
  <2>1. U \subseteq Nat /\ U # {}
    OBVIOUS
  <2>2. PICK x \in U : \A y \in U : x <= y
    BY <2>1, LeastNatural
  <2> QED
    BY <2>2
<1>2. x \in 1 .. n /\ x - 1 \in 0 .. n /\ x - 1 < x
  BY <1>1
<1>3. x - 1 \in T
  BY <1>1, <1>2
<1> QED
  BY <1>1, <1>2, <1>3
=============================================================================
