------------------------- MODULE EpochReportsProofs -------------------------
(***************************************************************************)
(* What the certificate of an epoch is worth: it never changes, and the    *)
(* reward derived from it lies between rewards of correct replicas.  The   *)
(* inductive invariant says of every aggregate that is pending, proposed   *)
(* or certified that it holds reports of 2f+1 replicas.                    *)
(***************************************************************************)
EXTENDS EpochReports, FiniteSetTheorems, WellFoundedInduction, TLAPS

-----------------------------------------------------------------------------
(***************************************************************************)
(* The median.                                                             *)
(***************************************************************************)
LEMMA LeastNatural ==
    ASSUME NEW T \in SUBSET Nat, T # {}
    PROVE  \E n \in T : \A m \in T : n <= m
<1> DEFINE R == OpToRel(<, Nat)
<1>1. \A m, n \in Nat : m < n => <<m, n>> \in R
  BY DEF OpToRel
<1>2. IsWellFoundedOn(R, Nat)
  BY NatLessThanWellFounded
<1> HIDE DEF R
<1>3. PICK n \in T : \A m \in T : <<m, n>> \notin R
  BY <1>2, WFMin
<1>4. n \in Nat /\ \A m \in T : m \in Nat /\ ~(m < n)
  BY <1>1, <1>3
<1>5. \A m \in T : n <= m
  BY <1>4
<1> QED
  BY <1>5

LEMMA ReplicasFinite ==
    /\ IsFiniteSet(Replicas) /\ Cardinality(Replicas) \in Nat
    /\ IsFiniteSet(Polluters) /\ Cardinality(Polluters) \in Nat
    /\ f \in Nat /\ Cardinality(Polluters) <= f
<1>1. IsFiniteSet(Replicas) /\ Cardinality(Replicas) \in Nat
  BY EpochReportsAssumption, FS_CardinalityType
<1>2. IsFiniteSet(Polluters) /\ Cardinality(Polluters) \in Nat
  BY <1>1, EpochReportsAssumption, FS_Subset, FS_CardinalityType
<1> QED
  BY <1>1, <1>2, EpochReportsAssumption DEF f

\* How many of S have a value below v, and at most v.
Below(g, v) == {a \in DOMAIN g : g[a] < v}
UpTo(g, v) == {a \in DOMAIN g : g[a] <= v}

LEMMA Parts ==
    ASSUME NEW S, IsFiniteSet(S), NEW g \in [S -> Int], NEW v \in Int
    PROVE  /\ Cardinality(S) \in Nat
           /\ Below(g, v) \subseteq S /\ IsFiniteSet(Below(g, v))
           /\ Cardinality(Below(g, v)) \in Nat
           /\ UpTo(g, v) \subseteq S /\ IsFiniteSet(UpTo(g, v))
           /\ Cardinality(UpTo(g, v)) \in Nat
<1>1. Below(g, v) \subseteq S /\ UpTo(g, v) \subseteq S
  BY DEF Below, UpTo
<1> QED
  BY <1>1, FS_Subset, FS_CardinalityType

\* A value of g that is below another one has fewer values below it.
LEMMA FewerBelow ==
    ASSUME NEW S, IsFiniteSet(S), NEW g \in [S -> Int], NEW a \in S, NEW w \in Int,
           g[a] < w
    PROVE  Cardinality(Below(g, g[a])) < Cardinality(Below(g, w))
<1>1. Below(g, g[a]) \subseteq Below(g, w) /\ a \in Below(g, w) /\ a \notin Below(g, g[a])
  BY DEF Below
<1>2. IsFiniteSet(Below(g, w)) /\ Cardinality(Below(g, w)) \in Nat
      /\ Cardinality(Below(g, g[a])) \in Nat
  BY Parts
<1>3. Cardinality(Below(g, g[a])) <= Cardinality(Below(g, w))
      /\ Cardinality(Below(g, g[a])) # Cardinality(Below(g, w))
  BY <1>1, <1>2, FS_Subset
<1> QED
  BY <1>2, <1>3

\* Of the members of S that are in T, one has the least value.
LEMMA LeastValue ==
    ASSUME NEW S, IsFiniteSet(S), NEW g \in [S -> Int], NEW T \in SUBSET S, T # {}
    PROVE  \E a \in T : \A b \in T : g[a] <= g[b]
<1> DEFINE Count(a) == Cardinality(Below(g, g[a]))
<1>1. \A a \in S : Count(a) \in Nat
  BY Parts
<1>2. PICK n \in {Count(a) : a \in T} : \A m \in {Count(a) : a \in T} : n <= m
  <2>1. {Count(a) : a \in T} \in SUBSET Nat /\ {Count(a) : a \in T} # {}
    BY <1>1
  <2> QED
    BY <2>1, LeastNatural
<1>3. PICK a \in T : n = Count(a)
  BY <1>2
<1>4. ASSUME NEW b \in T, g[b] < g[a] PROVE FALSE
  <2>1. Count(b) < Count(a)
    BY <1>4, FewerBelow
  <2>2. Count(a) <= Count(b)
    BY <1>2, <1>3
  <2> QED
    BY <2>1, <2>2, <1>1
<1>5. \A b \in T : g[a] \in Int /\ g[b] \in Int
  OBVIOUS
<1> QED
  BY <1>4, <1>5

LEMMA NthIsBetween ==
    ASSUME NEW S, IsFiniteSet(S), NEW g \in [S -> Int], NEW k \in 1 .. Cardinality(S)
    PROVE  /\ Nth(g, k) \in Int
           /\ Cardinality(Below(g, Nth(g, k))) < k
           /\ Cardinality(UpTo(g, Nth(g, k))) >= k
<1> DEFINE Count(a) == Cardinality(Below(g, g[a]))
           T == {a \in S : Count(a) < k}
<1>0. Cardinality(S) \in Nat /\ k \in Nat /\ 1 <= k /\ k <= Cardinality(S)
  BY FS_CardinalityType
<1>1. \A a \in S : Count(a) \in Nat
  BY Parts
<1>2. T # {}
  <2>1. S # {}
    BY <1>0, FS_EmptySet
  <2>2. PICK a \in S : \A b \in S : g[a] <= g[b]
    BY <2>1, LeastValue
  <2>3. \A b \in S : g[a] \in Int /\ g[b] \in Int /\ ~(g[b] < g[a])
    BY <2>2
  <2>4. Below(g, g[a]) = {}
    BY <2>3 DEF Below
  <2>5. Count(a) = 0
    BY <2>4, FS_EmptySet
  <2> QED
    BY <2>5, <1>0
<1>3. PICK a \in T : \A b \in T : Count(b) <= Count(a)
  <2> DEFINE Rest == {k - Count(b) : b \in T}
  <2>1. Rest \in SUBSET Nat
    BY <1>0, <1>1
  <2>2. Rest # {}
    BY <1>2
  <2>3. PICK n \in Rest : \A m \in Rest : n <= m
    BY <2>1, <2>2, LeastNatural
  <2>4. PICK a \in T : n = k - Count(a)
    BY <2>3
  <2>5. \A b \in T : k - Count(a) <= k - Count(b)
    BY <2>3, <2>4
  <2>6. \A b \in T : Count(a) \in Nat /\ Count(b) \in Nat
    BY <1>1
  <2> HIDE DEF Count
  <2> QED
    BY <2>5, <2>6, <1>0
<1>4. g[a] \in Int /\ Count(a) < k
  BY <1>3
<1>5. Cardinality(UpTo(g, g[a])) >= k
  <2> DEFINE U == UpTo(g, g[a])
  <2>1. Cardinality(U) \in Nat /\ U \subseteq S /\ IsFiniteSet(U)
    BY <1>4, Parts
  <2> SUFFICES ASSUME Cardinality(U) < k PROVE FALSE
    BY <2>1, <1>0
  <2>2. S \ U # {}
    <3>1. U # S
      BY <2>1, <1>0
    <3> QED
      BY <3>1, <2>1
  <2>3. PICK b \in S \ U : \A c \in S \ U : g[b] <= g[c]
    BY <2>2, LeastValue
  <2>4. g[a] < g[b]
    BY <2>3, <1>4 DEF UpTo
  <2>5. Below(g, g[b]) = U
    <3>1. \A c \in S : g[c] \in Int /\ (c \in U <=> g[c] <= g[a])
      BY DEF UpTo
    <3>2. \A c \in S : c \notin U => ~(g[c] < g[b])
      BY <2>3, <3>1
    <3>3. \A c \in S : c \in U => g[c] < g[b]
      BY <2>4, <3>1, <1>4
    <3>4. \A c \in S : c \in Below(g, g[b]) <=> g[c] < g[b]
      BY DEF Below
    <3>5. Below(g, g[b]) \subseteq S
      BY DEF Below
    <3> QED
      BY <3>2, <3>3, <3>4, <3>5, <2>1
  <2>6. b \in T
    BY <2>5
  <2>7. Count(a) < Count(b)
    BY <2>4, FewerBelow
  <2>8. Count(b) <= Count(a) /\ Count(a) \in Nat /\ Count(b) \in Nat
    BY <2>6, <1>3, <1>1
  <2> HIDE DEF Count
  <2> QED
    BY <2>7, <2>8
<1> DEFINE Good(v) == /\ Cardinality(Below(g, v)) < k
                     /\ Cardinality(UpTo(g, v)) >= k
<1>6. g[a] \in {g[b] : b \in DOMAIN g} /\ Good(g[a])
  BY <1>3, <1>4, <1>5
<1>7. Nth(g, k) = CHOOSE v \in {g[b] : b \in DOMAIN g} : Good(v)
  BY DEF Nth, Below, UpTo
<1>8. Nth(g, k) \in {g[b] : b \in DOMAIN g} /\ Good(Nth(g, k))
  <2> HIDE DEF Good
  <2> QED
    BY <1>6, <1>7
<1> QED
  BY <1>8

\* Not all of more than f replicas are polluters.
LEMMA OneIsCorrect ==
    ASSUME NEW S \in SUBSET Replicas, Cardinality(S) > f
    PROVE  \E a \in S : a \notin Polluters
<1> SUFFICES ASSUME S \subseteq Polluters PROVE FALSE
  OBVIOUS
<1>1. Cardinality(S) <= Cardinality(Polluters)
  BY ReplicasFinite, FS_Subset
<1>2. Cardinality(S) \in Nat
  BY ReplicasFinite, FS_Subset, FS_CardinalityType
<1> QED
  BY <1>1, <1>2, ReplicasFinite

\* Below the median, and above it, there are more than f of 2f+1 replicas.
LEMMA MedianIsRobust ==
    ASSUME NEW S \in SUBSET Replicas, Cardinality(S) >= 2 * f + 1, NEW g \in [S -> Int]
    PROVE  LET v == Nth(g, (Cardinality(S) + 1) \div 2) IN
           \E a, b \in S \ Polluters : g[a] <= v /\ v <= g[b]
<1> DEFINE N == Cardinality(S)
           k == (N + 1) \div 2
           v == Nth(g, k)
           Low == UpTo(g, v)
           High == S \ Below(g, v)
<1>1. IsFiniteSet(S) /\ N \in Nat
  BY ReplicasFinite, FS_Subset, FS_CardinalityType
<1>2. k \in 1 .. N /\ k > f /\ N - k >= f
  BY <1>1, ReplicasFinite
<1> HIDE DEF k, N
<1>3. v \in Int /\ Cardinality(Below(g, v)) < k /\ Cardinality(Low) >= k
  BY <1>1, <1>2, NthIsBetween DEF N
<1>4. /\ Below(g, v) \subseteq S /\ IsFiniteSet(Below(g, v)) /\ Cardinality(Below(g, v)) \in Nat
      /\ Low \subseteq S /\ Cardinality(Low) \in Nat
  BY <1>1, <1>3, Parts
<1>5. Cardinality(High) = N - Cardinality(Below(g, v))
  <2>1. S \cap Below(g, v) = Below(g, v)
    BY <1>4
  <2> QED
    BY <1>1, <1>4, <2>1, FS_Difference DEF N
<1> HIDE DEF v
<1>6. Cardinality(Low) > f /\ Cardinality(High) > f
  BY <1>1, <1>2, <1>3, <1>4, <1>5, ReplicasFinite
<1>7. PICK a \in Low : a \notin Polluters
  BY <1>4, <1>6, OneIsCorrect
<1>8. PICK b \in High : b \notin Polluters
  BY <1>6, OneIsCorrect
<1>9. a \in S /\ g[a] <= v
  BY <1>4, <1>7 DEF UpTo
<1>10. b \in S /\ v <= g[b]
  BY <1>8, <1>3 DEF Below
<1> QED
  BY <1>7, <1>8, <1>9, <1>10 DEF v, k, N

-----------------------------------------------------------------------------
(***************************************************************************)
(* The aggregates.                                                         *)
(***************************************************************************)
IsReport(m) == m.author \in Replicas /\ m = Report(m.epoch, m.author)

Aggregates(e) ==
    {A \in SUBSET {Report(e, a) : a \in Replicas} : Cardinality(A) >= 2 * f + 1}

EpochOf(i) == epoch_index_for_slot(i.slot)

StateInv ==
    /\ state \in [Replicas -> Int]
    /\ \A a \in Replicas \ Polluters : state[a] = Reward[a]

ReportsInv ==
    /\ \A m \in broadcast : IsReport(m)
    /\ DOMAIN state_reports = Cores
    /\ \A r \in Cores : \A m \in state_reports[r] : IsReport(m)

PendingInv ==
    /\ DOMAIN pending_aggregate_reports = Cores
    /\ \A r \in Cores :
           /\ DOMAIN pending_aggregate_reports[r] = Epochs
           /\ \A e \in Epochs :
                  pending_aggregate_reports[r][e] \in Aggregates(e) \cup {NoReport}

PreparesInv ==
    \A i \in DOMAIN prepares :
        i \in Instances /\ prepares[i] \in Aggregates(EpochOf(i)) \cup {NoReport}

CertifiableInv ==
    /\ DOMAIN certifiable_aggregate_reports = Cores
    /\ \A r \in Cores : \A i \in certifiable_aggregate_reports[r] :
           i \in DOMAIN prepares /\ prepares[i] # NoReport

CertifiedInv ==
    /\ DOMAIN certified_aggregate_epochs = Cores
    /\ \A r \in Cores : \A e \in DOMAIN certified_aggregate_epochs[r] :
           certified_aggregate_epochs[r][e] \in Aggregates(e)

ReportInv ==
    /\ StateInv /\ ReportsInv /\ PendingInv /\ PreparesInv /\ CertifiableInv
    /\ CertifiedInv

\* The epoch of a slot that may be proposed is one of Epochs.
LEMMA InstanceEpochs == \A i \in Instances : EpochOf(i) \in Epochs
<1> SUFFICES ASSUME NEW i \in Instances PROVE EpochOf(i) \in Epochs
  OBVIOUS
<1> DEFINE n == i.slot - 1
           m == MaxSlot - 1
           d == epoch_slots
<1>1. n \in Nat /\ m \in Nat /\ n <= m /\ d \in Nat \ {0}
  BY EpochReportsAssumption
<1>2. EpochOf(i) = n \div d /\ epoch_index_for_slot(MaxSlot) = m \div d
  BY EpochReportsAssumption DEF EpochOf, epoch_index_for_slot
<1> HIDE DEF n, m, d
<1>3. n \div d \in Nat /\ m \div d \in Nat /\ n \div d <= m \div d
  <2>1. /\ n \div d \in Nat /\ m \div d \in Nat /\ n % d \in 0 .. d - 1 /\ m % d \in 0 .. d - 1
        /\ n = d * (n \div d) + (n % d) /\ m = d * (m \div d) + (m % d)
    BY <1>1
  <2>2. \A p, q \in Nat : p >= q + 1 => d * p >= d * q + d
    BY <1>1
  <2> QED
    BY <1>1, <2>1, <2>2
<1> QED
  BY <1>2, <1>3 DEF Epochs

\* The authors of an aggregate are as many as its reports.
LEMMA AuthorsOf ==
    ASSUME NEW e, NEW A \in SUBSET {Report(e, a) : a \in Replicas}
    PROVE  LET S == {m.author : m \in A} IN
           S \in SUBSET Replicas /\ IsFiniteSet(A) /\ Cardinality(A) = Cardinality(S)
<1> DEFINE S == {m.author : m \in A}
           h == [a \in S |-> Report(e, a)]
<1>1. \A m \in A : m.author \in Replicas /\ m = Report(e, m.author)
  BY DEF Report
<1>2. S \in SUBSET Replicas
  BY <1>1
<1>3. IsFiniteSet(S)
  BY <1>2, ReplicasFinite, FS_Subset
<1>4. h \in Bijection(S, A)
  <2>1. h \in [S -> A]
    BY <1>1
  <2>2. \A a, b \in S : h[a] = h[b] => a = b
    BY DEF Report
  <2>3. \A m \in A : \E a \in S : h[a] = m
    BY <1>1
  <2> QED
    BY <2>1, <2>2, <2>3 DEF Bijection, Injection, Surjection, IsInjective
<1> QED
  BY <1>2, <1>3, <1>4, FS_Bijection DEF ExistsBijection

LEMMA NoReportIsNone == \A e : NoReport \notin Aggregates(e)
BY ReplicasFinite, FS_EmptySet DEF NoReport, Aggregates

\* Enough reports of an epoch are an aggregate of it.
LEMMA EnoughReports ==
    ASSUME NEW e, NEW reports, \A m \in reports : IsReport(m), NEW b \in BOOLEAN,
           Cardinality(Of(e, reports)) >= Threshold(b)
    PROVE  Of(e, reports) \in Aggregates(e)
<1>1. Of(e, reports) \in SUBSET {Report(e, a) : a \in Replicas}
  BY DEF Of, IsReport, Report
<1>2. Cardinality(Of(e, reports)) \in Nat
  BY <1>1, AuthorsOf, FS_CardinalityType
<1>3. Threshold(b) \in Nat /\ Threshold(b) >= 2 * f + 1
  BY ReplicasFinite DEF Threshold
<1> QED
  BY <1>1, <1>2, <1>3, ReplicasFinite DEF Aggregates

LEMMA OrInsertKeeps ==
    ASSUME NEW pending, DOMAIN pending = Epochs,
           \A e \in Epochs : pending[e] \in Aggregates(e) \cup {NoReport},
           NEW d, NEW A \in Aggregates(d) \cup {NoReport}
    PROVE  /\ DOMAIN OrInsert(pending, d, A) = Epochs
           /\ \A e \in Epochs : OrInsert(pending, d, A)[e] \in Aggregates(e) \cup {NoReport}
BY DEF OrInsert

LEMMA BuildKeeps ==
    ASSUME PendingInv, NEW r \in Cores, NEW e, NEW reports,
           \A m \in reports : IsReport(m), NEW b \in BOOLEAN,
           try_build_aggregate_report(r, e, reports, b)
    PROVE  PendingInv'
<1>1. CASE UNCHANGED pending_aggregate_reports
  BY <1>1 DEF PendingInv
<1>2. CASE /\ Cardinality(Of(e, reports)) >= Threshold(b)
           /\ pending_aggregate_reports' =
                  [pending_aggregate_reports EXCEPT ![r] = OrInsert(@, e, Of(e, reports))]
  <2>1. Of(e, reports) \in Aggregates(e)
    BY <1>2, EnoughReports
  <2>2. /\ DOMAIN OrInsert(pending_aggregate_reports[r], e, Of(e, reports)) = Epochs
        /\ \A d \in Epochs : OrInsert(pending_aggregate_reports[r], e, Of(e, reports))[d]
                            \in Aggregates(d) \cup {NoReport}
    BY <2>1, OrInsertKeeps DEF PendingInv
  <2> QED
    BY <1>2, <2>2 DEF PendingInv
<1> QED
  BY <1>1, <1>2 DEF try_build_aggregate_report

LEMMA SeeKeeps ==
    ASSUME PendingInv, CertifiableInv, NEW r \in Cores, NEW i, NEW A,
           A \in Aggregates(EpochOf(i)) \cup {NoReport},
           i \in DOMAIN prepares', prepares'[i] = A,
           \A j \in DOMAIN prepares : j \in DOMAIN prepares' /\ prepares'[j] = prepares[j],
           SeePrepare(r, i, A)
    PROVE  PendingInv' /\ CertifiableInv'
<1>1. PendingInv'
  <2>1. /\ DOMAIN OrInsert(pending_aggregate_reports[r], EpochOf(i), A) = Epochs
        /\ \A d \in Epochs : OrInsert(pending_aggregate_reports[r], EpochOf(i), A)[d]
                            \in Aggregates(d) \cup {NoReport}
    BY OrInsertKeeps DEF PendingInv
  <2>2. \/ UNCHANGED pending_aggregate_reports
        \/ pending_aggregate_reports' =
               [pending_aggregate_reports EXCEPT ![r] = OrInsert(@, EpochOf(i), A)]
    BY DEF SeePrepare, EpochOf
  <2> QED
    BY <2>1, <2>2 DEF PendingInv
<1>2. CertifiableInv'
  <2>1. \/ UNCHANGED certifiable_aggregate_reports
        \/ /\ A # NoReport
           /\ certifiable_aggregate_reports' =
                  [certifiable_aggregate_reports EXCEPT ![r] = @ \cup {i}]
    BY DEF SeePrepare
  <2> QED
    BY <2>1 DEF CertifiableInv
<1> QED
  BY <1>1, <1>2

LEMMA InvInit == Init => ReportInv
<1> SUFFICES ASSUME Init PROVE ReportInv
  OBVIOUS
<1>1. StateInv
  BY EpochReportsAssumption DEF Init, StateInv
<1>2. ReportsInv /\ PendingInv /\ CertifiableInv
  BY DEF Init, ReportsInv, PendingInv, CertifiableInv
<1>3. PreparesInv /\ CertifiedInv
  BY DEF Init, PreparesInv, CertifiedInv
<1> QED
  BY <1>1, <1>2, <1>3 DEF ReportInv

\* The state of a replica is what it is.
LEMMA StateStays == [Next]_vars => state' = state
BY DEF Next, vars, collectVars, handle_metrics_state_message, handle_state_report, OthersReport,
       CollectionTimer, Propose, ReceivePrepare, ReceiveCommit, CollectMetrics

LEMMA RecordKeeps ==
    ASSUME ReportsInv, PendingInv, NEW r \in Cores, NEW m, IsReport(m),
           RecordStateReport(r, m), \A n \in broadcast' : IsReport(n)
    PROVE  ReportsInv' /\ PendingInv'
<1>1. state_reports' = [state_reports EXCEPT ![r] = state_reports[r] \cup {m}]
  BY DEF RecordStateReport
<1>2. ReportsInv'
  BY <1>1 DEF ReportsInv
<1>3. PendingInv'
  <2>1. try_build_aggregate_report(r, m.epoch, state_reports[r] \cup {m}, FALSE)
    BY DEF RecordStateReport
  <2>2. \A n \in state_reports[r] \cup {m} : IsReport(n)
    BY DEF ReportsInv
  <2> HIDE DEF ReportsInv
  <2> QED
    BY <2>1, <2>2, BuildKeeps
<1> QED
  BY <1>2, <1>3

LEMMA PersistKeeps ==
    ASSUME PendingInv, PreparesInv, CertifiableInv, CertifiedInv, NEW r \in Cores,
           NEW i \in DOMAIN prepares, persist_coordination_certificate(r, i),
           UNCHANGED prepares
    PROVE  PendingInv' /\ CertifiableInv' /\ CertifiedInv'
<1> DEFINE e == EpochOf(i)
<1>1. CASE ~IsCertifiable(r, i)
  BY <1>1 DEF persist_coordination_certificate, PendingInv, CertifiableInv, CertifiedInv
<1>2. CASE IsCertifiable(r, i)
  <2>1. /\ certified_aggregate_epochs' = [certified_aggregate_epochs EXCEPT ![r] =
               [x \in DOMAIN @ \cup {e} |-> IF x = e THEN prepares[i] ELSE @[x]]]
        /\ pending_aggregate_reports' = [pending_aggregate_reports EXCEPT ![r][e] = NoReport]
        /\ certifiable_aggregate_reports' = [certifiable_aggregate_reports EXCEPT ![r] =
               {j \in @ : j.slot # i.slot}]
    BY <1>2 DEF persist_coordination_certificate, EpochOf
  <2>2. prepares[i] \in Aggregates(e)
    BY <1>2 DEF IsCertifiable, CertifiableInv, PreparesInv
  <2> HIDE DEF e
  <2>3. CertifiedInv'
    BY <2>1, <2>2 DEF CertifiedInv
  <2>4. PendingInv'
    BY <2>1 DEF PendingInv
  <2>5. CertifiableInv'
    BY <2>1 DEF CertifiableInv
  <2> QED
    BY <2>3, <2>4, <2>5
<1> QED
  BY <1>1, <1>2

LEMMA InvStep == ReportInv /\ [Next]_vars => ReportInv'
<1> SUFFICES ASSUME ReportInv, [Next]_vars PROVE ReportInv'
  OBVIOUS
<1>0. StateInv /\ ReportsInv /\ PendingInv /\ PreparesInv /\ CertifiableInv /\ CertifiedInv
  BY DEF ReportInv
<1>1. StateInv'
  BY <1>0, StateStays DEF StateInv
<1>2. ASSUME NEW r \in Cores, handle_metrics_state_message(r) PROVE ReportInv'
  <2>1. PICK e \in requests[r] :
            /\ broadcast' = broadcast \cup {Report(e, r)}
            /\ RecordStateReport(r, Report(e, r))
    BY <1>2 DEF handle_metrics_state_message
  <2>2. IsReport(Report(e, r))
    BY EpochReportsAssumption DEF IsReport, Report
  <2>3. \A n \in broadcast' : IsReport(n)
    BY <1>0, <2>1, <2>2 DEF ReportsInv
  <2>4. ReportsInv' /\ PendingInv'
    BY <1>0, <2>1, <2>2, <2>3, RecordKeeps
  <2>5. PreparesInv' /\ CertifiableInv' /\ CertifiedInv'
    BY <1>0, <1>2 DEF handle_metrics_state_message, PreparesInv, CertifiableInv, CertifiedInv
  <2> QED
    BY <1>1, <2>4, <2>5 DEF ReportInv
<1>3. ASSUME NEW r \in Cores, handle_state_report(r) PROVE ReportInv'
  <2>1. PICK m \in broadcast : RecordStateReport(r, m)
    BY <1>3 DEF handle_state_report
  <2>2. IsReport(m) /\ \A n \in broadcast' : IsReport(n)
    BY <1>0, <1>3 DEF ReportsInv, handle_state_report, collectVars
  <2>3. ReportsInv' /\ PendingInv'
    BY <1>0, <2>1, <2>2, RecordKeeps
  <2>4. PreparesInv' /\ CertifiableInv' /\ CertifiedInv'
    BY <1>0, <1>3 DEF handle_state_report, PreparesInv, CertifiableInv, CertifiedInv
  <2> QED
    BY <1>1, <2>3, <2>4 DEF ReportInv
<1>4. ASSUME NEW r \in Cores, CollectionTimer(r) PROVE ReportInv'
  <2>1. PICK e \in collection_timer_futures[r] :
            try_build_aggregate_report(r, e, state_reports[r], TRUE)
    BY <1>4 DEF CollectionTimer
  <2>2. \A m \in state_reports[r] : IsReport(m)
    BY <1>0 DEF ReportsInv
  <2>3. PendingInv'
    BY <1>0, <2>1, <2>2, BuildKeeps
  <2>4. ReportsInv'
    BY <1>0, <1>4 DEF CollectionTimer, ReportsInv, collectVars
  <2>5. PreparesInv' /\ CertifiableInv' /\ CertifiedInv'
    BY <1>0, <1>4 DEF CollectionTimer, PreparesInv, CertifiableInv, CertifiedInv
  <2> QED
    BY <1>1, <2>3, <2>4, <2>5 DEF ReportInv
<1>5. ASSUME NEW r \in Cores, Propose(r) PROVE ReportInv'
  <2> DEFINE A(i) == pending_aggregate_reports[r][EpochOf(i)]
  <2>1. PICK i \in Instances \ DOMAIN prepares :
            /\ prepares' = [j \in DOMAIN prepares \cup {i} |->
                               IF j = i THEN A(i) ELSE prepares[j]]
            /\ SeePrepare(r, i, A(i))
    BY <1>5 DEF Propose, EpochOf
  <2>2. A(i) \in Aggregates(EpochOf(i)) \cup {NoReport}
    BY <1>0, <2>1, InstanceEpochs DEF PendingInv
  <2> HIDE DEF A
  <2>3. /\ DOMAIN prepares' = DOMAIN prepares \cup {i} /\ prepares'[i] = A(i)
        /\ \A j \in DOMAIN prepares : prepares'[j] = prepares[j]
    BY <2>1
  <2>4. PreparesInv'
    BY <1>0, <2>1, <2>2, <2>3 DEF PreparesInv
  <2>5. PendingInv' /\ CertifiableInv'
    BY <1>0, <2>1, <2>2, <2>3, SeeKeeps
  <2>6. ReportsInv' /\ CertifiedInv'
    BY <1>0, <1>5 DEF Propose, ReportsInv, CertifiedInv, collectVars, reportVars
  <2> QED
    BY <1>1, <2>4, <2>5, <2>6 DEF ReportInv
<1>6. ASSUME NEW r \in Cores, ReceivePrepare(r) PROVE ReportInv'
  <2>1. PICK i \in DOMAIN prepares : SeePrepare(r, i, prepares[i])
    BY <1>6 DEF ReceivePrepare
  <2>2. UNCHANGED prepares
    BY <1>6 DEF ReceivePrepare
  <2>3. prepares[i] \in Aggregates(EpochOf(i)) \cup {NoReport}
    BY <1>0 DEF PreparesInv
  <2>4. PendingInv' /\ CertifiableInv'
    BY <1>0, <2>1, <2>2, <2>3, SeeKeeps
  <2>5. ReportsInv' /\ PreparesInv' /\ CertifiedInv'
    BY <1>0, <1>6 DEF ReceivePrepare, ReportsInv, PreparesInv, CertifiedInv, collectVars,
                      reportVars
  <2> QED
    BY <1>1, <2>4, <2>5 DEF ReportInv
<1>7. ASSUME NEW r \in Cores, ReceiveCommit(r) PROVE ReportInv'
  <2>1. PICK i \in DOMAIN prepares : persist_coordination_certificate(r, i)
    BY <1>7 DEF ReceiveCommit
  <2>2. UNCHANGED prepares
    BY <1>7 DEF ReceiveCommit
  <2>3. PendingInv' /\ CertifiableInv' /\ CertifiedInv'
    BY <1>0, <2>1, <2>2, PersistKeeps
  <2>4. ReportsInv' /\ PreparesInv'
    BY <1>0, <1>7 DEF ReceiveCommit, ReportsInv, PreparesInv, reportVars
  <2> QED
    BY <1>1, <2>3, <2>4 DEF ReportInv
<1>8. CASE OthersReport
  <2>1. PICK e : broadcast' = broadcast \cup {Report(e, a) : a \in Replicas \ Cores}
    BY <1>8 DEF OthersReport
  <2>2. \A a \in Replicas : IsReport(Report(e, a))
    BY DEF IsReport, Report
  <2>3. ReportsInv'
    BY <1>0, <1>8, <2>1, <2>2 DEF OthersReport, ReportsInv, reportVars
  <2>4. PendingInv' /\ PreparesInv' /\ CertifiableInv' /\ CertifiedInv'
    BY <1>0, <1>8 DEF OthersReport, PendingInv, PreparesInv, CertifiableInv, CertifiedInv
  <2> QED
    BY <1>1, <2>3, <2>4 DEF ReportInv
<1>9. CASE UNCHANGED vars
  BY <1>0, <1>9 DEF vars, collectVars, reportVars, ReportInv, StateInv, ReportsInv, PendingInv,
                    PreparesInv, CertifiableInv, CertifiedInv
<1> QED
  BY <1>2, <1>3, <1>4, <1>5, <1>6, <1>7, <1>8, <1>9 DEF Next

LEMMA Invariant == Spec => []ReportInv
<1>1. Init => ReportInv
  BY InvInit
<1>2. ReportInv /\ [Next]_vars => ReportInv'
  BY InvStep
<1> QED
  BY <1>1, <1>2, PTL DEF Spec

-----------------------------------------------------------------------------
(***************************************************************************)
(* Whatever f replicas report, the certified reward lies between rewards   *)
(* of correct replicas.                                                    *)
(***************************************************************************)
THEOREM CertifiedRewards == Spec => []RewardIsRobust
<1>1. ReportInv => RewardIsRobust
  <2> SUFFICES ASSUME ReportInv, NEW r \in Cores, NEW e \in DOMAIN certified_aggregate_epochs[r]
               PROVE  \E a, b \in Replicas \ Polluters :
                          /\ Reward[a] <= GlobalReward(Certified(r, e))
                          /\ GlobalReward(Certified(r, e)) <= Reward[b]
    BY DEF RewardIsRobust
  <2> DEFINE A == Certified(r, e)
             S == {m.author : m \in A}
             g == Rewards(A)
  <2>1. A \in Aggregates(e)
    BY DEF ReportInv, CertifiedInv, Certified
  <2> HIDE DEF A
  <2>2. A \in SUBSET {Report(e, a) : a \in Replicas} /\ Cardinality(A) >= 2 * f + 1
    BY <2>1 DEF Aggregates
  <2>3. S \in SUBSET Replicas /\ Cardinality(A) = Cardinality(S)
    BY <2>2, AuthorsOf
  <2>4. g = [a \in S |-> state[a]]
    BY DEF Rewards
  <2>5. g \in [S -> Int] /\ \A a \in S : g[a] = state[a]
    BY <2>3, <2>4 DEF ReportInv, StateInv
  <2> DEFINE v == Nth(g, (Cardinality(S) + 1) \div 2)
  <2> HIDE DEF g, S
  <2>6. \E a, b \in S \ Polluters : g[a] <= v /\ v <= g[b]
    BY <2>2, <2>3, <2>5, MedianIsRobust
  <2>7. GlobalReward(A) = v
    BY <2>3 DEF GlobalReward, g
  <2>8. \A a \in S \ Polluters : a \in Replicas /\ g[a] = Reward[a]
    BY <2>3, <2>5 DEF ReportInv, StateInv
  <2> HIDE DEF v
  <2> QED
    BY <2>6, <2>7, <2>8 DEF A
<1> QED
  BY <1>1, Invariant, PTL

(***************************************************************************)
(* The certificate of an epoch is written once.                            *)
(***************************************************************************)
THEOREM CertificatesStay == Spec => CertificateStays
<1> DEFINE Stays == \A r \in Cores : \A e \in DOMAIN certified_aggregate_epochs[r] :
                        /\ e \in DOMAIN certified_aggregate_epochs'[r]
                        /\ certified_aggregate_epochs'[r][e] = Certified(r, e)
<1>1. ReportInv /\ [Next]_vars => [Stays]_vars
  <2> SUFFICES ASSUME ReportInv, Next PROVE Stays
    OBVIOUS
  <2>1. CASE UNCHANGED certified_aggregate_epochs
    BY <2>1 DEF Certified
  <2>2. ASSUME NEW r \in Cores, ReceiveCommit(r) PROVE Stays
    <3>1. PICK i \in DOMAIN prepares : persist_coordination_certificate(r, i)
      BY <2>2 DEF ReceiveCommit
    <3>2. CASE IsCertifiable(r, i)
      <4>1. EpochOf(i) \notin DOMAIN certified_aggregate_epochs[r]
        BY <3>2 DEF IsCertifiable, EpochOf
      <4>2. certified_aggregate_epochs' = [certified_aggregate_epochs EXCEPT ![r] =
                [x \in DOMAIN @ \cup {EpochOf(i)} |->
                     IF x = EpochOf(i) THEN prepares[i] ELSE @[x]]]
        BY <3>1, <3>2 DEF persist_coordination_certificate, EpochOf
      <4> QED
        BY <4>1, <4>2 DEF Certified, ReportInv, CertifiedInv
    <3>3. CASE ~IsCertifiable(r, i)
      BY <3>1, <3>3, <2>1 DEF persist_coordination_certificate
    <3> QED
      BY <3>2, <3>3
  <2> QED
    BY <2>1, <2>2
    DEF Next, handle_metrics_state_message, handle_state_report, OthersReport, CollectionTimer,
        Propose, ReceivePrepare
<1> QED
  BY <1>1, Invariant, PTL DEF CertificateStays, Spec
-----------------------------------------------------------------------------
(***************************************************************************)
(* What a collection of reports waits for: an epoch with 2f+1 reports is   *)
(* aggregated, or its timer runs, also when an earlier timer expired with  *)
(* fewer.  The timer the code counts as active is the one that runs.       *)
(***************************************************************************)
Collected(r, e) == Cardinality(Of(e, state_reports[r])) >= 2 * f + 1

CollectionIsPending ==
    \A r \in Cores :
        /\ active_collection_timers[r] = collection_timer_futures[r]
        /\ \A e : Collected(r, e) =>
                      e \in aggregated_epochs[r] \/ e \in collection_timer_futures[r]

CollectTypes ==
    /\ DOMAIN collection_timer_futures = Cores /\ DOMAIN active_collection_timers = Cores
    /\ DOMAIN aggregated_epochs = Cores /\ DOMAIN state_reports = Cores

CollectInv == CollectTypes /\ CollectionIsPending

LEMMA RecordCollects ==
    ASSUME CollectInv, NEW r \in Cores, NEW m, RecordStateReport(r, m)
    PROVE  CollectInv'
<1> DEFINE R == state_reports[r] \cup {m}
<1>1. state_reports' = [state_reports EXCEPT ![r] = R]
  BY DEF RecordStateReport
<1>2. /\ active_collection_timers' =
             [active_collection_timers EXCEPT ![r] = @ \cup {m.epoch}]
      /\ DOMAIN collection_timer_futures' = Cores
      /\ \A s \in Cores : collection_timer_futures'[s] =
             IF s = r THEN collection_timer_futures[s] \cup {m.epoch}
             ELSE collection_timer_futures[s]
  <2>1. CASE m.epoch \in active_collection_timers[r]
    BY <2>1 DEF RecordStateReport, ensure_collection_timer, CollectInv, CollectTypes,
                CollectionIsPending
  <2>2. CASE m.epoch \notin active_collection_timers[r]
    BY <2>2 DEF RecordStateReport, ensure_collection_timer, CollectInv, CollectTypes
  <2> QED
    BY <2>1, <2>2
<1>3. \/ UNCHANGED aggregated_epochs
      \/ aggregated_epochs' = [aggregated_epochs EXCEPT ![r] = @ \cup {m.epoch}]
  BY DEF RecordStateReport, try_build_aggregate_report
<1>4. \A e : e # m.epoch => Of(e, R) = Of(e, state_reports[r])
  BY DEF Of
<1> HIDE DEF R
<1>5. CollectTypes'
  BY <1>1, <1>2, <1>3 DEF CollectInv, CollectTypes
<1>6. ASSUME NEW s \in Cores
      PROVE  /\ active_collection_timers'[s] = collection_timer_futures'[s]
             /\ \A e : Collected(s, e)' =>
                           e \in aggregated_epochs'[s] \/ e \in collection_timer_futures'[s]
  <2>1. CASE s # r
    BY <1>1, <1>2, <1>3, <2>1 DEF CollectInv, CollectTypes, CollectionIsPending, Collected
  <2>2. CASE s = r
    <3>1. /\ active_collection_timers'[r] = active_collection_timers[r] \cup {m.epoch}
          /\ collection_timer_futures'[r] = collection_timer_futures[r] \cup {m.epoch}
          /\ aggregated_epochs[r] \subseteq aggregated_epochs'[r]
          /\ state_reports'[r] = R
      BY <1>1, <1>2, <1>3 DEF CollectInv, CollectTypes
    <3> QED
      BY <1>4, <2>2, <3>1 DEF CollectInv, CollectionIsPending, Collected
  <2> QED
    BY <2>1, <2>2
<1> QED
  BY <1>5, <1>6 DEF CollectInv, CollectionIsPending

LEMMA ExpiryCollects ==
    ASSUME CollectInv, NEW r \in Cores, CollectionTimer(r)
    PROVE  CollectInv'
<1>a. PICK e \in collection_timer_futures[r] :
          /\ collection_timer_futures' = [collection_timer_futures EXCEPT ![r] = @ \ {e}]
          /\ active_collection_timers' = [active_collection_timers EXCEPT ![r] = @ \ {e}]
          /\ try_build_aggregate_report(r, e, state_reports[r], TRUE)
          /\ UNCHANGED state_reports
  BY DEF CollectionTimer, TimerEnds
<1>1. \/ UNCHANGED aggregated_epochs
      \/ aggregated_epochs' = [aggregated_epochs EXCEPT ![r] = @ \cup {e}]
  BY <1>a DEF try_build_aggregate_report
<1>2. Collected(r, e) => e \in aggregated_epochs'[r]
  BY <1>a DEF try_build_aggregate_report, Threshold, Collected, CollectInv, CollectTypes
<1>3. CollectTypes'
  BY <1>a, <1>1 DEF CollectInv, CollectTypes
<1>4. ASSUME NEW s \in Cores
      PROVE  /\ active_collection_timers'[s] = collection_timer_futures'[s]
             /\ \A d : Collected(s, d)' =>
                           d \in aggregated_epochs'[s] \/ d \in collection_timer_futures'[s]
  <2>1. \A d : Collected(s, d)' <=> Collected(s, d)
    BY <1>a DEF Collected
  <2>2. /\ active_collection_timers'[s] = collection_timer_futures'[s]
        /\ aggregated_epochs[s] \subseteq aggregated_epochs'[s]
        /\ s # r => collection_timer_futures'[s] = collection_timer_futures[s]
        /\ collection_timer_futures'[r] = collection_timer_futures[r] \ {e}
    BY <1>a, <1>1 DEF CollectInv, CollectTypes, CollectionIsPending
  <2> QED
    BY <1>2, <2>1, <2>2 DEF CollectInv, CollectionIsPending
<1> QED
  BY <1>3, <1>4 DEF CollectInv, CollectionIsPending

(***************************************************************************)
(* An epoch with 2f+1 reports at a replica is aggregated or has a running  *)
(* collection timer.  The safety side of ReportsAreAggregated.             *)
(***************************************************************************)
THEOREM CollectionGoesOn == Spec => []CollectionIsPending
<1>1. Init => CollectInv
  <2> SUFFICES ASSUME Init PROVE CollectInv
    OBVIOUS
  <2>1. \A e : Of(e, {}) = {}
    BY DEF Of
  <2>2. ~(0 >= 2 * f + 1) /\ Cardinality({}) = 0
    BY ReplicasFinite, FS_EmptySet
  <2>3. ASSUME NEW r \in Cores, NEW e PROVE ~Collected(r, e)
    BY <2>1, <2>2 DEF Init, Collected
  <2> QED
    BY <2>3 DEF Init, CollectInv, CollectTypes, CollectionIsPending
<1>2. CollectInv /\ [Next]_vars => CollectInv'
  <2> SUFFICES ASSUME CollectInv, [Next]_vars PROVE CollectInv'
    OBVIOUS
  <2>1. ASSUME NEW r \in Cores, handle_metrics_state_message(r) PROVE CollectInv'
    BY <2>1, RecordCollects DEF handle_metrics_state_message
  <2>2. ASSUME NEW r \in Cores, handle_state_report(r) PROVE CollectInv'
    BY <2>2, RecordCollects DEF handle_state_report
  <2>3. ASSUME NEW r \in Cores, CollectionTimer(r) PROVE CollectInv'
    BY <2>3, ExpiryCollects
  <2>4. CASE UNCHANGED reportVars
    BY <2>4 DEF reportVars, CollectInv, CollectTypes, CollectionIsPending, Collected
  <2> QED
    BY <2>1, <2>2, <2>3, <2>4
    DEF Next, vars, Propose, ReceivePrepare, ReceiveCommit, OthersReport
<1>3. CollectInv => CollectionIsPending
  BY DEF CollectInv
<1> QED
  BY <1>1, <1>2, <1>3, PTL DEF Spec
=============================================================================
