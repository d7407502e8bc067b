---------------------------- MODULE EpochReports ----------------------------
(***************************************************************************)
(* State reports.  Once in an epoch of slots a replica reports its metrics *)
(* to all.  Who has enough reports builds an aggregate, which a leader     *)
(* embeds in its Prepare; the commit of that slot certifies it, and each   *)
(* replica derives the global state of the epoch from it.                  *)
(*                                                                         *)
(* The replicas of Cores run the code; of the others there are only the    *)
(* reports.  When a leader proposes, and which Prepares commit, is         *)
(* SlotConsensus and SlotPipeline: here any leader may propose once, and   *)
(* any Prepare may commit, also those of two views of a slot.              *)
(*                                                                         *)
(* A definition whose comment begins with BUG is a mistake the next        *)
(* definition could contain; the model does not use it.                    *)
(***************************************************************************)
EXTENDS Integers, FiniteSetsExt, SequencesExt

CONSTANTS
    Replicas, Cores,
    Polluters,                  \* data_pollution_node_ids
    Reward, PollutedReward,     \* of each replica
    epoch_slots, window_size,   \* of Parameters
    MaxSlot,                    \* bound
    Instances,                  \* bound: the slots and views that are proposed
    Leader                      \* of each instance

f == (Cardinality(Replicas) - 1) \div 3

ASSUME EpochReportsAssumption ==
    /\ IsFiniteSet(Replicas) /\ Cores \subseteq Replicas
    /\ Polluters \subseteq Replicas /\ Cardinality(Polluters) <= f
    /\ Reward \in [Replicas -> Int] /\ PollutedReward \in [Replicas -> Int]
    /\ epoch_slots \in Nat \ {0} /\ window_size \in Nat \ {0} /\ MaxSlot \in Nat
    /\ \A i \in Instances : i.slot \in 1 .. MaxSlot /\ i.view \in Nat \ {0}
    /\ Leader \in [Instances -> Cores]

VARIABLES
    state,                          \* what each replica reports of its metrics
    broadcast,                      \* the StateReports that were sent
    requests,                       \* the epochs a collector has to report on
    last_committed_slot, last_triggered_slot,
    state_reports, collection_timer_futures, active_collection_timers, aggregated_epochs,
    pending_aggregate_reports,
    prepares,                       \* the aggregates of the Prepares that were sent
    certifiable_aggregate_reports,  \* the instances among them a replica has seen
    certified_aggregate_epochs      \* and the certificates it has persisted

collectVars == <<state, broadcast, requests, last_triggered_slot>>
reportVars == <<state_reports, collection_timer_futures, active_collection_timers,
                aggregated_epochs>>
vars == <<collectVars, last_committed_slot, reportVars, pending_aggregate_reports, prepares,
          certifiable_aggregate_reports, certified_aggregate_epochs>>

epoch_index_for_slot(slot) == IF slot = 0 THEN 0 ELSE (slot - 1) \div epoch_slots

Epochs == 0 .. epoch_index_for_slot(MaxSlot)

\* A report is its epoch and its author, an aggregate a set of reports.
Report(e, a) == [epoch |-> e, author |-> a]
NoReport == {}

Init ==
    /\ \E P \in SUBSET Polluters :
           state = [a \in Replicas |-> IF a \in P THEN PollutedReward[a] ELSE Reward[a]]
    /\ broadcast = {}
    /\ requests = [r \in Cores |-> {}]
    /\ last_committed_slot = [r \in Cores |-> 0]
    /\ last_triggered_slot = [r \in Cores |-> 0]
    /\ state_reports = [r \in Cores |-> {}]
    /\ collection_timer_futures = [r \in Cores |-> {}]
    /\ active_collection_timers = [r \in Cores |-> {}]
    /\ aggregated_epochs = [r \in Cores |-> {}]
    /\ pending_aggregate_reports = [r \in Cores |-> [e \in Epochs |-> NoReport]]
    /\ prepares = [i \in {} |-> NoReport]
    /\ certifiable_aggregate_reports = [r \in Cores |-> {}]
    /\ certified_aggregate_epochs = [r \in Cores |-> [e \in {} |-> NoReport]]

Of(e, reports) == {m \in reports : m.epoch = e}

\* or_insert: an aggregate that is pending stays.
OrInsert(pending, e, aggregate) ==
    [pending EXCEPT ![e] = IF @ = NoReport THEN aggregate ELSE @]
-----------------------------------------------------------------------------
(***************************************************************************)
(* Collecting reports.                                                     *)
(***************************************************************************)
\* BUG: the replicas whose reports may be wrong are not counted.
AnyThreshold(allow_fallback) == IF allow_fallback THEN f + 1 ELSE 3 * f + 1

Threshold(allow_fallback) == IF allow_fallback THEN 2 * f + 1 ELSE 3 * f + 1

try_build_aggregate_report(r, e, reports, allow_fallback) ==
    IF e \notin aggregated_epochs[r] /\ Cardinality(Of(e, reports)) >= Threshold(allow_fallback)
    THEN /\ aggregated_epochs' = [aggregated_epochs EXCEPT ![r] = @ \cup {e}]
         /\ pending_aggregate_reports' =
                [pending_aggregate_reports EXCEPT ![r] = OrInsert(@, e, Of(e, reports))]
    ELSE UNCHANGED <<aggregated_epochs, pending_aggregate_reports>>

ensure_collection_timer(r, e) ==
    /\ active_collection_timers' = [active_collection_timers EXCEPT ![r] = @ \cup {e}]
    /\ collection_timer_futures' = IF e \in active_collection_timers[r]
                                   THEN collection_timer_futures
                                   ELSE [collection_timer_futures EXCEPT ![r] = @ \cup {e}]

RecordStateReport(r, m) ==
    LET reports == state_reports[r] \cup {m} IN
    /\ state_reports' = [state_reports EXCEPT ![r] = reports]
    /\ ensure_collection_timer(r, m.epoch)
    /\ try_build_aggregate_report(r, m.epoch, reports, FALSE)

\* The metrics of an epoch are there: the replica reports them.
handle_metrics_state_message(r) ==
    \E e \in requests[r] :
        /\ requests' = [requests EXCEPT ![r] = @ \ {e}]
        /\ broadcast' = broadcast \cup {Report(e, r)}
        /\ RecordStateReport(r, Report(e, r))
        /\ UNCHANGED <<state, last_triggered_slot, last_committed_slot, prepares,
                       certifiable_aggregate_reports, certified_aggregate_epochs>>

handle_state_report(r) ==
    \E m \in broadcast \ state_reports[r] :
        /\ m.author # r
        /\ RecordStateReport(r, m)
        /\ UNCHANGED <<collectVars, last_committed_slot, prepares,
                       certifiable_aggregate_reports, certified_aggregate_epochs>>

\* The other replicas report once a slot that triggers it can have committed.
OthersReport ==
    \E i \in DOMAIN prepares :
        /\ i.slot % epoch_slots >= window_size
        /\ broadcast' = broadcast \cup
               {Report(epoch_index_for_slot(i.slot), a) : a \in Replicas \ Cores}
        /\ UNCHANGED <<state, requests, last_triggered_slot, last_committed_slot, reportVars,
                       pending_aggregate_reports, prepares, certifiable_aggregate_reports,
                       certified_aggregate_epochs>>

\* BUG: a timer that expired still counts as running.
TimerStays(r, e) == UNCHANGED active_collection_timers

TimerEnds(r, e) ==
    active_collection_timers' = [active_collection_timers EXCEPT ![r] = @ \ {e}]

\* The timer expires: the reports that are there have to do.
CollectionTimer(r) ==
    \E e \in collection_timer_futures[r] :
        /\ collection_timer_futures' = [collection_timer_futures EXCEPT ![r] = @ \ {e}]
        /\ TimerEnds(r, e)
        /\ try_build_aggregate_report(r, e, state_reports[r], TRUE)
        /\ UNCHANGED <<collectVars, last_committed_slot, state_reports, prepares,
                       certifiable_aggregate_reports, certified_aggregate_epochs>>
-----------------------------------------------------------------------------
(***************************************************************************)
(* The slots: the aggregate in the Prepare, and its certificate.           *)
(***************************************************************************)
\* is_valid: whether r votes for the Prepare is not decided here.
SeePrepare(r, i, aggregate) ==
    LET e == epoch_index_for_slot(i.slot)
        certified == DOMAIN certified_aggregate_epochs[r]
    IN  IF aggregate # NoReport
        THEN /\ certifiable_aggregate_reports' =
                    [certifiable_aggregate_reports EXCEPT ![r] = @ \cup {i}]
             /\ pending_aggregate_reports' =
                    IF e \in certified THEN pending_aggregate_reports
                    ELSE [pending_aggregate_reports EXCEPT ![r] = OrInsert(@, e, aggregate)]
        ELSE UNCHANGED <<certifiable_aggregate_reports, pending_aggregate_reports>>

\* The leader embeds what is pending for the epoch of the slot: in view 1 with
\* its ticket, in a later view from a timeout certificate.
Propose(r) ==
    \E i \in Instances \ DOMAIN prepares :
        /\ Leader[i] = r
        /\ i.view > 1 => last_committed_slot[r] < i.slot
        /\ LET aggregate == pending_aggregate_reports[r][epoch_index_for_slot(i.slot)] IN
           /\ prepares' = [j \in DOMAIN prepares \cup {i} |->
                               IF j = i THEN aggregate ELSE prepares[j]]
           /\ SeePrepare(r, i, aggregate)
        /\ UNCHANGED <<collectVars, last_committed_slot, reportVars,
                       certified_aggregate_epochs>>

ReceivePrepare(r) ==
    \E i \in DOMAIN prepares :
        /\ Leader[i] # r /\ i \notin certifiable_aggregate_reports[r]
        /\ prepares[i] # NoReport
        /\ SeePrepare(r, i, prepares[i])
        /\ UNCHANGED <<collectVars, last_committed_slot, reportVars, prepares,
                       certified_aggregate_epochs>>

\* Metrics are collected once per epoch, after its first window_size slots.
Triggers(r, slot) ==
    /\ slot % epoch_slots >= window_size
    /\ \/ last_triggered_slot[r] = 0
       \/ slot \div epoch_slots > last_triggered_slot[r] \div epoch_slots

CollectMetrics(r, slot) ==
    IF Triggers(r, slot)
    THEN /\ last_triggered_slot' = [last_triggered_slot EXCEPT ![r] = slot]
         /\ requests' = [requests EXCEPT ![r] = @ \cup {epoch_index_for_slot(slot)}]
    ELSE UNCHANGED <<last_triggered_slot, requests>>

\* BUG: the epochs that have a certificate are not looked at.
IsSeen(r, i) == i \in certifiable_aggregate_reports[r]

IsCertifiable(r, i) ==
    /\ i \in certifiable_aggregate_reports[r]
    /\ epoch_index_for_slot(i.slot) \notin DOMAIN certified_aggregate_epochs[r]

persist_coordination_certificate(r, i) ==
    LET e == epoch_index_for_slot(i.slot) IN
    IF IsCertifiable(r, i)
    THEN /\ certified_aggregate_epochs' = [certified_aggregate_epochs EXCEPT ![r] =
                [x \in DOMAIN @ \cup {e} |-> IF x = e THEN prepares[i] ELSE @[x]]]
         /\ pending_aggregate_reports' =
                [pending_aggregate_reports EXCEPT ![r][e] = NoReport]
         /\ certifiable_aggregate_reports' = [certifiable_aggregate_reports EXCEPT ![r] =
                {j \in @ : j.slot # i.slot}]
    ELSE UNCHANGED <<certified_aggregate_epochs, pending_aggregate_reports,
                     certifiable_aggregate_reports>>

\* process_commit_message, as far as reports go.
ReceiveCommit(r) ==
    \E i \in DOMAIN prepares :
        LET slot == Max({i.slot, last_committed_slot[r]}) IN
        /\ last_committed_slot' = [last_committed_slot EXCEPT ![r] = slot]
        /\ persist_coordination_certificate(r, i)
        /\ CollectMetrics(r, slot)
        /\ UNCHANGED <<state, broadcast, reportVars, prepares>>
-----------------------------------------------------------------------------
(***************************************************************************)
(* extract_and_write_global_state, with the aggregation strategy Normal:   *)
(* the reward of an epoch is the lower median of the reported ones.        *)
(***************************************************************************)
Rewards(aggregate) == [a \in {m.author : m \in aggregate} |-> state[a]]

\* The k-th smallest of the values of g.
Nth(g, k) ==
    CHOOSE v \in {g[a] : a \in DOMAIN g} :
        /\ Cardinality({a \in DOMAIN g : g[a] < v}) < k
        /\ Cardinality({a \in DOMAIN g : g[a] <= v}) >= k

GlobalReward(aggregate) ==
    Nth(Rewards(aggregate), (Cardinality(aggregate) + 1) \div 2)
-----------------------------------------------------------------------------
Next ==
    \/ \E r \in Cores :
           \/ handle_metrics_state_message(r) \/ handle_state_report(r) \/ CollectionTimer(r)
           \/ Propose(r) \/ ReceivePrepare(r) \/ ReceiveCommit(r)
    \/ OthersReport

Spec == Init /\ [][Next]_vars

\* A timer expires, and Core takes the reports from its channel.
FairSpec ==
    /\ Spec
    /\ \A r \in Cores : WF_vars(CollectionTimer(r)) /\ WF_vars(handle_state_report(r))
-----------------------------------------------------------------------------
(***************************************************************************)
(* Properties.                                                             *)
(***************************************************************************)
Certified(r, e) == certified_aggregate_epochs[r][e]

(***************************************************************************)
(* Whatever f replicas report, the reward a replica derives from a         *)
(* certificate lies between rewards that correct replicas measured: every  *)
(* aggregate that is certified has a correct report on each side of its    *)
(* median, also when the collection timer cut the collection short.        *)
(***************************************************************************)
RewardIsRobust ==
    \A r \in Cores : \A e \in DOMAIN certified_aggregate_epochs[r] :
        \E a, b \in Replicas \ Polluters :
            Reward[a] <= GlobalReward(Certified(r, e)) /\ GlobalReward(Certified(r, e)) <= Reward[b]

(***************************************************************************)
(* A replica writes the global state of an epoch once: its certificate     *)
(* stays when other slots of the epoch commit other aggregates, and when   *)
(* its own is built, and gets pending, after the certificate.              *)
(***************************************************************************)
CertificateStays ==
    [][\A r \in Cores : \A e \in DOMAIN certified_aggregate_epochs[r] :
           /\ e \in DOMAIN certified_aggregate_epochs'[r]
           /\ certified_aggregate_epochs'[r][e] = Certified(r, e)]_vars

(***************************************************************************)
(* A replica that has 2f+1 reports of an epoch builds its aggregate, even  *)
(* if the timer expired when they were fewer: the next report starts it    *)
(* again.                                                                  *)
(***************************************************************************)
ReportsAreAggregated ==
    \A r \in Cores, e \in Epochs :
        Cardinality(Of(e, state_reports[r])) >= 2 * f + 1 ~> e \in aggregated_epochs[r]
=============================================================================
