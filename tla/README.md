# AutoPilot: verification project

AutoPilot is a replicated data plane with a BFT consensus on top, derived from Autobahn: every
replica disseminates its own *lane* (a chain of certified headers, "cars"), and a pipelined
three-phase consensus commits *cuts* of the lanes, one per slot. A learning agent next to each
replica changes protocol parameters while the system runs.

The Rust workspace members are `primary`, `worker`, `network`, `store`, `crypto`, `config` and
`node`. The TLA+ modules here model the primary's consensus core, its lanes, its header
synchronisation, its committer, its state reports and what it sends; the worker; the store; and
the senders and receivers of the network. Every definition follows the source; `PROJECT.json`
maps each one to its lines.

## 1. Inventory

| Component | State | Operations | What makes it correct |
|---|---|---|---|
| **Committee, leader election** (`config`, `leader.rs`) | none | thresholds 2N/3+1, (N+2)/3, N; leader (slot+view) mod N | two quorums intersect in a correct replica |
| **Core, slot consensus** (`core.rs`, `messages.rs`, `aggregators.rs`, `timer.rs`) | `views`, `timers`, `last_voted_consensus`, `high_qcs`, `high_proposals`, `committed_slots`, QC and TC makers | handle Prepare, Confirm, Commit, votes, Timeout; FastTimer; local timeout; view change | one cut per slot; certificates are backed; a view change keeps what could have committed; every slot commits |
| **Core, pipeline** | `prepare_tickets`, `already_proposed_slots`, `last_committed_slot`, `k` | use a ticket, propose, start timers, commit out of order | a slot begins on the commit of the one k before it; no slot without a timer; every slot commits |
| **Core, parameter updates** | `pending_param_update`, `k_transition_end_slot`, `last_used_k`, `rl_param_signal_epoch` | take a signal, hold it, apply it at its slot | applied on schedule, never forgotten; the window survives |
| **Synchronizer, HeaderWaiter, Helper, PayloadReceiver** | the store, `last_fast_sync_heights`; `pending`, `parent_requests`, `batch_requests` | suspend headers and messages, ask, retry, answer, loop back | a stored header has its ancestors; nothing suspended is lost |
| **Committer** | `log`, `last_executed_slot`, `last_executed_heights` | receive a slot, execute the next | slots in order; each header once; no header missing |
| **Proposer and car votes** (lanes) | height, parent certificate, votes per header | make a header, vote, certify | a certificate is backed by f+1; one header per height |
| **State reports and aggregates** (`core.rs`) | `state_reports`, collection timers, `pending_aggregate_reports`, `certifiable_aggregate_reports`, `certified_aggregate_epochs` | trigger, report, aggregate by count or by timer, embed in a Prepare, certify at its Commit, derive the global state | f wrong reports do not move the result out of the range of the correct ones; a replica certifies an epoch once; enough reports are always aggregated |
| **Simulated asynchrony** (`core.rs`, `send_msg`) | `asynchrony_type`, `current_effect_type`, `partition_delayed_msgs`, `egress_delay_queue` | start and end an effect, delay, put aside, send again | what is delayed arrives in the end |
| **Garbage collection of the primary** (`core.rs`, `garbage_collector.rs`) | `gc_round`, cancel handlers by height and by slot | drop old heights and slots | nothing still needed is dropped |
| **Worker** (`batch_maker.rs`, `processor.rs`, `synchronizer.rs`, `helper.rs`, `primary_connector.rs`) | `current_batch`, `batch_size`; pending requests; the store | make, seal, store, announce, request and serve batches | a batch is stored before anybody hears of it; a header's batches get to every replica; a transaction gets into a header |
| **Network** (`reliable_sender.rs`, `simple_sender.rs`, `receiver.rs`) | `buffer`, `pending_replies`, cancel handlers; a runner per connection | send, transmit, acknowledge, cancel, reconnect, resend | in order and at least once, unless cancelled; an acknowledgement means its message was read; a SimpleSender may lose |
| **Store** | a map, waiting readers | write, read, notify_read | every waiter is answered once |
| **Crypto, node, agent, benchmark** | keys; none; learner | sign; start; choose parameters; deploy | |

How they interact. The primary is a set of tasks joined by channels. `Core` is one task with a
`select!` loop: it handles one event at a time, and what it sends to itself (its own votes, its
own Prepare, its own Timeout) it handles at once, inside the same event. It hands certified tips
to the `Proposer`, missing items to the `HeaderWaiter` through the `Synchronizer`, and Commits
to the `Committer`. The `HeaderWaiter` sends suspended headers and messages back to `Core`. The
store is shared by all of them and wakes readers that wait for a key. Primaries talk over
`ReliableSender` (resent until acknowledged) and `SimpleSender` (best effort); timers and the
agent's signals are further inputs of the loop.

Hard behaviours: votes, certificates and Timeouts that cross; the FastTimer racing the last
vote; slots that commit out of order inside a moving window; a window size that changes
underway; headers, payloads and consensus messages that arrive in any order, with requests that
get lost; suspended work that must come back; connections that break with frames and
acknowledgements in them while the peer still reads the old one; timers that end a collection or
an effect while what they wait for is under way. `PROJECT.json` lists each hazard at its line,
with the properties about it or the reason there is none.

## 2. Modules

| Module | Models |
|---|---|
| `Committee` | `Committee` thresholds with one unit of stake per replica, the leader schedule, quorums |
| `SlotConsensus` | one slot at every replica, down to every message |
| `SlotWindow` | abstract: slots start in order, a slot only when the one k before it is committed |
| `SlotPipeline` | every slot at every replica, and updates of k; refines `SlotWindow` |
| `OrderedLog` | abstract: committed cuts are executed in order, each header once |
| `HeaderSync` | one primary's synchronisation of the others' lanes and its Committer; refines `OrderedLog` |
| `LaneChain` | abstract: a lane is a chain, extended from a header that f+1 replicas hold |
| `Lanes` | Proposer, car votes, certificates and tips at every replica, cuts, crashes; refines `LaneChain` |
| `Batches` | workers, their batches, the stores, and a primary from a batch to an accepted header |
| `OrderedDelivery` | abstract: messages to a peer are delivered in order, at least once unless given up |
| `ReliableLink` | the ReliableSender's connections and the Receivers of the peers; refines `OrderedDelivery` |
| `Outbox` | what a `Core` sends under the simulated asynchrony, over a `ReliableLink`, and the garbage collection of handlers |
| `EpochReports` | state reports, aggregates, certificates and the reward derived from them |
| `MC*` | instances for TLC |
| `CommitteeProofs`, `SlotConsensusProofs`, `SlotPipelineProofs`, `HeaderSyncProofs`, `LanesProofs`, `BatchesProofs`, `OutboxProofs`, `EpochReportsProofs` | theorems |

A definition whose comment begins with BUG stands before the definition it varies. The models do
not use it: it is the mistake that the properties are shown to detect.

**SlotConsensus.** The external mode (`use_ride_share = false`, as the default parameters have
it). The variables have the names of the fields of `Core`, restricted to one slot; leader state
that only the leader of a view can have is indexed by view. `msgs` holds every message and vote
ever signed; handlers read from it without removing, so that loss, delay, reordering and
duplication are all behaviours. One handler is one action, including what `Core` sends to
itself: a leader that collects the last vote also processes its own Confirm and votes on it, in
the same step. `Propose` is the ticket becoming ready; `Loopback` a Prepare that waited for
missing data; `FastTimerExpires` the leader's wait for votes beyond the quorum; `UpdateFastPath`
an update that switches the fast path of one replica at any moment (`Switching`). A TC keeps its
Timeouts in arrival order because `get_winning_proposals` depends on it, and reads them as the
code does: a Commit ends the pass, a Confirm wins by view, a Prepare by f+1 reports.
`verify_commit` tells a fast certificate from a slow one by its size, as the code does. A digest
never covers the cut, so neither does a vote.

**SlotPipeline.** `core[r]` is a record of the fields the pipeline uses. A slot's consensus is
abstracted to: a quorum voted in view 1 or 2, so anybody may learn the Commit; a quorum timed
out, so the leader of view 2 prepares. View 2 stands for every later view. Coverage of new tips
is nondeterministic: `NewTips` and the handlers choose which tickets `enough_coverage` accepts.
`base_k_for_slot`, `effective_k`, the epoch arithmetic, `handle_param_update_signal` and
`apply_parameter_updates` are the code's.

**HeaderSync.** A header is `<<lane, height>>`, as an author makes one per height. Headers and
consensus messages arrive in any order, except that messages of one leader and view stay in
order (a connection is ordered). A message carries its proposals in an order of its own, that in
which its `HashMap` iterates. `process_header` is one action with its three outcomes: payload
missing, parent missing, stored. `HandleCommand` is the HeaderWaiter taking a request: it parks
a header once under its id; it suspends a message under the digest of its proposals (`Key`: the
headers in the message's order, and nothing else), and replacing or removing a key drops the
cancel handle of the waiter before it (`held`). `Ask` sends a request and is answered or not;
`Retry` repeats the requests that are still open. `Execute` is the Committer's walk of each lane
from the tip down to what was executed.

**Lanes.** The Proposer (`height`, `last_parent`) and its two channels with `Core`; at each
author the current header and its votes; at each replica the store, the optimistic keys, the
headers suspended with the HeaderWaiter and the tips. A header is `<<author, height>>`:
`process_header` refuses it unless its parent certificate is that of the height before. A vote
is an entry of `last_voted` and may arrive at any later time. `process_header` is one action
with its outcomes (`MissingPayload`, `MissingParent`, `ReceiveHeader`); `OwnHeader` is
`process_own_header` with everything it calls: tip, broadcast, store and own vote. The Proposer
starts with a genesis parent and `Core` sends it another, so it may make a header of height 0,
which everyone refuses. A leader's cut has its own newest header in it, certified or not
(`Propose`, from `set_consensus_proposal`). A replica hears of the cut when the Prepare reaches
it (`PrepareArrives`), and votes then if `optimistic_tips_ready` holds, else once the tips are
there (`PrepareLoopsBack`). `Crash` stops a replica for good, at most f of them. Of the
synchronisation it takes the outcome: a header that is suspended, or a tip of a cut that the
replica heard of, is asked for until a replica that has it answers (`Answered`); `HeaderSync`
has the requests themselves.

**Batches.** A batch is its maker and a set of transactions. `seal` stores the batch, hands it
to the Processor and broadcasts it, all in one action: nothing the code does between the three
awaits reads what a later one writes. In a simulated asynchrony it is broadcast to the worker's
own side of the partition only. Each store has its keys (`db`) and the reads that wait for one
(`reads`), with the obligations of `store/src/lib.rs`. The worker's Synchronizer, its Helper and
Processors, the PrimaryConnector, the primary's WorkerReceiverHandler and PayloadReceiver, the
Proposer, the HeaderWaiter (as far as payload goes) and `process_header` are one action each.
Messages within a replica and on connections are one set, `wire`; those a SimpleSender carries
may get lost (`Lose`).

**ReliableLink** and **Outbox.** The messages to a peer are numbered as they are sent. A
Connection has its `buffer` and `pending_replies`; the channel in front of the buffer is part of
it. `Break` cuts a connection at any moment: the peer's runner keeps a prefix of the frames and
goes on reading them, acknowledgements under way are gone, and `pending_replies` goes back to
the front of the buffer. An acknowledgement says nothing but that a frame was read; `ReadAck`
takes it for the first pending message, as the code does. `Outbox` is `Core` as the sender:
`send_msg` with one disjunct per effect, `EndEffect` with the replay of a partition,
`SendDelayed`, and at the end of each turn `CollectGarbage`, which closes the handlers filed
under a height or slot below its cutoff. The rest of `Core` is the sequence of messages it
sends.

**EpochReports.** The replicas in `Cores` run the code, the others only report. A report is its
author and epoch; what it says is a reward, which for a polluter may be another one than the
replica measured. `RecordStateReport` is `record_state_report` with the timer and the
aggregation that follow; `CollectionTimer` aggregates what is there, if it is 2f+1. Any leader
may propose once for each of its slots and views, and any Prepare may commit, also two views of
a slot: which of them do is the business of `SlotConsensus`. `Nth` is the median of
`core.rs:4774` by its definition instead of by sorting.

How they compose. `SlotPipeline` uses a slot's decision as `SlotConsensus` delivers it (a quorum
for one Prepare of a view, theorem `AgreementInAView`), and `HeaderSync` takes one cut per slot
and the message order that the consensus produces. `Lanes` has the cuts of which they take the
tips as given, and says why what `HeaderSync` asks for is somewhere (`CutsAreObtainable`); in
turn `HeaderSync` justifies that a request is repeated until it is answered. `Batches` shows
under which losses the payload arrives that `HeaderSync` and `Lanes` assume to arrive, and
`Outbox` that a broadcast of `Core` reaches everybody, which the fairness of the others assumes.
`Outbox` contains `ReliableLink`: a step is one of `Core`, which may post to or cancel on every
link, or one of a link. `Lanes`, `SlotConsensus` and `SlotPipeline` share `Committee`. They are
not instantiated in one state space, whose size would leave no interesting bound.

## 3. Runs

| Run | Instance | Shows |
|---|---|---|
| `view_change` | 4 replicas, slot 2, views 1 and 2; all start on the fast path; the leader of view 1 may leave it at any moment and may lack data of its own Prepare (772 073 states) | `CertificatesJustified`: a certificate is backed by votes that were signed for its leader's cut, though votes are repeated. `RecoversReportedVotes`: a view change keeps what could have committed, by a Confirm or by f+1 reports of a Prepare, when no Timeout omits a vote. `OnePathPerView`: FastTimer and last vote certify a view once, also when the leader changes its path between votes. `NeverGoesBack`. The slot starts unknown, so a leader may be told of view 2 before it proposes in view 1 |
| `leader_down` | 4 replicas; the ticket of the first leader is never covered and it may stop at any moment; its Timeouts reach everyone | `EveryoneCommits` after the view change, by whichever certificate the race of the FastTimer and the last vote ends in; `QuorumIsUsed`: a quorum of votes at a leader is confirmed or committed; `OneCutPerView` |
| `late_votes` | violation | see 6 |
| `highest_qc` | violation | see 6 |
| `pipeline` | 4 replicas, one down, k = 2, 4 slots, slots 3 and 4 may time out | `KeepsWindow` (refinement of `SlotWindow`), `TicketStartsTimer`: a ready slot is timed whichever of its Prepare and Commit comes last; `ProposerVotes`; `EverySlotCommits` |
| `updates` | 2 replicas, 5 slots, k from 1 to 2 and back by signals at any time, epochs of 3 slots, slot 4 may time out (938 832 states) | `SlotsAreOpened`: slots begin in order, each on the commit of the slot k before it for a k that was given, whichever replica learns of the new k first. `PendingIsAhead`: an update held back is never passed by; `UpdatedOnSchedule` |
| `header_sync` | three lanes; one has 2 headers, the first lost and the second without payload, the others none; 2 slots, 4 messages with different orders of proposals (143 759 states) | `StoreIsClosed`, `NextSlotIsReady`, `CommitsAreKept`, `ImplementsLog` (refinement of `OrderedLog`), `EveryCutIsExecuted`, `EveryPrepareIsVoted` |
| `same_order` | violation | see 6 |
| `lanes` | 4 replicas, r1 makes two headers and proposes a cut, the second payload may be late, r1 or r2 may crash | `CutsAreObtainable`: of a cut that a quorum voted for, every header is at a replica that runs. `CutsSpread`: and reaches all of them that heard of it, or all while its leader runs. `CutsAreVoted`. `ImplementsChains` (refinement of `LaneChain`), `OneHeaderPerHeight`, `LanesGrow`: an author that runs ends with its last header certified |
| `batches` | 2 replicas, one maker, 2 transactions, batches of 1 or 2, one disturbance: a lost message, an asynchrony, a new batch size or a repeated header (105 842 states) | `MakerHasBatch`: whoever hears of a batch can have it from its maker. `AcceptedIsStored`: a primary decides by keys, and its worker has the batches. `SuspendedHeadersResume`: a header whose payload was lost or withheld is accepted in the end, unless the only request, its answer or the notice is lost. `TransactionsAreProposed`: also with a batch size that grows beyond the batch underway |
| `outbox` | 2 peers, one on the other side, 6 scenarios of up to 2 messages and 2 effects, one break (258 855 states) | `AckedIsTaken`; `ImplementsDelivery` (refinement of `OrderedDelivery`): order survives reconnects and replays; `EveryoneIsServed`: each message reaches all it is for, unless collected, or skipped by PrepareDelay |
| `reports` | 4 replicas, 2 of them run the code, one may pollute, one epoch of 2 slots, one of them with 2 views (129 042 states) | `RewardIsRobust`; `CertificateStays`: other slots and views commit other aggregates, and a late aggregate is built after the certificate; `ReportsAreAggregated`: the timer expires early and late |

`CHECK_DEADLOCK FALSE` is in every cfg: slots, views, heights and messages are finite, so every
run ends in a state with nothing left to do.

## 4. Bounds, symmetry, fairness

*Consensus.* Four replicas is the smallest committee that tolerates a fault and has different
sizes for f+1 (2), a quorum (3) and the fast path (4). Two views are one view change, which is
where recovery happens; three are needed for two competing QCs (`highest_qc`). `Expiring` names
the timers that may fire, `Reach` the replicas a broadcast may get to, `Uncovered` the replicas
whose first ticket never covers enough new tips, and `MaxView` the view whose timer does not
fire. In `view_change` the leader of view 1 keeps its own timer: the other three already are a
quorum of Timeouts. A Timeout reaches the leader of view 2 only, because only it acts on the TC;
the leader of view 1 stays in it, counts votes until the end and may change its path once; a
Commit stays at its leader, because the properties look at the message, not at who has it.
Replicas that lead neither view are interchangeable, and `SYMMETRY` is used for them only, in
runs without liveness. `highest_qc` identifies states that differ in the arrival order of the
Timeouts of view 1 (`VIEW OrderOfView1`): these report nothing, so the order has no effect.

*Pipeline.* With k = 2, slots 3 and 4 are the first that need a ticket from a committed slot,
and four slots let commits arrive in every order around the window. `Expiring` leaves out the
slots whose leader of view 2 is the replica that is down: there the real system would go on to
view 3, which view 2 stands for. Updates use two replicas, both needed for each slot, so that
their schedules diverge as far as possible; epochs of 3 and 4 slots put the slot of application
inside the epoch. The view change of slot 4 lets a slot begin while the one before it is open
and replicas already differ in k.

*Synchronisation.* One lane of two headers already has a parent, a tip and an ancestor below a
tip. The two others, of which the cuts take the genesis header, give a cut more than one order.
Each process hashes its `HashMap`s with seeds of its own, so in the code orders differ or agree
by chance. In `header_sync` they differ, which `EveryCutIsExecuted` and `EveryPrepareIsVoted`
rest on; `same_order` is the other case, and `CommitsAreKept` names it (`Rival`) where the
orders are arbitrary. Two slots with any two nonempty, different cuts give cuts that grow, and
cuts that are behind what was executed (a later leader may propose older tips). The first header
is lost and the second has to wait for its payload: every kind of suspension occurs, and so does
every order of ends of the waits.

*Lanes.* Two headers are the first with a parent certificate, an uncertified tip and a header
below the tip; author and leader are the same replica, whose crash is the worst case, and a
second replica may crash instead of it. One lane: lanes share nothing but the cut.

*Batches.* One maker suffices: workers share nothing but the messages about a batch. Batches of
one and of two make a header with a payload of two batches, a batch that a timer seals and one
that a smaller size leaves beyond its limit. `MaxEvents = 1` allows one loss, asynchrony toggle,
update or repetition; two toggles would end the effect, which shows nothing more, as the code
never sends what it put aside.

*Outbox.* Every effect has a scenario, and the messages are chosen so that each kind of key
(header, vote, slot, current header) and both kinds of addressee occur. One break already gives
two runners with frames of both. `gc_depth = 1` and one height and slot to advance to make a
collection that closes handlers of transmitted and of waiting messages. Partition occurs twice
in a row, because its list is not cleared.

*Reports.* Two slots and a second view are three proposals with three chances to have different
aggregates of one epoch. Two replicas that run the code suffice for a report that comes before
and after a Prepare or a Commit; the other two make a quorum without them impossible and one
wrong report possible. Rewards give 2f+1 reports an even or an odd median.

*Fairness.* Consensus: weak fairness per handler of each replica that is not in `Crashed`; those
that are may stop at any moment, or never. `ReliableSender` resends until acknowledged,
`select!` polls its branches at random so none is starved, a tokio timer fires. `WF` on a
handler that needs a message says that a message stays available until it is read. Pipeline:
weak fairness of a replica's progress; signals and partial coverage are not forced, and a lane
that grows eventually covers any ticket. Synchronisation: the tasks run, connections deliver,
the HeaderWaiter's timer ticks. The timer (5 s by default) is taken to be longer than a round
trip and the processing of its answer: `Retry` needs the channels drained. A payload that was
asked for arrives; `Batches` has the losses under which it does not. A header that is `Lost`
never arrives by itself: that is what the cancellation of handlers by garbage collection in
`Core` does to a slow replica. Lanes: one weak fairness condition per replica for all its steps;
no step is repeated for ever, so none is starved. What a crashed replica had sent may arrive or
not: steps that need a message from it are not fair, the arrival of a Prepare among them, so a
replica that never hears of a crashed leader's cut asks for nothing (`CutsSpread` excepts it).
Batches: the tasks run and deliver what is not lost; the batch timer fires, and clients, losses
and asynchrony are not forced. Outbox: an effect ends and a delayed message becomes due, because
both are timers; a Connection reconnects for ever, and the peer accepts and reads; breaks are
bounded. Reports: the collection timer fires and `Core` reads its channel; nobody has to commit.

*Assumptions on constants.* Committees of at least 2 replicas with equal stake; k at least 1.
Byzantine behaviour is not in the models: every replica follows the code, may be slow, and may
crash; in `EpochReports` f replicas report what they like, and in `Outbox` the effect Equivocate
sends a second header, both because the code does so on purpose.

## 5. Proofs

All theorems hold for every committee, every bound and every other value of the constants that
satisfies the named assumptions. Each proof is checked by TLAPS.

**Committee** (`CommitteeProofs`). `QuorumsShareValidity`: two quorums share at least (N+2)/3
replicas; from the cardinality theorems and integer arithmetic.

**Slot consensus.** `TypeCorrect` (`SlotConsensusProofs`): `TypeOK` is inductive; the helper
operators (`get_winning_proposals`, `SendPrepare`, `CountTimeout`, ...) have type lemmas of
their own. `Justified` proves `CertificatesJustified` and `AgreementInAView` proves
`OneCutPerView`. Neither is inductive: nothing in a Commit says where its votes came from. The
invariant `SafetyInv` adds `OnePrepare` (the cut in `consensus_instances` of a view is that of
its only Prepare), `TCUsed` (a Prepare of a later view leaves the TC maker of its leader full,
so no second Prepare of that view can follow), `PrepareVotesSigned` and `ConfirmVotesSigned` (a
QC maker counts votes that were signed, each once). Two Prepares of a view would need its leader
to complete a TC twice; then two Commits of a view have the cut of one Prepare.

`OnePath` proves `OnePathPerView`: a QC maker that has sent its Confirm can no longer complete
the fast path, because the path is off or its restarted weight lacks a quorum of the votes,
which count once (`PathDecided`). `NoReplicaGoesBack` proves `NeverGoesBack` from `HeldInv`:
what a replica holds was sent, and is of a view it has reached. `QuorumWaitsForTimer` (invariant
`MakersWait`) is the safety side of `QuorumIsUsed`: a quorum is certified or its FastTimer runs.

The view change rests on `ReportInv`: a Timeout reports what its author voted for and holds, a
TC maker has each author once, and a Prepare of a later view takes the cut that
`get_winning_proposals` finds in such a TC. That pass is a recursive function (`Pass`,
`WinnerOfPass`); `OnePass` carries what it has read so far (`ReadSoFar`) along it with `UpTo`,
induction over an interval stated for a set (`CommitteeProofs`). `LaterViewsKeepUncontested`: if
no Timeout omits a vote and no earlier view contests the cut of a Commit, a slow Commit binds
every later view and a fast one the next, for any number of views (two views later the Prepares
reported may be of different views, and the code weighs each view apart). `ViewChangeRecovers`
and `TwoViewsAgree` follow for `MaxView <= 2`: `RecoversReportedVotes` holds and any two
replicas commit the same cut. The bound is needed: with three views the first Confirm read wins
(`highest_qc`). That is all that goes wrong on the slow path: `HighestQCRecovers` and
`HighestQCAgreement` say for any number of views that, where the highest QC of each TC wins
(`HighestQCWins`) and no Timeout omits a Confirm vote, a slow Commit binds every later view and
every replica that commits there.

**Pipeline** (`SlotPipelineProofs`). `SlotsBeginOpened` proves `SlotsAreOpened`, whatever is
signalled. The invariant `PipelineInv` has `WindowKept` (each slot that is started has its
predecessors started and slot - k committed somewhere, for a k in `Ks`, the values that were
given) and, for each replica, `GoodCore`: its k is in `Ks`, and whatever its `Core` may act on
next, a ticket, a timer or a vote, belongs to a slot that is started, a timer also to one whose
window is open. `GoodCore` survives when more slots are started or committed, so a step of one
replica leaves the others alone. Each helper that proposes, votes or commits has a lemma that it
preserves these parts. While no update is signalled (`NoUpdates`) there is one k, so
`HardLimitHolds`: at most k slots are open (`OpenWindow`); and `ImplementsWindow` proves
`KeepsWindow`, for any k. Under `NoUpdates` too, `TicketsStartTimers` and `ProposersVote` prove
`TicketStartsTimer` and `ProposerVotes`: `Diligent` says of one `Core` that it voted in its view
for what it proposed and times the slot its tickets and commits begin.

Whatever is signalled, too: `TypeCorrect`; `HeldBackIsAhead` proves `PendingIsAhead` if
`AppliedBegin <= EpochSlots` (see 6); `UpdatesOnSchedule` proves `UpdatedOnSchedule` if there
are epochs (`~NoEpochs`). Lemma `StepMoves` reduces a step to one `Operation` on one `Core`,
then perhaps a proposal.

**Synchronisation** (`HeaderSyncProofs`), with and without fast sync and optimistic tips.
`StoredAncestors` proves `StoreIsClosed`, `CommitterFindsHeaders` proves `NextSlotIsReady`,
`CommitterRefinesLog` proves `ImplementsLog`. The invariant `SyncInv`: the store is closed under
ancestors; what a Commit does not wait for of its cut is stored, in the channel, in the
HeaderWaiter and on its way back (`CommitsWait`); a slot in the log has its tips stored
(`TipsOfLog`); and the executed heights are exactly those that the executed slots cover, each
header delivered once (`HeightsOfSlots`). `CommitsKept` proves `CommitsAreKept` for any messages
in any orders: a Commit whose cut has a header is handed on, waits in the HeaderWaiter with its
cancel handle, or is on its way back, unless a `Rival` was received. What was received is all
that can share its key (`Received`), and an equal key means an equal cut in an equal order
(`SameKey`), so without a rival no other waiter can drop its handle (`NoSharedKey`). Two safety
sides of liveness: `PreparesKept` (of `EveryPrepareIsVoted`): no step forgets a Prepare that
arrived and has no rival, unless fast sync with optimistic tips counts every tip it lacks as
asked for by another message (`LeftToOthers`), which the code then leaves it to.
`RequestsAreKept` (of `EveryCutIsExecuted`), without fast sync, which is off by default
(`config/src/lib.rs:216`): what the HeaderWaiter waits for is there, under way, asked for, or
about to be asked for by a child (`WaitInv`). The last case is real: the payload of a child ends
its waiter and with it the request for the parent, which the child then repeats.

**Lanes** (`LanesProofs`). `LanesTypeCorrect`. `CutsObtainable` proves `CutsAreObtainable` with
optimistic tips. Its invariant `AvailInv`: stores are closed under ancestors (`StoreClosed`); a
certificate, wherever it is on its way from the votes to the next header, has f+1 replicas that
store its header (`VotesCast`, `CertificatesBacked`); so does the parent of every header that
was broadcast (`SentBacked`); who voted for a cut has the key of each tip (`VotersHaveKeys`). Of
a quorum of voters, and of f+1 holders, one has not crashed; the first has the tip, the second
all that is below. `LanesImplementChains` proves `ImplementsChains` and `OneHeader` proves
`OneHeaderPerHeight`. They need where a lane stands: `Stages` says that Proposer, channels and
`Core` of an author are together in one of four stages (before the first genesis certificate,
with a parent, header made, collecting votes), with the genesis header possibly ahead of the
first one in the channel; `SentInLane` that nothing beyond the current header was broadcast.
`NoLaneIsStuck` is the safety side of `LanesGrow`: until its last header is certified an author
has something to do, or each replica has voted or can get the header's parent from one that
runs. `NoCutIsStuck`, of `CutsAreVoted`: a leader has all of its cut in its own store and can
answer whoever lacks a tip (without optimistic tips nobody waits for one).

**Batches** (`BatchesProofs`). `BatchesTypeCorrect`; `MakersHaveBatches` proves `MakerHasBatch`
and `AcceptedHeadersAreStored` proves `AcceptedIsStored`. The invariant `BatchInv` says of every
place a batch can be named, a store, a header, a digest that waits, a request, a waiter or any
message, that the batch is held by its maker's worker (`KnownHeld`, `MessagesTrue`); that a
notice of another's batch is true of the own worker's store; and that a primary's keys are among
its worker's (`PrimaryFollows`). Stores only grow, so lemma `OnlyNew` leaves of each step what
it adds. `NoHeaderIsStuck` and `NoTransactionIsDropped` are the safety sides of
`SuspendedHeadersResume` and `TransactionsAreProposed`. `FetchInv` follows a batch that a header
waits for through order, request, answer, notice and key: at every moment one of them is there
or what was lost is in `CutOff`. It rests on two facts: what the worker's `reads` wait for was
asked for, and of the header's author (`MakersKnown`), who has it.

**Links** (`OutboxProofs`), for any number of peers, breaks, effects and messages.
`AckedMessagesAreTaken` proves `AckedIsTaken`, `LinkIsOrdered` proves `ImplementsDelivery`. The
invariant `LinkInv` has for each peer `PendingMatches`: the pending messages are those that the
acknowledgements under way stand for, then the frames the current runner still has, one by one,
which is why an acknowledgement without a number ends the right retransmission; and
`QueuesInOrder`: runners, pending messages and buffer are each in order and complete after what
was served (`InOrder`), that is, taken or cancelled, so that no queue can deliver past a gap. It
survives `Break` because a prefix of such a queue is one, and pending messages in front of the
buffer are too; and `Cancel`, because more is served after it. `MessagesAreKept` is the safety
side of `EveryoneIsServed`: each message `Core` sent is with its link, delayed, put aside for
the end of the partition, collected, or skipped by PrepareDelay, for each peer it is for.

**Reports** (`EpochReportsProofs`), for every n. `CertifiedRewards` proves `RewardIsRobust`. The
invariant `ReportInv` carries, from collection to pending, Prepare and certificate, that an
aggregate is of one epoch and of at least 2f+1 different replicas. `NthIsBetween` says where the
k-th smallest value stands; with f polluters, fewer than k and fewer than the rest, there is a
correct report on either side of it (`MedianIsRobust`). `CertificatesStay` proves
`CertificateStays`. `CollectionGoesOn` is the safety side of `ReportsAreAggregated`: an epoch
with 2f+1 reports is aggregated or its timer runs; `active_collection_timers` is exact.

Only model-checked: liveness, which the prover does not reach (`EveryoneCommits`,
`QuorumIsUsed`, `EverySlotCommits`, `EveryCutIsExecuted`, `EveryPrepareIsVoted`, `LanesGrow`,
`CutsAreVoted`, `CutsSpread`, `SuspendedHeadersResume`, `TransactionsAreProposed`,
`EveryoneIsServed`, `ReportsAreAggregated`). Every safety property of the runs is a theorem,
some under the hypotheses above; outside these TLC checks the instances of section 3.

## 6. Disagreements between the code and its comments

* `late_votes` (`CommittedCutsAreKept`): `process_confirm_message` votes in a view whose Timeout
  the replica has already sent. The Timeout does not report the vote, so a view can commit and
  the next view, from a TC that reports nothing, propose another cut. `is_valid` says the TC is
  there "so that proposals that could have committed are recovered". `view_change` shows that
  with reported votes they are.
* `highest_qc` (`HighestQCWins`): `get_winning_proposals` raises the winning view to the
  Timeout's, so the first Confirm in the TC wins, not the one with the highest view.
* `same_order` (`CommitsAreReprocessed`): the HeaderWaiter files a message under
  `proposal_digest`, which hashes the header digests alone. When the Prepare and the Commit of a
  slot iterate in the same order, the waiter that ends first removes the key and with it the
  handle of the other, and a Commit that was received is not processed again.

Observed with other constants of the same modules, without a run of their own:

* Signals that lower k: at most k slots open (`core.rs:192`, `1814`) fails. The check of slot s
  looks at slot s - k only; when k shrinks, the slots in between are never waited for, and more
  than k stay open. Nor does it hold while k is only raised, with four replicas, five slots and
  a view change of slot 4: a leader that has not committed the slot of application still has the
  old, smaller k and begins slot 5 on the commit of 4 while 3 is open. `SlotsAreOpened` is what
  is left of the limit.
* Fast sync with optimistic tips: a Prepare whose missing tips all lie at or below
  `last_fast_sync_heights` is not ready, and not suspended either.
* k raised from 1 to 2: `TicketStartsTimer` fails, the timer started by a commit uses another k
  than the Prepare's (`core.rs:2847` and `2423`). k lowered from 2 to 1 over 6 slots:
  `ProposerVotes` fails, as `is_valid` and the proposer compute a ticket's slot with different k
  (`core.rs:1947` and `1845`), and the slot waits for its view change.
* A leader on the fast path and voters that are not (`FastPath` = {r3, r4}, without late votes):
  `CommittedCutsAreKept` fails. Voters off the fast path report no Prepare (`core.rs:2466`), so
  a fast Commit is not recovered. `RecoversReportedVotes` counts such a vote as omitted.
* A Prepare that waited for data is voted for in a view the replica has left
  (`process_loopback`, `core.rs:3012`), and then replaces the newer one in `high_proposals`,
  against the comment "Already checked that we were in the right view" (`core.rs:2467`).
* In a committee of up to three the quorum is everyone. `verify_commit` takes a certificate of
  that size for a fast one (`messages.rs:173`), so no Commit of the slow path is accepted.
* A cut of genesis tips alone never reaches the Committer (`get_proposals` returns nothing).
* A leader that proposes before it has a header of its own puts `Header::default()` into the
  cut. `messages.rs:561-562` takes default and genesis digests for equal, the readiness check
  does not (`synchronizer.rs:308`): no replica is ever ready for this Prepare, and
  `CutsAreVoted` excepts it (`NoTip`).
* Without optimistic tips the leader's own tip is in the cut uncertified all the same, and
  voters do not wait for it: `CutsAreObtainable` fails when the leader crashes. `CutsObtainable`
  therefore assumes optimistic tips, which is the default (`config/src/lib.rs:192`).
* Fast sync never requests a lost header of height 1: `last_fast_sync_heights` starts at 1.
* Nothing keeps `AppliedBegin` at or below `EpochSlots`. With a larger value `epoch_slot_index`
  never equals it, and an update that is held back waits for ever.

Met while modelling the worker (`Batches`):

* The retry of batch requests is commented out (`worker/src/synchronizer.rs:230-244`), against
  the comment at 156-157, "If this fails, we will send it to other nodes when a timer times
  out". `SuspendedHeadersResume` therefore excepts a loss of the request or its answer.
* A worker that already has a batch when its primary asks for it does not announce it again. If
  the notice to the primary was lost, the header that waits stays suspended for ever.
* `partition_queue` (`batch_maker.rs:418`) is filled and never drained; the other side fetches
  the batches on request. Any effect, not only a partition, restricts the broadcast.
* `worker.rs:291-292` says the BatchMaker broadcasts "(in a reliable manner)"; it is a
  SimpleSender. The QuorumWaiter gets no batches, and `Cleanup` of the worker and of the
  HeaderWaiter have no effect.

Met while modelling what `Core` sends (`Outbox`):

* The acknowledgement is sent before the handler passes the message on, so between an old runner
  and a new one the order of hand-over to `Core` may differ from the order of reading, which
  `ImplementsDelivery` is about.
* `partition_delayed_msgs` is not cleared (`core.rs:5070`), so a second partition sends the
  messages of the first again.
* PrepareDelay drops Confirms and Commits it should delay; `EveryoneIsServed` excepts them.
* A Commit is filed under the height of the current header and dropped with it; `Cleanup` is
  broadcast with handlers that are dropped at once (`core.rs:5172`).
* The types of effects are popped one per window, but a window that does not target the node
  leaves its type in place, so that the next window runs the wrong effect (`core.rs:2599-2630`).

Met while modelling reports (`EpochReports`):

* Slots and views of one epoch may carry different aggregates, so two replicas may certify
  different ones for the same epoch. The code promises a replica one certificate, not the
  replicas the same one.
* An aggregate is pending again after the certificate of its epoch when it is built late,
  against the comment at `core.rs:317`. `CertificateStays` shows that this does no harm.
* An `AggregateReport` is verified without a look at how many reports it has; its robustness
  rests on the threshold of whoever built it. With the aggregation strategy Mean, or for the
  lane growth, which takes the maximum, one report decides.
* The trigger counts epochs by `slot / epoch_slots`, the reports by `(slot - 1) / epoch_slots`;
  a commit that jumps over the slots in between collects nothing in that epoch.

## 7. Not modelled

* Byzantine replicas, signatures, digests as bytes: cryptography is ideal, all follow the code.
* Restart: `Core::run` starts from nothing, so a restarted replica forgets its votes. Crashes
  are for good.
* Retransmission of a Commit: there is none in the code (`handle_timeout` of a committed slot
  returns), so `EveryoneCommits` rests on delivery.
* Collection of old slots: the arm of `Core::run` drops what is max(2k, gc_depth) slots below
  the last commit, more slots than any model has. `clean_slot_periods`, which would drop more
  after each commit, is not awaited and so does not run.
* Parameters other than k and the fast path: they are values without arithmetic of their own.
* Simulated asynchrony: effects that overlap (each toggles what the other set); TempBlip panics.
* Reports: contents beyond one reward, and their files. Prepares commit in any order.
* Ride-sharing (`use_ride_share`, off by default: consensus messages in headers, votes that wait
  for a QC, the car timer), and the certificate waiter, which nothing reaches without it.
* The agent, whose signals arrive at any time in `SlotPipeline`; benchmark and deployment
  scripts; start-up of the tasks, files and keys. The crates `hotstuff`, `sailfish` and
  `consensus` are not in the Cargo workspace.
* The order in which the Committer walks a slot's lanes: `OrderedLog` delivers headers as a set.

## 8. Plan

A model of `Lanes` with consensus messages in headers (ride-sharing): votes that wait for a QC,
the car timer, the special rule. A theorem about what the fast path keeps over more than two
views.
