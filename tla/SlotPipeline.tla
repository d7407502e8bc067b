---------------------------- MODULE SlotPipeline ----------------------------
(***************************************************************************)
(* The pipeline of slots in the primaries' Core: the Prepare of slot s-1   *)
(* is the ticket for slot s, a slot is begun k slots ahead of a committed  *)
(* one, and k is reloaded while the pipeline runs.                         *)
(*                                                                         *)
(* One slot is abstracted to what the pipeline sees of it (SlotConsensus   *)
(* has the rest): it is decided once a quorum has voted for a Prepare of   *)
(* one of its views, and a quorum of timeouts lets the leader of view 2    *)
(* prepare it.  View 2 stands for every later view.  Each Prepare reaches  *)
(* a replica once, in any order.                                           *)
(*                                                                         *)
(* A definition whose comment begins with BUG is a mistake the next        *)
(* definition could contain; the model does not use it.                    *)
(***************************************************************************)
EXTENDS Committee

CONSTANTS
    MaxSlot,        \* bound: the last slot that is proposed
    K,              \* Parameters::k at start
    EpochSlots,     \* Parameters::epoch_slots
    AppliedBegin,   \* Parameters::applied_begin
    Signals,        \* the parameter updates the agent may signal
    Expiring,       \* bound: the slots whose timers may expire
    Crashed,        \* replicas that never take a step
    None

Slots == 1 .. MaxSlot

ASSUME PipelineAssumption ==
    /\ MaxSlot \in Nat \ {0}
    /\ K \in Nat \ {0}
    /\ EpochSlots \in Nat
    /\ AppliedBegin \in Nat
    /\ Signals \subseteq [epoch : Nat, k : Nat \ {0}]
    /\ Crashed \subseteq Replicas
    /\ Expiring \subseteq Slots
    /\ None \notin Nat /\ None \notin Signals

VARIABLES
    core,           \* the fields of each replica's Core that the pipeline uses
    unread,         \* the Prepares that still have to reach a replica
    timeouts        \* per slot, the replicas that broadcast a Timeout of view 1

vars == <<core, unread, timeouts>>

Prepares == [slot : Slots, view : {1, 2}, ticket : Slots \cup {None}]

CoreFields ==
    [k : Nat \ {0}, last_used_k : Nat \ {0}, k_transition_end_slot : Nat \cup {None},
     pending_param_update : Signals \cup {None}, rl_param_signal_epoch : Nat,
     committed_slots : SUBSET Slots, views : [Slots -> 0 .. 2],
     timers : SUBSET (Nat \ {0}), prepare_tickets : SUBSET (0 .. MaxSlot),
     already_proposed_slots : SUBSET (0 .. MaxSlot),
     last_voted_consensus : SUBSET (Slots \X {1, 2})]

LastCommitted(c) ==
    IF c.committed_slots = {} THEN 0
    ELSE CHOOSE s \in c.committed_slots : \A t \in c.committed_slots : t <= s
-----------------------------------------------------------------------------
(***************************************************************************)
(* Epochs, and the k of a slot.  Updates are applied at slot AppliedBegin  *)
(* of an epoch; with no such slot they are applied at once.                *)
(***************************************************************************)
NoEpochs == EpochSlots = 0 \/ AppliedBegin = 0
epoch_index_for_slot(s) ==
    IF EpochSlots = 0 \/ s = 0 THEN 0 ELSE (s - 1) \div EpochSlots
epoch_slot_index(s) == ((s - 1) % EpochSlots) + 1
epoch_start_slot(e) == e * EpochSlots + 1

base_k_for_slot(c, s) ==
    IF NoEpochs THEN c.k
    ELSE IF epoch_slot_index(s) < AppliedBegin THEN c.last_used_k ELSE c.k

\* effective_k_for_prepare_slot and effective_k_for_qc_slot.
effective_k(c, s) ==
    LET base_k == base_k_for_slot(c, s)
    IN  IF /\ c.k_transition_end_slot # None
           /\ s <= c.k_transition_end_slot
           /\ c.last_used_k > base_k
        THEN c.last_used_k
        ELSE base_k

\* Slot s may begin: it is among the first k, or slot s - k is committed.
QCReady(c, s) ==
    LET k == effective_k(c, s)
    IN  s > k => s - k \in c.committed_slots
-----------------------------------------------------------------------------
(***************************************************************************)
(* apply_parameter_updates, of which k is modelled.  A smaller k keeps the *)
(* old one in force for the slots in flight.                               *)
(***************************************************************************)
TransitionEnd(c) ==
    (IF NoEpochs THEN LastCommitted(c)
     ELSE epoch_start_slot(epoch_index_for_slot(LastCommitted(c))) + AppliedBegin - 1)
    + c.k

apply_parameter_updates(c, k) ==
    IF k = c.k THEN c
    ELSE [c EXCEPT !.last_used_k = c.k,
                   !.k = k,
                   !.k_transition_end_slot = IF k < c.k THEN TransitionEnd(c) ELSE None]

\* BUG: an update that comes after its slot waits for it all the same.
NeverLate(c, signal) == FALSE

\* The update's epoch has passed the slot where it is applied.
TooLate(c, signal) ==
    /\ signal.epoch = epoch_index_for_slot(LastCommitted(c))
    /\ epoch_slot_index(LastCommitted(c)) >= AppliedBegin

Stale(c, signal) ==
    \/ signal.epoch < c.rl_param_signal_epoch
    \/ /\ c.pending_param_update # None
       /\ signal.epoch <= c.pending_param_update.epoch

(***************************************************************************)
(* handle_param_update_signal.  A signal of the running epoch that comes   *)
(* before anything is committed is dropped: slot 0 is in no epoch.         *)
(***************************************************************************)
handle_param_update_signal(c, signal) ==
    LET current == epoch_index_for_slot(LastCommitted(c))
        replaced == [c EXCEPT !.pending_param_update = None]
        Expect(epoch) == [replaced EXCEPT !.rl_param_signal_epoch = epoch]
    IN  CASE NoEpochs ->
                [apply_parameter_updates(c, signal.k) EXCEPT
                    !.rl_param_signal_epoch = signal.epoch + 1]
          [] ~NoEpochs /\ Stale(c, signal) -> c
          [] ~NoEpochs /\ ~Stale(c, signal) /\ signal.epoch > current ->
                [Expect(signal.epoch) EXCEPT !.pending_param_update = signal]
          [] OTHER ->
                IF LastCommitted(c) = 0 THEN replaced
                ELSE IF signal.epoch < current \/ TooLate(c, signal)
                THEN IF signal.epoch + 1 > c.rl_param_signal_epoch
                     THEN Expect(signal.epoch + 1) ELSE replaced
                ELSE [replaced EXCEPT !.pending_param_update = signal]
-----------------------------------------------------------------------------
(***************************************************************************)
(* Tickets.  is_prepare_ticket_ready looks at the Prepare of a slot at the *)
(* leader of the next one: the ticket is used when the window is open and  *)
(* the replica's tips have moved far enough beyond the cut of that Prepare *)
(* (enough_coverage), and kept otherwise.  covered are the tickets whose   *)
(* cut is left behind far enough.                                          *)
(***************************************************************************)
Mine(r, c, tickets) ==
    {s \in tickets : /\ s < MaxSlot
                     /\ Leader(s + 1, 1) = r
                     /\ s + 1 \notin c.already_proposed_slots}

\* BUG: coverage alone lets the next slot begin.
CoveredAlone(r, c, tickets, covered) == Mine(r, c, tickets) \cap covered

Ready(r, c, tickets, covered) ==
    {s \in Mine(r, c, tickets) \cap covered : QCReady(c, s + 1)}

UseTickets(r, c, tickets, covered) ==
    LET ready == Ready(r, c, tickets, covered)
    IN  [c EXCEPT !.prepare_tickets = (@ \ tickets) \cup (Mine(r, c, tickets) \ ready),
                  !.already_proposed_slots = @ \cup {s + 1 : s \in ready}]

\* BUG: the first slots name a commit as well, k slots before the first.
NewPrepareUnchecked(c, s) == [slot |-> s, view |-> 1, ticket |-> s - effective_k(c, s)]

\* The Prepare of slot s names the commit that opened the window for it.
NewPrepare(c, s) ==
    LET k == effective_k(c, s)
    IN  [slot |-> s, view |-> 1, ticket |-> IF s > k THEN s - k ELSE None]

NewPrepares(r, c, tickets, covered) ==
    {NewPrepare(c, s + 1) : s \in Ready(r, c, tickets, covered)}

(***************************************************************************)
(* is_valid of a Prepare of view 1: with the k this replica gives to the   *)
(* ticket's slot, it has the commit the Prepare must name or the Prepare   *)
(* names it.                                                               *)
(***************************************************************************)
ValidTicket(c, p) ==
    LET ticket_k == IF p.ticket = None THEN c.k ELSE effective_k(c, p.ticket)
    IN  p.slot > ticket_k =>
            \/ p.slot - ticket_k \in c.committed_slots
            \/ p.ticket # None /\ p.ticket + ticket_k = p.slot

\* BUG: the view of slot 1, which a replica is in from the start, is over.
AcceptsNewViews(c, p) ==
    /\ p.view = 1 => ValidTicket(c, p)
    /\ c.views[p.slot] < p.view
    /\ <<p.slot, p.view>> \notin c.last_voted_consensus

Accepts(c, p) ==
    /\ p.view = 1 => ValidTicket(c, p)
    /\ c.views[p.slot] <= p.view
    /\ <<p.slot, p.view>> \notin c.last_voted_consensus

\* BUG: a Prepare starts no timer, only a Commit does.
NoTimer(c, s) == FALSE

\* process_prepare_message starts the timer of the next slot when that slot
\* may begin; with k = 1 this is left to the Commit.
TimerDue(c, s) ==
    /\ effective_k(c, s) > 1
    /\ s \notin c.committed_slots
    /\ QCReady(c, s)

\* The votes for a set of Prepares of different slots.
VoteFor(c, prepares) ==
    LET accepted == {p \in prepares : Accepts(c, p)}
    IN  [c EXCEPT
            !.views = [s \in Slots |-> IF \E p \in accepted : p.slot = s
                                       THEN (CHOOSE p \in accepted : p.slot = s).view
                                       ELSE @[s]],
            !.last_voted_consensus = @ \cup {<<p.slot, p.view>> : p \in accepted},
            !.timers = @ \cup {s \in {p.slot + 1 : p \in accepted} : TimerDue(c, s)}]

(***************************************************************************)
(* What follows once the tickets have been looked at: the replica's own    *)
(* Prepares go out and are voted for at once.  (They are tickets for       *)
(* slots it does not lead.)                                                *)
(***************************************************************************)
Proposing(r, c, tickets, covered, rest) ==
    LET sent == NewPrepares(r, c, tickets, covered)
    IN  /\ core' = [core EXCEPT ![r] = VoteFor(UseTickets(r, c, tickets, covered), sent)]
        /\ unread' = [x \in Replicas |-> IF x = r THEN rest ELSE unread[x] \cup sent]

(***************************************************************************)
(* process_commit_message up to the tickets: the timers of the slot stop,  *)
(* the window moves, an update that waits for this slot is applied, and    *)
(* the timer of the slot that may now begin is started.                    *)
(***************************************************************************)
CommitSlot(c, s) ==
    LET d == [c EXCEPT !.timers = @ \ {s}, !.committed_slots = @ \cup {s}]
    IN  IF /\ d.k_transition_end_slot # None
           /\ LastCommitted(d) >= d.k_transition_end_slot
        THEN [d EXCEPT !.k_transition_end_slot = None]
        ELSE d

\* BUG: the update of an earlier epoch is applied as well.
AppliesInAnyEpoch(c, s) ==
    c.pending_param_update # None /\ epoch_slot_index(s) = AppliedBegin

AppliesAt(c, s) ==
    /\ c.pending_param_update # None
    /\ epoch_slot_index(s) = AppliedBegin
    /\ epoch_index_for_slot(s) = c.pending_param_update.epoch

ApplyPending(c, s) ==
    IF AppliesAt(c, s)
    THEN [apply_parameter_updates(c, c.pending_param_update.k) EXCEPT
            !.pending_param_update = None,
            !.rl_param_signal_epoch = @ + 1]
    ELSE c

\* BUG: the slot before the next one is taken to be started, as it is with k = 1.
TimerUnseen(c, s) == [c EXCEPT !.timers = @ \cup {s + effective_k(c, s)}]

StartNextTimer(c, s) ==
    LET k == effective_k(c, s)
    IN  IF k = 1 \/ (s + k - 1 \in Slots /\ c.views[s + k - 1] > 0)
        THEN [c EXCEPT !.timers = @ \cup {s + k}]
        ELSE c

process_commit(c, s) == StartNextTimer(ApplyPending(CommitSlot(c, s), s), s)
-----------------------------------------------------------------------------
\* Core::run: slot 1 has its timer, and its leader a ticket for it.
Init ==
    /\ core = [r \in Replicas |->
            [k |-> K, last_used_k |-> K, k_transition_end_slot |-> None,
             pending_param_update |-> None, rl_param_signal_epoch |-> 0,
             committed_slots |-> {}, views |-> [s \in Slots |-> IF s = 1 THEN 1 ELSE 0],
             timers |-> {1},
             prepare_tickets |-> IF r = Leader(1, 1) THEN {0} ELSE {},
             already_proposed_slots |-> IF r = Leader(1, 1) THEN {0} ELSE {},
             last_voted_consensus |-> {}]]
    /\ unread = [r \in Replicas |-> {}]
    /\ timeouts = [s \in Slots |-> {}]

(***************************************************************************)
(* New tips: the tickets that wait for coverage are looked at again        *)
(* (process_header and process_certificate, try_prepare_waiting_slots).    *)
(***************************************************************************)
NewTips(r, covered) ==
    /\ Ready(r, core[r], core[r].prepare_tickets, covered) # {}
    /\ Proposing(r, core[r], core[r].prepare_tickets, covered, unread[r])
    /\ UNCHANGED timeouts

(***************************************************************************)
(* process_consensus_request of a Prepare.                                 *)
(***************************************************************************)
HandlePrepare(r, p) ==
    /\ p \in unread[r]
    /\ IF Accepts(core[r], p)
       THEN \E covered \in SUBSET {p.slot} :
                Proposing(r, VoteFor(core[r], {p}), {p.slot}, covered, unread[r] \ {p})
       ELSE /\ unread' = [unread EXCEPT ![r] = @ \ {p}]
            /\ UNCHANGED core
    /\ UNCHANGED timeouts

\* The replicas that voted for a Prepare of a slot and view.
Voters(s, v) == {r \in Replicas : <<s, v>> \in core[r].last_voted_consensus}
Decided(s) == \E v \in {1, 2} : IsQuorum(Voters(s, v))

(***************************************************************************)
(* process_commit_message: the Commit of a decided slot arrives, for the   *)
(* first time or again.                                                    *)
(***************************************************************************)
HandleCommit(r, s) ==
    /\ Decided(s)
    /\ LET c == process_commit(core[r], s)
       IN  \E covered \in SUBSET Mine(r, c, c.prepare_tickets) :
              Proposing(r, c, c.prepare_tickets, covered, unread[r])
    /\ UNCHANGED timeouts

(***************************************************************************)
(* local_timeout_round of view 1.                                          *)
(***************************************************************************)
LocalTimeout(r, s) ==
    /\ s \in Expiring
    /\ s \in core[r].timers
    /\ core[r].views[s] <= 1
    /\ s \notin core[r].committed_slots
    /\ r \notin timeouts[s]
    /\ timeouts' = [timeouts EXCEPT ![s] = @ \cup {r}]
    /\ UNCHANGED <<core, unread>>

(***************************************************************************)
(* handle_timeout with the last Timeout of a quorum: the replica moves to  *)
(* view 2, whose leader prepares the slot, and has with that Prepare a     *)
(* ticket for the next slot, which it leads as well.                       *)
(***************************************************************************)
HandleTimeouts(r, s) ==
    /\ IsQuorum(timeouts[s])
    /\ core[r].views[s] <= 1
    /\ s \notin core[r].committed_slots
    /\ LET p == [slot |-> s, view |-> 2, ticket |-> None]
           c == [core[r] EXCEPT !.views[s] = 2]
       IN  IF r = Leader(s, 2)
           THEN \E covered \in SUBSET {s} :
                  LET d == VoteFor(c, {p})
                      sent == NewPrepares(r, d, {s}, covered)
                  IN  /\ core' = [core EXCEPT ![r] =
                                    VoteFor(UseTickets(r, d, {s}, covered), sent)]
                      /\ unread' = [x \in Replicas |->
                                    IF x = r THEN unread[x] ELSE unread[x] \cup sent \cup {p}]
           ELSE /\ core' = [core EXCEPT ![r] = c]
                /\ UNCHANGED unread
    /\ UNCHANGED timeouts

(***************************************************************************)
(* handle_param_update_signal: the agent's signal, at any time, lost or    *)
(* repeated.                                                               *)
(***************************************************************************)
HandleSignal(r, signal) ==
    /\ core' = [core EXCEPT ![r] = handle_param_update_signal(@, signal)]
    /\ UNCHANGED <<unread, timeouts>>

Live == Replicas \ Crashed

Step(r) ==
    \/ \E covered \in SUBSET core[r].prepare_tickets : NewTips(r, covered)
    \/ \E p \in unread[r] : HandlePrepare(r, p)
    \/ \E s \in Slots : HandleCommit(r, s) \/ LocalTimeout(r, s) \/ HandleTimeouts(r, s)
    \/ \E signal \in Signals : HandleSignal(r, signal)

Next == \E r \in Live : Step(r)

Spec == Init /\ [][Next]_vars

\* A replica that can move on does: ReliableSender delivers, timers expire, and
\* the lanes keep growing.
Progress(r) ==
    \/ NewTips(r, core[r].prepare_tickets)
    \/ \E p \in unread[r] : HandlePrepare(r, p)
    \/ \E s \in Slots \ core[r].committed_slots : HandleCommit(r, s)
    \/ \E s \in Slots : LocalTimeout(r, s) \/ HandleTimeouts(r, s)

Fairness == \A r \in Live : WF_vars(Progress(r))

FairSpec == Spec /\ Fairness
-----------------------------------------------------------------------------
TypeOK ==
    /\ core \in [Replicas -> CoreFields]
    /\ unread \in [Replicas -> SUBSET Prepares]
    /\ timeouts \in [Slots -> SUBSET Replicas]

Started == {s \in Slots : \E r \in Replicas :
                s \in core[r].already_proposed_slots \/ core[r].views[s] > 0}
Committed == {s \in Slots : \E r \in Replicas : s \in core[r].committed_slots}

\* The window of SlotWindow, for the k the replicas started with.
Window == INSTANCE SlotWindow WITH started <- Started, committed <- Committed

(***************************************************************************)
(* While k is not changed the pipeline keeps the window: it starts slots   *)
(* in order, and no slot is begun, proposed or timed out before slot s - k *)
(* is committed at some replica.                                           *)
(***************************************************************************)
KeepsWindow == Window!Spec

(***************************************************************************)
(* Whatever k is changed to, and by whom first: slots begin in order, and  *)
(* a slot begins, in view 1 or by a view change, only on the commit of the *)
(* slot k before it, for a k that has been signalled.  (More than k slots  *)
(* may be open all the same: README, section 6.)                           *)
(***************************************************************************)
Ks == {K} \cup {signal.k : signal \in Signals}

SlotsAreOpened ==
    \A s \in Started :
        /\ 1 .. (s - 1) \subseteq Started
        /\ \E k \in Ks : s > k => s - k \in Committed

(***************************************************************************)
(* A replica that has the ticket of a slot, the Prepare of the slot before *)
(* and the commit that opens the window, has the slot timed: a leader that *)
(* never proposes it is replaced.                                          *)
(***************************************************************************)
TicketStartsTimer ==
    \A r \in Replicas, s \in Slots :
        /\ s > 1
        /\ \E v \in {1, 2} : <<s - 1, v>> \in core[r].last_voted_consensus
        /\ QCReady(core[r], s)
        => s \in core[r].timers \cup core[r].committed_slots

(***************************************************************************)
(* A leader's Prepare names the commit that opened the window, and passes  *)
(* the leader's own check: it votes for it, unless it was timed out.       *)
(***************************************************************************)
ProposerVotes ==
    \A r \in Replicas, s \in Slots :
        /\ s \in core[r].already_proposed_slots
        /\ core[r].views[s] <= 1
        => <<s, 1>> \in core[r].last_voted_consensus

(***************************************************************************)
(* An update a replica holds back is still ahead of it: the slot that      *)
(* applies it is not committed, so the update is not forgotten.            *)
(***************************************************************************)
PendingIsAhead ==
    \A r \in Replicas :
        LET pending == core[r].pending_param_update
        IN  pending # None =>
                epoch_start_slot(pending.epoch) + AppliedBegin - 1
                    \notin core[r].committed_slots

(***************************************************************************)
(* k changes only on the first commit of the slot that applies updates,    *)
(* and to the value signalled for its epoch.                               *)
(***************************************************************************)
UpdatedOnSchedule ==
    [][\A r \in Replicas :
         core'[r].k # core[r].k =>
            \E s \in core'[r].committed_slots \ core[r].committed_slots, g \in Signals :
                /\ epoch_slot_index(s) = AppliedBegin
                /\ g = [epoch |-> epoch_index_for_slot(s), k |-> core'[r].k]]_vars

(***************************************************************************)
(* Every live replica commits every slot.                                  *)
(***************************************************************************)
EverySlotCommits == <>(\A r \in Live : core[r].committed_slots = Slots)
=============================================================================
