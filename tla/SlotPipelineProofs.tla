------------------------- MODULE SlotPipelineProofs -------------------------
(***************************************************************************)
(* The window of parallel instances, for every number of replicas and of   *)
(* slots and whatever k the agent signals, then for a k that is not        *)
(* updated; updates of k; the timers and votes of a replica.               *)
(*                                                                         *)
(* What a replica's Core holds is described by GoodCore, relative to the   *)
(* slots S that are started and the slots C that are committed: whatever   *)
(* it may act on next, a ticket, a timer, a vote, belongs to a slot whose  *)
(* predecessors are in S, and a timer also to a slot whose window is open  *)
(* in C.  GoodCore survives when S and C grow, so a step of one replica    *)
(* leaves the others alone.                                                *)
(***************************************************************************)
EXTENDS SlotPipeline, CommitteeProofs

\* Slot s may begin when the slots S are started and the slots C committed.
Begun(s, S, C) ==
    /\ 1 .. (s - 1) \subseteq S
    /\ \E k \in Ks : s > k => s - k \in C

WindowKept(S, C) ==
    /\ S \subseteq Slots
    /\ C \subseteq S
    /\ \A s \in S : Begun(s, S, C)

\* The k a Core has, and the one before it, have been signalled.
KnownK(c) == c.k \in Ks /\ c.last_used_k \in Ks

\* What k is without updates.
FixedK(c) ==
    /\ c.k = K
    /\ c.last_used_k = K
    /\ c.k_transition_end_slot = None
    /\ c.pending_param_update = None

GoodCore(c, S, C) ==
    /\ c \in CoreFields
    /\ KnownK(c)
    /\ \A s \in c.prepare_tickets : s = 0 \/ s \in S
    /\ \A s \in c.timers : Begun(s, S, C)
    /\ c.committed_slots \subseteq C
    /\ \A s \in Slots : s \in c.already_proposed_slots \/ c.views[s] > 0 => s \in S
    /\ \A s \in Slots, v \in {1, 2} : <<s, v>> \in c.last_voted_consensus => s \in S

PipelineInv ==
    /\ WindowKept(Started, Committed)
    /\ core \in [Replicas -> CoreFields]
    /\ \A r \in Replicas : GoodCore(core[r], Started, Committed)
    /\ unread \in [Replicas -> SUBSET Prepares]
    /\ \A r \in Replicas : \A p \in unread[r] : p.slot \in Started
    /\ timeouts \in [Slots -> SUBSET Replicas]
    /\ \A s \in Slots : timeouts[s] # {} => Begun(s, Started, Committed)

\* The agent signals no update.
NoUpdates == Signals = {}
-----------------------------------------------------------------------------
LEMMA Constants ==
    /\ MaxSlot \in Nat \ {0} /\ K \in Nat \ {0} /\ None \notin Nat
    /\ Slots \subseteq Nat /\ Size \in Nat
BY PipelineAssumption, CommitteeAssumption DEF Slots, Size

LEMMA KsAreNaturals ==
    /\ Ks \subseteq Nat \ {0} /\ K \in Ks
    /\ \A signal \in Signals : signal.k \in Ks
    /\ NoUpdates => Ks = {K}
BY PipelineAssumption DEF Ks, NoUpdates

LEMMA EffectiveKIsKnown ==
    ASSUME NEW c, KnownK(c), NEW s
    PROVE  effective_k(c, s) \in Ks /\ effective_k(c, s) \in Nat \ {0}
<1>1. base_k_for_slot(c, s) \in Ks
  BY DEF KnownK, base_k_for_slot
<1>2. effective_k(c, s) \in {base_k_for_slot(c, s), c.last_used_k}
  BY DEF effective_k
<1> QED
  BY <1>1, <1>2, KsAreNaturals DEF KnownK

LEMMA FixedKEffective ==
    ASSUME NEW c, FixedK(c), NEW s
    PROVE  effective_k(c, s) = K
BY DEF FixedK, effective_k, base_k_for_slot

-----------------------------------------------------------------------------
(***************************************************************************)
(* Epochs, and what an update does to a Core.                              *)
(***************************************************************************)
LEMMA LastCommittedIsLast ==
    ASSUME NEW c, c.committed_slots \subseteq Slots
    PROVE  /\ LastCommitted(c) \in Nat
           /\ \A s \in c.committed_slots : s <= LastCommitted(c)
<1> PICK S : S = c.committed_slots
  OBVIOUS
<1>1. CASE S = {}
  BY <1>1 DEF LastCommitted
<1>2. CASE S # {}
  <2> DEFINE Last(s) == \A t \in S : t <= s
  <2>0. S \subseteq Nat /\ MaxSlot \in Nat /\ \A t \in S : t <= MaxSlot
    BY Constants DEF Slots
  <2>1. \E s \in S : Last(s)
    <3> PICK T : T = {n \in Nat : Last(n)}
      OBVIOUS
    <3>1. T \subseteq Nat /\ T # {}
      BY <2>0
    <3>2. PICK n \in T : \A m \in T : n <= m
      BY <3>1, LeastNatural
    <3>3. n \in Nat /\ Last(n)
      OBVIOUS
    <3>4. CASE n \in S
      BY <3>3, <3>4
    <3>5. CASE n \notin S
      <4>1. \A t \in S : t <= n - 1 /\ n - 1 \in Nat
        BY <2>0, <3>3, <3>5
      <4>2. n - 1 \in T
        BY <1>2, <4>1
      <4> QED
        BY <3>2, <3>3, <4>2
    <3> QED
      BY <3>4, <3>5
  <2>2. LastCommitted(c) = CHOOSE s \in S : Last(s)
    BY <1>2 DEF LastCommitted
  <2> HIDE DEF Last
  <2>3. LastCommitted(c) \in S /\ Last(LastCommitted(c))
    BY <2>1, <2>2, Zenon
  <2> QED
    BY <2>0, <2>3 DEF Last
<1> QED
  BY <1>1, <1>2

\* A slot is the epoch_slot_index-th of its epoch.
LEMMA EpochsOfSlots ==
    ASSUME EpochSlots \in Nat \ {0}, NEW s \in Nat \ {0}
    PROVE  /\ epoch_index_for_slot(s) \in Nat
           /\ epoch_slot_index(s) \in 1 .. EpochSlots
           /\ s = (epoch_index_for_slot(s) * EpochSlots) + epoch_slot_index(s)
<1>1. /\ s - 1 \in Nat
      /\ (s - 1) \div EpochSlots \in Nat
      /\ (s - 1) % EpochSlots \in 0 .. (EpochSlots - 1)
      /\ s - 1 = EpochSlots * ((s - 1) \div EpochSlots) + ((s - 1) % EpochSlots)
  OBVIOUS
<1> QED
  BY <1>1 DEF epoch_index_for_slot, epoch_slot_index

LEMMA EffectiveKIsPositive ==
    ASSUME NEW c \in CoreFields, NEW s
    PROVE  effective_k(c, s) \in Nat \ {0}
<1>1. c.k \in Nat \ {0} /\ c.last_used_k \in Nat \ {0}
  BY DEF CoreFields
<1>2. base_k_for_slot(c, s) \in {c.k, c.last_used_k}
  BY DEF base_k_for_slot
<1>3. effective_k(c, s) \in {base_k_for_slot(c, s), c.last_used_k}
  BY DEF effective_k
<1> QED
  BY <1>1, <1>2, <1>3

LEMMA EpochBounds ==
    ASSUME ~NoEpochs
    PROVE  EpochSlots \in Nat \ {0} /\ AppliedBegin \in Nat \ {0}
BY PipelineAssumption DEF NoEpochs

LEMMA EpochIndexIsNatural ==
    ASSUME NEW s \in Nat
    PROVE  epoch_index_for_slot(s) \in Nat
<1>1. CASE EpochSlots = 0 \/ s = 0
  BY <1>1 DEF epoch_index_for_slot
<1>2. CASE ~(EpochSlots = 0 \/ s = 0)
  <2>1. EpochSlots \in Nat \ {0} /\ s \in Nat \ {0}
    BY <1>2, PipelineAssumption
  <2> QED
    BY <2>1, EpochsOfSlots
<1> QED
  BY <1>1, <1>2

LEMMA TransitionEndIsSlot ==
    ASSUME NEW c \in CoreFields
    PROVE  TransitionEnd(c) \in Nat
<1>1. LastCommitted(c) \in Nat /\ c.k \in Nat
  BY LastCommittedIsLast DEF CoreFields
<1>2. CASE NoEpochs
  BY <1>1, <1>2 DEF TransitionEnd
<1>3. CASE ~NoEpochs
  <2> PICK e : e = epoch_index_for_slot(LastCommitted(c))
    OBVIOUS
  <2>1. e \in Nat /\ EpochSlots \in Nat /\ AppliedBegin \in Nat
    BY <1>1, <1>3, EpochIndexIsNatural, EpochBounds
  <2>2. e * EpochSlots \in Nat
    BY <2>1
  <2>3. TransitionEnd(c) = e * EpochSlots + 1 + AppliedBegin - 1 + c.k
    BY <1>3 DEF TransitionEnd, epoch_start_slot
  <2> QED
    BY <1>1, <2>1, <2>2, <2>3
<1> QED
  BY <1>2, <1>3

\* The fields about slots.
SameSlots(c, d) ==
    /\ d.committed_slots = c.committed_slots
    /\ d.views = c.views
    /\ d.timers = c.timers
    /\ d.prepare_tickets = c.prepare_tickets
    /\ d.already_proposed_slots = c.already_proposed_slots
    /\ d.last_voted_consensus = c.last_voted_consensus

\* An update changes k, the k before and the slots in transition.
LEMMA UpdateTypes ==
    ASSUME NEW c \in CoreFields, NEW k \in Nat \ {0},
           NEW d, d = apply_parameter_updates(c, k)
    PROVE  /\ d \in CoreFields /\ d.k = k /\ d.last_used_k \in {c.k, c.last_used_k}
           /\ SameSlots(c, d)
           /\ d.pending_param_update = c.pending_param_update
           /\ d.rl_param_signal_epoch = c.rl_param_signal_epoch
<1>1. CASE k = c.k
  BY <1>1 DEF apply_parameter_updates, SameSlots
<1>2. CASE k # c.k
  <2> PICK end : end = IF k < c.k THEN TransitionEnd(c) ELSE None
    OBVIOUS
  <2>1. d = [c EXCEPT !.last_used_k = c.k, !.k = k, !.k_transition_end_slot = end]
    BY <1>2, Zenon DEF apply_parameter_updates
  <2>2. end \in Nat \cup {None}
    BY TransitionEndIsSlot
  <2>3. c.k \in Nat \ {0}
    BY DEF CoreFields
  <2>4. d \in CoreFields
    BY <2>1, <2>2, <2>3 DEF CoreFields
  <2>5. /\ d.k = k /\ d.last_used_k = c.k
        /\ d.pending_param_update = c.pending_param_update
        /\ d.rl_param_signal_epoch = c.rl_param_signal_epoch
    BY <2>1 DEF CoreFields
  <2>6. SameSlots(c, d)
    BY <2>1 DEF CoreFields, SameSlots
  <2> QED
    BY <2>4, <2>5, <2>6
<1> QED
  BY <1>1, <1>2

(***************************************************************************)
(* The records the two updates of a Core build have the fields of a Core.  *)
(***************************************************************************)
LEMMA TicketFields ==
    ASSUME NEW c \in CoreFields,
           NEW tickets \in SUBSET (0 .. MaxSlot), NEW slots \in SUBSET (0 .. MaxSlot)
    PROVE  [c EXCEPT !.prepare_tickets = tickets, !.already_proposed_slots = slots]
               \in CoreFields
  BY DEF CoreFields

LEMMA VoteFields ==
    ASSUME NEW c \in CoreFields, NEW views \in [Slots -> 0 .. 2],
           NEW voted \in SUBSET (Slots \X {1, 2}), NEW timers \in SUBSET (Nat \ {0})
    PROVE  [c EXCEPT !.views = views, !.last_voted_consensus = voted, !.timers = timers]
               \in CoreFields
  BY DEF CoreFields

NextSlots(r, c, tickets, covered) == {s + 1 : s \in Ready(r, c, tickets, covered)}

-----------------------------------------------------------------------------
(***************************************************************************)
(* What the operations do to a Core, whatever k is: they keep its types,   *)
(* and voting and proposing leave alone what an update depends on.         *)
(***************************************************************************)
SameUpdates(c, d) ==
    /\ d.k = c.k
    /\ d.last_used_k = c.last_used_k
    /\ d.k_transition_end_slot = c.k_transition_end_slot
    /\ d.pending_param_update = c.pending_param_update
    /\ d.committed_slots = c.committed_slots

LEMMA VotedCore ==
    ASSUME NEW c \in CoreFields, NEW views \in [Slots -> 0 .. 2],
           NEW voted \in SUBSET (Slots \X {1, 2}), NEW timers \in SUBSET (Nat \ {0}),
           NEW d, d = [c EXCEPT !.views = views, !.last_voted_consensus = voted,
                                !.timers = timers]
    PROVE  d \in CoreFields
BY DEF CoreFields

\* A vote never takes a replica back to an earlier view.
LEMMA VoteForTypes ==
    ASSUME NEW c \in CoreFields, NEW prepares \in SUBSET Prepares,
           NEW d, d = VoteFor(c, prepares)
    PROVE  /\ d \in CoreFields /\ SameUpdates(c, d)
           /\ d.prepare_tickets = c.prepare_tickets
           /\ d.already_proposed_slots = c.already_proposed_slots
           /\ c.last_voted_consensus \subseteq d.last_voted_consensus
           /\ c.timers \subseteq d.timers
           /\ \A s \in Slots : c.views[s] <= d.views[s]
           /\ \A p \in prepares : Accepts(c, p) =>
                 /\ <<p.slot, p.view>> \in d.last_voted_consensus
                 /\ d.views[p.slot] > 0
                 /\ TimerDue(c, p.slot + 1) => p.slot + 1 \in d.timers
           /\ \A x \in d.last_voted_consensus \ c.last_voted_consensus :
                 \E p \in prepares : Accepts(c, p) /\ x = <<p.slot, p.view>>
           /\ \A s \in Slots : d.views[s] # c.views[s] => <<s, d.views[s]>> \in d.last_voted_consensus
<1>a. PICK accepted : accepted = {p \in prepares : Accepts(c, p)}
  OBVIOUS
<1>b. PICK voted : voted = c.last_voted_consensus \cup {<<p.slot, p.view>> : p \in accepted}
  OBVIOUS
<1>c. PICK timers : timers =
        c.timers \cup {s \in {p.slot + 1 : p \in accepted} : TimerDue(c, s)}
  OBVIOUS
<1> DEFINE viewOf(s) == (CHOOSE p \in accepted : p.slot = s).view
<1>d. PICK views : views = [s \in Slots |-> IF \E p \in accepted : p.slot = s
                                          THEN viewOf(s) ELSE c.views[s]]
  OBVIOUS
<1>1. d = [c EXCEPT !.views = views, !.last_voted_consensus = voted, !.timers = timers]
  BY <1>a, <1>b, <1>c, <1>d, Zenon DEF VoteFor
<1>2. \A p \in accepted : /\ p.slot \in Slots /\ p.slot + 1 \in Nat \ {0}
                          /\ p.view \in {1, 2} /\ c.views[p.slot] <= p.view
  BY <1>a, Constants DEF Prepares, Accepts, Slots
<1>3. ASSUME NEW s \in Slots
      PROVE  /\ views[s] \in 0 .. 2 /\ c.views[s] <= views[s]
             /\ views[s] # c.views[s] => <<s, views[s]>> \in voted
  <2>1. CASE \E p \in accepted : p.slot = s
    <3>1. PICK p \in accepted : p.slot = s /\ p.view = viewOf(s)
      BY <2>1
    <3>2. views[s] = viewOf(s)
      BY <1>d, <2>1
    <3>3. <<p.slot, p.view>> \in voted
      BY <1>b
    <3> QED
      BY <1>2, <3>1, <3>2, <3>3
  <2>2. CASE ~ \E p \in accepted : p.slot = s
    <3>1. views[s] = c.views[s] /\ c.views[s] \in 0 .. 2
      BY <1>d, <2>2 DEF CoreFields
    <3> QED
      BY <3>1
  <2> QED
    BY <2>1, <2>2
<1>4. views \in [Slots -> 0 .. 2]
  <2>1. DOMAIN views = Slots /\ views = [s \in Slots |-> views[s]]
    BY <1>d
  <2> QED
    BY <1>3, <2>1
<1>5. voted \in SUBSET (Slots \X {1, 2})
  BY <1>2, <1>b DEF CoreFields
<1>6. timers \in SUBSET (Nat \ {0})
  BY <1>2, <1>c DEF CoreFields
<1>7. d \in CoreFields
  BY <1>1, <1>4, <1>5, <1>6, VotedCore
<1>8. /\ d.views = views /\ d.last_voted_consensus = voted /\ d.timers = timers
      /\ d.prepare_tickets = c.prepare_tickets
      /\ d.already_proposed_slots = c.already_proposed_slots
  BY <1>1 DEF CoreFields
<1>9. SameUpdates(c, d)
  BY <1>1 DEF CoreFields, SameUpdates
<1>10. \A p \in prepares : Accepts(c, p) =>
          /\ <<p.slot, p.view>> \in voted
          /\ TimerDue(c, p.slot + 1) => p.slot + 1 \in timers
  BY <1>a, <1>b, <1>c
<1>11. \A x \in voted \ c.last_voted_consensus :
          \E p \in prepares : Accepts(c, p) /\ x = <<p.slot, p.view>>
  BY <1>a, <1>b
<1>12. c.last_voted_consensus \subseteq voted /\ c.timers \subseteq timers
  BY <1>b, <1>c
<1>13. \A p \in prepares : Accepts(c, p) => views[p.slot] > 0
  <2>1. ASSUME NEW p \in accepted PROVE views[p.slot] > 0
    <3>1. views[p.slot] = viewOf(p.slot) /\ p.slot \in Slots
      BY <1>2, <1>d, <2>1
    <3>2. viewOf(p.slot) \in {1, 2}
      BY <1>2
    <3> QED
      BY <3>1, <3>2
  <2> QED
    BY <1>a, <2>1
<1> QED
  BY <1>3, <1>7, <1>8, <1>9, <1>10, <1>11, <1>12, <1>13

\* The fields that tickets change.
LEMMA UseTicketsTypes ==
    ASSUME NEW c \in CoreFields, NEW r, NEW tickets \in SUBSET (0 .. MaxSlot), NEW covered,
           NEW d, d = UseTickets(r, c, tickets, covered)
    PROVE  /\ d \in CoreFields /\ SameUpdates(c, d)
           /\ d.views = c.views /\ d.timers = c.timers
           /\ d.last_voted_consensus = c.last_voted_consensus
           /\ d.already_proposed_slots
                = c.already_proposed_slots \cup NextSlots(r, c, tickets, covered)
           /\ NewPrepares(r, c, tickets, covered) \subseteq Prepares
<1> PICK ready : ready = Ready(r, c, tickets, covered)
  OBVIOUS
<1> PICK kept : kept = (c.prepare_tickets \ tickets) \cup (Mine(r, c, tickets) \ ready)
  OBVIOUS
<1> PICK next : next = NextSlots(r, c, tickets, covered)
  OBVIOUS
<1>1. d = [c EXCEPT !.prepare_tickets = kept,
                    !.already_proposed_slots = c.already_proposed_slots \cup next]
  BY Zenon DEF UseTickets, NextSlots
<1>2. \A s \in Mine(r, c, tickets) : s \in 0 .. MaxSlot /\ s + 1 \in Slots
  BY Constants DEF Mine, Slots
<1>3. ready \subseteq Mine(r, c, tickets)
  BY DEF Ready
<1>4. kept \subseteq 0 .. MaxSlot /\ next \subseteq 0 .. MaxSlot
  <2>1. next \subseteq Slots
    BY <1>2, <1>3 DEF NextSlots
  <2>2. Slots \subseteq 0 .. MaxSlot
    BY DEF Slots
  <2> QED
    BY <1>2, <2>1, <2>2 DEF CoreFields
<1>5. d \in CoreFields
  <2> PICK slots : slots = c.already_proposed_slots \cup next
    OBVIOUS
  <2>1. kept \in SUBSET (0 .. MaxSlot) /\ slots \in SUBSET (0 .. MaxSlot)
    BY <1>4 DEF CoreFields
  <2>2. d = [c EXCEPT !.prepare_tickets = kept, !.already_proposed_slots = slots]
    BY <1>1, Zenon
  <2>3. [c EXCEPT !.prepare_tickets = kept, !.already_proposed_slots = slots] \in CoreFields
    BY <2>1, TicketFields
  <2> QED
    BY <2>2, <2>3, Zenon
<1>6. /\ d.views = c.views /\ d.timers = c.timers
      /\ d.last_voted_consensus = c.last_voted_consensus
      /\ d.already_proposed_slots = c.already_proposed_slots \cup next
  BY <1>1 DEF CoreFields
<1>7. SameUpdates(c, d)
  BY <1>1 DEF CoreFields, SameUpdates
<1>8. ASSUME NEW p \in NewPrepares(r, c, tickets, covered)
      PROVE  p \in Prepares
  <2>1. PICK s \in ready : p = NewPrepare(c, s + 1)
    BY <1>8 DEF NewPrepares
  <2> PICK k : k = effective_k(c, s + 1)
    OBVIOUS
  <2> PICK x : x = s + 1
    OBVIOUS
  <2>2. k \in Nat \ {0} /\ x \in Slots
    BY <1>2, <1>3, EffectiveKIsPositive
  <2>3. p = [slot |-> x, view |-> 1, ticket |-> IF x > k THEN x - k ELSE None]
    BY <2>1, Zenon DEF NewPrepare
  <2>4. x > k => x - k \in Slots
    BY <2>2, Constants DEF Slots
  <2> QED
    BY <2>2, <2>3, <2>4 DEF Prepares
<1> QED
  BY <1>5, <1>6, <1>7, <1>8

\* What process_commit does up to the update, and the update.
LEMMA CommitSlotTypes ==
    ASSUME NEW c \in CoreFields, NEW s \in Slots, NEW d, d = CommitSlot(c, s)
    PROVE  /\ d \in CoreFields
           /\ d.k = c.k /\ d.last_used_k = c.last_used_k
           /\ d.k_transition_end_slot \in {c.k_transition_end_slot, None}
           /\ d.pending_param_update = c.pending_param_update
           /\ d.committed_slots = c.committed_slots \cup {s}
           /\ d.timers = c.timers \ {s}
           /\ d.views = c.views
           /\ d.last_voted_consensus = c.last_voted_consensus
           /\ d.already_proposed_slots = c.already_proposed_slots
           /\ d.prepare_tickets = c.prepare_tickets
<1> PICK e : e = [c EXCEPT !.timers = c.timers \ {s},
                           !.committed_slots = c.committed_slots \cup {s}]
  OBVIOUS
<1>1. e \in CoreFields
  BY DEF CoreFields
<1>2. /\ e.k = c.k /\ e.last_used_k = c.last_used_k
      /\ e.k_transition_end_slot = c.k_transition_end_slot
      /\ e.pending_param_update = c.pending_param_update
      /\ e.committed_slots = c.committed_slots \cup {s}
      /\ e.timers = c.timers \ {s}
      /\ e.views = c.views
      /\ e.last_voted_consensus = c.last_voted_consensus
      /\ e.already_proposed_slots = c.already_proposed_slots
      /\ e.prepare_tickets = c.prepare_tickets
  BY DEF CoreFields
<1> PICK f : f = [e EXCEPT !.k_transition_end_slot = None]
  OBVIOUS
<1>3. f \in CoreFields
  BY <1>1 DEF CoreFields
<1>4. /\ f.k = e.k /\ f.last_used_k = e.last_used_k
      /\ f.k_transition_end_slot = None
      /\ f.pending_param_update = e.pending_param_update
      /\ f.committed_slots = e.committed_slots
      /\ f.timers = e.timers
      /\ f.views = e.views
      /\ f.last_voted_consensus = e.last_voted_consensus
      /\ f.already_proposed_slots = e.already_proposed_slots
      /\ f.prepare_tickets = e.prepare_tickets
  BY <1>1 DEF CoreFields
<1>5. d = IF e.k_transition_end_slot # None /\ LastCommitted(e) >= e.k_transition_end_slot
          THEN f ELSE e
  BY Zenon DEF CommitSlot
<1>6. d = f \/ d = e
  BY <1>5
<1> QED
  BY <1>1, <1>2, <1>3, <1>4, <1>6

LEMMA ApplyPendingTypes ==
    ASSUME NEW c \in CoreFields, NEW s \in Slots, NEW d, d = ApplyPending(c, s)
    PROVE  /\ d \in CoreFields
           /\ SameSlots(c, d)
           /\ KnownK(c) => KnownK(d)
           /\ IF AppliesAt(c, s)
              THEN d.pending_param_update = None /\ d.k = c.pending_param_update.k
              ELSE d = c
<1>1. CASE ~AppliesAt(c, s)
  BY <1>1 DEF ApplyPending, SameSlots
<1>2. CASE AppliesAt(c, s)
  <2> PICK k : k = c.pending_param_update.k
    OBVIOUS
  <2> PICK e : e = apply_parameter_updates(c, k)
    OBVIOUS
  <2>1. k \in Nat \ {0} /\ k \in Ks
    <3>1. c.pending_param_update \in Signals
      BY <1>2 DEF AppliesAt, CoreFields
    <3> QED
      BY <3>1, KsAreNaturals
  <2>2. /\ e \in CoreFields /\ e.k = k /\ e.last_used_k \in {c.k, c.last_used_k}
        /\ SameSlots(c, e)
    BY <2>1, UpdateTypes
  <2> PICK epoch : epoch = e.rl_param_signal_epoch + 1
    OBVIOUS
  <2>3. d = [e EXCEPT !.pending_param_update = None, !.rl_param_signal_epoch = epoch]
    BY <1>2, Zenon DEF ApplyPending
  <2>4. d \in CoreFields
    <3>1. epoch \in Nat
      BY <2>2 DEF CoreFields
    <3> QED
      BY <2>2, <2>3, <3>1 DEF CoreFields
  <2>5. d.k = k /\ d.last_used_k = e.last_used_k /\ d.pending_param_update = None
    BY <2>2, <2>3 DEF CoreFields
  <2>6. SameSlots(e, d)
    BY <2>2, <2>3 DEF CoreFields, SameSlots
  <2>7. SameSlots(c, d)
    BY <2>2, <2>6 DEF SameSlots
  <2>8. KnownK(c) => KnownK(d)
    BY <2>1, <2>2, <2>5 DEF KnownK
  <2> QED
    BY <1>2, <2>4, <2>5, <2>7, <2>8
<1> QED
  BY <1>1, <1>2

LEMMA StartNextTimerTypes ==
    ASSUME NEW c \in CoreFields, NEW s \in Slots, NEW d, d = StartNextTimer(c, s),
           NEW k, k = effective_k(c, s)
    PROVE  /\ d \in CoreFields /\ SameUpdates(c, d)
           /\ d.views = c.views
           /\ d.last_voted_consensus = c.last_voted_consensus
           /\ d.already_proposed_slots = c.already_proposed_slots
           /\ d.prepare_tickets = c.prepare_tickets
           /\ d.timers = IF k = 1 \/ (s + k - 1 \in Slots /\ c.views[s + k - 1] > 0)
                         THEN c.timers \cup {s + k} ELSE c.timers
<1> PICK e : e = [c EXCEPT !.timers = c.timers \cup {s + k}]
  OBVIOUS
<1>1. d = IF k = 1 \/ (s + k - 1 \in Slots /\ c.views[s + k - 1] > 0) THEN e ELSE c
  BY Zenon DEF StartNextTimer
<1>2. s + k \in Nat \ {0}
  BY EffectiveKIsPositive, Constants DEF Slots
<1>3. e \in CoreFields
  BY <1>2 DEF CoreFields
<1>4. /\ e.views = c.views
      /\ e.last_voted_consensus = c.last_voted_consensus
      /\ e.already_proposed_slots = c.already_proposed_slots
      /\ e.prepare_tickets = c.prepare_tickets
      /\ e.timers = c.timers \cup {s + k}
  BY DEF CoreFields
<1>5. SameUpdates(c, e) /\ SameUpdates(c, c)
  BY DEF CoreFields, SameUpdates
<1> QED
  BY <1>1, <1>3, <1>4, <1>5

LEMMA CommitTypes ==
    ASSUME NEW c \in CoreFields, NEW s \in Slots, NEW d, d = process_commit(c, s)
    PROVE  /\ d \in CoreFields
           /\ d.committed_slots = c.committed_slots \cup {s}
           /\ IF AppliesAt(c, s)
              THEN d.pending_param_update = None /\ d.k = c.pending_param_update.k
              ELSE d.pending_param_update = c.pending_param_update /\ d.k = c.k
<1> PICK e : e = CommitSlot(c, s)
  OBVIOUS
<1> PICK f : f = ApplyPending(e, s)
  OBVIOUS
<1>1. d = StartNextTimer(f, s)
  BY Zenon DEF process_commit
<1>2. /\ e \in CoreFields /\ e.committed_slots = c.committed_slots \cup {s}
      /\ e.pending_param_update = c.pending_param_update /\ e.k = c.k
  BY CommitSlotTypes
<1>3. /\ f \in CoreFields /\ f.committed_slots = e.committed_slots
      /\ IF AppliesAt(e, s)
         THEN f.pending_param_update = None /\ f.k = e.pending_param_update.k
         ELSE f = e
  BY <1>2, ApplyPendingTypes DEF SameSlots
<1>4. AppliesAt(e, s) <=> AppliesAt(c, s)
  BY <1>2 DEF AppliesAt
<1>5. d \in CoreFields /\ SameUpdates(f, d)
  BY <1>1, <1>3, StartNextTimerTypes
<1> QED
  BY <1>2, <1>3, <1>4, <1>5 DEF SameUpdates
-----------------------------------------------------------------------------
\* With epochs, a signal changes no k; it may take the place of the one held back,
\* and then it is ahead of the last slot committed.
Ahead(c, signal) ==
    LET last == LastCommitted(c)
    IN  \/ signal.epoch > epoch_index_for_slot(last)
        \/ /\ signal.epoch = epoch_index_for_slot(last)
           /\ last # 0 /\ epoch_slot_index(last) < AppliedBegin

LEMMA SignalTypes ==
    ASSUME NEW c \in CoreFields, NEW signal \in Signals,
           NEW d, d = handle_param_update_signal(c, signal)
    PROVE  /\ d \in CoreFields
           /\ SameSlots(c, d)
           /\ KnownK(c) => KnownK(d)
           /\ IF NoEpochs THEN d.pending_param_update = c.pending_param_update
              ELSE /\ d.k = c.k
                   /\ \/ d.pending_param_update \in {c.pending_param_update, None}
                      \/ d.pending_param_update = signal /\ Ahead(c, signal)
<1> PICK replaced : replaced = [c EXCEPT !.pending_param_update = None]
  OBVIOUS
<1> PICK next : next = signal.epoch + 1
  OBVIOUS
<1>1. signal.epoch \in Nat /\ next \in Nat /\ signal.k \in Nat \ {0}
  BY PipelineAssumption
<1>2. /\ replaced \in CoreFields /\ replaced.k = c.k
      /\ replaced.last_used_k = c.last_used_k
      /\ replaced.pending_param_update = None
      /\ SameSlots(c, replaced)
  BY DEF CoreFields, SameSlots
<1>3. ASSUME NEW epoch \in Nat, NEW e, e = [replaced EXCEPT !.rl_param_signal_epoch = epoch]
      PROVE  /\ e \in CoreFields /\ e.k = c.k /\ e.last_used_k = c.last_used_k
             /\ e.pending_param_update = None
             /\ SameSlots(c, e)
  BY <1>2, <1>3 DEF CoreFields, SameSlots
<1>4. ASSUME NEW b \in CoreFields, SameSlots(c, b),
             NEW e, e = [b EXCEPT !.pending_param_update = signal]
      PROVE  /\ e \in CoreFields /\ e.k = b.k /\ e.last_used_k = b.last_used_k
             /\ e.pending_param_update = signal
             /\ SameSlots(c, e)
  BY <1>4 DEF CoreFields, SameSlots
<1>5. CASE NoEpochs
  <2> PICK e : e = apply_parameter_updates(c, signal.k)
    OBVIOUS
  <2>1. /\ e \in CoreFields /\ e.k = signal.k /\ e.last_used_k \in {c.k, c.last_used_k}
        /\ SameSlots(c, e)
        /\ e.pending_param_update = c.pending_param_update
    BY <1>1, UpdateTypes
  <2>2. d = [e EXCEPT !.rl_param_signal_epoch = next]
    BY <1>5, Zenon DEF handle_param_update_signal
  <2>3. /\ d \in CoreFields /\ d.k = e.k /\ d.last_used_k = e.last_used_k
        /\ d.pending_param_update = c.pending_param_update
    BY <1>1, <2>1, <2>2 DEF CoreFields
  <2>4. SameSlots(c, d)
    BY <2>1, <2>2 DEF CoreFields, SameSlots
  <2>5. KnownK(c) => KnownK(d)
    BY <2>1, <2>3, KsAreNaturals DEF KnownK
  <2> QED
    BY <1>5, <2>3, <2>4, <2>5
<1>6. CASE ~NoEpochs /\ Stale(c, signal)
  <2>1. d = c
    BY <1>6, Zenon DEF handle_param_update_signal
  <2> QED
    BY <1>6, <2>1 DEF SameSlots
<1> PICK last : last = LastCommitted(c)
  OBVIOUS
<1> PICK current : current = epoch_index_for_slot(last)
  OBVIOUS
<1>7. CASE ~NoEpochs /\ ~Stale(c, signal) /\ signal.epoch > current
  <2> PICK e : e = [replaced EXCEPT !.rl_param_signal_epoch = signal.epoch]
    OBVIOUS
  <2>1. d = [e EXCEPT !.pending_param_update = signal]
    BY <1>7, Zenon DEF handle_param_update_signal
  <2>2. /\ e \in CoreFields /\ e.k = c.k /\ e.last_used_k = c.last_used_k
        /\ SameSlots(c, e)
    <3>1. signal.epoch \in Nat
      BY <1>1
    <3> QED
      BY <3>1, <1>3, Zenon
  <2>3. /\ d \in CoreFields /\ d.k = e.k /\ d.last_used_k = e.last_used_k
        /\ d.pending_param_update = signal
        /\ SameSlots(c, d)
    BY <1>4, <2>1, <2>2
  <2>4. Ahead(c, signal)
    BY <1>7 DEF Ahead
  <2> QED
    BY <1>7, <2>2, <2>3, <2>4 DEF KnownK
<1>8. CASE ~NoEpochs /\ ~Stale(c, signal) /\ ~(signal.epoch > current)
  <2>1. d = IF last = 0 THEN replaced
            ELSE IF signal.epoch < current \/ TooLate(c, signal)
            THEN IF next > c.rl_param_signal_epoch
                 THEN [replaced EXCEPT !.rl_param_signal_epoch = next] ELSE replaced
            ELSE [replaced EXCEPT !.pending_param_update = signal]
    BY <1>8, Zenon DEF handle_param_update_signal
  <2>2. CASE last = 0 \/ signal.epoch < current \/ TooLate(c, signal)
    <3>1. d = replaced \/ d = [replaced EXCEPT !.rl_param_signal_epoch = next]
      BY <2>1, <2>2
    <3>2. /\ d \in CoreFields /\ d.k = c.k /\ d.last_used_k = c.last_used_k
          /\ d.pending_param_update = None
          /\ SameSlots(c, d)
      BY <1>1, <1>2, <1>3, <3>1
    <3> QED
      BY <1>8, <3>2 DEF KnownK
  <2>3. CASE ~(last = 0 \/ signal.epoch < current \/ TooLate(c, signal))
    <3>1. d = [replaced EXCEPT !.pending_param_update = signal]
      BY <2>1, <2>3
    <3>2. /\ d \in CoreFields /\ d.k = c.k /\ d.last_used_k = c.last_used_k
          /\ d.pending_param_update = signal
          /\ SameSlots(c, d)
      BY <1>2, <1>4, <3>1
    <3>3. last \in Nat \ {0} /\ EpochSlots \in Nat \ {0} /\ AppliedBegin \in Nat
      <4>1. c.committed_slots \subseteq Slots
        BY DEF CoreFields
      <4> QED
        BY <1>8, <2>3, <4>1, LastCommittedIsLast, EpochBounds
    <3>4. current \in Nat /\ epoch_slot_index(last) \in Nat
      BY <3>3, EpochsOfSlots
    <3>5. signal.epoch = current
      BY <1>1, <1>8, <2>3, <3>4
    <3>6. epoch_slot_index(last) < AppliedBegin
      <4>1. ~(epoch_slot_index(last) >= AppliedBegin)
        BY <2>3, <3>5 DEF TooLate
      <4> QED
        BY <3>3, <3>4, <4>1
    <3>7. Ahead(c, signal)
      BY <3>3, <3>5, <3>6 DEF Ahead
    <3> QED
      BY <1>8, <3>2, <3>7 DEF KnownK
  <2> QED
    BY <2>2, <2>3
<1> QED
  BY <1>5, <1>6, <1>7, <1>8

-----------------------------------------------------------------------------
LEMMA QCReadyMeans ==
    ASSUME NEW c, NEW S, NEW C, GoodCore(c, S, C), NEW s, QCReady(c, s)
    PROVE  \E k \in Ks : s > k => s - k \in C
<1> PICK k : k = effective_k(c, s)
  OBVIOUS
<1>1. k \in Ks
  BY EffectiveKIsKnown DEF GoodCore
<1>2. s > k => s - k \in c.committed_slots
  BY Zenon DEF QCReady
<1> QED
  BY <1>1, <1>2 DEF GoodCore

\* A larger set of started and committed slots takes nothing away.
LEMMA GoodCoreGrows ==
    ASSUME NEW c, NEW S, NEW C, NEW S2, NEW C2,
           GoodCore(c, S, C), S \subseteq S2, C \subseteq C2
    PROVE  GoodCore(c, S2, C2)
BY DEF GoodCore, Begun

LEMMA BegunGrows ==
    ASSUME NEW s, NEW S, NEW C, NEW S2, NEW C2,
           Begun(s, S, C), S \subseteq S2, C \subseteq C2
    PROVE  Begun(s, S2, C2)
BY DEF Begun

\* A slot whose predecessor is started and whose window is open may begin.
LEMMA NextMayBegin ==
    ASSUME NEW c, NEW S, NEW C, GoodCore(c, S, C), WindowKept(S, C),
           NEW s \in Nat, s = 0 \/ s \in S, QCReady(c, s + 1)
    PROVE  Begun(s + 1, S, C)
<1>1. \E k \in Ks : s + 1 > k => (s + 1) - k \in C
  BY QCReadyMeans, Zenon
<1>2. 1 .. s \subseteq S
  <2>1. s \in S => 1 .. (s - 1) \subseteq S
    BY DEF WindowKept, Begun
  <2> QED
    BY <2>1
<1>3. 1 .. ((s + 1) - 1) = 1 .. s
  OBVIOUS
<1>4. 1 .. ((s + 1) - 1) \subseteq S
  BY <1>2, <1>3, Zenon
<1> QED
  BY <1>1, <1>4, Zenon DEF Begun

(***************************************************************************)
(* Voting for Prepares of started slots keeps a Core good.                 *)
(***************************************************************************)
LEMMA VoteForGood ==
    ASSUME NEW c, NEW S, NEW C, GoodCore(c, S, C), WindowKept(S, C),
           NEW prepares \in SUBSET Prepares, \A p \in prepares : p.slot \in S
    PROVE  GoodCore(VoteFor(c, prepares), S, C)
<1> DEFINE accepted == {p \in prepares : Accepts(c, p)}
           viewOf(s) == (CHOOSE p \in accepted : p.slot = s).view
           views == [s \in Slots |-> IF \E p \in accepted : p.slot = s
                                     THEN viewOf(s) ELSE c.views[s]]
           voted == c.last_voted_consensus \cup {<<p.slot, p.view>> : p \in accepted}
           due == {s \in {p.slot + 1 : p \in accepted} : TimerDue(c, s)}
           d == VoteFor(c, prepares)
<1>1. d = [c EXCEPT !.views = views, !.last_voted_consensus = voted,
                    !.timers = c.timers \cup due]
  BY Zenon DEF VoteFor
<1>2. \A p \in accepted : p.slot \in S /\ p.slot \in Slots /\ p.view \in {1, 2}
  BY DEF Prepares
<1>3. views \in [Slots -> 0 .. 2]
  <2>1. ASSUME NEW s \in Slots, \E p \in accepted : p.slot = s
        PROVE  viewOf(s) \in {1, 2}
    BY <1>2, <2>1
  <2>2. c.views \in [Slots -> 0 .. 2]
    BY DEF GoodCore, CoreFields
  <2> QED
    BY <2>1, <2>2
<1>4. voted \subseteq Slots \X {1, 2}
  BY <1>2 DEF GoodCore, CoreFields
<1>5. ASSUME NEW s \in due
      PROVE  s \in Nat \ {0} /\ Begun(s, S, C)
  <2>1. PICK p \in accepted : s = p.slot + 1 /\ TimerDue(c, s)
    BY <1>5
  <2>2. p.slot \in Nat /\ p.slot \in S
    BY <1>2, Constants
  <2>3. QCReady(c, p.slot + 1)
    BY <2>1 DEF TimerDue
  <2>4. Begun(p.slot + 1, S, C)
    BY <2>2, <2>3, NextMayBegin
  <2> QED
    BY <2>1, <2>2, <2>4
<1>6. d \in CoreFields
  <2>1. due \subseteq Nat \ {0}
    BY <1>5
  <2> HIDE DEF d, due, views, voted
  <2>2. c \in CoreFields
    BY DEF GoodCore
  <2> PICK timers : timers = c.timers \cup due
    OBVIOUS
  <2>3. timers \in SUBSET (Nat \ {0})
    BY <2>1, <2>2 DEF CoreFields
  <2>4. [c EXCEPT !.views = views, !.last_voted_consensus = voted, !.timers = timers]
          \in CoreFields
    BY <1>3, <1>4, <2>2, <2>3, VoteFields
  <2> QED
    BY <1>1, <2>4, Zenon
<1>7. /\ d.k = c.k /\ d.last_used_k = c.last_used_k
      /\ d.k_transition_end_slot = c.k_transition_end_slot
      /\ d.pending_param_update = c.pending_param_update
      /\ d.prepare_tickets = c.prepare_tickets
      /\ d.already_proposed_slots = c.already_proposed_slots
      /\ d.committed_slots = c.committed_slots
      /\ d.views = views /\ d.last_voted_consensus = voted
      /\ d.timers = c.timers \cup due
  <2> HIDE DEF due, views, voted
  <2> QED
    BY <1>1 DEF GoodCore, CoreFields
<1>8. ASSUME NEW s \in Slots, views[s] > 0
      PROVE  s \in S
  <2>1. CASE \E p \in accepted : p.slot = s
    BY <1>2, <2>1
  <2>2. CASE ~ \E p \in accepted : p.slot = s
    BY <1>8, <2>2 DEF GoodCore
  <2> QED
    BY <2>1, <2>2
<1>9. ASSUME NEW s \in Slots, NEW v \in {1, 2}, <<s, v>> \in voted
      PROVE  s \in S
  BY <1>2, <1>9 DEF GoodCore
<1>10. \A s \in d.timers : Begun(s, S, C)
  BY <1>5, <1>7 DEF GoodCore
<1>11. GoodCore(d, S, C)
  <2> HIDE DEF d, due, views, voted
  <2> QED
    BY <1>6, <1>7, <1>8, <1>9, <1>10 DEF GoodCore, KnownK
<1> QED
  BY <1>11

(***************************************************************************)
(* Using tickets starts the next slots, in order and within the window.    *)
(***************************************************************************)
Follow(tickets, S) == tickets \in SUBSET Nat /\ \A s \in tickets : s = 0 \/ s \in S

LEMMA UseTicketsGood ==
    ASSUME NEW r \in Replicas, NEW c, NEW S, NEW C, GoodCore(c, S, C), WindowKept(S, C),
           NEW tickets, Follow(tickets, S),
           NEW covered,
           NEW S2, S2 = S \cup NextSlots(r, c, tickets, covered)
    PROVE  /\ WindowKept(S2, C)
           /\ GoodCore(UseTickets(r, c, tickets, covered), S2, C)
           /\ NewPrepares(r, c, tickets, covered) \subseteq Prepares
           /\ \A p \in NewPrepares(r, c, tickets, covered) : p.slot \in S2
           /\ NextSlots(r, c, tickets, covered)
                \subseteq UseTickets(r, c, tickets, covered).already_proposed_slots
<1> DEFINE ready == Ready(r, c, tickets, covered)
           kept == (c.prepare_tickets \ tickets) \cup (Mine(r, c, tickets) \ ready)
           next == {s + 1 : s \in ready}
           d == UseTickets(r, c, tickets, covered)
<1>1. ASSUME NEW s \in ready
      PROVE  /\ s \in Nat /\ s + 1 \in Slots /\ s \in tickets
             /\ s = 0 \/ s \in S
             /\ QCReady(c, s + 1)
  <2>1. s \in tickets /\ s < MaxSlot /\ QCReady(c, s + 1)
    BY DEF Ready, Mine
  <2>2. s \in Nat /\ (s = 0 \/ s \in S)
    BY <2>1 DEF Follow
  <2>3. s + 1 \in Slots
    BY <2>1, <2>2, Constants DEF Slots
  <2> QED
    BY <2>1, <2>2, <2>3
<1>2. ASSUME NEW s \in ready
      PROVE  Begun(s + 1, S, C)
  <2>1. s \in Nat /\ (s = 0 \/ s \in S) /\ QCReady(c, s + 1)
    BY <1>1
  <2> QED
    BY <2>1, NextMayBegin, Zenon
<1>3. S \subseteq S2 /\ next \subseteq S2 /\ S2 \subseteq Slots
  BY <1>1 DEF WindowKept, NextSlots
<1>4. WindowKept(S2, C)
  <2>1. \A s \in S : Begun(s, S2, C)
    BY <1>3 DEF WindowKept, Begun
  <2>2. \A s \in next : Begun(s, S2, C)
    BY <1>2, <1>3 DEF Begun
  <2> QED
    BY <1>3, <2>1, <2>2 DEF WindowKept, NextSlots
<1>5. d = [c EXCEPT !.prepare_tickets = kept,
                    !.already_proposed_slots = c.already_proposed_slots \cup next]
  BY Zenon DEF UseTickets
<1>6. \A s \in Mine(r, c, tickets) : s \in 0 .. MaxSlot /\ (s = 0 \/ s \in S)
  BY Constants DEF Follow, Mine
<1>7. kept \subseteq 0 .. MaxSlot /\ \A s \in kept : s = 0 \/ s \in S
  BY <1>6 DEF GoodCore, CoreFields
<1>8. next \subseteq 0 .. MaxSlot
  BY <1>1 DEF Slots
<1>9. d \in CoreFields
  <2> HIDE DEF d, kept, next
  <2>1. c \in CoreFields
    BY DEF GoodCore
  <2> PICK slots : slots = c.already_proposed_slots \cup next
    OBVIOUS
  <2>2. slots \in SUBSET (0 .. MaxSlot)
    BY <1>8, <2>1 DEF CoreFields
  <2>3. [c EXCEPT !.prepare_tickets = kept, !.already_proposed_slots = slots] \in CoreFields
    BY <1>7, <2>1, <2>2, TicketFields
  <2> QED
    BY <1>5, <2>3, Zenon
<1>10. /\ d.k = c.k /\ d.last_used_k = c.last_used_k
       /\ d.k_transition_end_slot = c.k_transition_end_slot
       /\ d.pending_param_update = c.pending_param_update
       /\ d.prepare_tickets = kept
       /\ d.already_proposed_slots = c.already_proposed_slots \cup next
       /\ d.committed_slots = c.committed_slots
       /\ d.views = c.views /\ d.last_voted_consensus = c.last_voted_consensus
       /\ d.timers = c.timers
  <2> HIDE DEF kept, next
  <2> QED
    BY <1>5 DEF GoodCore, CoreFields
<1>11. GoodCore(c, S2, C)
  BY <1>3, GoodCoreGrows
<1>12. GoodCore(d, S2, C)
  <2> HIDE DEF d, kept, next
  <2>1. KnownK(d) /\ \A s \in d.timers : Begun(s, S2, C)
    BY <1>10, <1>11 DEF GoodCore, KnownK
  <2>2. \A s \in d.prepare_tickets : s = 0 \/ s \in S2
    BY <1>3, <1>7, <1>10
  <2>3. \A s \in Slots : s \in d.already_proposed_slots \/ d.views[s] > 0 => s \in S2
    BY <1>3, <1>10, <1>11 DEF GoodCore
  <2>4. /\ d.committed_slots \subseteq C
        /\ \A s \in Slots, v \in {1, 2} : <<s, v>> \in d.last_voted_consensus => s \in S2
    BY <1>10, <1>11 DEF GoodCore
  <2> QED
    BY <1>9, <2>1, <2>2, <2>3, <2>4 DEF GoodCore
<1>13. ASSUME NEW p \in NewPrepares(r, c, tickets, covered)
       PROVE  p \in Prepares /\ p.slot \in S2
  <2>1. PICK s \in ready : p = NewPrepare(c, s + 1)
    BY <1>13 DEF NewPrepares
  <2>2. NewPrepares(r, c, tickets, covered) \subseteq Prepares
    <3>1. c \in CoreFields /\ tickets \in SUBSET (0 .. MaxSlot)
      <4>1. S \subseteq 0 .. MaxSlot /\ 0 \in 0 .. MaxSlot
        BY Constants DEF WindowKept, Slots
      <4> QED
        BY <4>1 DEF GoodCore, Follow
    <3> PICK d2 : d2 = UseTickets(r, c, tickets, covered)
      OBVIOUS
    <3> QED
      BY <3>1, UseTicketsTypes
  <2>3. s + 1 \in next
    BY <1>1
  <2> QED
    BY <1>3, <2>1, <2>2, <2>3, <1>13 DEF NewPrepare
<1> QED
  BY <1>4, <1>10, <1>12, <1>13 DEF NextSlots

(***************************************************************************)
(* The commit of a started slot opens the window by one slot.              *)
(***************************************************************************)
LEMMA CommitGood ==
    ASSUME NEW c, NEW S, NEW C, GoodCore(c, S, C), WindowKept(S, C),
           NEW s \in Slots, s \in S, NEW d, d = process_commit(c, s)
    PROVE  /\ WindowKept(S, C \cup {s})
           /\ GoodCore(d, S, C \cup {s})
           /\ d.committed_slots = c.committed_slots \cup {s}
           /\ d.already_proposed_slots = c.already_proposed_slots
           /\ d.views = c.views
<1> PICK C2 : C2 = C \cup {s}
  OBVIOUS
<1> PICK e : e = CommitSlot(c, s)
  OBVIOUS
<1> PICK f : f = ApplyPending(e, s)
  OBVIOUS
<1> PICK k : k = effective_k(f, s)
  OBVIOUS
<1>1. WindowKept(S, C2)
  BY DEF WindowKept, Begun
<1>2. GoodCore(c, S, C2) /\ c \in CoreFields
  <2>1. GoodCore(c, S, C2)
    BY GoodCoreGrows
  <2> QED
    BY <2>1 DEF GoodCore
<1>3. /\ e \in CoreFields
      /\ e.k = c.k /\ e.last_used_k = c.last_used_k
      /\ e.committed_slots = c.committed_slots \cup {s}
      /\ e.timers = c.timers \ {s}
      /\ e.views = c.views
      /\ e.last_voted_consensus = c.last_voted_consensus
      /\ e.already_proposed_slots = c.already_proposed_slots
      /\ e.prepare_tickets = c.prepare_tickets
  BY <1>2, CommitSlotTypes
<1>4. KnownK(e)
  BY <1>2, <1>3 DEF GoodCore, KnownK
<1>5. f \in CoreFields /\ SameSlots(e, f) /\ KnownK(f)
  BY <1>3, <1>4, ApplyPendingTypes
<1>6. GoodCore(f, S, C2)
  BY <1>2, <1>3, <1>5 DEF GoodCore, SameSlots
<1>7. d = StartNextTimer(f, s)
  BY Zenon DEF process_commit
<1>8. /\ d \in CoreFields /\ SameUpdates(f, d)
      /\ d.views = f.views
      /\ d.last_voted_consensus = f.last_voted_consensus
      /\ d.already_proposed_slots = f.already_proposed_slots
      /\ d.prepare_tickets = f.prepare_tickets
      /\ d.timers = IF k = 1 \/ (s + k - 1 \in Slots /\ f.views[s + k - 1] > 0)
                    THEN f.timers \cup {s + k} ELSE f.timers
  BY <1>5, <1>7, StartNextTimerTypes
<1>9. k \in Ks /\ k \in Nat \ {0} /\ s \in Nat \ {0}
  BY <1>5, EffectiveKIsKnown, Constants DEF Slots
<1>10. ASSUME k = 1 \/ (s + k - 1 \in Slots /\ f.views[s + k - 1] > 0)
       PROVE  Begun(s + k, S, C2)
  <2> PICK n : n = s + k - 1
    OBVIOUS
  <2>1. n \in S /\ n \in Nat /\ n = (s + k) - 1
    <3>1. CASE k = 1
      BY <1>9, <3>1
    <3>2. CASE s + k - 1 \in Slots /\ f.views[s + k - 1] > 0
      BY <1>6, <1>9, <3>2 DEF GoodCore
    <3> QED
      BY <1>10, <3>1, <3>2
  <2>2. 1 .. (n - 1) \subseteq S
    BY <1>1, <2>1 DEF WindowKept, Begun
  <2>3. 1 .. n \subseteq S
    BY <2>1, <2>2
  <2>4. (s + k) - k \in C2
    BY <1>9
  <2> QED
    BY <1>9, <2>1, <2>3, <2>4 DEF Begun
<1>11. \A t \in d.timers : Begun(t, S, C2)
  BY <1>6, <1>8, <1>10 DEF GoodCore
<1>12. GoodCore(d, S, C2)
  BY <1>6, <1>8, <1>11 DEF GoodCore, KnownK, SameUpdates
<1>13. /\ d.committed_slots = c.committed_slots \cup {s}
       /\ d.already_proposed_slots = c.already_proposed_slots /\ d.views = c.views
  BY <1>3, <1>5, <1>8 DEF SameSlots, SameUpdates
<1> QED
  BY <1>1, <1>12, <1>13

LEMMA VoteForKeeps ==
    ASSUME NEW c \in CoreFields, NEW prepares \in SUBSET Prepares
    PROVE  /\ VoteFor(c, prepares).already_proposed_slots = c.already_proposed_slots
           /\ VoteFor(c, prepares).committed_slots = c.committed_slots
           /\ VoteFor(c, prepares).prepare_tickets = c.prepare_tickets
           /\ \A s \in Slots : c.views[s] > 0 => VoteFor(c, prepares).views[s] > 0
<1> DEFINE accepted == {p \in prepares : Accepts(c, p)}
           viewOf(s) == (CHOOSE p \in accepted : p.slot = s).view
           views == [s \in Slots |-> IF \E p \in accepted : p.slot = s
                                     THEN viewOf(s) ELSE c.views[s]]
           voted == c.last_voted_consensus \cup {<<p.slot, p.view>> : p \in accepted}
           due == {s \in {p.slot + 1 : p \in accepted} : TimerDue(c, s)}
<1>1. VoteFor(c, prepares) = [c EXCEPT !.views = views, !.last_voted_consensus = voted,
                                       !.timers = c.timers \cup due]
  BY Zenon DEF VoteFor
<1>2. ASSUME NEW s \in Slots, c.views[s] > 0
      PROVE  views[s] > 0
  <2>1. ASSUME \E p \in accepted : p.slot = s
        PROVE  viewOf(s) \in {1, 2}
    BY <2>1 DEF Prepares
  <2> QED
    BY <1>2, <2>1
<1> HIDE DEF views, voted, due
<1> QED
  BY <1>1, <1>2 DEF CoreFields

(***************************************************************************)
(* Using tickets and voting for what they yield keeps the window.          *)
(***************************************************************************)
Proposed(r, c, tickets, covered, S, S2, sent, d) ==
    /\ S2 = S \cup NextSlots(r, c, tickets, covered)
    /\ sent = NewPrepares(r, c, tickets, covered)
    /\ d = VoteFor(UseTickets(r, c, tickets, covered), sent)

\* What the slots S2, the Prepares sent and the Core d then are.
ProposedWell(c, S, C, S2, sent, d) ==
    /\ WindowKept(S2, C)
    /\ GoodCore(d, S2, C)
    /\ sent \subseteq Prepares
    /\ \A p \in sent : p.slot \in S2
    /\ S2 \ S \subseteq d.already_proposed_slots
    /\ c.already_proposed_slots \subseteq d.already_proposed_slots
    /\ c.committed_slots = d.committed_slots
    /\ \A s \in Slots : c.views[s] > 0 => d.views[s] > 0

LEMMA ProposeGood ==
    ASSUME NEW r \in Replicas, NEW c, NEW S, NEW C, GoodCore(c, S, C), WindowKept(S, C),
           NEW tickets, Follow(tickets, S),
           NEW covered, NEW S2, NEW sent, NEW d,
           Proposed(r, c, tickets, covered, S, S2, sent, d)
    PROVE  ProposedWell(c, S, C, S2, sent, d)
<1> DEFINE e == UseTickets(r, c, tickets, covered)
           next == NextSlots(r, c, tickets, covered)
<1>1. /\ S2 = S \cup next
      /\ sent = NewPrepares(r, c, tickets, covered)
      /\ d = VoteFor(e, sent)
  BY Zenon DEF Proposed
<1>2. /\ WindowKept(S2, C)
      /\ GoodCore(e, S2, C)
      /\ NewPrepares(r, c, tickets, covered) \subseteq Prepares
      /\ \A p \in NewPrepares(r, c, tickets, covered) : p.slot \in S2
      /\ next \subseteq e.already_proposed_slots
  BY <1>1, UseTicketsGood
<1>3. /\ e.committed_slots = c.committed_slots /\ e.views = c.views
      /\ c.already_proposed_slots \subseteq e.already_proposed_slots
  BY DEF UseTickets, GoodCore, CoreFields
<1> HIDE DEF e, next
<1>4. e \in CoreFields
  BY <1>2 DEF GoodCore
<1>5. sent \in SUBSET Prepares /\ \A p \in sent : p.slot \in S2
  BY <1>1, <1>2
<1>6. GoodCore(d, S2, C)
  BY <1>1, <1>2, <1>5, VoteForGood, Zenon
<1>7. /\ d.already_proposed_slots = e.already_proposed_slots
      /\ d.committed_slots = e.committed_slots
      /\ \A s \in Slots : e.views[s] > 0 => d.views[s] > 0
  BY <1>1, <1>4, <1>5, VoteForKeeps
<1> QED
  BY <1>1, <1>2, <1>3, <1>5, <1>6, <1>7 DEF ProposedWell

(***************************************************************************)
(* One replica's new Core, when it accounts for every slot that is newly   *)
(* started or committed, fits the window of all.                           *)
(***************************************************************************)
Becomes(r, d, S2, C2) ==
    /\ core' = [core EXCEPT ![r] = d]
    /\ Started \subseteq S2 /\ Committed \subseteq C2
    /\ WindowKept(S2, C2) /\ GoodCore(d, S2, C2)
    /\ \A s \in S2 \ Started : s \in d.already_proposed_slots \/ d.views[s] > 0
    /\ C2 \ Committed \subseteq d.committed_slots
    /\ core[r].already_proposed_slots \subseteq d.already_proposed_slots
    /\ core[r].committed_slots \subseteq d.committed_slots
    /\ \A s \in Slots : core[r].views[s] > 0 => d.views[s] > 0

LEMMA CoreStep ==
    ASSUME PipelineInv, NEW r \in Replicas, NEW d, NEW S2, NEW C2, Becomes(r, d, S2, C2)
    PROVE  /\ Started' = S2
           /\ Committed' = C2
           /\ core' \in [Replicas -> CoreFields]
           /\ \A x \in Replicas : GoodCore(core'[x], S2, C2)
<1> USE DEF Becomes
<1>1. core \in [Replicas -> CoreFields] /\ d \in CoreFields
  BY DEF PipelineInv, GoodCore
<1>2. core' \in [Replicas -> CoreFields] /\ core'[r] = d
  BY <1>1
<1>3. \A x \in Replicas \ {r} : core'[x] = core[x]
  BY <1>1
<1>4. ASSUME NEW x \in Replicas
      PROVE  GoodCore(core'[x], S2, C2)
  <2>1. CASE x = r
    BY <1>2, <2>1
  <2>2. CASE x # r
    <3>1. GoodCore(core[x], Started, Committed)
      BY DEF PipelineInv
    <3>2. GoodCore(core[x], S2, C2)
      BY <3>1, GoodCoreGrows
    <3> QED
      BY <1>3, <2>2, <3>2
  <2> QED
    BY <2>1, <2>2
<1>5. S2 \subseteq Slots /\ C2 \subseteq Slots
  BY DEF WindowKept
<1>6. Started' \subseteq S2
  BY <1>4 DEF Started, GoodCore
<1>7. ASSUME NEW s \in S2
      PROVE  s \in Started'
  <2>1. s \in Slots
    BY <1>5
  <2>2. CASE s \notin Started
    BY <1>2, <1>7, <2>1, <2>2 DEF Started
  <2>3. CASE s \in Started
    <3>1. PICK x \in Replicas : s \in core[x].already_proposed_slots \/ core[x].views[s] > 0
      BY <2>3 DEF Started
    <3>2. s \in core'[x].already_proposed_slots \/ core'[x].views[s] > 0
      BY <1>2, <1>3, <2>1, <3>1
    <3> QED
      BY <2>1, <3>2 DEF Started
  <2> QED
    BY <2>2, <2>3
<1>8. Committed' \subseteq C2
  BY <1>4 DEF Committed, GoodCore
<1>9. ASSUME NEW s \in C2
      PROVE  s \in Committed'
  <2>1. s \in Slots
    BY <1>5
  <2>2. CASE s \notin Committed
    BY <1>2, <1>9, <2>1, <2>2 DEF Committed
  <2>3. CASE s \in Committed
    <3>1. PICK x \in Replicas : s \in core[x].committed_slots
      BY <2>3 DEF Committed
    <3>2. s \in core'[x].committed_slots
      BY <1>2, <1>3, <3>1
    <3> QED
      BY <2>1, <3>2 DEF Committed
  <2> QED
    BY <2>2, <2>3
<1> QED
  BY <1>2, <1>4, <1>6, <1>7, <1>8, <1>9
-----------------------------------------------------------------------------
LEMMA InitPipelineInv == Init => PipelineInv /\ Started = {1} /\ Committed = {}
<1> SUFFICES ASSUME Init PROVE PipelineInv /\ Started = {1} /\ Committed = {}
  OBVIOUS
<1> USE Constants
<1>1. 1 \in Slots /\ Replicas # {}
  <2>1. 1 \in DOMAIN Authorities
    BY CommitteeAssumption DEF Size
  <2> QED
    BY <2>1 DEF Slots, Replicas
<1>2. ASSUME NEW r \in Replicas
      PROVE  /\ core[r] \in CoreFields /\ FixedK(core[r]) /\ KnownK(core[r])
             /\ core[r].prepare_tickets \subseteq {0} /\ core[r].timers = {1}
             /\ core[r].committed_slots = {} /\ core[r].last_voted_consensus = {}
             /\ core[r].already_proposed_slots \subseteq {0}
             /\ \A s \in Slots : core[r].views[s] > 0 <=> s = 1
  BY KsAreNaturals DEF Init, CoreFields, FixedK, KnownK
<1>3. core \in [Replicas -> CoreFields]
  BY <1>2 DEF Init
<1>4. Started = {1} /\ Committed = {}
  BY <1>1, <1>2 DEF Started, Committed, Slots
<1>5. Begun(1, {1}, {})
  BY KsAreNaturals DEF Begun
<1>6. WindowKept(Started, Committed)
  BY <1>1, <1>4, <1>5 DEF WindowKept
<1>7. \A r \in Replicas : GoodCore(core[r], Started, Committed)
  BY <1>2, <1>4, <1>5 DEF GoodCore, Slots
<1> QED
  BY <1>3, <1>4, <1>6, <1>7 DEF Init, PipelineInv

\* What a step does to the window.
Grows == Started \subseteq Started' /\ Committed \subseteq Committed'

(***************************************************************************)
(* A step that ends in Proposing, from a Core c that is good for the slots *)
(* S and C: all that is left to show of an action is c.                    *)
(***************************************************************************)
LEMMA ProposingStep ==
    ASSUME PipelineInv, NEW r \in Replicas, NEW c, NEW C,
           GoodCore(c, Started, C), WindowKept(Started, C),
           Committed \subseteq C, C \ Committed \subseteq c.committed_slots,
           core[r].already_proposed_slots \subseteq c.already_proposed_slots,
           core[r].committed_slots \subseteq c.committed_slots,
           \A s \in Slots : core[r].views[s] > 0 => c.views[s] > 0,
           NEW tickets, Follow(tickets, Started),
           NEW covered, NEW rest \in SUBSET unread[r],
           Proposing(r, c, tickets, covered, rest), UNCHANGED timeouts
    PROVE  PipelineInv' /\ Grows
<1>a. PICK S2 : S2 = Started \cup NextSlots(r, c, tickets, covered)
  OBVIOUS
<1>b. PICK sent : sent = NewPrepares(r, c, tickets, covered)
  OBVIOUS
<1>c. PICK d : d = VoteFor(UseTickets(r, c, tickets, covered), sent)
  OBVIOUS
<1>2. core' = [core EXCEPT ![r] = d]
  BY <1>b, <1>c, Zenon DEF Proposing
<1>3. unread' = [x \in Replicas |-> IF x = r THEN rest ELSE unread[x] \cup sent]
  BY <1>b, Zenon DEF Proposing
<1>1. /\ WindowKept(S2, C)
      /\ GoodCore(d, S2, C)
      /\ sent \subseteq Prepares
      /\ \A p \in sent : p.slot \in S2
      /\ S2 \ Started \subseteq d.already_proposed_slots
      /\ c.already_proposed_slots \subseteq d.already_proposed_slots
      /\ c.committed_slots = d.committed_slots
      /\ \A s \in Slots : c.views[s] > 0 => d.views[s] > 0
  <2>1. Proposed(r, c, tickets, covered, Started, S2, sent, d)
    BY <1>a, <1>b, <1>c DEF Proposed
  <2> QED
    BY <2>1, ProposeGood DEF ProposedWell
<1>4. Started \subseteq S2
  BY <1>a
<1>5. /\ Started' = S2 /\ Committed' = C
      /\ core' \in [Replicas -> CoreFields]
      /\ \A x \in Replicas : GoodCore(core'[x], S2, C)
  <2>1. Becomes(r, d, S2, C)
    BY <1>1, <1>2, <1>4 DEF Becomes
  <2> QED
    BY <2>1, CoreStep
<1>6. unread' \in [Replicas -> SUBSET Prepares]
  BY <1>1, <1>3 DEF PipelineInv
<1>7. ASSUME NEW x \in Replicas, NEW p \in unread'[x]
      PROVE  p.slot \in S2
  BY <1>1, <1>3, <1>4, <1>7 DEF PipelineInv
<1>8. ASSUME NEW s \in Slots, timeouts'[s] # {}
      PROVE  Begun(s, S2, C)
  BY <1>4, <1>8, BegunGrows DEF PipelineInv
<1> QED
  BY <1>1, <1>4, <1>5, <1>6, <1>7, <1>8 DEF PipelineInv, Grows

LEMMA NewTipsStep ==
    ASSUME PipelineInv, NEW r \in Replicas, NEW covered, NewTips(r, covered)
    PROVE  PipelineInv' /\ Grows
<1>1. GoodCore(core[r], Started, Committed) /\ WindowKept(Started, Committed)
  BY DEF PipelineInv
<1>2. core[r].prepare_tickets \in SUBSET Nat
  BY <1>1 DEF GoodCore, CoreFields
<1>3. \A s \in core[r].prepare_tickets : s = 0 \/ s \in Started
  BY <1>1 DEF GoodCore
<1>4. Follow(core[r].prepare_tickets, Started)
  BY <1>2, <1>3 DEF Follow
<1> QED
  BY <1>1, <1>4, ProposingStep DEF NewTips

LEMMA HandlePrepareStep ==
    ASSUME PipelineInv, NEW r \in Replicas, NEW p \in unread[r], HandlePrepare(r, p)
    PROVE  PipelineInv' /\ Grows
<1>1. /\ GoodCore(core[r], Started, Committed) /\ WindowKept(Started, Committed)
      /\ core[r] \in CoreFields /\ p \in Prepares /\ p.slot \in Started
  BY DEF PipelineInv, GoodCore
<1>2. CASE Accepts(core[r], p)
  <2> DEFINE c == VoteFor(core[r], {p})
  <2>1. GoodCore(c, Started, Committed)
    BY <1>1, VoteForGood
  <2>2. /\ c.already_proposed_slots = core[r].already_proposed_slots
        /\ c.committed_slots = core[r].committed_slots
        /\ \A s \in Slots : core[r].views[s] > 0 => c.views[s] > 0
    BY <1>1, VoteForKeeps
  <2>3. Follow({p.slot}, Started)
    BY <1>1, Constants DEF Follow, Prepares
  <2>4. PICK covered \in SUBSET {p.slot} :
          Proposing(r, c, {p.slot}, covered, unread[r] \ {p})
    BY <1>2 DEF HandlePrepare
  <2>5. UNCHANGED timeouts
    BY DEF HandlePrepare
  <2> HIDE DEF c
  <2> QED
    BY <1>1, <2>1, <2>2, <2>3, <2>4, <2>5, ProposingStep
<1>3. CASE ~Accepts(core[r], p)
  <2>1. UNCHANGED <<core, timeouts>> /\ unread' = [unread EXCEPT ![r] = @ \ {p}]
    BY <1>3 DEF HandlePrepare
  <2>2. Started' = Started /\ Committed' = Committed
    BY <2>1 DEF Started, Committed
  <2> QED
    BY <2>1, <2>2 DEF PipelineInv, Grows
<1> QED
  BY <1>2, <1>3

LEMMA DecidedIsStarted ==
    ASSUME PipelineInv, NEW s \in Slots, Decided(s)
    PROVE  s \in Started
<1>1. PICK v \in {1, 2} : IsQuorum(Voters(s, v))
  BY DEF Decided
<1>2. Voters(s, v) # {}
  <2>1. Cardinality({}) = 0 /\ QuorumThreshold \in Nat \ {0}
    BY FS_EmptySet, Constants DEF QuorumThreshold
  <2>2. Voters(s, v) = {} => Cardinality(Voters(s, v)) = 0
    BY <2>1, Zenon
  <2> QED
    BY <1>1, <2>1, <2>2 DEF IsQuorum
<1>3. PICK r \in Replicas : <<s, v>> \in core[r].last_voted_consensus
  BY <1>2 DEF Voters
<1> QED
  BY <1>3 DEF PipelineInv, GoodCore

LEMMA HandleCommitStep ==
    ASSUME PipelineInv, NEW r \in Replicas, NEW s \in Slots, HandleCommit(r, s)
    PROVE  PipelineInv' /\ Grows
<1> PICK c : c = process_commit(core[r], s)
  OBVIOUS
<1> DEFINE C == Committed \cup {s}
<1>1. GoodCore(core[r], Started, Committed) /\ WindowKept(Started, Committed)
  BY DEF PipelineInv
<1>2. s \in Started
  BY DecidedIsStarted DEF HandleCommit
<1>3. /\ WindowKept(Started, C)
      /\ GoodCore(c, Started, C)
      /\ c.committed_slots = core[r].committed_slots \cup {s}
      /\ c.already_proposed_slots = core[r].already_proposed_slots
      /\ c.views = core[r].views
  BY <1>1, <1>2, CommitGood
<1>4. PICK covered \in SUBSET Mine(r, c, c.prepare_tickets) :
        Proposing(r, c, c.prepare_tickets, covered, unread[r])
  BY DEF HandleCommit
<1>5. UNCHANGED timeouts
  BY DEF HandleCommit
<1>6. Follow(c.prepare_tickets, Started)
  BY <1>3 DEF Follow, GoodCore, CoreFields
<1>7. Committed \subseteq C /\ C \ Committed \subseteq c.committed_slots
  BY <1>3
<1> HIDE DEF C
<1> QED
  BY <1>3, <1>4, <1>5, <1>6, <1>7, ProposingStep

LEMMA LocalTimeoutStep ==
    ASSUME PipelineInv, NEW r \in Replicas, NEW s \in Slots, LocalTimeout(r, s)
    PROVE  PipelineInv' /\ Grows
<1>1. UNCHANGED <<core, unread>> /\ timeouts' = [timeouts EXCEPT ![s] = @ \cup {r}]
  BY DEF LocalTimeout
<1>2. Started' = Started /\ Committed' = Committed
  BY <1>1 DEF Started, Committed
<1>3. Begun(s, Started, Committed)
  BY DEF LocalTimeout, PipelineInv, GoodCore
<1>4. timeouts' \in [Slots -> SUBSET Replicas]
  BY <1>1 DEF PipelineInv
<1>5. ASSUME NEW x \in Slots, timeouts'[x] # {}
      PROVE  Begun(x, Started, Committed)
  BY <1>1, <1>3, <1>5 DEF PipelineInv
<1> QED
  BY <1>1, <1>2, <1>4, <1>5 DEF PipelineInv, Grows

(***************************************************************************)
(* A step that commits nothing: one Core becomes d, good for the slots S2, *)
(* and sends Prepares of these slots.                                      *)
(***************************************************************************)
LEMMA StartingStep ==
    ASSUME PipelineInv, NEW r \in Replicas, NEW d, core' = [core EXCEPT ![r] = d],
           NEW S2, Started \subseteq S2,
           WindowKept(S2, Committed), GoodCore(d, S2, Committed),
           \A x \in S2 \ Started : x \in d.already_proposed_slots \/ d.views[x] > 0,
           core[r].already_proposed_slots \subseteq d.already_proposed_slots,
           core[r].committed_slots \subseteq d.committed_slots,
           \A x \in Slots : core[r].views[x] > 0 => d.views[x] > 0,
           NEW sent \in SUBSET Prepares, \A q \in sent : q.slot \in S2,
           unread' = [x \in Replicas |-> IF x = r THEN unread[x] ELSE unread[x] \cup sent],
           UNCHANGED timeouts
    PROVE  PipelineInv' /\ Grows
<1>1. /\ Started' = S2 /\ Committed' = Committed
      /\ core' \in [Replicas -> CoreFields]
      /\ \A x \in Replicas : GoodCore(core'[x], S2, Committed)
  <2> DEFINE C2 == Committed
  <2>1. Becomes(r, d, S2, C2)
    BY DEF Becomes
  <2> HIDE DEF C2
  <2>2. /\ Started' = S2 /\ Committed' = C2
        /\ core' \in [Replicas -> CoreFields]
        /\ \A x \in Replicas : GoodCore(core'[x], S2, C2)
    BY <2>1, CoreStep
  <2> QED
    BY <2>2 DEF C2
<1>2. unread' \in [Replicas -> SUBSET Prepares]
  BY DEF PipelineInv
<1>3. ASSUME NEW x \in Replicas, NEW q \in unread'[x]
      PROVE  q.slot \in S2
  BY <1>3 DEF PipelineInv
<1>4. ASSUME NEW x \in Slots, timeouts'[x] # {}
      PROVE  Begun(x, S2, Committed)
  BY <1>4, BegunGrows DEF PipelineInv
<1> QED
  BY <1>1, <1>2, <1>3, <1>4 DEF PipelineInv, Grows

(***************************************************************************)
(* A quorum of Timeouts starts the slot at the latest.                     *)
(***************************************************************************)
LEMMA HandleTimeoutsStep ==
    ASSUME PipelineInv, NEW r \in Replicas, NEW s \in Slots, HandleTimeouts(r, s)
    PROVE  PipelineInv' /\ Grows
<1> DEFINE p == [slot |-> s, view |-> 2, ticket |-> None]
           c == [core[r] EXCEPT !.views[s] = 2]
           S == Started \cup {s}
<1>1. /\ GoodCore(core[r], Started, Committed) /\ WindowKept(Started, Committed)
      /\ core[r] \in CoreFields
  BY DEF PipelineInv, GoodCore
<1>2. timeouts[s] # {}
  <2>1. Cardinality({}) = 0 /\ QuorumThreshold \in Nat \ {0}
    BY FS_EmptySet, Constants DEF QuorumThreshold
  <2>2. timeouts[s] = {} => Cardinality(timeouts[s]) = 0
    BY <2>1, Zenon
  <2> QED
    BY <2>1, <2>2 DEF HandleTimeouts, IsQuorum
<1>3. WindowKept(S, Committed)
  <2>1. Begun(s, Started, Committed)
    BY <1>2 DEF PipelineInv
  <2>2. \A x \in S : Begun(x, Started, Committed)
    BY <1>1, <2>1 DEF WindowKept
  <2> QED
    BY <1>1, <2>2, BegunGrows DEF WindowKept
<1>4. c \in CoreFields
  BY <1>1 DEF CoreFields
<1>5. /\ c.k = core[r].k /\ c.last_used_k = core[r].last_used_k
      /\ c.k_transition_end_slot = core[r].k_transition_end_slot
      /\ c.pending_param_update = core[r].pending_param_update
      /\ c.prepare_tickets = core[r].prepare_tickets
      /\ c.timers = core[r].timers
      /\ c.already_proposed_slots = core[r].already_proposed_slots
      /\ c.committed_slots = core[r].committed_slots
      /\ c.last_voted_consensus = core[r].last_voted_consensus
      /\ c.views = [core[r].views EXCEPT ![s] = 2]
  BY <1>1 DEF CoreFields
<1>6. \A x \in Slots : c.views[x] = IF x = s THEN 2 ELSE core[r].views[x]
  BY <1>1, <1>5 DEF CoreFields
<1>7. GoodCore(c, S, Committed)
  <2>1. GoodCore(core[r], S, Committed)
    BY <1>1, GoodCoreGrows
  <2> HIDE DEF c
  <2> QED
    BY <1>4, <1>5, <1>6, <2>1 DEF GoodCore, KnownK
<1>8. p \in Prepares /\ p.slot = s
  BY DEF Prepares
<1>9. UNCHANGED timeouts
  BY DEF HandleTimeouts
<1>11. CASE r # Leader(s, 2)
  <2>1. core' = [core EXCEPT ![r] = c] /\ UNCHANGED unread
    BY <1>11 DEF HandleTimeouts
  <2> DEFINE sent == {}
  <2>2. /\ unread' = [x \in Replicas |-> IF x = r THEN unread[x] ELSE unread[x] \cup sent]
        /\ sent \in SUBSET Prepares /\ \A q \in sent : q.slot \in S
    BY <2>1 DEF PipelineInv
  <2> HIDE DEF sent
  <2>3. /\ Started \subseteq S
        /\ \A x \in S \ Started : c.views[x] > 0
        /\ \A x \in Slots : core[r].views[x] > 0 => c.views[x] > 0
    BY <1>6
  <2> HIDE DEF c, S
  <2> QED
    BY <1>3, <1>5, <1>7, <1>9, <2>1, <2>2, <2>3, StartingStep
<1>12. CASE r = Leader(s, 2)
  <2> DEFINE e == VoteFor(c, {p})
  <2>0. PICK covered \in SUBSET {s} :
          /\ core' = [core EXCEPT ![r] =
                VoteFor(UseTickets(r, e, {s}, covered), NewPrepares(r, e, {s}, covered))]
          /\ unread' = [x \in Replicas |-> IF x = r THEN unread[x]
                ELSE unread[x] \cup NewPrepares(r, e, {s}, covered) \cup {p}]
    BY <1>12 DEF HandleTimeouts
  <2>t. PICK T : T = {s}
    OBVIOUS
  <2>a. PICK S2 : S2 = S \cup NextSlots(r, e, T, covered)
    OBVIOUS
  <2>b. PICK sent : sent = NewPrepares(r, e, T, covered)
    OBVIOUS
  <2>c. PICK d : d = VoteFor(UseTickets(r, e, T, covered), sent)
    OBVIOUS
  <2>1. /\ core' = [core EXCEPT ![r] = d]
        /\ unread' = [x \in Replicas |->
              IF x = r THEN unread[x] ELSE unread[x] \cup sent \cup {p}]
    BY <2>0, <2>t, <2>b, <2>c, Zenon
  <2>2. GoodCore(e, S, Committed)
    BY <1>3, <1>7, <1>8, VoteForGood
  <2>3. /\ e.already_proposed_slots = c.already_proposed_slots
        /\ e.committed_slots = c.committed_slots
        /\ \A x \in Slots : c.views[x] > 0 => e.views[x] > 0
    BY <1>4, <1>8, VoteForKeeps
  <2>4. Follow(T, S)
    BY <2>t, Constants DEF Follow
  <2> HIDE DEF e, c, p, S
  <2>5. /\ WindowKept(S2, Committed)
        /\ GoodCore(d, S2, Committed)
        /\ sent \subseteq Prepares
        /\ \A q \in sent : q.slot \in S2
        /\ S2 \ S \subseteq d.already_proposed_slots
        /\ e.already_proposed_slots \subseteq d.already_proposed_slots
        /\ e.committed_slots = d.committed_slots
        /\ \A x \in Slots : e.views[x] > 0 => d.views[x] > 0
    <3>1. Proposed(r, e, T, covered, S, S2, sent, d)
      BY <2>a, <2>b, <2>c DEF Proposed
    <3> QED
      BY <1>3, <2>2, <2>4, <3>1, ProposeGood DEF ProposedWell
  <2>6. S \subseteq S2 /\ s \in S2
    BY <2>a DEF S
  <2>7. unread' = [x \in Replicas |-> IF x = r THEN unread[x]
                                       ELSE unread[x] \cup (sent \cup {p})]
    BY <2>1
  <2>8. (sent \cup {p}) \in SUBSET Prepares
    BY <1>8, <2>5
  <2>9. \A q \in sent \cup {p} : q.slot \in S2
    BY <1>8, <2>5, <2>6
  <2>10. \A x \in Slots : core[r].views[x] > 0 => d.views[x] > 0
    BY <1>6, <2>3, <2>5
  <2>11. d.views[s] > 0
    BY <1>6, <2>3, <2>5
  <2>12. /\ core[r].already_proposed_slots \subseteq d.already_proposed_slots
         /\ core[r].committed_slots \subseteq d.committed_slots
    BY <1>5, <2>3, <2>5
  <2>13. /\ Started \subseteq S2
         /\ \A x \in S2 \ Started :
                x \in d.already_proposed_slots \/ d.views[x] > 0
    BY <2>5, <2>6, <2>11 DEF S
  <2> QED
    BY <1>9, <2>1, <2>5, <2>7, <2>8, <2>9, <2>10, <2>12, <2>13, StartingStep
<1> QED
  BY <1>11, <1>12
-----------------------------------------------------------------------------
\* A signal starts and commits nothing; the k it brings is one of Ks.
LEMMA HandleSignalStep ==
    ASSUME PipelineInv, NEW r \in Replicas, NEW signal \in Signals, HandleSignal(r, signal)
    PROVE  PipelineInv' /\ Grows
<1> PICK d : d = handle_param_update_signal(core[r], signal)
  OBVIOUS
<1>1. core' = [core EXCEPT ![r] = d] /\ UNCHANGED <<unread, timeouts>>
  BY Zenon DEF HandleSignal
<1>2. /\ GoodCore(core[r], Started, Committed) /\ WindowKept(Started, Committed)
      /\ core[r] \in CoreFields
  BY DEF PipelineInv, GoodCore
<1>3. d \in CoreFields /\ SameSlots(core[r], d) /\ KnownK(d)
  BY <1>2, SignalTypes DEF GoodCore
<1>4. GoodCore(d, Started, Committed)
  BY <1>2, <1>3 DEF GoodCore, SameSlots
<1>5. Becomes(r, d, Started, Committed)
  BY <1>1, <1>2, <1>3, <1>4 DEF Becomes, SameSlots
<1>6. /\ Started' = Started /\ Committed' = Committed
      /\ core' \in [Replicas -> CoreFields]
      /\ \A x \in Replicas : GoodCore(core'[x], Started, Committed)
  BY <1>5, CoreStep
<1> QED
  BY <1>1, <1>2, <1>6 DEF PipelineInv, Grows

LEMMA StepPipelineInv ==
    ASSUME PipelineInv, [Next]_vars
    PROVE  PipelineInv' /\ Grows
<1>1. CASE UNCHANGED vars
  <2>1. Started' = Started /\ Committed' = Committed
    BY <1>1 DEF vars, Started, Committed
  <2> QED
    BY <1>1, <2>1 DEF vars, PipelineInv, Grows
<1>2. ASSUME NEW r \in Live, Step(r)
      PROVE  PipelineInv' /\ Grows
  <2>1. r \in Replicas
    BY DEF Live
  <2>2. ASSUME NEW covered, NewTips(r, covered)
        PROVE  PipelineInv' /\ Grows
    BY <2>1, <2>2, NewTipsStep
  <2>3. ASSUME NEW p \in unread[r], HandlePrepare(r, p)
        PROVE  PipelineInv' /\ Grows
    BY <2>1, <2>3, HandlePrepareStep
  <2>4. ASSUME NEW s \in Slots, HandleCommit(r, s)
        PROVE  PipelineInv' /\ Grows
    BY <2>1, <2>4, HandleCommitStep
  <2>5. ASSUME NEW s \in Slots, LocalTimeout(r, s)
        PROVE  PipelineInv' /\ Grows
    BY <2>1, <2>5, LocalTimeoutStep
  <2>6. ASSUME NEW s \in Slots, HandleTimeouts(r, s)
        PROVE  PipelineInv' /\ Grows
    BY <2>1, <2>6, HandleTimeoutsStep
  <2>7. ASSUME NEW signal \in Signals, HandleSignal(r, signal)
        PROVE  PipelineInv' /\ Grows
    BY <2>1, <2>7, HandleSignalStep
  <2> QED
    BY <1>2, <2>2, <2>3, <2>4, <2>5, <2>6, <2>7 DEF Step
<1> QED
  BY <1>1, <1>2 DEF Next

LEMMA PipelineInvAlways == Spec => []PipelineInv
<1>1. Init => PipelineInv
  BY InitPipelineInv
<1>2. PipelineInv /\ [Next]_vars => PipelineInv'
  BY StepPipelineInv
<1> QED
  BY <1>1, <1>2, PTL DEF Spec

(***************************************************************************)
(* Whatever updates are signalled, to whom and when: slots begin in order, *)
(* each on the commit of the slot k before it, for a k that was signalled. *)
(* The order rests on the tickets, the commit on the tickets and timers.   *)
(***************************************************************************)
THEOREM SlotsBeginOpened == Spec => []SlotsAreOpened
<1>1. PipelineInv => SlotsAreOpened
  BY DEF PipelineInv, WindowKept, Begun, SlotsAreOpened
<1> QED
  BY <1>1, PipelineInvAlways, PTL

(***************************************************************************)
(* While k is not updated, at most k consecutive instances are open: the   *)
(* hard limit that core.rs states next to the field k.                     *)
(***************************************************************************)
OpenWindow == \A s \in Started : \A t \in 1 .. (s - K) : t \in Committed

THEOREM HardLimitHolds == ASSUME NoUpdates PROVE Spec => []OpenWindow
<1>1. PipelineInv => OpenWindow
  <2> SUFFICES ASSUME PipelineInv, NEW s \in Started, NEW t \in 1 .. (s - K)
               PROVE  t \in Committed
    BY DEF OpenWindow
  <2>1. s \in Nat /\ K \in Nat \ {0} /\ t \in Nat /\ t >= 1 /\ t <= s - K
    BY Constants DEF Started
  <2>2. Started \subseteq Slots /\ \A x \in Started : Begun(x, Started, Committed)
    BY DEF PipelineInv, WindowKept
  <2>3. t + K \in Started
    <3>1. t + K = s \/ t + K \in 1 .. (s - 1)
      BY <2>1
    <3> QED
      BY <2>2, <3>1 DEF Begun
  <2>4. t + K > K => (t + K) - K \in Committed
    BY <2>2, <2>3, KsAreNaturals DEF Begun
  <2> QED
    BY <2>1, <2>4
<1> QED
  BY <1>1, PipelineInvAlways, PTL

(***************************************************************************)
(* While k is not updated, the pipeline implements SlotWindow: it starts   *)
(* slots in order, each with its ticket, in view 1 or by a view change.    *)
(***************************************************************************)
THEOREM ImplementsWindow == ASSUME NoUpdates PROVE Spec => KeepsWindow
<1>1. Init => Window!Init
  BY InitPipelineInv DEF Window!Init
<1>2. ASSUME PipelineInv, [Next]_vars
      PROVE  [Window!Next]_Window!vars
  <2> DEFINE S == Started'
             C == Committed'
  <2>1. PipelineInv' /\ Grows
    BY <1>2, StepPipelineInv
  <2>2. WindowKept(S, C)
    BY <2>1 DEF PipelineInv
  <2>3. Started \subseteq S /\ Committed \subseteq C
    BY <2>1 DEF Grows
  <2> HIDE DEF S, C
  <2>4. S \subseteq Nat \ {0} /\ C \subseteq S
    BY <2>2, Constants DEF WindowKept, Slots
  <2>5. \A s \in S \ Started : Window!Ticket(s, S, C)
    BY <2>2, KsAreNaturals DEF WindowKept, Begun, Window!Ticket
  <2> QED
    BY <2>3, <2>4, <2>5, Zenon DEF S, C, Window!Next
<1> QED
  BY <1>1, <1>2, PipelineInvAlways, PTL DEF Spec, KeepsWindow, Window!Spec
-----------------------------------------------------------------------------
(***************************************************************************)
(* The update a Core holds back is one it can still apply.                 *)
(***************************************************************************)
ApplySlot(signal) == epoch_start_slot(signal.epoch) + AppliedBegin - 1

HoldsBack(c) ==
    c.pending_param_update # None =>
        ~NoEpochs /\ ApplySlot(c.pending_param_update) \notin c.committed_slots

LEMMA ApplySlotIs ==
    ASSUME ~NoEpochs, NEW signal \in Signals
    PROVE  /\ ApplySlot(signal) = (signal.epoch * EpochSlots) + AppliedBegin
           /\ signal.epoch \in Nat /\ ApplySlot(signal) \in Nat \ {0}
<1>1. signal.epoch \in Nat /\ EpochSlots \in Nat /\ AppliedBegin \in Nat \ {0}
  BY PipelineAssumption, EpochBounds
<1>2. signal.epoch * EpochSlots \in Nat
  BY <1>1
<1> QED
  BY <1>1, <1>2 DEF ApplySlot, epoch_start_slot

\* The slot of a pending update is the one at which it is applied.
LEMMA ApplySlotApplies ==
    ASSUME ~NoEpochs, AppliedBegin <= EpochSlots, NEW signal \in Signals, NEW s \in Nat \ {0}
    PROVE  /\ s = ApplySlot(signal) <=> /\ epoch_slot_index(s) = AppliedBegin
                                        /\ epoch_index_for_slot(s) = signal.epoch
           /\ epoch_index_for_slot(s) < signal.epoch => s < ApplySlot(signal)
           /\ /\ epoch_index_for_slot(s) = signal.epoch
              /\ epoch_slot_index(s) < AppliedBegin
              => s < ApplySlot(signal)
<1> PICK e : e = signal.epoch
  OBVIOUS
<1> PICK i : i = epoch_index_for_slot(s)
  OBVIOUS
<1> PICK x : x = epoch_slot_index(s)
  OBVIOUS
<1> PICK E : E = EpochSlots
  OBVIOUS
<1>1. E \in Nat \ {0} /\ AppliedBegin \in Nat \ {0} /\ AppliedBegin <= E
  BY EpochBounds
<1>2. i \in Nat /\ x \in 1 .. E /\ s = (i * E) + x
  BY <1>1, EpochsOfSlots
<1>3. e \in Nat /\ ApplySlot(signal) = (e * E) + AppliedBegin
  BY ApplySlotIs
<1>4. ASSUME i < e PROVE (i * E) + E <= e * E
  <2>1. PICK d \in Nat : e = i + 1 + d
    <3>1. e - i - 1 \in Nat /\ e = i + 1 + (e - i - 1)
      BY <1>2, <1>3, <1>4
    <3> QED
      BY <3>1
  <2>2. e * E = (i * E) + E + (d * E) /\ d * E \in Nat
    BY <1>1, <1>2, <2>1
  <2> QED
    BY <1>1, <1>2, <2>2
<1>5. ASSUME e < i PROVE (e * E) + E <= i * E
  <2>1. PICK d \in Nat : i = e + 1 + d
    <3>1. i - e - 1 \in Nat /\ i = e + 1 + (i - e - 1)
      BY <1>2, <1>3, <1>5
    <3> QED
      BY <3>1
  <2>2. i * E = (e * E) + E + (d * E) /\ d * E \in Nat
    BY <1>1, <1>3, <2>1
  <2> QED
    BY <1>1, <1>3, <2>2
<1>6. i * E \in Nat /\ e * E \in Nat
  BY <1>1, <1>2, <1>3
<1>7. i < e => s < ApplySlot(signal)
  BY <1>1, <1>2, <1>3, <1>4, <1>6
<1>8. e < i => ApplySlot(signal) < s
  BY <1>1, <1>2, <1>3, <1>5, <1>6
<1>9. i = e => (s = ApplySlot(signal) <=> x = AppliedBegin)
               /\ (x < AppliedBegin => s < ApplySlot(signal))
  BY <1>1, <1>2, <1>3, <1>6
<1>10. s \in Nat /\ ApplySlot(signal) \in Nat
  BY ApplySlotIs
<1>11. i < e \/ e < i \/ i = e
  BY <1>2, <1>3
<1> QED
  BY <1>7, <1>8, <1>9, <1>10, <1>11
-----------------------------------------------------------------------------
(***************************************************************************)
(* A step of a replica is one operation on its Core, after which it may    *)
(* use tickets and vote for the Prepares they yield.                       *)
(***************************************************************************)
Propose(r, c, tickets, covered) ==
    VoteFor(UseTickets(r, c, tickets, covered), NewPrepares(r, c, tickets, covered))

MayPropose(c, d) ==
    \/ d = c
    \/ \E r \in Replicas, tickets \in SUBSET (0 .. MaxSlot) : \E covered :
            d = Propose(r, c, tickets, covered)

NewView(c, s) == [c EXCEPT !.views[s] = 2]

Operation(c, d) ==
    \/ d = c
    \/ \E p \in Prepares : d = VoteFor(c, {p})
    \/ \E s \in Slots : \/ d = NewView(c, s)
                        \/ \E p \in Prepares : d = VoteFor(NewView(c, s), {p})
                        \/ d = process_commit(c, s)
    \/ \E signal \in Signals : d = handle_param_update_signal(c, signal)

LEMMA NewViewTypes ==
    ASSUME NEW c \in CoreFields, NEW s \in Slots, NEW d, d = NewView(c, s)
    PROVE  /\ d \in CoreFields /\ SameUpdates(c, d)
           /\ d.last_voted_consensus = c.last_voted_consensus
           /\ d.already_proposed_slots = c.already_proposed_slots
           /\ d.timers = c.timers
           /\ d.views[s] = 2
           /\ \A x \in Slots : x # s => d.views[x] = c.views[x]
BY DEF NewView, CoreFields, SameUpdates

LEMMA OperationTypes ==
    ASSUME NEW c \in CoreFields, NEW d, Operation(c, d)
    PROVE  d \in CoreFields
<1>1. ASSUME NEW e \in CoreFields, NEW p \in Prepares, d = VoteFor(e, {p})
      PROVE  d \in CoreFields
  BY <1>1, VoteForTypes
<1>2. ASSUME NEW s \in Slots
      PROVE  NewView(c, s) \in CoreFields
  BY NewViewTypes
<1>3. ASSUME NEW s \in Slots, d = process_commit(c, s)
      PROVE  d \in CoreFields
  BY <1>3, CommitTypes
<1>4. ASSUME NEW signal \in Signals, d = handle_param_update_signal(c, signal)
      PROVE  d \in CoreFields
  BY <1>4, SignalTypes
<1> QED
  BY <1>1, <1>2, <1>3, <1>4 DEF Operation

LEMMA ProposeTypes ==
    ASSUME NEW c \in CoreFields, NEW d, MayPropose(c, d)
    PROVE  d \in CoreFields /\ SameUpdates(c, d)
<1>1. CASE d = c
  BY <1>1 DEF SameUpdates
<1>2. ASSUME NEW r \in Replicas, NEW tickets \in SUBSET (0 .. MaxSlot), NEW covered,
             d = Propose(r, c, tickets, covered)
      PROVE  d \in CoreFields /\ SameUpdates(c, d)
  <2> PICK e : e = UseTickets(r, c, tickets, covered)
    OBVIOUS
  <2> PICK sent : sent = NewPrepares(r, c, tickets, covered)
    OBVIOUS
  <2>1. e \in CoreFields /\ SameUpdates(c, e) /\ sent \in SUBSET Prepares
    BY UseTicketsTypes
  <2>2. d = VoteFor(e, sent)
    BY <1>2, Zenon DEF Propose
  <2>3. d \in CoreFields /\ SameUpdates(e, d)
    BY <2>1, <2>2, VoteForTypes
  <2> QED
    BY <2>1, <2>3 DEF SameUpdates
<1> QED
  BY <1>1, <1>2 DEF MayPropose
-----------------------------------------------------------------------------
\* A step changes one Core; it sends and records only what its types allow.
OneCoreMoves ==
    \E r \in Replicas : \E c, d :
        /\ Operation(core[r], c) /\ MayPropose(c, d)
        /\ core' = [core EXCEPT ![r] = d]

MessagesTyped ==
    /\ unread' \in [Replicas -> SUBSET Prepares]
    /\ timeouts' \in [Slots -> SUBSET Replicas]

LEMMA CoreStands ==
    ASSUME TypeOK, UNCHANGED core
    PROVE  OneCoreMoves
<1>1. PICK r \in Replicas : TRUE
  <2>1. 1 \in DOMAIN Authorities
    BY CommitteeAssumption DEF Size
  <2> QED
    BY <2>1 DEF Replicas
<1>2. Operation(core[r], core[r]) /\ MayPropose(core[r], core[r])
  BY DEF Operation, MayPropose
<1>3. core' = [core EXCEPT ![r] = core[r]]
  BY DEF TypeOK
<1> QED
  BY <1>2, <1>3 DEF OneCoreMoves

LEMMA ProposingMoves ==
    ASSUME TypeOK, NEW r \in Replicas, NEW c, Operation(core[r], c),
           NEW tickets \in SUBSET (0 .. MaxSlot), NEW covered, NEW rest \in SUBSET unread[r],
           Proposing(r, c, tickets, covered, rest), UNCHANGED timeouts
    PROVE  OneCoreMoves /\ MessagesTyped
<1> PICK sent : sent = NewPrepares(r, c, tickets, covered)
  OBVIOUS
<1> PICK d : d = Propose(r, c, tickets, covered)
  OBVIOUS
<1>1. /\ core' = [core EXCEPT ![r] = d]
      /\ unread' = [x \in Replicas |-> IF x = r THEN rest ELSE unread[x] \cup sent]
  BY Zenon DEF Proposing, Propose
<1>2. MayPropose(c, d)
  BY DEF MayPropose
<1>3. OneCoreMoves
  BY <1>1, <1>2 DEF OneCoreMoves
<1>4. c \in CoreFields
  BY OperationTypes DEF TypeOK
<1>5. sent \subseteq Prepares
  BY <1>4, UseTicketsTypes
<1>6. MessagesTyped
  BY <1>1, <1>5 DEF MessagesTyped, TypeOK
<1> QED
  BY <1>3, <1>6

LEMMA HandlePrepareMoves ==
    ASSUME TypeOK, NEW r \in Replicas, NEW p \in unread[r], HandlePrepare(r, p)
    PROVE  OneCoreMoves /\ MessagesTyped
<1>1. p \in Prepares /\ p.slot \in Slots
  BY DEF TypeOK, Prepares
<1>2. CASE Accepts(core[r], p)
  <2> PICK c : c = VoteFor(core[r], {p})
    OBVIOUS
  <2>1. Operation(core[r], c)
    BY <1>1 DEF Operation
  <2>2. {p.slot} \in SUBSET (0 .. MaxSlot)
    BY <1>1, Constants DEF Slots
  <2>3. PICK covered : Proposing(r, c, {p.slot}, covered, unread[r] \ {p})
    BY <1>2 DEF HandlePrepare
  <2>4. UNCHANGED timeouts
    BY DEF HandlePrepare
  <2> QED
    BY <2>1, <2>2, <2>3, <2>4, ProposingMoves
<1>3. CASE ~Accepts(core[r], p)
  <2>1. UNCHANGED <<core, timeouts>> /\ unread' = [unread EXCEPT ![r] = @ \ {p}]
    BY <1>3 DEF HandlePrepare
  <2>2. MessagesTyped
    BY <2>1 DEF TypeOK, MessagesTyped
  <2> QED
    BY <2>1, <2>2, CoreStands
<1> QED
  BY <1>2, <1>3

LEMMA HandleCommitMoves ==
    ASSUME TypeOK, NEW r \in Replicas, NEW s \in Slots, HandleCommit(r, s)
    PROVE  OneCoreMoves /\ MessagesTyped
<1> PICK c : c = process_commit(core[r], s)
  OBVIOUS
<1>1. Operation(core[r], c)
  BY DEF Operation
<1>2. c.prepare_tickets \in SUBSET (0 .. MaxSlot)
  <2>1. c \in CoreFields
    BY <1>1, OperationTypes DEF TypeOK
  <2> QED
    BY <2>1 DEF CoreFields
<1>3. PICK covered : Proposing(r, c, c.prepare_tickets, covered, unread[r])
  BY DEF HandleCommit
<1>4. UNCHANGED timeouts
  BY DEF HandleCommit
<1> QED
  BY <1>1, <1>2, <1>3, <1>4, ProposingMoves

LEMMA HandleTimeoutsMoves ==
    ASSUME TypeOK, NEW r \in Replicas, NEW s \in Slots, HandleTimeouts(r, s)
    PROVE  OneCoreMoves /\ MessagesTyped
<1> DEFINE p == [slot |-> s, view |-> 2, ticket |-> None]
<1> PICK c : c = NewView(core[r], s)
  OBVIOUS
<1>1. p \in Prepares
  BY DEF Prepares
<1>2. UNCHANGED timeouts
  BY DEF HandleTimeouts
<1>3. CASE r # Leader(s, 2)
  <2>1. core' = [core EXCEPT ![r] = c] /\ UNCHANGED unread
    BY <1>3 DEF HandleTimeouts, NewView
  <2>2. Operation(core[r], c) /\ MayPropose(c, c)
    BY DEF Operation, MayPropose
  <2> QED
    BY <1>2, <2>1, <2>2 DEF OneCoreMoves, MessagesTyped, TypeOK
<1>4. CASE r = Leader(s, 2)
  <2> DEFINE e == VoteFor([core[r] EXCEPT !.views[s] = 2],
                          {[slot |-> s, view |-> 2, ticket |-> None]})
             sent(covered) == NewPrepares(r, e, {s}, covered)
             d(covered) == VoteFor(UseTickets(r, e, {s}, covered), sent(covered))
  <2>1. PICK covered \in SUBSET {s} :
          /\ core' = [core EXCEPT ![r] = d(covered)]
          /\ unread' = [x \in Replicas |-> IF x = r THEN unread[x]
                          ELSE unread[x] \cup sent(covered) \cup {p}]
    BY <1>4 DEF HandleTimeouts
  <2>2. e = VoteFor(c, {p})
    BY DEF NewView
  <2> HIDE DEF e, p
  <2>3. Operation(core[r], e)
    BY <1>1, <2>2 DEF Operation
  <2>4. {s} \in SUBSET (0 .. MaxSlot)
    BY Constants DEF Slots
  <2>5. MayPropose(e, d(covered))
    BY <2>4 DEF MayPropose, Propose
  <2>6. sent(covered) \subseteq Prepares
    <3>1. e \in CoreFields
      BY <2>3, OperationTypes DEF TypeOK
    <3> QED
      BY <2>4, <3>1, UseTicketsTypes
  <2> HIDE DEF d, sent
  <2>7. OneCoreMoves
    BY <2>1, <2>3, <2>5 DEF OneCoreMoves
  <2>8. MessagesTyped
    BY <1>1, <1>2, <2>1, <2>6 DEF MessagesTyped, TypeOK
  <2> QED
    BY <2>7, <2>8
<1> QED
  BY <1>3, <1>4

LEMMA StepMoves == ASSUME TypeOK, [Next]_vars PROVE OneCoreMoves /\ MessagesTyped
<1>1. CASE UNCHANGED vars
  BY <1>1, CoreStands DEF vars, MessagesTyped, TypeOK
<1>2. ASSUME NEW r \in Live, Step(r)
      PROVE  OneCoreMoves /\ MessagesTyped
  <2>1. r \in Replicas
    BY DEF Live
  <2>2. ASSUME NEW covered, NewTips(r, covered)
        PROVE  OneCoreMoves /\ MessagesTyped
    <3>1. Operation(core[r], core[r])
      BY DEF Operation
    <3>2. core[r].prepare_tickets \in SUBSET (0 .. MaxSlot)
      BY <2>1 DEF TypeOK, CoreFields
    <3>3. Proposing(r, core[r], core[r].prepare_tickets, covered, unread[r])
          /\ UNCHANGED timeouts
      BY <2>2 DEF NewTips
    <3> QED
      BY <2>1, <3>1, <3>2, <3>3, ProposingMoves
  <2>3. ASSUME NEW p \in unread[r], HandlePrepare(r, p)
        PROVE  OneCoreMoves /\ MessagesTyped
    BY <2>1, <2>3, HandlePrepareMoves
  <2>4. ASSUME NEW s \in Slots, HandleCommit(r, s)
        PROVE  OneCoreMoves /\ MessagesTyped
    BY <2>1, <2>4, HandleCommitMoves
  <2>5. ASSUME NEW s \in Slots, LocalTimeout(r, s)
        PROVE  OneCoreMoves /\ MessagesTyped
    <3>1. UNCHANGED <<core, unread>> /\ timeouts' = [timeouts EXCEPT ![s] = @ \cup {r}]
      BY <2>5 DEF LocalTimeout
    <3> QED
      BY <2>1, <3>1, CoreStands DEF TypeOK, MessagesTyped
  <2>6. ASSUME NEW s \in Slots, HandleTimeouts(r, s)
        PROVE  OneCoreMoves /\ MessagesTyped
    BY <2>1, <2>6, HandleTimeoutsMoves
  <2>7. ASSUME NEW signal \in Signals, HandleSignal(r, signal)
        PROVE  OneCoreMoves /\ MessagesTyped
    <3> PICK c : c = handle_param_update_signal(core[r], signal)
      OBVIOUS
    <3>1. core' = [core EXCEPT ![r] = c] /\ UNCHANGED <<unread, timeouts>>
      BY <2>7 DEF HandleSignal
    <3>2. Operation(core[r], c) /\ MayPropose(c, c)
      BY DEF Operation, MayPropose
    <3> QED
      BY <2>1, <3>1, <3>2 DEF OneCoreMoves, MessagesTyped, TypeOK
  <2> QED
    BY <1>2, <2>2, <2>3, <2>4, <2>5, <2>6, <2>7 DEF Step
<1> QED
  BY <1>1, <1>2 DEF Next

LEMMA TypeOKStep == ASSUME TypeOK, [Next]_vars PROVE TypeOK'
<1>1. OneCoreMoves /\ MessagesTyped
  BY StepMoves
<1>2. PICK r \in Replicas : \E c, d :
        /\ Operation(core[r], c) /\ MayPropose(c, d)
        /\ core' = [core EXCEPT ![r] = d]
  BY <1>1 DEF OneCoreMoves
<1>3. PICK c, d : /\ Operation(core[r], c) /\ MayPropose(c, d)
                  /\ core' = [core EXCEPT ![r] = d]
  BY <1>2
<1>4. d \in CoreFields
  BY <1>3, OperationTypes, ProposeTypes DEF TypeOK
<1> QED
  BY <1>1, <1>3, <1>4 DEF TypeOK, MessagesTyped

(***************************************************************************)
(* The pipeline's state keeps its types, whatever updates are signalled:   *)
(* a window is always of at least one slot, and a Prepare names a slot.    *)
(***************************************************************************)
THEOREM TypeCorrect == Spec => []TypeOK
<1>1. Init => TypeOK
  BY InitPipelineInv DEF PipelineInv, TypeOK
<1>2. TypeOK /\ [Next]_vars => TypeOK'
  BY TypeOKStep
<1> QED
  BY <1>1, <1>2, PTL DEF Spec
-----------------------------------------------------------------------------
LEMMA CommitHoldsBack ==
    ASSUME AppliedBegin <= EpochSlots, NEW c \in CoreFields, HoldsBack(c), NEW s \in Slots,
           NEW d, d = process_commit(c, s)
    PROVE  HoldsBack(d)
<1> SUFFICES ASSUME d.pending_param_update # None PROVE HoldsBack(d)
  BY DEF HoldsBack
<1> PICK signal : signal = d.pending_param_update
  OBVIOUS
<1>1. ~AppliesAt(c, s) /\ signal = c.pending_param_update
      /\ d.committed_slots = c.committed_slots \cup {s}
  BY CommitTypes
<1>2. ~NoEpochs /\ ApplySlot(signal) \notin c.committed_slots /\ signal \in Signals
  BY <1>1 DEF HoldsBack, CoreFields
<1>3. s \in Nat \ {0}
  BY Constants DEF Slots
<1>4. s # ApplySlot(signal)
  BY <1>1, <1>2, <1>3, ApplySlotApplies DEF AppliesAt
<1> QED
  BY <1>1, <1>2, <1>4 DEF HoldsBack

LEMMA SignalHoldsBack ==
    ASSUME AppliedBegin <= EpochSlots, NEW c \in CoreFields, HoldsBack(c),
           NEW signal \in Signals,
           NEW d, d = handle_param_update_signal(c, signal)
    PROVE  HoldsBack(d)
<1>1. CASE NoEpochs
  BY <1>1, SignalTypes DEF HoldsBack, SameSlots
<1>2. CASE ~NoEpochs /\ d.pending_param_update \in {c.pending_param_update, None}
  BY <1>2, SignalTypes DEF HoldsBack, SameSlots
<1>3. CASE ~NoEpochs /\ d.pending_param_update = signal /\ Ahead(c, signal)
  <2> PICK last : last = LastCommitted(c)
    OBVIOUS
  <2>1. c.committed_slots \subseteq Slots /\ d.committed_slots = c.committed_slots
    BY SignalTypes DEF CoreFields, SameSlots
  <2>2. last \in Nat /\ \A s \in c.committed_slots : s <= last
    BY <2>1, LastCommittedIsLast
  <2>3. ApplySlot(signal) \in Nat \ {0}
    BY <1>3, ApplySlotIs
  <2>4. CASE last = 0
    BY <1>3, <2>1, <2>2, <2>3, <2>4 DEF HoldsBack
  <2>5. CASE last # 0
    <3>1. last < ApplySlot(signal)
      BY <1>3, <2>2, <2>5, ApplySlotApplies DEF Ahead
    <3> QED
      BY <1>3, <2>1, <2>2, <2>3, <3>1 DEF HoldsBack
  <2> QED
    BY <2>4, <2>5
<1> QED
  BY <1>1, <1>2, <1>3, SignalTypes

LEMMA SameHoldsBack ==
    ASSUME NEW c, HoldsBack(c), NEW d, SameUpdates(c, d)
    PROVE  HoldsBack(d)
BY DEF HoldsBack, SameUpdates

LEMMA OperationHoldsBack ==
    ASSUME AppliedBegin <= EpochSlots, NEW c \in CoreFields, HoldsBack(c),
           NEW d, Operation(c, d)
    PROVE  HoldsBack(d)
<1>1. ASSUME NEW e \in CoreFields, HoldsBack(e), NEW p \in Prepares, d = VoteFor(e, {p})
      PROVE  HoldsBack(d)
  BY <1>1, VoteForTypes, SameHoldsBack
<1>2. ASSUME NEW s \in Slots
      PROVE  NewView(c, s) \in CoreFields /\ HoldsBack(NewView(c, s))
  BY NewViewTypes, SameHoldsBack
<1>3. ASSUME NEW s \in Slots, d = process_commit(c, s)
      PROVE  HoldsBack(d)
  BY <1>3, CommitHoldsBack
<1>4. ASSUME NEW signal \in Signals, d = handle_param_update_signal(c, signal)
      PROVE  HoldsBack(d)
  BY <1>4, SignalHoldsBack
<1> QED
  BY <1>1, <1>2, <1>3, <1>4 DEF Operation

\* What makes PendingIsAhead inductive: an update is held back with epochs only.
AllHoldBack == TypeOK /\ \A r \in Replicas : HoldsBack(core[r])

LEMMA AllHoldBackAlways ==
    ASSUME AppliedBegin <= EpochSlots
    PROVE  Spec => []AllHoldBack
<1>1. Init => AllHoldBack
  <2>1. Init => TypeOK /\ \A r \in Replicas : core[r].pending_param_update = None
    BY InitPipelineInv DEF PipelineInv, TypeOK, Init
  <2> QED
    BY <2>1 DEF AllHoldBack, HoldsBack
<1>2. ASSUME AllHoldBack, [Next]_vars PROVE AllHoldBack'
  <2>1. TypeOK /\ TypeOK' /\ OneCoreMoves
    BY <1>2, TypeOKStep, StepMoves DEF AllHoldBack
  <2>2. PICK r \in Replicas : \E c, d :
          /\ Operation(core[r], c) /\ MayPropose(c, d)
          /\ core' = [core EXCEPT ![r] = d]
    BY <2>1 DEF OneCoreMoves
  <2>3. PICK c, d : /\ Operation(core[r], c) /\ MayPropose(c, d)
                    /\ core' = [core EXCEPT ![r] = d]
    BY <2>2
  <2>4. core[r] \in CoreFields /\ HoldsBack(core[r])
    BY <1>2, <2>1 DEF AllHoldBack, TypeOK
  <2>5. c \in CoreFields /\ HoldsBack(c)
    BY <2>3, <2>4, OperationTypes, OperationHoldsBack
  <2>6. HoldsBack(d)
    BY <2>3, <2>5, ProposeTypes, SameHoldsBack
  <2>7. \A x \in Replicas : core'[x] = IF x = r THEN d ELSE core[x]
    BY <2>1, <2>3 DEF TypeOK
  <2>8. \A x \in Replicas : HoldsBack(core'[x])
    BY <1>2, <2>6, <2>7 DEF AllHoldBack
  <2> QED
    BY <2>1, <2>8 DEF AllHoldBack, HoldsBack
<1> QED
  BY <1>1, <1>2, PTL DEF Spec

(***************************************************************************)
(* An update that is held back is still ahead of its replica, whatever the *)
(* agent signals and when, if epochs are long enough to have a slot where  *)
(* updates are applied.                                                    *)
(***************************************************************************)
THEOREM HeldBackIsAhead ==
    ASSUME AppliedBegin <= EpochSlots
    PROVE  Spec => []PendingIsAhead
<1>1. AllHoldBack => PendingIsAhead
  BY DEF AllHoldBack, HoldsBack, PendingIsAhead, ApplySlot
<1> QED
  BY <1>1, AllHoldBackAlways, PTL

\* An operation changes k only where the update of the slot's epoch is applied.
LEMMA OperationSchedule ==
    ASSUME ~NoEpochs, NEW c \in CoreFields, AppliedBegin <= EpochSlots => HoldsBack(c),
           NEW d, Operation(c, d)
    PROVE  /\ c.committed_slots \subseteq d.committed_slots
           /\ d.k # c.k =>
                \E s \in d.committed_slots \ c.committed_slots, g \in Signals :
                    /\ epoch_slot_index(s) = AppliedBegin
                    /\ g = [epoch |-> epoch_index_for_slot(s), k |-> d.k]
<1>1. ASSUME NEW e \in CoreFields, SameUpdates(c, e), NEW p \in Prepares, d = VoteFor(e, {p})
      PROVE  SameUpdates(c, d)
  BY <1>1, VoteForTypes DEF SameUpdates
<1>2. ASSUME NEW s \in Slots
      PROVE  NewView(c, s) \in CoreFields /\ SameUpdates(c, NewView(c, s))
  BY NewViewTypes
<1>3. ASSUME NEW signal \in Signals, d = handle_param_update_signal(c, signal)
      PROVE  d.k = c.k /\ d.committed_slots = c.committed_slots
  BY <1>3, SignalTypes DEF SameSlots
<1>4. ASSUME NEW s \in Slots, d = process_commit(c, s), d.k # c.k
      PROVE  \E x \in d.committed_slots \ c.committed_slots, g \in Signals :
                    /\ epoch_slot_index(x) = AppliedBegin
                    /\ g = [epoch |-> epoch_index_for_slot(x), k |-> d.k]
  <2> PICK g : g = c.pending_param_update
    OBVIOUS
  <2>1. /\ AppliesAt(c, s) /\ d.k = g.k
        /\ d.committed_slots = c.committed_slots \cup {s}
    BY <1>4, CommitTypes
  <2>2. /\ g # None /\ g \in Signals
        /\ epoch_slot_index(s) = AppliedBegin /\ epoch_index_for_slot(s) = g.epoch
    BY <2>1 DEF AppliesAt, CoreFields
  <2>3. s \in Nat \ {0}
    BY Constants DEF Slots
  <2>4. AppliedBegin <= EpochSlots
    BY <2>2, <2>3, EpochBounds, EpochsOfSlots
  <2>5. s \notin c.committed_slots
    BY <2>2, <2>3, <2>4, ApplySlotApplies DEF HoldsBack
  <2>6. g = [epoch |-> g.epoch, k |-> g.k]
    BY <2>2, PipelineAssumption
  <2> QED
    BY <2>1, <2>2, <2>5, <2>6
<1>5. ASSUME NEW s \in Slots, d = process_commit(c, s)
      PROVE  c.committed_slots \subseteq d.committed_slots
  BY <1>5, CommitTypes
<1>6. CASE SameUpdates(c, d)
  BY <1>6 DEF SameUpdates
<1>7. SameUpdates(c, c)
  BY DEF SameUpdates
<1> QED
  BY <1>1, <1>2, <1>3, <1>4, <1>5, <1>6, <1>7 DEF Operation

(***************************************************************************)
(* With epochs, k changes only on the first commit of the slot where       *)
(* updates are applied, and to the value signalled for that slot's epoch.  *)
(***************************************************************************)
THEOREM UpdatesOnSchedule == ASSUME ~NoEpochs PROVE Spec => UpdatedOnSchedule
<1> DEFINE Held == TypeOK /\ (AppliedBegin <= EpochSlots => AllHoldBack)
           Scheduled == \A r \in Replicas :
                core'[r].k # core[r].k =>
                    \E s \in core'[r].committed_slots \ core[r].committed_slots,
                       g \in Signals :
                        /\ epoch_slot_index(s) = AppliedBegin
                        /\ g = [epoch |-> epoch_index_for_slot(s), k |-> core'[r].k]
<1>1. Spec => []Held
  <2>1. CASE AppliedBegin <= EpochSlots
    <3>1. AllHoldBack => Held
      BY DEF AllHoldBack
    <3> QED
      BY <2>1, <3>1, AllHoldBackAlways, PTL
  <2>2. CASE ~(AppliedBegin <= EpochSlots)
    <3>1. TypeOK => Held
      BY <2>2
    <3> QED
      BY <3>1, TypeCorrect, PTL
  <2> QED
    BY <2>1, <2>2
<1>2. ASSUME Held, [Next]_vars PROVE Scheduled
  <2>1. TypeOK /\ OneCoreMoves
    BY <1>2, StepMoves
  <2>2. PICK r \in Replicas : \E c, d :
          /\ Operation(core[r], c) /\ MayPropose(c, d)
          /\ core' = [core EXCEPT ![r] = d]
    BY <2>1 DEF OneCoreMoves
  <2>3. PICK c, d : /\ Operation(core[r], c) /\ MayPropose(c, d)
                    /\ core' = [core EXCEPT ![r] = d]
    BY <2>2
  <2>4. core[r] \in CoreFields /\ (AppliedBegin <= EpochSlots => HoldsBack(core[r]))
    BY <1>2, <2>1 DEF AllHoldBack, TypeOK
  <2>5. c \in CoreFields
    BY <2>3, <2>4, OperationTypes
  <2>6. d.k = c.k /\ d.committed_slots = c.committed_slots
    BY <2>3, <2>5, ProposeTypes DEF SameUpdates
  <2>7. \A x \in Replicas : core'[x] = IF x = r THEN d ELSE core[x]
    BY <2>1, <2>3 DEF TypeOK
  <2>8. c.k # core[r].k =>
                \E s \in c.committed_slots \ core[r].committed_slots, g \in Signals :
                    /\ epoch_slot_index(s) = AppliedBegin
                    /\ g = [epoch |-> epoch_index_for_slot(s), k |-> c.k]
    BY <2>3, <2>4, OperationSchedule
  <2> QED
    BY <2>6, <2>7, <2>8
<1>3. ASSUME Held, [Next]_vars PROVE [Scheduled]_vars
  BY <1>2, <1>3
<1> QED
  BY <1>1, <1>3, PTL DEF Spec, UpdatedOnSchedule
-----------------------------------------------------------------------------
(***************************************************************************)
(* While k is not updated, what a replica has voted for and committed      *)
(* tells which timers it has started and which Prepares of its own it has  *)
(* voted for.  With k = 1 the commit of a slot starts the next one's       *)
(* timer by itself.                                                        *)
(***************************************************************************)
VotesForItsOwn(c) ==
    \A s \in Slots : s \in c.already_proposed_slots /\ c.views[s] <= 1
                        => <<s, 1>> \in c.last_voted_consensus

VotedInItsView(c) ==
    \A s \in Slots, v \in {1, 2} : <<s, v>> \in c.last_voted_consensus => c.views[s] > 0

TimesNextSlot(c) ==
    \A s \in Slots :
        /\ s > 1
        /\ K = 1 \/ \E v \in {1, 2} : <<s - 1, v>> \in c.last_voted_consensus
        /\ s > K => s - K \in c.committed_slots
        => s \in c.timers \cup c.committed_slots

Diligent(c) == FixedK(c) /\ VotesForItsOwn(c) /\ VotedInItsView(c) /\ TimesNextSlot(c)

LEMMA SameFixedK ==
    ASSUME NEW c, FixedK(c), NEW d, SameUpdates(c, d)
    PROVE  FixedK(d)
BY DEF FixedK, SameUpdates

\* A Core that votes for what it has proposed, if only now.
LEMMA VoteForDiligent ==
    ASSUME NEW c \in CoreFields, FixedK(c), VotedInItsView(c), TimesNextSlot(c),
           NEW prepares \in SUBSET Prepares,
           \A s \in Slots : s \in c.already_proposed_slots /\ c.views[s] <= 1 =>
                \/ <<s, 1>> \in c.last_voted_consensus
                \/ \E p \in prepares : p.slot = s /\ p.view = 1 /\ Accepts(c, p),
           NEW d, d = VoteFor(c, prepares)
    PROVE  Diligent(d)
<1>1. /\ d \in CoreFields /\ SameUpdates(c, d)
      /\ d.already_proposed_slots = c.already_proposed_slots
      /\ c.last_voted_consensus \subseteq d.last_voted_consensus
      /\ c.timers \subseteq d.timers
      /\ \A s \in Slots : c.views[s] <= d.views[s]
      /\ \A p \in prepares : Accepts(c, p) =>
            /\ <<p.slot, p.view>> \in d.last_voted_consensus
            /\ d.views[p.slot] > 0
            /\ TimerDue(c, p.slot + 1) => p.slot + 1 \in d.timers
      /\ \A x \in d.last_voted_consensus \ c.last_voted_consensus :
            \E p \in prepares : Accepts(c, p) /\ x = <<p.slot, p.view>>
      /\ \A s \in Slots :
            d.views[s] # c.views[s] => <<s, d.views[s]>> \in d.last_voted_consensus
  BY VoteForTypes
<1>2. \A s \in Slots : c.views[s] \in 0 .. 2 /\ d.views[s] \in 0 .. 2
  BY <1>1 DEF CoreFields
<1>3. FixedK(d) /\ d.committed_slots = c.committed_slots
  BY <1>1, SameFixedK DEF SameUpdates
<1>4. VotesForItsOwn(d)
  <2> SUFFICES ASSUME NEW s \in Slots, s \in d.already_proposed_slots, d.views[s] <= 1
               PROVE  <<s, 1>> \in d.last_voted_consensus
    BY DEF VotesForItsOwn
  <2>1. CASE d.views[s] # c.views[s]
    <3>1. d.views[s] = 1
      BY <1>1, <1>2, <2>1
    <3> QED
      BY <1>1, <2>1, <3>1
  <2>2. CASE d.views[s] = c.views[s]
    BY <1>1, <2>2
  <2> QED
    BY <2>1, <2>2
<1>5. VotedInItsView(d)
  <2> SUFFICES ASSUME NEW s \in Slots, NEW v \in {1, 2}, <<s, v>> \in d.last_voted_consensus
               PROVE  d.views[s] > 0
    BY DEF VotedInItsView
  <2>1. CASE <<s, v>> \in c.last_voted_consensus
    <3>1. c.views[s] > 0
      BY <2>1 DEF VotedInItsView
    <3> QED
      BY <1>1, <1>2, <3>1
  <2>2. CASE <<s, v>> \notin c.last_voted_consensus
    <3>1. PICK p \in prepares : Accepts(c, p) /\ <<s, v>> = <<p.slot, p.view>>
      BY <1>1, <2>2
    <3>2. p.slot = s
      BY <3>1
    <3> QED
      BY <1>1, <3>1, <3>2
  <2> QED
    BY <2>1, <2>2
<1>6. TimesNextSlot(d)
  <2> SUFFICES ASSUME NEW s \in Slots, s > 1,
                      K = 1 \/ \E v \in {1, 2} : <<s - 1, v>> \in d.last_voted_consensus,
                      s > K => s - K \in c.committed_slots
               PROVE  s \in d.timers \cup c.committed_slots
    BY <1>3 DEF TimesNextSlot
  <2>1. CASE K = 1 \/ \E v \in {1, 2} : <<s - 1, v>> \in c.last_voted_consensus
    BY <1>1, <2>1 DEF TimesNextSlot
  <2>2. CASE K # 1 /\ \A v \in {1, 2} : <<s - 1, v>> \notin c.last_voted_consensus
    <3>1. PICK v \in {1, 2} : <<s - 1, v>> \in d.last_voted_consensus
      BY <2>2
    <3>2. PICK p \in prepares : Accepts(c, p) /\ <<s - 1, v>> = <<p.slot, p.view>>
      BY <1>1, <2>2, <3>1
    <3>3. p.slot + 1 = s
      <4>1. p.slot = s - 1 /\ s \in Nat
        BY <3>2, Constants
      <4> QED
        BY <4>1
    <3>4. effective_k(c, s) = K /\ K > 1
      BY <2>2, FixedKEffective, Constants
    <3>5. s \notin c.committed_slots => TimerDue(c, s)
      BY <3>4 DEF TimerDue, QCReady
    <3> QED
      BY <1>1, <3>2, <3>3, <3>5
  <2> QED
    BY <2>1, <2>2
<1> QED
  BY <1>3, <1>4, <1>5, <1>6 DEF Diligent

\* The leader's own Prepare passes its check: it names the commit it was opened by.
LEMMA AcceptsItsOwn ==
    ASSUME NEW c, FixedK(c), NEW e, FixedK(e), NEW s \in Slots,
           e.views[s] <= 1, <<s, 1>> \notin e.last_voted_consensus,
           NEW p, p = NewPrepare(c, s)
    PROVE  p.slot = s /\ p.view = 1 /\ Accepts(e, p)
<1>1. effective_k(c, s) = K
  BY FixedKEffective
<1>2. p = [slot |-> s, view |-> 1, ticket |-> IF s > K THEN s - K ELSE None]
  BY <1>1, Zenon DEF NewPrepare
<1>3. p.slot = s /\ p.view = 1 /\ p.ticket = IF s > K THEN s - K ELSE None
  BY <1>2
<1>4. s \in Nat /\ K \in Nat /\ None \notin Nat
  BY Constants
<1>5. ValidTicket(e, p)
  <2>1. CASE s > K
    <3>1. p.ticket = s - K /\ p.ticket # None /\ p.ticket + K = p.slot
      BY <1>3, <1>4, <2>1
    <3>2. effective_k(e, p.ticket) = K
      BY FixedKEffective
    <3> QED
      BY <3>1, <3>2 DEF ValidTicket
  <2>2. CASE ~(s > K)
    <3>1. p.ticket = None /\ e.k = K /\ ~(p.slot > K)
      BY <1>3, <2>2 DEF FixedK
    <3> QED
      BY <3>1 DEF ValidTicket
  <2> QED
    BY <2>1, <2>2
<1> QED
  BY <1>3, <1>5 DEF Accepts

LEMMA ProposeDiligent ==
    ASSUME NEW c \in CoreFields, Diligent(c), NEW d, MayPropose(c, d)
    PROVE  Diligent(d)
<1>1. CASE d = c
  BY <1>1
<1>2. ASSUME NEW r \in Replicas, NEW tickets \in SUBSET (0 .. MaxSlot), NEW covered,
             d = Propose(r, c, tickets, covered)
      PROVE  Diligent(d)
  <2> PICK e : e = UseTickets(r, c, tickets, covered)
    OBVIOUS
  <2> PICK sent : sent = NewPrepares(r, c, tickets, covered)
    OBVIOUS
  <2>1. /\ e \in CoreFields /\ SameUpdates(c, e)
        /\ e.views = c.views /\ e.timers = c.timers
        /\ e.last_voted_consensus = c.last_voted_consensus
        /\ e.already_proposed_slots
                = c.already_proposed_slots \cup NextSlots(r, c, tickets, covered)
        /\ sent \in SUBSET Prepares
    BY UseTicketsTypes
  <2>2. d = VoteFor(e, sent)
    BY <1>2, Zenon DEF Propose
  <2>3. FixedK(c) /\ FixedK(e)
    BY <2>1, SameFixedK DEF Diligent
  <2>4. VotedInItsView(e) /\ TimesNextSlot(e)
    BY <2>1 DEF Diligent, VotedInItsView, TimesNextSlot, SameUpdates
  <2>5. ASSUME NEW s \in Slots, s \in e.already_proposed_slots, e.views[s] <= 1,
               <<s, 1>> \notin e.last_voted_consensus
        PROVE  \E p \in sent : p.slot = s /\ p.view = 1 /\ Accepts(e, p)
    <3>1. s \in NextSlots(r, c, tickets, covered)
      BY <2>1, <2>5 DEF Diligent, VotesForItsOwn
    <3>2. PICK x \in Ready(r, c, tickets, covered) : s = x + 1
      BY <3>1 DEF NextSlots
    <3>3. NewPrepare(c, x + 1) \in sent
      BY <3>2 DEF NewPrepares
    <3> PICK p : p = NewPrepare(c, s)
      OBVIOUS
    <3>4. p \in sent
      BY <3>2, <3>3
    <3> QED
      BY <2>3, <2>5, <3>4, AcceptsItsOwn
  <2> QED
    BY <2>1, <2>2, <2>3, <2>4, <2>5, VoteForDiligent
<1> QED
  BY <1>1, <1>2 DEF MayPropose

LEMMA NewViewDiligent ==
    ASSUME NEW c \in CoreFields, Diligent(c), NEW s \in Slots, NEW d, d = NewView(c, s)
    PROVE  Diligent(d)
<1>1. /\ d \in CoreFields /\ SameUpdates(c, d)
      /\ d.last_voted_consensus = c.last_voted_consensus
      /\ d.already_proposed_slots = c.already_proposed_slots
      /\ d.timers = c.timers
      /\ d.views[s] = 2
      /\ \A x \in Slots : x # s => d.views[x] = c.views[x]
  BY NewViewTypes
<1>2. FixedK(d)
  BY <1>1, SameFixedK DEF Diligent
<1>3. VotesForItsOwn(d) /\ VotedInItsView(d)
  BY <1>1 DEF Diligent, VotesForItsOwn, VotedInItsView
<1>4. TimesNextSlot(d)
  BY <1>1 DEF Diligent, TimesNextSlot, SameUpdates
<1> QED
  BY <1>2, <1>3, <1>4 DEF Diligent

LEMMA CommitDiligent ==
    ASSUME NEW c \in CoreFields, Diligent(c), NEW s \in Slots, NEW d, d = process_commit(c, s)
    PROVE  Diligent(d)
<1> PICK e : e = CommitSlot(c, s)
  OBVIOUS
<1> PICK f : f = ApplyPending(e, s)
  OBVIOUS
<1>1. d = StartNextTimer(f, s)
  BY Zenon DEF process_commit
<1>2. /\ e \in CoreFields
      /\ e.k = c.k /\ e.last_used_k = c.last_used_k
      /\ e.k_transition_end_slot \in {c.k_transition_end_slot, None}
      /\ e.pending_param_update = c.pending_param_update
      /\ e.committed_slots = c.committed_slots \cup {s}
      /\ e.timers = c.timers \ {s}
      /\ e.views = c.views
      /\ e.last_voted_consensus = c.last_voted_consensus
      /\ e.already_proposed_slots = c.already_proposed_slots
  BY CommitSlotTypes
<1>3. FixedK(e)
  BY <1>2 DEF Diligent, FixedK
<1>4. f = e
  BY <1>3 DEF FixedK, ApplyPending, AppliesAt
<1>5. effective_k(e, s) = K
  BY <1>3, FixedKEffective
<1>6. /\ SameUpdates(e, d)
      /\ d.views = c.views
      /\ d.last_voted_consensus = c.last_voted_consensus
      /\ d.already_proposed_slots = c.already_proposed_slots
      /\ c.timers \ {s} \subseteq d.timers
      /\ K = 1 \/ (s + K - 1 \in Slots /\ c.views[s + K - 1] > 0) => s + K \in d.timers
  <2>1. d = StartNextTimer(e, s) /\ e \in CoreFields
    BY <1>1, <1>2, <1>4
  <2>2. /\ SameUpdates(e, d)
        /\ d.views = e.views
        /\ d.last_voted_consensus = e.last_voted_consensus
        /\ d.already_proposed_slots = e.already_proposed_slots
        /\ d.timers = IF K = 1 \/ (s + K - 1 \in Slots /\ e.views[s + K - 1] > 0)
                      THEN e.timers \cup {s + K} ELSE e.timers
    BY <1>5, <2>1, StartNextTimerTypes
  <2> QED
    BY <1>2, <2>2
<1>7. FixedK(d) /\ d.committed_slots = c.committed_slots \cup {s}
  BY <1>2, <1>3, <1>6, SameFixedK DEF SameUpdates
<1>8. VotesForItsOwn(d) /\ VotedInItsView(d)
  BY <1>6 DEF Diligent, VotesForItsOwn, VotedInItsView
<1>9. TimesNextSlot(d)
  <2> SUFFICES ASSUME NEW x \in Slots, x > 1,
                      K = 1 \/ \E v \in {1, 2} : <<x - 1, v>> \in c.last_voted_consensus,
                      x > K => x - K \in c.committed_slots \cup {s}
               PROVE  x \in d.timers \cup (c.committed_slots \cup {s})
    BY <1>6, <1>7 DEF TimesNextSlot
  <2>1. CASE x > K => x - K \in c.committed_slots
    BY <1>6, <2>1 DEF Diligent, TimesNextSlot
  <2>2. CASE x > K /\ x - K = s
    <3>1. x \in Nat /\ K \in Nat \ {0} /\ x = s + K /\ s + K - 1 = x - 1
      BY <2>2, Constants
    <3>2. CASE K = 1
      BY <1>6, <3>1, <3>2
    <3>3. CASE \E v \in {1, 2} : <<x - 1, v>> \in c.last_voted_consensus
      <4>1. PICK v \in {1, 2} : <<x - 1, v>> \in c.last_voted_consensus
        BY <3>3
      <4>2. x - 1 \in Slots
        BY <4>1 DEF CoreFields
      <4>3. c.views[x - 1] > 0
        BY <4>1, <4>2 DEF Diligent, VotedInItsView
      <4> QED
        BY <1>6, <3>1, <4>2, <4>3
    <3> QED
      BY <3>2, <3>3
  <2> QED
    BY <2>1, <2>2
<1> QED
  BY <1>7, <1>8, <1>9 DEF Diligent

LEMMA OperationDiligent ==
    ASSUME NoUpdates, NEW c \in CoreFields, Diligent(c), NEW d, Operation(c, d)
    PROVE  Diligent(d)
<1>1. ASSUME NEW e \in CoreFields, Diligent(e), NEW p \in Prepares, d = VoteFor(e, {p})
      PROVE  Diligent(d)
  <2>1. {p} \in SUBSET Prepares
    OBVIOUS
  <2> QED
    BY <1>1, <2>1, VoteForDiligent DEF Diligent, VotesForItsOwn
<1>2. ASSUME NEW s \in Slots
      PROVE  NewView(c, s) \in CoreFields /\ Diligent(NewView(c, s))
  BY NewViewTypes, NewViewDiligent
<1>3. ASSUME NEW s \in Slots, d = process_commit(c, s)
      PROVE  Diligent(d)
  BY <1>3, CommitDiligent
<1> QED
  BY <1>1, <1>2, <1>3 DEF Operation, NoUpdates

AllDiligent == TypeOK /\ \A r \in Replicas : Diligent(core[r])

LEMMA InitDiligent == Init => AllDiligent
<1> SUFFICES ASSUME Init, NEW r \in Replicas PROVE Diligent(core[r])
  BY InitPipelineInv DEF PipelineInv, TypeOK, AllDiligent
<1> PICK c : c = core[r]
  OBVIOUS
<1>1. FixedK(c)
  BY DEF Init, FixedK
<1>2. /\ c.committed_slots = {} /\ c.last_voted_consensus = {}
      /\ c.already_proposed_slots \subseteq {0}
  BY DEF Init
<1>3. VotesForItsOwn(c) /\ VotedInItsView(c)
  BY <1>2 DEF VotesForItsOwn, VotedInItsView, Slots
<1>4. TimesNextSlot(c)
  BY <1>2, Constants DEF TimesNextSlot, Slots
<1> QED
  BY <1>1, <1>3, <1>4 DEF Diligent

LEMMA AllDiligentAlways == ASSUME NoUpdates PROVE Spec => []AllDiligent
<1>1. ASSUME AllDiligent, [Next]_vars PROVE AllDiligent'
  <2>1. TypeOK /\ TypeOK' /\ OneCoreMoves
    BY <1>1, TypeOKStep, StepMoves DEF AllDiligent
  <2>2. PICK r \in Replicas : \E c, d :
          /\ Operation(core[r], c) /\ MayPropose(c, d)
          /\ core' = [core EXCEPT ![r] = d]
    BY <2>1 DEF OneCoreMoves
  <2>3. PICK c, d : /\ Operation(core[r], c) /\ MayPropose(c, d)
                    /\ core' = [core EXCEPT ![r] = d]
    BY <2>2
  <2>4. core[r] \in CoreFields /\ Diligent(core[r])
    BY <1>1, <2>1 DEF AllDiligent, TypeOK
  <2>5. c \in CoreFields /\ Diligent(c)
    BY <2>3, <2>4, OperationTypes, OperationDiligent
  <2>6. Diligent(d)
    BY <2>3, <2>5, ProposeDiligent
  <2>7. \A x \in Replicas : core'[x] = IF x = r THEN d ELSE core[x]
    BY <2>1, <2>3 DEF TypeOK
  <2>8. \A x \in Replicas : Diligent(core'[x])
    BY <1>1, <2>6, <2>7 DEF AllDiligent
  <2> QED
    BY <2>1, <2>8 DEF AllDiligent, Diligent, FixedK, VotesForItsOwn, VotedInItsView,
                      TimesNextSlot
<1> QED
  BY <1>1, InitDiligent, PTL DEF Spec

(***************************************************************************)
(* While k is not updated, no slot that may begin is left without a timer, *)
(* in whatever order its Prepare, its ticket and the commit it waits for   *)
(* arrive.                                                                 *)
(***************************************************************************)
THEOREM TicketsStartTimers == ASSUME NoUpdates PROVE Spec => []TicketStartsTimer
<1>1. AllDiligent => TicketStartsTimer
  <2> SUFFICES ASSUME AllDiligent, NEW r \in Replicas, NEW s \in Slots, s > 1,
                      \E v \in {1, 2} : <<s - 1, v>> \in core[r].last_voted_consensus,
                      QCReady(core[r], s)
               PROVE  s \in core[r].timers \cup core[r].committed_slots
    BY DEF TicketStartsTimer
  <2>1. Diligent(core[r])
    BY DEF AllDiligent
  <2>2. effective_k(core[r], s) = K
    BY <2>1, FixedKEffective DEF Diligent
  <2>3. s > K => s - K \in core[r].committed_slots
    BY <2>2, Zenon DEF QCReady
  <2> QED
    BY <2>1, <2>3 DEF Diligent, TimesNextSlot
<1> QED
  BY <1>1, AllDiligentAlways, PTL

(***************************************************************************)
(* While k is not updated, a leader votes for every Prepare it sends.      *)
(***************************************************************************)
THEOREM ProposersVote == ASSUME NoUpdates PROVE Spec => []ProposerVotes
<1>1. AllDiligent => ProposerVotes
  BY DEF AllDiligent, Diligent, VotesForItsOwn, ProposerVotes
<1> QED
  BY <1>1, AllDiligentAlways, PTL
=============================================================================
