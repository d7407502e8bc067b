------------------------------- MODULE Outbox -------------------------------
(***************************************************************************)
(* What the Core of a primary sends to the others: send_msg under the      *)
(* simulated asynchrony effects, the messages that are delayed and sent    *)
(* later, and the handlers that garbage collection cancels.  ReliableLink  *)
(* carries the messages.                                                   *)
(*                                                                         *)
(* The rest of Core is the sequence of messages it sends, and the heights  *)
(* and slots by which it files their handlers.                             *)
(***************************************************************************)
EXTENDS ReliableLink, FiniteSets

CONSTANTS
    OwnSide,        \* the peers on the primary's side of a partition
    Targeted,       \* is the primary malicious while the effect Equivocate lasts
    Scenarios,      \* the messages Core sends, and the effects of asynchrony_type
    gc_depth, k,    \* of Parameters
    MaxTraffic,     \* bound: the messages of a scenario
    StartHeight,    \* the height of the primary's header at first
    Heights, Slots  \* bounds: of reference_height and of last_committed_slot

All == "All"

ASSUME OutboxAssumption ==
    /\ All \notin Peers /\ OwnSide \subseteq Peers /\ Targeted \in BOOLEAN
    /\ gc_depth \in Nat \ {0} /\ k \in Nat
    /\ StartHeight \in Nat /\ Heights \subseteq Nat /\ Slots \subseteq Nat
    /\ MaxTraffic \in Nat /\ MaxBreaks \in Nat

VARIABLES
    traffic,                    \* the messages Core still has to send
    current_header,             \* the height of its last header
    reference_height,           \* the lowest certified tip
    gc_round, last_committed_slot,
    \* the simulated asynchrony
    asynchrony_type, current_effect_type, partition_delayed_msgs, egress_delay_queue,
    \* for each message, the peers it is for, and those that an effect spares it
    addressees, skipped

coreVars == <<traffic, current_header, reference_height, gc_round, last_committed_slot>>
effectVars == <<asynchrony_type, current_effect_type, partition_delayed_msgs,
                egress_delay_queue>>
historyVars == <<addressees, skipped>>
vars == <<linkVars, coreVars, effectVars, historyVars>>

Init ==
    /\ LinkInit
    /\ \E s \in Scenarios : traffic = s.traffic /\ asynchrony_type = s.effects
    /\ current_header = StartHeight /\ reference_height = 0 /\ gc_round = 0
    /\ last_committed_slot = 0
    /\ current_effect_type = "Off"
    /\ partition_delayed_msgs = <<>> /\ egress_delay_queue = {}
    /\ addressees = <<>> /\ skipped = {}
-----------------------------------------------------------------------------
(***************************************************************************)
(* A message has its number, what it is, its addressee, and the height or  *)
(* the slot its handlers are filed under.                                  *)
(***************************************************************************)
Audience(m) == IF m.to = All THEN Peers ELSE {m.to}

\* One message for the peers ps.
To(ps, m) == [p \in Peers |-> IF p \in ps THEN <<m>> ELSE <<>>]
Nobody == [p \in Peers |-> <<>>]

send_msg_normal(m) == To(Audience(m), m)

\* To the own side; for the other side see ReplayedTo.
send_msg_partition(m) == To(OwnSide, m)

PutAside(m) ==
    /\ partition_delayed_msgs' = Append(partition_delayed_msgs, m)
    /\ UNCHANGED <<egress_delay_queue, skipped>>

Delay(m) ==
    /\ egress_delay_queue' = egress_delay_queue \cup {m}
    /\ UNCHANGED <<partition_delayed_msgs, skipped>>

Skip(m) ==
    /\ skipped' = skipped \cup {m.n}
    /\ UNCHANGED <<partition_delayed_msgs, egress_delay_queue>>

KeepNothing == UNCHANGED <<partition_delayed_msgs, egress_delay_queue, skipped>>

\* Prepare, Confirm and Commit travel as ConsensusRequest.
IsConsensus(m) == m.kind \in {"Prepare", "Confirm", "Commit"}

Fake(m) == [m EXCEPT !.kind = "FakeHeader"]

\* The effect Failure drops messages of the kind ConsensusMessage only, which
\* Core does not send: the forwarding of Prepares is disabled.
SendOff(m) ==
    /\ current_effect_type \in {"Off", "Failure"}
    /\ Post(send_msg_normal(m))
    /\ KeepNothing

\* BUG: a broadcast that goes to one side is not put aside for the other.
PutAsideUnicasts(m) == IF m.to = All THEN KeepNothing ELSE PutAside(m)

PutAsideAll(m) == PutAside(m)

SendPartition(m) ==
    /\ current_effect_type = "Partition"
    /\ \/ /\ m.to = All
          /\ Post(send_msg_partition(m))
          /\ PutAsideAll(m)
       \/ /\ m.to \in OwnSide
          /\ Post(send_msg_normal(m))
          /\ KeepNothing
       \/ /\ m.to \in Peers \ OwnSide
          /\ Post(Nobody)
          /\ PutAside(m)

\* A targeted primary sends another header to the other side.
SendEquivocate(m) ==
    /\ current_effect_type = "Equivocate"
    /\ Post(IF m.kind = "Header" /\ Targeted
            THEN [p \in Peers |-> <<IF p \in OwnSide THEN m ELSE Fake(m)>>]
            ELSE send_msg_normal(m))
    /\ KeepNothing

SendEgress(m) == current_effect_type = "Egress" /\ Post(Nobody) /\ Delay(m)

\* Of the consensus messages only a Prepare is sent, the others are forgotten.
SendPrepareDelay(m) ==
    /\ current_effect_type = "PrepareDelay"
    /\ \/ /\ m.kind = "Prepare"
          /\ Post(Nobody) /\ Delay(m)
       \/ /\ m.kind \in {"Confirm", "Commit"}
          /\ Post(Nobody) /\ Skip(m)
       \/ /\ ~IsConsensus(m)
          /\ Post(send_msg_normal(m)) /\ KeepNothing

SendVoteDelay(m) ==
    /\ current_effect_type = "VoteDelay"
    /\ IF m.kind = "ConsensusVote"
       THEN Post(Nobody) /\ Delay(m)
       ELSE Post(send_msg_normal(m)) /\ KeepNothing

send_msg(m) ==
    \/ SendOff(m) \/ SendPartition(m) \/ SendEquivocate(m) \/ SendEgress(m)
    \/ SendPrepareDelay(m) \/ SendVoteDelay(m)

\* Votes on consensus messages and timeouts are filed under their slot, a
\* header and a vote on one under its height, and all others under the height
\* of the current header.  The vote is for the next header of the slowest lane.
Filed(n, x) ==
    [n |-> n, kind |-> x.kind, to |-> x.to,
     by |-> IF x.kind \in {"ConsensusVote", "Timeout"} THEN "slot" ELSE "height",
     key |-> CASE x.kind \in {"ConsensusVote", "Timeout"} -> last_committed_slot + 1
               [] x.kind = "Header" -> current_header + 1
               [] x.kind = "Vote" -> reference_height + 1
               [] OTHER -> current_header]

Emit ==
    /\ traffic # <<>>
    /\ traffic' = Tail(traffic)
    /\ LET m == Filed(Len(addressees) + 1, Head(traffic)) IN
       /\ send_msg(m)
       /\ addressees' = Append(addressees, Audience(m))
    /\ current_header' = IF Head(traffic).kind = "Header" THEN current_header + 1
                         ELSE current_header
    /\ UNCHANGED <<reference_height, gc_round, last_committed_slot, asynchrony_type,
                   current_effect_type>>
-----------------------------------------------------------------------------
(***************************************************************************)
(* The timers of async_timer_futures, and what was delayed.                *)
(***************************************************************************)
StartEffect ==
    /\ current_effect_type = "Off" /\ asynchrony_type # <<>>
    /\ current_effect_type' = Head(asynchrony_type)
    /\ asynchrony_type' = Tail(asynchrony_type)
    /\ UNCHANGED <<linkVars, coreVars, partition_delayed_msgs, egress_delay_queue,
                   historyVars>>

\* At the end of a partition: to whom each message goes that was put aside.
ReplayedTo(m) == IF m.to = All THEN Peers \ OwnSide ELSE Audience(m)

\* What p gets of them, in their order.
Replay(p) ==
    LET I == {i \in DOMAIN partition_delayed_msgs : p \in ReplayedTo(partition_delayed_msgs[i])}
    IN  [n \in 1 .. Cardinality(I) |->
            partition_delayed_msgs[CHOOSE i \in I : Cardinality({j \in I : j <= i}) = n]]

\* The messages stay in partition_delayed_msgs.
EndEffect ==
    /\ current_effect_type # "Off"
    /\ IF current_effect_type = "Partition"
       THEN Post([p \in Peers |-> Replay(p)])
       ELSE UNCHANGED linkVars
    /\ current_effect_type' = "Off"
    /\ UNCHANGED <<coreVars, asynchrony_type, partition_delayed_msgs, egress_delay_queue,
                   historyVars>>

\* A message of the egress_delay_queue is due.
SendDelayed ==
    \E m \in egress_delay_queue :
        /\ egress_delay_queue' = egress_delay_queue \ {m}
        /\ Post(send_msg_normal(m))
        /\ UNCHANGED <<coreVars, asynchrony_type, current_effect_type,
                       partition_delayed_msgs, historyVars>>
-----------------------------------------------------------------------------
(***************************************************************************)
(* Garbage collection, at the end of each turn of Core's loop: once the    *)
(* lowest certified tip enters another period of gc_depth.                 *)
(***************************************************************************)
Minus(a, b) == IF a > b THEN a - b ELSE 0
Maximum(a, b) == IF a > b THEN a ELSE b

Cutoffs(height, slot) ==
    [height |-> Minus(height, gc_depth), slot |-> Minus(slot, Maximum(2 * k, gc_depth))]

CollectGarbage(height, slot) ==
    IF height \div gc_depth > gc_round \div gc_depth
    THEN /\ Cancel([p \in Peers |-> {i \in 1 .. Len(sent[p]) :
                        sent[p][i].key < Cutoffs(height, slot)[sent[p][i].by]}])
         /\ gc_round' = (height \div gc_depth) * gc_depth
    ELSE UNCHANGED <<linkVars, gc_round>>

\* A certificate raises the lowest tip, or a Commit the slot.
Advance ==
    /\ \/ /\ \E h \in Heights :
                 reference_height < h /\ h <= current_header /\ reference_height' = h
          /\ UNCHANGED last_committed_slot
       \/ /\ \E s \in Slots : last_committed_slot < s /\ last_committed_slot' = s
          /\ UNCHANGED reference_height
    /\ CollectGarbage(reference_height', last_committed_slot')
    /\ UNCHANGED <<traffic, current_header, effectVars, historyVars>>
-----------------------------------------------------------------------------
CoreRests == UNCHANGED <<coreVars, effectVars, historyVars>>

Next ==
    \/ Emit \/ StartEffect \/ EndEffect \/ SendDelayed \/ Advance
    \/ \E p \in Peers : LinkStep(p) /\ CoreRests

Spec == Init /\ [][Next]_vars

(***************************************************************************)
(* An effect ends and a delayed message becomes due; a Connection keeps    *)
(* trying, and a peer that is up accepts and reads.                        *)
(***************************************************************************)
FairSpec ==
    /\ Spec
    /\ WF_vars(EndEffect) /\ WF_vars(SendDelayed)
    /\ \A p \in Peers :
           /\ WF_vars(Connect(p) /\ CoreRests)
           /\ WF_vars(Transmit(p) /\ CoreRests)
           /\ WF_vars(ReadAck(p) /\ CoreRests)
           /\ WF_vars(Take(p) /\ CoreRests)
-----------------------------------------------------------------------------
(***************************************************************************)
(* Properties.                                                             *)
(***************************************************************************)
\* Message n has reached p, in one of the copies that were sent to p.
Reached(n, p) == \E i \in taken[p] : sent[p][i].n = n

SentTo(p) == {n \in 1 .. Len(addressees) : p \in addressees[n]}

Collected(n, p) == \E i \in Cancelled(p) : sent[p][i].n = n

(***************************************************************************)
(* A message that Core sends reaches everyone it is for, if connections    *)
(* stop breaking: through an effect that delays it or keeps it from one    *)
(* side, and over connections that break.  Excepted are a message that     *)
(* garbage collection cancels, and one that PrepareDelay skips.            *)
(***************************************************************************)
EveryoneIsServed ==
    \A n \in 1 .. MaxTraffic : \A p \in Peers :
        n \in SentTo(p) ~> n \in skipped \/ Reached(n, p) \/ Collected(n, p)
=============================================================================
