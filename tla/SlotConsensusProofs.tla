------------------------- MODULE SlotConsensusProofs -------------------------
EXTENDS SlotConsensus, CommitteeProofs

TimeoutsBelowMaxView == \A m \in msgs : m.type = "Timeout" => m.view < MaxView

Registered ==
    \A v \in Views :
        v \in fast_timers \/ qc_makers[v].sent_confirm => consensus_instances[v] # None

TypeInv == TypeOK /\ TimeoutsBelowMaxView /\ Registered

LEMMA InitTypeInv == Init => TypeInv
<1> SUFFICES ASSUME Init PROVE TypeInv
  OBVIOUS
<1>1. 1 \in Views /\ 1 \in 0 .. MaxView /\ 0 \in 0 .. MaxView
  BY SlotAssumption DEF Views
<1>2. TypeOK
  <2>1. /\ views \in [Replicas -> 0 .. MaxView]
        /\ timers \in [Replicas -> SUBSET Views]
        /\ timer_futures \in [Replicas -> SUBSET Views]
    BY <1>1 DEF Init
  <2>2. /\ last_voted_consensus \in [Replicas -> SUBSET Views]
        /\ high_qcs \in [Replicas -> Confirms \cup Commits \cup {None}]
        /\ high_proposals \in [Replicas -> HighProposals \cup {None}]
        /\ committed_slots \in [Replicas -> Commits \cup {None}]
        /\ waiting \in [Replicas -> SUBSET Prepares]
    BY DEF Init
  <2>3. tc_makers \in [Replicas -> [Views -> Seq(Timeouts)]]
    BY DEF Init
  <2>4. consensus_instances \in [Views -> Cuts \cup {None}]
    BY DEF Init
  <2>5. qc_makers \in [Views -> QCMakers]
    BY DEF Init, NewQCMaker, QCMakers
  <2>6. confirm_makers \in [Views -> ConfirmMakers]
    BY DEF Init, ConfirmMakers
  <2>7. fast_timers \in SUBSET Views /\ msgs = {} /\ use_fast_path \in SUBSET Replicas
    BY ReplicaSetsAssumption DEF Init
  <2> QED
    BY <2>1, <2>2, <2>3, <2>4, <2>5, <2>6, <2>7 DEF TypeOK
<1>3. TimeoutsBelowMaxView /\ Registered
  BY DEF Init, TimeoutsBelowMaxView, Registered, NewQCMaker
<1> QED
  BY <1>2, <1>3 DEF TypeInv

\* The type field of a message tells which record it is.
LEMMA MessageTypes ==
    ASSUME TypeOK, NEW m \in msgs
    PROVE  /\ m.type = "Prepare" => m \in Prepares
           /\ m.type = "Confirm" => m \in Confirms
           /\ m.type = "Commit" => m \in Commits
           /\ m.type = "Timeout" => m \in Timeouts
           /\ m.type \in {"PrepareVote", "ConfirmVote"} => m \in Votes
<1>1. m \in Prepares \/ m \in Confirms \/ m \in Commits \/ m \in Timeouts \/ m \in Votes
  BY DEF TypeOK
<1>2. /\ m \in Prepares => m.type = "Prepare"
      /\ m \in Confirms => m.type = "Confirm"
      /\ m \in Commits => m.type = "Commit"
      /\ m \in Timeouts => m.type = "Timeout"
      /\ m \in Votes => m.type \in {"PrepareVote", "ConfirmVote"}
  BY DEF Prepares, Confirms, Commits, Timeouts, Votes
<1> QED
  BY <1>1, <1>2
-----------------------------------------------------------------------------
(***************************************************************************)
(* Types, in the groups the helpers of the specification change together.  *)
(***************************************************************************)
Messages == Prepares \cup Confirms \cup Commits \cup Timeouts \cup Votes

VoteTypes ==
    /\ views \in [Replicas -> 0 .. MaxView]
    /\ timers \in [Replicas -> SUBSET Views]
    /\ timer_futures \in [Replicas -> SUBSET Views]
    /\ high_qcs \in [Replicas -> Confirms \cup Commits \cup {None}]
    /\ committed_slots \in [Replicas -> Commits \cup {None}]

MessageInv == msgs \subseteq Messages /\ TimeoutsBelowMaxView

LeaderTypes ==
    /\ consensus_instances \in [Views -> Cuts \cup {None}]
    /\ qc_makers \in [Views -> QCMakers]
    /\ confirm_makers \in [Views -> ConfirmMakers]
    /\ fast_timers \in SUBSET Views
    /\ Registered

ReplicaTypes ==
    /\ last_voted_consensus \in [Replicas -> SUBSET Views]
    /\ high_proposals \in [Replicas -> HighProposals \cup {None}]
    /\ waiting \in [Replicas -> SUBSET Prepares]

\* An update changes the paths and nothing else, and nothing else changes them.
PathTypes == use_fast_path \in SUBSET Replicas

TCMakerTypes == tc_makers \in [Replicas -> [Views -> Seq(Timeouts)]]

LEMMA TypeGroups ==
    TypeInv <=> /\ VoteTypes /\ MessageInv /\ LeaderTypes
                /\ ReplicaTypes /\ TCMakerTypes /\ PathTypes
BY DEF TypeInv, TypeOK, VoteTypes, MessageInv, Messages, LeaderTypes,
       ReplicaTypes, TCMakerTypes, PathTypes

LEMMA TypeGroupsNext ==
    TypeInv' <=> /\ VoteTypes' /\ MessageInv' /\ LeaderTypes'
                 /\ ReplicaTypes' /\ TCMakerTypes' /\ PathTypes'
BY DEF TypeInv, TypeOK, VoteTypes, MessageInv, Messages, LeaderTypes,
       ReplicaTypes, TCMakerTypes, PathTypes

\* Whatever is not a Timeout may be added to msgs.
LEMMA AddMessages ==
    ASSUME MessageInv, NEW S, S \subseteq Messages \ Timeouts, msgs' = msgs \cup S
    PROVE  MessageInv'
<1>1. \A m \in S : m.type # "Timeout"
  BY DEF Messages, Prepares, Confirms, Commits, Votes
<1> QED
  BY <1>1 DEF MessageInv, TimeoutsBelowMaxView, Messages

LEMMA SendCommitTypes ==
    ASSUME TypeInv, NEW r \in Replicas, NEW v \in Views, NEW qc \in QCs,
           NEW sent, sent \subseteq Votes, consensus_instances[v] # None,
           SendCommit(r, v, qc, sent)
    PROVE  VoteTypes' /\ MessageInv'
<1> DEFINE c == [type |-> "Commit", view |-> v, qc |-> qc, cut |-> consensus_instances[v]]
<1>1. c \in Commits
  BY TypeGroups DEF Commits, LeaderTypes
<1>2. MessageInv'
  <2>1. sent \cup {c} \subseteq Messages \ Timeouts
    BY <1>1 DEF Messages, Timeouts, Votes, Commits
  <2>2. msgs' = msgs \cup (sent \cup {c})
    BY DEF SendCommit
  <2> QED
    BY <2>1, <2>2, AddMessages, TypeGroups
<1>3. VoteTypes'
  BY <1>1, TypeGroups DEF SendCommit, Commit, VoteTypes
<1> QED
  BY <1>2, <1>3

LEMMA SendConfirmTypes ==
    ASSUME TypeInv, NEW r \in Replicas, NEW v \in Views, NEW qc \in QCs,
           NEW sent, sent \subseteq Votes, consensus_instances[v] # None,
           SendConfirm(r, v, qc, sent)
    PROVE  /\ VoteTypes' /\ MessageInv'
           /\ confirm_makers' \in [Views -> ConfirmMakers]
<1> DEFINE c == [type |-> "Confirm", view |-> v, qc |-> qc, cut |-> consensus_instances[v]]
<1>1. c \in Confirms
  BY TypeGroups DEF Confirms, LeaderTypes
<1>2. ConfirmVote(r, v) \in Votes
  BY DEF Votes, ConfirmVote
<1>3. MessageInv'
  <2>1. sent \cup {c, ConfirmVote(r, v)} \subseteq Messages \ Timeouts
    BY <1>1, <1>2 DEF Messages, Timeouts, Votes, Confirms
  <2>2. \/ msgs' = msgs \cup (sent \cup {c, ConfirmVote(r, v)})
        \/ msgs' = msgs \cup (sent \cup {c})
    BY DEF SendConfirm
  <2> QED
    BY <2>1, <2>2, AddMessages, TypeGroups
<1>4. VoteTypes'
  BY <1>1, TypeGroups DEF SendConfirm, VoteTypes, Views
<1>5. confirm_makers' \in [Views -> ConfirmMakers]
  BY TypeGroups DEF SendConfirm, LeaderTypes, ConfirmMakers
<1> QED
  BY <1>3, <1>4, <1>5

LEMMA CountPrepareVoteTypes ==
    ASSUME TypeInv, NEW r \in Replicas, NEW v \in Views, NEW author \in Replicas,
           NEW sent, sent \subseteq Votes, CountPrepareVote(r, v, author, sent),
           UNCHANGED consensus_instances
    PROVE  VoteTypes' /\ MessageInv' /\ LeaderTypes'
<1> DEFINE m == qc_makers[v]
           votes == m.votes \cup {author}
           qc == [phase |-> "Prepare", view |-> v, votes |-> votes]
<1> USE TypeGroups
<1>1. m \in QCMakers /\ votes \in SUBSET Replicas /\ m.weight + 1 \in Nat
  BY DEF LeaderTypes, QCMakers
<1>2. qc \in QCs
  BY <1>1 DEF QCs
<1>3. consensus_instances[v] # None
  BY DEF CountPrepareVote
<1>4. VoteTypes' /\ MessageInv' /\ confirm_makers' \in [Views -> ConfirmMakers]
  <2>1. CASE SendCommit(r, v, qc, sent) /\ UNCHANGED confirm_makers
    BY <2>1, <1>2, <1>3, SendCommitTypes DEF LeaderTypes
  <2>2. CASE SendConfirm(r, v, qc, sent)
    BY <2>2, <1>2, <1>3, SendConfirmTypes
  <2>3. CASE UNCHANGED <<voteVars, confirm_makers>> /\ msgs' = msgs \cup sent
    <3>1. VoteTypes' /\ confirm_makers' \in [Views -> ConfirmMakers]
      BY <2>3 DEF VoteTypes, voteVars, LeaderTypes
    <3>2. sent \subseteq Messages \ Timeouts
      BY DEF Messages, Votes, Timeouts
    <3> QED
      BY <3>1, <3>2, <2>3, AddMessages
  <2> QED
    BY <2>1, <2>2, <2>3 DEF CountPrepareVote
<1>5. qc_makers' \in [Views -> QCMakers]
  <2> DEFINE counted == [m EXCEPT !.votes = votes, !.weight = m.weight + 1]
             Becomes(maker) == qc_makers' = [qc_makers EXCEPT ![v] = maker]
  <2>1. counted \in QCMakers
    BY <1>1 DEF QCMakers
  <2>2. \/ Becomes([counted EXCEPT !.weight = 0, !.completed_fast = TRUE])
        \/ Becomes([counted EXCEPT !.first = FALSE])
        \/ Becomes([counted EXCEPT !.weight = 0, !.sent_confirm = TRUE])
        \/ Becomes([counted EXCEPT !.weight = 0])
        \/ Becomes(counted)
    BY DEF CountPrepareVote
  <2> HIDE DEF counted
  <2>3. \A maker \in QCMakers :
           /\ [maker EXCEPT !.weight = 0, !.completed_fast = TRUE] \in QCMakers
           /\ [maker EXCEPT !.first = FALSE] \in QCMakers
           /\ [maker EXCEPT !.weight = 0, !.sent_confirm = TRUE] \in QCMakers
           /\ [maker EXCEPT !.weight = 0] \in QCMakers
    BY DEF QCMakers
  <2>4. PICK maker \in QCMakers : Becomes(maker)
    BY <2>1, <2>2, <2>3
  <2> QED
    BY <2>4 DEF LeaderTypes
<1>6. fast_timers' \in SUBSET Views
  BY DEF CountPrepareVote, LeaderTypes
<1>7. Registered'
  <2>1. fast_timers' \subseteq fast_timers \cup {v}
    BY DEF CountPrepareVote
  <2>2. \A w \in Views : w # v => qc_makers'[w] = qc_makers[w]
    BY DEF CountPrepareVote, LeaderTypes
  <2> QED
    BY <2>1, <2>2, <1>3 DEF LeaderTypes, Registered
<1> QED
  BY <1>4, <1>5, <1>6, <1>7 DEF LeaderTypes

LEMMA RecordPrepareTypes ==
    ASSUME TypeInv, NEW r \in Replicas, NEW p, p.view \in Views, p.cut \in Cuts,
           RecordPrepare(r, p)
    PROVE  /\ last_voted_consensus' \in [Replicas -> SUBSET Views]
           /\ high_proposals' \in [Replicas -> HighProposals \cup {None}]
BY TypeGroups DEF RecordPrepare, ReplicaTypes, HighProposals

LEMMA SendPrepareTypes ==
    ASSUME TypeInv, NEW r \in Replicas, NEW v \in Views, NEW tc \in TCs \cup {None},
           NEW cut \in Cuts, NEW curr \in 0 .. MaxView, NEW sent,
           sent \subseteq Messages,
           \A m \in sent : m.type = "Timeout" => m.view < MaxView,
           SendPrepare(r, v, tc, cut, curr, sent)
    PROVE  /\ views' \in [Replicas -> 0 .. MaxView]
           /\ MessageInv' /\ LeaderTypes' /\ ReplicaTypes'
<1> DEFINE p == [type |-> "Prepare", view |-> v, tc |-> tc, cut |-> cut]
<1> USE TypeGroups
<1>1. p \in Prepares /\ PrepareVote(r, v) \in Votes
  BY DEF Prepares, Votes, PrepareVote
<1>2. views' \in [Replicas -> 0 .. MaxView]
  BY SlotAssumption DEF SendPrepare, VoteTypes, Views
<1>3. MessageInv'
  <2>1. PICK S \in {{p}, {p, PrepareVote(r, v)}} : msgs' = msgs \cup sent \cup S
    BY DEF SendPrepare
  <2>2. \A m \in S : m \in Messages /\ m.type # "Timeout"
    BY <1>1 DEF Messages, PrepareVote
  <2> QED
    BY <2>1, <2>2 DEF MessageInv, TimeoutsBelowMaxView
<1>4. ReplicaTypes'
  <2>1. CASE RecordPrepare(r, p) /\ UNCHANGED waiting
    BY <2>1, RecordPrepareTypes DEF ReplicaTypes
  <2>2. CASE /\ waiting' = [waiting EXCEPT ![r] = @ \cup {p}]
             /\ UNCHANGED <<last_voted_consensus, high_proposals>>
    BY <2>2, <1>1 DEF ReplicaTypes
  <2>3. CASE UNCHANGED replicaVars
    BY <2>3 DEF ReplicaTypes, replicaVars
  <2> QED
    BY <2>1, <2>2, <2>3 DEF SendPrepare
<1>5. LeaderTypes'
  <2>1. consensus_instances' \in [Views -> Cuts \cup {None}]
    BY DEF SendPrepare, LeaderTypes
  <2>2. qc_makers' \in [Views -> QCMakers]
    <3> DEFINE own == [NewQCMaker EXCEPT !.votes = {r}, !.weight = 1]
    <3>1. NewQCMaker \in QCMakers
      BY DEF NewQCMaker, QCMakers
    <3>2. own \in QCMakers
      BY <3>1 DEF QCMakers
    <3>3. qc_makers' = qc_makers \/ qc_makers' = [qc_makers EXCEPT ![v] = own]
      BY DEF SendPrepare, replicaVars
    <3> QED
      BY <3>2, <3>3 DEF LeaderTypes
  <2>3. Registered'
    BY NoneAssumption DEF SendPrepare, LeaderTypes, Registered, NewQCMaker
  <2> QED
    BY <2>1, <2>2, <2>3 DEF SendPrepare, LeaderTypes
<1> QED
  BY <1>2, <1>3, <1>4, <1>5

LEMMA CountTimeoutTypes ==
    ASSUME TypeInv, NEW r \in Replicas, NEW t \in Timeouts, t.view < MaxView,
           NEW sent, sent \subseteq {t}, CountTimeout(r, t, sent)
    PROVE  /\ views' \in [Replicas -> 0 .. MaxView]
           /\ timers' \in [Replicas -> SUBSET Views]
           /\ high_qcs' = high_qcs /\ committed_slots' = committed_slots
           /\ MessageInv' /\ LeaderTypes' /\ ReplicaTypes' /\ TCMakerTypes'
<1> DEFINE made == Append(tc_makers[r][t.view], t)
           tc == [view |-> t.view, timeouts |-> made]
           next == t.view + 1
<1> USE TypeGroups
<1>1. t.view \in Views /\ next \in Views /\ next \in 0 .. MaxView
  BY SlotAssumption DEF Timeouts, Views
<1>2. made \in Seq(Timeouts) /\ TCMakerTypes'
  <2>1. tc_makers[r][t.view] \in Seq(Timeouts)
    BY <1>1 DEF TCMakerTypes
  <2>2. made \in Seq(Timeouts)
    BY <2>1
  <2>3. tc_makers' = [tc_makers EXCEPT ![r][t.view] = made]
    BY DEF CountTimeout
  <2> HIDE DEF made
  <2> QED
    BY <2>2, <2>3 DEF TCMakerTypes
<1>3. tc \in TCs
  BY <1>1, <1>2 DEF TCs
<1>4. sent \subseteq Messages /\ \A m \in sent : m.type = "Timeout" => m.view < MaxView
  BY DEF Messages
<1>5. timers' \in [Replicas -> SUBSET Views]
  <2>1. timers' = timers \/ timers' = [timers EXCEPT ![r] = @ \cup {next}]
    BY DEF CountTimeout
  <2> QED
    BY <2>1, <1>1 DEF VoteTypes
<1>6. /\ views' \in [Replicas -> 0 .. MaxView]
      /\ MessageInv' /\ LeaderTypes' /\ ReplicaTypes'
  <2>1. CASE generate_prepare_from_tc(r, tc, sent)
    <3>1. PICK cut \in Cuts : SendPrepare(r, next, tc, cut, next, sent)
      BY <2>1 DEF generate_prepare_from_tc
    <3> QED
      BY <3>1, <1>1, <1>3, <1>4, SendPrepareTypes
  <2>2. CASE /\ views' = [views EXCEPT ![r] = next] \/ UNCHANGED views
             /\ msgs' = msgs \cup sent
             /\ UNCHANGED <<replicaVars, leaderVars>>
    <3>1. views' \in [Replicas -> 0 .. MaxView]
      BY <2>2, <1>1 DEF VoteTypes
    <3>2. MessageInv'
      BY <2>2, <1>4 DEF MessageInv, TimeoutsBelowMaxView
    <3>3. LeaderTypes' /\ ReplicaTypes'
      BY <2>2 DEF LeaderTypes, ReplicaTypes, replicaVars, leaderVars, Registered
    <3> QED
      BY <3>1, <3>2, <3>3
  <2> QED
    BY <2>1, <2>2 DEF CountTimeout
<1> QED
  BY <1>2, <1>5, <1>6 DEF CountTimeout
-----------------------------------------------------------------------------
(***************************************************************************)
(* Every handler keeps the types.                                          *)
(***************************************************************************)
LEMMA PathsStay ==
    ASSUME NEW r \in Replicas,
           \/ StartTimer(r) \/ Propose(r) \/ HandlePrepare(r) \/ Loopback(r)
           \/ HandlePrepareVote(r) \/ FastTimerExpires(r) \/ HandleConfirm(r)
           \/ HandleConfirmVote(r) \/ HandleCommit(r) \/ LocalTimeout(r) \/ HandleTimeout(r)
    PROVE  use_fast_path' = use_fast_path
<1>1. CASE StartTimer(r) \/ Propose(r) \/ HandlePrepare(r)
  BY <1>1 DEF StartTimer, Propose, HandlePrepare
<1>2. CASE Loopback(r) \/ HandlePrepareVote(r) \/ FastTimerExpires(r)
  BY <1>2 DEF Loopback, HandlePrepareVote, FastTimerExpires
<1>3. CASE HandleConfirm(r) \/ HandleConfirmVote(r) \/ HandleCommit(r)
  BY <1>3 DEF HandleConfirm, HandleConfirmVote, HandleCommit
<1>4. CASE LocalTimeout(r) \/ HandleTimeout(r)
  BY <1>4 DEF LocalTimeout, HandleTimeout, CountTimeout
<1> QED
  BY <1>1, <1>2, <1>3, <1>4

LEMMA TypeInvStep == ASSUME TypeInv, [Next]_vars PROVE TypeInv'
<1>0. PathTypes'
  BY PathsStay, TypeGroups DEF Next, UpdateFastPath, vars, PathTypes
<1> USE TypeGroups, TypeGroupsNext, <1>0
<1>1. CASE UNCHANGED vars
  BY <1>1 DEF vars, TypeInv, TypeOK, TimeoutsBelowMaxView, Registered
<1>2. ASSUME NEW r \in Replicas, StartTimer(r) PROVE TypeInv'
  <2>1. VoteTypes'
    BY <1>2, SlotAssumption DEF StartTimer, VoteTypes, Views
  <2>2. MessageInv' /\ LeaderTypes' /\ ReplicaTypes' /\ TCMakerTypes'
    BY <1>2 DEF StartTimer, MessageInv, TimeoutsBelowMaxView, LeaderTypes, Registered,
                ReplicaTypes, TCMakerTypes, replicaVars, leaderVars
  <2> QED
    BY <2>1, <2>2
<1>3. ASSUME NEW r \in Replicas, Propose(r) PROVE TypeInv'
  <2>1. 1 \in Views /\ 1 \in Cuts /\ views[r] \in 0 .. MaxView
    BY SlotAssumption DEF Views, Cuts, VoteTypes
  <2>2. /\ views' \in [Replicas -> 0 .. MaxView]
        /\ MessageInv' /\ LeaderTypes' /\ ReplicaTypes'
    BY <1>3, <2>1, SendPrepareTypes DEF Propose
  <2> QED
    BY <2>2, <1>3 DEF Propose, VoteTypes, TCMakerTypes
<1>4. ASSUME NEW r \in Replicas, HandlePrepare(r) PROVE TypeInv'
  <2> PICK p \in msgs :
        /\ p.type = "Prepare"
        /\ views' = [views EXCEPT ![r] = IF views[r] < p.view THEN p.view ELSE views[r]]
        /\ \/ /\ RecordPrepare(r, p)
              /\ msgs' = msgs \cup {PrepareVote(r, p.view)}
              /\ UNCHANGED waiting
           \/ /\ waiting' = [waiting EXCEPT ![r] = @ \cup {p}]
              /\ UNCHANGED <<last_voted_consensus, high_proposals, msgs>>
           \/ UNCHANGED <<replicaVars, msgs>>
        /\ UNCHANGED <<timers, timer_futures, high_qcs, committed_slots,
                       leaderVars, tc_makers>>
    BY <1>4 DEF HandlePrepare
  <2>1. p \in Prepares /\ p.view \in Views /\ p.cut \in Cuts
    BY MessageTypes DEF TypeInv, Prepares
  <2>2. VoteTypes'
    BY <2>1, SlotAssumption DEF VoteTypes, Views
  <2>3. MessageInv'
    <3>1. PrepareVote(r, p.view) \in Messages \ Timeouts
      BY <2>1 DEF Messages, Votes, PrepareVote, Timeouts
    <3> QED
      BY <3>1, AddMessages DEF replicaVars, MessageInv, TimeoutsBelowMaxView
  <2>4. ReplicaTypes'
    BY <2>1, RecordPrepareTypes DEF ReplicaTypes, replicaVars
  <2>5. LeaderTypes' /\ TCMakerTypes'
    BY DEF LeaderTypes, TCMakerTypes, leaderVars, Registered
  <2> QED
    BY <2>2, <2>3, <2>4, <2>5
<1>5. ASSUME NEW r \in Replicas, Loopback(r) PROVE TypeInv'
  <2> PICK p \in waiting[r] :
        /\ waiting' = [waiting EXCEPT ![r] = @ \ {p}]
        /\ IF p.view \in last_voted_consensus[r]
           THEN UNCHANGED <<last_voted_consensus, high_proposals, voteVars,
                            leaderVars, msgs>>
           ELSE /\ RecordPrepare(r, p)
                /\ IF r = Leader(Slot, p.view)
                   THEN /\ CountPrepareVote(r, p.view, r, {PrepareVote(r, p.view)})
                        /\ UNCHANGED consensus_instances
                   ELSE /\ msgs' = msgs \cup {PrepareVote(r, p.view)}
                        /\ UNCHANGED <<voteVars, leaderVars>>
        /\ UNCHANGED tc_makers
    BY <1>5 DEF Loopback
  <2>1. p \in Prepares /\ p.view \in Views /\ p.cut \in Cuts
    BY DEF ReplicaTypes, Prepares
  <2>2. PrepareVote(r, p.view) \in Votes
    BY <2>1 DEF Votes, PrepareVote
  <2>3. ReplicaTypes'
    BY <2>1, RecordPrepareTypes DEF ReplicaTypes
  <2>4. VoteTypes' /\ MessageInv' /\ LeaderTypes'
    <3>1. CASE UNCHANGED <<voteVars, leaderVars, msgs>>
      BY <3>1 DEF VoteTypes, MessageInv, TimeoutsBelowMaxView, LeaderTypes,
                  Registered, voteVars, leaderVars
    <3>2. CASE CountPrepareVote(r, p.view, r, {PrepareVote(r, p.view)})
               /\ UNCHANGED consensus_instances
      BY <3>2, <2>1, <2>2, CountPrepareVoteTypes
    <3>3. CASE msgs' = msgs \cup {PrepareVote(r, p.view)}
               /\ UNCHANGED <<voteVars, leaderVars>>
      <4>1. VoteTypes' /\ LeaderTypes'
        BY <3>3 DEF VoteTypes, LeaderTypes, Registered, voteVars, leaderVars
      <4>2. {PrepareVote(r, p.view)} \subseteq Messages \ Timeouts
        BY <2>2 DEF Messages, Votes, Timeouts
      <4> QED
        BY <4>1, <4>2, <3>3, AddMessages
    <3> QED
      BY <3>1, <3>2, <3>3
  <2> QED
    BY <2>3, <2>4 DEF TCMakerTypes
<1>6. ASSUME NEW r \in Replicas, HandlePrepareVote(r) PROVE TypeInv'
  <2> PICK m \in msgs : /\ m.type = "PrepareVote"
                        /\ CountPrepareVote(r, m.view, m.author, {})
                        /\ UNCHANGED <<replicaVars, consensus_instances, tc_makers>>
    BY <1>6 DEF HandlePrepareVote
  <2>1. m.view \in Views /\ m.author \in Replicas
    BY MessageTypes DEF TypeInv, Votes
  <2>2. VoteTypes' /\ MessageInv' /\ LeaderTypes'
    BY <2>1, CountPrepareVoteTypes
  <2> QED
    BY <2>2 DEF ReplicaTypes, TCMakerTypes, replicaVars
<1>7. ASSUME NEW r \in Replicas, FastTimerExpires(r) PROVE TypeInv'
  <2> DEFINE qc(v) == [phase |-> "Prepare", view |-> v, votes |-> qc_makers[v].votes]
             disabled(v) == [qc_makers[v] EXCEPT !.fast_path_disabled = TRUE]
             Becomes(v, maker) == qc_makers' = [qc_makers EXCEPT ![v] = maker]
  <2> PICK v \in fast_timers :
        /\ fast_timers' = fast_timers \ {v}
        /\ \/ /\ Becomes(v, disabled(v))
              /\ UNCHANGED <<voteVars, confirm_makers, msgs>>
           \/ /\ Becomes(v, [disabled(v) EXCEPT !.sent_confirm = TRUE])
              /\ SendConfirm(r, v, qc(v), {})
        /\ UNCHANGED <<replicaVars, consensus_instances, tc_makers>>
    BY <1>7 DEF FastTimerExpires
  <2>1. v \in Views /\ qc_makers[v] \in QCMakers /\ consensus_instances[v] # None
    BY DEF LeaderTypes, Registered
  <2>2. qc(v) \in QCs
    BY <2>1 DEF QCs, QCMakers
  <2>3. VoteTypes' /\ MessageInv' /\ confirm_makers' \in [Views -> ConfirmMakers]
    <3>1. CASE UNCHANGED <<voteVars, confirm_makers, msgs>>
      BY <3>1 DEF VoteTypes, MessageInv, TimeoutsBelowMaxView, LeaderTypes, voteVars
    <3>2. CASE SendConfirm(r, v, qc(v), {})
      BY <3>2, <2>1, <2>2, SendConfirmTypes
    <3> QED
      BY <3>1, <3>2
  <2>4. PICK maker \in QCMakers : Becomes(v, maker)
    <3>1. disabled(v) \in QCMakers
      BY <2>1 DEF QCMakers
    <3> HIDE DEF disabled
    <3>2. [disabled(v) EXCEPT !.sent_confirm = TRUE] \in QCMakers
      BY <3>1 DEF QCMakers
    <3> QED
      BY <3>1, <3>2
  <2>5. LeaderTypes'
    BY <2>1, <2>3, <2>4 DEF LeaderTypes, Registered
  <2> QED
    BY <2>3, <2>5 DEF ReplicaTypes, TCMakerTypes, replicaVars
<1>8. ASSUME NEW r \in Replicas, HandleConfirm(r) PROVE TypeInv'
  <2> PICK c \in msgs : /\ c.type = "Confirm"
                        /\ views' = [views EXCEPT ![r] = c.view]
                        /\ high_qcs' = [high_qcs EXCEPT ![r] = c]
                        /\ msgs' = msgs \cup {ConfirmVote(r, c.view)}
                        /\ UNCHANGED <<timers, timer_futures, committed_slots,
                                       replicaVars, leaderVars, tc_makers>>
    BY <1>8 DEF HandleConfirm
  <2>1. c \in Confirms /\ c.view \in Views
    BY MessageTypes DEF TypeInv, Confirms
  <2>2. VoteTypes'
    BY <2>1 DEF VoteTypes, Views
  <2>3. {ConfirmVote(r, c.view)} \subseteq Messages \ Timeouts
    BY <2>1 DEF Messages, Votes, Timeouts, ConfirmVote
  <2> QED
    BY <2>2, <2>3, AddMessages DEF LeaderTypes, Registered, ReplicaTypes, TCMakerTypes,
                                   replicaVars, leaderVars
<1>9. ASSUME NEW r \in Replicas, HandleConfirmVote(r) PROVE TypeInv'
  <2> DEFINE votes(m) == confirm_makers[m.view].votes \cup {m.author}
             qc(m) == [phase |-> "Confirm", view |-> m.view, votes |-> votes(m)]
  <2> PICK m \in msgs :
        /\ m.type = "ConfirmVote"
        /\ qc_makers[m.view].sent_confirm
        /\ \/ /\ confirm_makers' = [confirm_makers EXCEPT ![m.view] =
                                      [votes |-> votes(m), weight |-> 0]]
              /\ SendCommit(r, m.view, qc(m), {})
           \/ /\ confirm_makers' = [confirm_makers EXCEPT ![m.view] =
                    [votes |-> votes(m), weight |-> confirm_makers[m.view].weight + 1]]
              /\ UNCHANGED <<voteVars, msgs>>
        /\ UNCHANGED <<replicaVars, consensus_instances, qc_makers, fast_timers, tc_makers>>
    BY <1>9 DEF HandleConfirmVote
  <2>1. /\ m.view \in Views /\ m.author \in Replicas
        /\ confirm_makers[m.view] \in ConfirmMakers
        /\ votes(m) \in SUBSET Replicas
    BY MessageTypes DEF TypeInv, Votes, LeaderTypes, ConfirmMakers
  <2>2. qc(m) \in QCs /\ consensus_instances[m.view] # None
    BY <2>1 DEF QCs, LeaderTypes, Registered
  <2>3. VoteTypes' /\ MessageInv'
    <3>1. CASE SendCommit(r, m.view, qc(m), {})
      BY <3>1, <2>1, <2>2, SendCommitTypes
    <3>2. CASE UNCHANGED <<voteVars, msgs>>
      BY <3>2 DEF VoteTypes, MessageInv, TimeoutsBelowMaxView, voteVars
    <3> QED
      BY <3>1, <3>2
  <2>4. LeaderTypes'
    BY <2>1 DEF LeaderTypes, Registered, ConfirmMakers
  <2> QED
    BY <2>3, <2>4 DEF ReplicaTypes, TCMakerTypes, replicaVars
<1>10. ASSUME NEW r \in Replicas, HandleCommit(r) PROVE TypeInv'
  <2> PICK c \in msgs : /\ c.type = "Commit"
                        /\ Commit(r, c)
                        /\ UNCHANGED <<views, timer_futures, replicaVars, leaderVars,
                                       tc_makers, msgs>>
    BY <1>10 DEF HandleCommit
  <2>1. c \in Commits
    BY MessageTypes DEF TypeInv
  <2>2. VoteTypes'
    BY <2>1 DEF Commit, VoteTypes
  <2> QED
    BY <2>2 DEF MessageInv, TimeoutsBelowMaxView, LeaderTypes, Registered, ReplicaTypes,
                TCMakerTypes, replicaVars, leaderVars
<1>11. ASSUME NEW r \in Replicas, LocalTimeout(r) PROVE TypeInv'
  <2> DEFINE t(v) == [type |-> "Timeout", view |-> v, author |-> r,
                      high_qc |-> high_qcs[r], high_prop |-> high_proposals[r]]
  <2> PICK v \in timer_futures[r] :
        /\ <<r, v>> \in Expiring
        /\ CountTimeout(r, t(v), {t(v)})
        /\ timer_futures' = [timer_futures EXCEPT ![r] =
                               (@ \ {v}) \cup (timers'[r] \ timers[r])]
    BY <1>11 DEF LocalTimeout
  <2>1. v \in Views /\ v < MaxView
    BY ExpiringAssumption DEF VoteTypes
  <2>2. t(v) \in Timeouts /\ t(v).view < MaxView
    BY <2>1 DEF Timeouts, VoteTypes, ReplicaTypes
  <2> HIDE DEF t
  <2>3. /\ views' \in [Replicas -> 0 .. MaxView]
        /\ timers' \in [Replicas -> SUBSET Views]
        /\ high_qcs' = high_qcs /\ committed_slots' = committed_slots
        /\ MessageInv' /\ LeaderTypes' /\ ReplicaTypes' /\ TCMakerTypes'
    BY <2>2, CountTimeoutTypes
  <2>4. timer_futures' \in [Replicas -> SUBSET Views]
    BY <2>3 DEF VoteTypes
  <2> QED
    BY <2>3, <2>4 DEF VoteTypes
<1>12. ASSUME NEW r \in Replicas, HandleTimeout(r) PROVE TypeInv'
  <2> PICK t \in msgs :
        /\ t.type = "Timeout"
        /\ CountTimeout(r, t, {})
        /\ timer_futures' = [timer_futures EXCEPT ![r] = @ \cup (timers'[r] \ timers[r])]
    BY <1>12 DEF HandleTimeout
  <2>1. t \in Timeouts /\ t.view < MaxView
    BY MessageTypes DEF TypeInv, TimeoutsBelowMaxView
  <2>2. /\ views' \in [Replicas -> 0 .. MaxView]
        /\ timers' \in [Replicas -> SUBSET Views]
        /\ high_qcs' = high_qcs /\ committed_slots' = committed_slots
        /\ MessageInv' /\ LeaderTypes' /\ ReplicaTypes' /\ TCMakerTypes'
    BY <2>1, CountTimeoutTypes
  <2>3. timer_futures' \in [Replicas -> SUBSET Views]
    BY <2>2 DEF VoteTypes
  <2> QED
    BY <2>2, <2>3 DEF VoteTypes
<1>13. ASSUME NEW r \in Replicas, UpdateFastPath(r) PROVE TypeInv'
  BY <1>13 DEF UpdateFastPath, voteVars, replicaVars, leaderVars, VoteTypes, MessageInv,
               TimeoutsBelowMaxView, LeaderTypes, Registered, ReplicaTypes, TCMakerTypes
<1> QED
  BY <1>1, <1>2, <1>3, <1>4, <1>5, <1>6, <1>7, <1>8, <1>9, <1>10, <1>11, <1>12, <1>13
     DEF Next

(***************************************************************************)
(* Every variable of the primaries keeps its type, for every committee,    *)
(* every bound on the views and every choice of slow or crashed replicas.  *)
(***************************************************************************)
THEOREM TypeCorrect == Spec => []TypeOK
<1>1. Init => TypeInv
  BY InitTypeInv
<1>2. TypeInv /\ [Next]_vars => TypeInv'
  BY TypeInvStep
<1>3. TypeInv => TypeOK
  BY DEF TypeInv
<1> QED
  BY <1>1, <1>2, <1>3, PTL DEF Spec

-----------------------------------------------------------------------------
(***************************************************************************)
(* What certificates of one slot stand for, whatever the network does.     *)
(* The inductive invariant adds to the properties of SlotConsensus what    *)
(* the replicas remember of the votes: a leader's QCMakers only count      *)
(* votes that were signed, and a TC from which a Prepare was made has left *)
(* its TCMaker full, so no second Prepare of that view can follow.         *)
(***************************************************************************)
OnePrepare ==
    /\ \A p \in Sent("Prepare") : consensus_instances[p.view] = p.cut
    /\ \A v \in Views :
          consensus_instances[v] # None => \E p \in Sent("Prepare") : p.view = v
    /\ \A p, q \in Sent("Prepare") : p.view = q.view => p = q

TCUsed ==
    \A p \in Sent("Prepare") :
        p.view > 1 => Len(tc_makers[Leader(Slot, p.view)][p.view - 1]) >= QuorumThreshold

PrepareVotesSigned ==
    \A v \in Views :
        /\ \A a \in qc_makers[v].votes : PrepareVote(a, v) \in msgs
        /\ qc_makers[v].weight <= Cardinality(qc_makers[v].votes)
        /\ v \in fast_timers => IsQuorum(qc_makers[v].votes)

ConfirmVotesSigned ==
    \A v \in Views :
        /\ \A a \in confirm_makers[v].votes : ConfirmVote(a, v) \in msgs
        /\ confirm_makers[v].weight <= Cardinality(confirm_makers[v].votes)

SafetyInv ==
    /\ TypeInv
    /\ OnePrepare
    /\ TCUsed
    /\ PrepareVotesSigned
    /\ ConfirmVotesSigned
    /\ CertificatesJustified

LEMMA InitSafetyInv == Init => SafetyInv
<1> SUFFICES ASSUME Init PROVE SafetyInv
  OBVIOUS
<1>1. TypeInv
  BY InitTypeInv
<1>2. OnePrepare /\ TCUsed /\ CertificatesJustified
  BY DEF Init, OnePrepare, TCUsed, CertificatesJustified, Sent
<1>3. PrepareVotesSigned /\ ConfirmVotesSigned
  <2>1. Cardinality({}) = 0
    BY FS_EmptySet
  <2>2. ASSUME NEW v \in Views
        PROVE  /\ qc_makers[v].votes = {} /\ qc_makers[v].weight = 0
               /\ confirm_makers[v].votes = {} /\ confirm_makers[v].weight = 0
               /\ v \notin fast_timers
    BY DEF Init, NewQCMaker
  <2>3. ASSUME NEW v \in Views
        PROVE  /\ qc_makers[v].weight <= Cardinality(qc_makers[v].votes)
               /\ confirm_makers[v].weight <= Cardinality(confirm_makers[v].votes)
    <3>1. Cardinality(qc_makers[v].votes) = 0 /\ Cardinality(confirm_makers[v].votes) = 0
      BY <2>1, <2>2, Zenon
    <3> QED
      BY <3>1, <2>2
  <2> QED
    BY <2>2, <2>3 DEF PrepareVotesSigned, ConfirmVotesSigned
<1> QED
  BY <1>1, <1>2, <1>3 DEF SafetyInv
-----------------------------------------------------------------------------
(***************************************************************************)
(* Signed messages stay signed.                                            *)
(***************************************************************************)
LEMMA BackedStays ==
    ASSUME msgs \subseteq msgs', NEW c, NEW phase, Backed(c, phase)
    PROVE  Backed(c, phase)'
BY DEF Backed, VotedBy, ProposedCut, Sent

\* A certificate that is backed by votes signed before or with it.
JustifiedCommit(c) ==
    \/ Backed(c, "Confirm")
    \/ Backed(c, "Prepare") /\ c.qc.votes = Replicas

LEMMA CertificatesStay ==
    ASSUME CertificatesJustified, NEW S, msgs' = msgs \cup S,
           \A c \in S : c.type = "Confirm" => Backed(c, "Prepare")',
           \A c \in S : c.type = "Commit" => JustifiedCommit(c)',
           \A r \in Replicas : \/ committed_slots'[r] = committed_slots[r]
                               \/ committed_slots'[r] \in msgs'
    PROVE  CertificatesJustified'
<1>1. msgs \subseteq msgs'
  OBVIOUS
<1>2. \A c \in Sent("Confirm")' : Backed(c, "Prepare")'
  BY <1>1, BackedStays DEF CertificatesJustified, Sent
<1>3. \A c \in Sent("Commit")' : JustifiedCommit(c)'
  <2> TAKE c \in Sent("Commit")'
  <2>1. CASE c \in S
    BY <2>1 DEF Sent
  <2>2. CASE c \in msgs
    <3>1. JustifiedCommit(c)
      BY <2>2 DEF CertificatesJustified, Sent, JustifiedCommit
    <3> QED
      BY <3>1, <1>1, BackedStays DEF JustifiedCommit
  <2> QED
    BY <2>1, <2>2 DEF Sent
<1>4. \A r \in Replicas : committed_slots'[r] # None => committed_slots'[r] \in msgs'
  BY <1>1 DEF CertificatesJustified
<1> QED
  BY <1>2, <1>3, <1>4 DEF CertificatesJustified, JustifiedCommit

\* What else the invariant says when no Prepare is sent and no maker changes.
LEMMA NothingProposed ==
    ASSUME OnePrepare, TCUsed, NEW S, msgs' = msgs \cup S,
           \A m \in S : m.type # "Prepare",
           UNCHANGED <<consensus_instances, tc_makers>>
    PROVE  OnePrepare' /\ TCUsed'
<1>1. Sent("Prepare")' = Sent("Prepare")
  BY DEF Sent
<1> QED
  BY <1>1 DEF OnePrepare, TCUsed

LEMMA MakersStay ==
    ASSUME PrepareVotesSigned, ConfirmVotesSigned, msgs \subseteq msgs',
           UNCHANGED <<qc_makers, confirm_makers, fast_timers>>
    PROVE  PrepareVotesSigned' /\ ConfirmVotesSigned'
BY DEF PrepareVotesSigned, ConfirmVotesSigned

LEMMA InstanceIsProposed ==
    ASSUME OnePrepare, msgs \subseteq msgs', NEW v \in Views,
           consensus_instances[v] # None,
           NEW m, m.view = v, m.cut = consensus_instances[v]
    PROVE  ProposedCut(m)'
<1>1. PICK p \in Sent("Prepare") : p.view = v
  BY DEF OnePrepare
<1>2. p.cut = m.cut /\ p \in Sent("Prepare")'
  BY <1>1 DEF OnePrepare, Sent
<1> QED
  BY <1>1, <1>2 DEF ProposedCut

SignedVote(phase, v, a) ==
    IF phase = "Prepare" THEN PrepareVote(a, v) ELSE ConfirmVote(a, v)

LEMMA SendCommitSafe ==
    ASSUME SafetyInv, NEW r \in Replicas, NEW v \in Views, NEW qc \in QCs,
           NEW sent, sent \subseteq Votes, consensus_instances[v] # None,
           SendCommit(r, v, qc, sent),
           \/ VerifyQC(qc, "Confirm", v)
           \/ VerifyQC(qc, "Prepare", v) /\ qc.votes = Replicas,
           \A a \in qc.votes : SignedVote(qc.phase, v, a) \in msgs \cup sent
    PROVE  /\ \E S : msgs' = msgs \cup S /\ \A m \in S : m.type # "Prepare"
           /\ CertificatesJustified'
<1> PICK c : c = [type |-> "Commit", view |-> v, qc |-> qc, cut |-> consensus_instances[v]]
  OBVIOUS
<1> DEFINE S == sent \cup {c}
<1>1. msgs' = msgs \cup S /\ msgs \subseteq msgs' /\ c \in msgs'
  BY DEF SendCommit
<1>2. /\ \A m \in sent : m.type \notin {"Prepare", "Confirm", "Commit"}
      /\ \A m \in S : m.type \notin {"Prepare", "Confirm"}
  BY DEF Votes
<1>3. JustifiedCommit(c)'
  <2>1. VotedBy(qc)'
    BY <1>1 DEF VotedBy, SignedVote, PrepareVote, ConfirmVote, VerifyQC
  <2>2. ProposedCut(c)'
    BY <1>1, InstanceIsProposed DEF SafetyInv
  <2> QED
    BY <2>1, <2>2 DEF JustifiedCommit, Backed, VerifyQC, IsQuorum
<1>4. \A s \in Replicas : \/ committed_slots'[s] = committed_slots[s]
                         \/ committed_slots'[s] \in msgs'
  BY <1>1 DEF SendCommit, Commit, SafetyInv, TypeInv, TypeOK
<1>5. CertificatesJustified'
  <2>1. \A m \in S : m.type = "Commit" => JustifiedCommit(m)'
    BY <1>2, <1>3
  <2> QED
    BY <1>1, <1>2, <1>4, <2>1, CertificatesStay DEF SafetyInv
<1> QED
  BY <1>1, <1>2, <1>5

LEMMA SendConfirmSafe ==
    ASSUME SafetyInv, NEW r \in Replicas, NEW v \in Views, NEW qc \in QCs,
           NEW sent, sent \subseteq Votes, consensus_instances[v] # None,
           SendConfirm(r, v, qc, sent),
           VerifyQC(qc, "Prepare", v),
           \A a \in qc.votes : PrepareVote(a, v) \in msgs \cup sent
    PROVE  /\ \E S : msgs' = msgs \cup S /\ \A m \in S : m.type # "Prepare"
           /\ CertificatesJustified'
           /\ ConfirmVotesSigned'
<1> PICK c : c = [type |-> "Confirm", view |-> v, qc |-> qc, cut |-> consensus_instances[v]]
  OBVIOUS
<1>1. PICK S : /\ msgs' = msgs \cup S
               /\ c \in S /\ S \subseteq sent \cup {c, ConfirmVote(r, v)}
               /\ \/ UNCHANGED confirm_makers
                  \/ /\ ConfirmVote(r, v) \in S
                     /\ confirm_makers' =
                          [confirm_makers EXCEPT ![v] = [votes |-> {r}, weight |-> 1]]
  <2>1. CASE NotPast(r, v) /\ verify_confirm(c)
    <3> WITNESS sent \cup {c, ConfirmVote(r, v)}
    <3> QED
      BY <2>1 DEF SendConfirm
  <2>2. CASE ~(NotPast(r, v) /\ verify_confirm(c))
    <3> WITNESS sent \cup {c}
    <3> QED
      BY <2>2 DEF SendConfirm
  <2> QED
    BY <2>1, <2>2
<1>2. /\ \A m \in S : m.type \notin {"Prepare", "Commit"}
      /\ \A m \in S : m.type = "Confirm" => m = c
  BY <1>1 DEF Votes, ConfirmVote
<1>3. Backed(c, "Prepare")'
  <2>1. VotedBy(qc)'
    BY <1>1 DEF VotedBy, PrepareVote, VerifyQC, SendConfirm
  <2>2. ProposedCut(c)'
    BY <1>1, InstanceIsProposed DEF SafetyInv
  <2> QED
    BY <2>1, <2>2 DEF Backed, VerifyQC, IsQuorum
<1>4. committed_slots' = committed_slots
  BY DEF SendConfirm
<1>5. CertificatesJustified'
  <2> QED
    BY <1>1, <1>2, <1>3, <1>4, CertificatesStay DEF SafetyInv
<1>6. ConfirmVotesSigned'
  <2>1. Cardinality({r}) = 1
    BY FS_Singleton
  <2>2. confirm_makers \in [Views -> ConfirmMakers]
    BY DEF SafetyInv, TypeInv, TypeOK
  <2>3. CASE UNCHANGED confirm_makers
    BY <1>1, <2>3 DEF SafetyInv, ConfirmVotesSigned
  <2>4. CASE /\ ConfirmVote(r, v) \in S
             /\ confirm_makers' = [confirm_makers EXCEPT ![v] = [votes |-> {r}, weight |-> 1]]
    <3> SUFFICES ASSUME NEW w \in Views
                 PROVE  /\ \A a \in confirm_makers'[w].votes : ConfirmVote(a, w) \in msgs'
                        /\ confirm_makers'[w].weight <= Cardinality(confirm_makers'[w].votes)
      BY DEF ConfirmVotesSigned
    <3>1. CASE w = v
      <4>1. confirm_makers'[w].votes = {r} /\ confirm_makers'[w].weight = 1
        BY <2>2, <2>4, <3>1
      <4>2. Cardinality(confirm_makers'[w].votes) = 1
        BY <2>1, <4>1, Zenon
      <4> QED
        BY <1>1, <2>4, <3>1, <4>1, <4>2
    <3>2. CASE w # v
      <4>1. confirm_makers'[w] = confirm_makers[w]
        BY <2>2, <2>4, <3>2
      <4> QED
        BY <1>1, <4>1 DEF SafetyInv, ConfirmVotesSigned
    <3> QED
      BY <3>1, <3>2
  <2> QED
    BY <1>1, <2>3, <2>4
<1> QED
  BY <1>1, <1>2, <1>5, <1>6
-----------------------------------------------------------------------------
(***************************************************************************)
(* Counting a vote.                                                        *)
(***************************************************************************)
LEMMA OneMoreVote ==
    ASSUME NEW S, S \subseteq Replicas, NEW a \in Replicas, a \notin S
    PROVE  /\ S \cup {a} \subseteq Replicas
           /\ Cardinality(S) \in Nat
           /\ Cardinality(S \cup {a}) = Cardinality(S) + 1
<1>1. IsFiniteSet(S) /\ Cardinality(S) \in Nat
  BY SubsetsFinite
<1>2. Cardinality(S \cup {a}) = Cardinality(S) + 1
  BY <1>1, FS_AddElement
<1> QED
  BY <1>1, <1>2

LEMMA QuorumGrows ==
    ASSUME NEW T, T \subseteq Replicas, NEW S, S \subseteq T, IsQuorum(S)
    PROVE  IsQuorum(T)
<1>1. /\ IsFiniteSet(T) /\ Cardinality(T) \in Nat /\ Cardinality(S) \in Nat
  BY SubsetsFinite
<1>2. Cardinality(S) <= Cardinality(T)
  BY <1>1, FS_Subset
<1> QED
  BY <1>1, <1>2, QuorumBounds DEF IsQuorum

\* The QCMaker of view v becomes maker, which counts signed votes.
LEMMA MakerCounts ==
    ASSUME TypeInv, PrepareVotesSigned, msgs \subseteq msgs', NEW v \in Views, NEW maker,
           qc_makers' = [qc_makers EXCEPT ![v] = maker],
           \A a \in maker.votes : PrepareVote(a, v) \in msgs',
           maker.weight <= Cardinality(maker.votes),
           v \in fast_timers' => IsQuorum(maker.votes),
           fast_timers' \subseteq fast_timers \cup {v}
    PROVE  PrepareVotesSigned'
<1> SUFFICES ASSUME NEW w \in Views
             PROVE  /\ \A a \in qc_makers'[w].votes : PrepareVote(a, w) \in msgs'
                    /\ qc_makers'[w].weight <= Cardinality(qc_makers'[w].votes)
                    /\ w \in fast_timers' => IsQuorum(qc_makers'[w].votes)
  BY DEF PrepareVotesSigned, IsQuorum
<1>1. CASE w = v
  <2>1. qc_makers'[w] = maker
    BY <1>1 DEF TypeInv, TypeOK
  <2> QED
    BY <1>1, <2>1
<1>2. CASE w # v
  <2>1. qc_makers'[w] = qc_makers[w]
    BY <1>2 DEF TypeInv, TypeOK
  <2>2. w \in fast_timers' => w \in fast_timers
    BY <1>2
  <2> QED
    BY <2>1, <2>2 DEF PrepareVotesSigned
<1> QED
  BY <1>1, <1>2

LEMMA CountPrepareVoteSafe ==
    ASSUME SafetyInv, NEW r \in Replicas, NEW v \in Views, NEW author \in Replicas,
           NEW sent, sent \subseteq Votes, PrepareVote(author, v) \in msgs \cup sent,
           CountPrepareVote(r, v, author, sent), UNCHANGED <<consensus_instances, tc_makers>>
    PROVE  /\ OnePrepare' /\ TCUsed' /\ PrepareVotesSigned'
           /\ ConfirmVotesSigned' /\ CertificatesJustified'
<1> DEFINE m == qc_makers[v]
           weight == m.weight + 1
           counted == [m EXCEPT !.votes = @ \cup {author}, !.weight = weight]
           votes == m.votes \cup {author}
           Becomes(maker) == qc_makers' = [qc_makers EXCEPT ![v] = maker]
<1> PICK qc : qc = [phase |-> "Prepare", view |-> v, votes |-> votes]
  OBVIOUS
<1>1. /\ m \in QCMakers /\ m.votes \subseteq Replicas /\ m.weight \in Nat
      /\ author \notin m.votes /\ consensus_instances[v] # None
  BY DEF CountPrepareVote, Counts, SafetyInv, TypeInv, TypeOK, QCMakers
<1>2. /\ votes \subseteq Replicas /\ Cardinality(votes) \in Nat
      /\ weight <= Cardinality(votes)
  <2>1. m.weight <= Cardinality(m.votes)
    BY DEF SafetyInv, PrepareVotesSigned
  <2>2. /\ votes \subseteq Replicas /\ Cardinality(m.votes) \in Nat
        /\ Cardinality(votes) = Cardinality(m.votes) + 1
    BY <1>1, OneMoreVote
  <2> HIDE DEF votes, m
  <2> QED
    BY <1>1, <2>1, <2>2
<1>3. \A a \in votes : PrepareVote(a, v) \in msgs \cup sent
  BY DEF SafetyInv, PrepareVotesSigned
<1>4. qc \in QCs
  BY <1>2 DEF QCs
<1>5. PICK maker, ft :
        /\ Becomes(maker) /\ maker.votes = votes
        /\ maker.weight \in {0, weight}
        /\ fast_timers' = ft
        /\ \/ ft = fast_timers
           \/ ft = fast_timers \cup {v} /\ weight >= QuorumThreshold
        /\ \/ /\ SendCommit(r, v, qc, sent) /\ UNCHANGED confirm_makers
              /\ weight >= FastThreshold
           \/ SendConfirm(r, v, qc, sent) /\ weight >= QuorumThreshold
           \/ msgs' = msgs \cup sent /\ UNCHANGED <<voteVars, confirm_makers>>
  <2> DEFINE Is(maker) == /\ maker.votes = votes
                          /\ maker.weight \in {0, weight}
  <2>1. /\ Is([counted EXCEPT !.weight = 0, !.completed_fast = TRUE])
        /\ Is([counted EXCEPT !.first = FALSE])
        /\ Is([counted EXCEPT !.weight = 0, !.sent_confirm = TRUE])
        /\ Is([counted EXCEPT !.weight = 0])
        /\ Is(counted)
    BY <1>1 DEF QCMakers
  <2> HIDE DEF Is, counted
  <2>2. \E maker : /\ Becomes(maker) /\ Is(maker)
                   /\ \/ fast_timers' = fast_timers
                      \/ fast_timers' = fast_timers \cup {v} /\ weight >= QuorumThreshold
                   /\ \/ /\ SendCommit(r, v, qc, sent) /\ UNCHANGED confirm_makers
                         /\ weight >= FastThreshold
                      \/ SendConfirm(r, v, qc, sent) /\ weight >= QuorumThreshold
                      \/ msgs' = msgs \cup sent /\ UNCHANGED <<voteVars, confirm_makers>>
    BY <2>1 DEF CountPrepareVote, counted
  <2> QED
    BY <2>2 DEF Is
<1> HIDE DEF votes, m, counted
<1>6. weight >= QuorumThreshold => IsQuorum(votes)
  BY <1>1, <1>2, QuorumBounds DEF IsQuorum
<1>7. PICK S : /\ msgs' = msgs \cup S /\ \A n \in S : n.type # "Prepare"
               /\ CertificatesJustified' /\ ConfirmVotesSigned'
  <2>1. CASE /\ SendCommit(r, v, qc, sent) /\ UNCHANGED confirm_makers
             /\ weight >= FastThreshold
    <3>1. votes = Replicas /\ IsQuorum(votes)
      BY <2>1, <1>1, <1>2, <1>6, FullSet, QuorumBounds, SizeIsNatural DEF FastThreshold
    <3>2. VerifyQC(qc, "Prepare", v) /\ qc.votes = Replicas
      BY <3>1 DEF VerifyQC
    <3>3. \A a \in qc.votes : SignedVote(qc.phase, v, a) \in msgs \cup sent
      BY <1>3 DEF SignedVote
    <3>4. PICK S : /\ msgs' = msgs \cup S /\ \A n \in S : n.type # "Prepare"
                   /\ CertificatesJustified'
      BY <2>1, <1>1, <1>4, <3>2, <3>3, SendCommitSafe
    <3>5. ConfirmVotesSigned'
      BY <2>1, <3>4 DEF SafetyInv, ConfirmVotesSigned
    <3> QED
      BY <3>4, <3>5
  <2>2. CASE SendConfirm(r, v, qc, sent) /\ weight >= QuorumThreshold
    <3>1. VerifyQC(qc, "Prepare", v)
      BY <2>2, <1>6 DEF VerifyQC
    <3> QED
      BY <2>2, <1>1, <1>3, <1>4, <3>1, SendConfirmSafe
  <2>3. CASE msgs' = msgs \cup sent /\ UNCHANGED <<voteVars, confirm_makers>>
    <3>1. \A n \in sent : n.type \notin {"Prepare", "Confirm", "Commit"}
      BY DEF Votes
    <3>2. CertificatesJustified'
      BY <2>3, <3>1, CertificatesStay DEF voteVars, SafetyInv
    <3>3. ConfirmVotesSigned'
      BY <2>3 DEF SafetyInv, ConfirmVotesSigned
    <3> QED
      BY <2>3, <3>1, <3>2, <3>3
  <2> QED
    BY <1>5, <2>1, <2>2, <2>3
<1>8. OnePrepare' /\ TCUsed'
  BY <1>7, NothingProposed DEF SafetyInv
<1>9. PrepareVotesSigned'
  <2>1. sent \subseteq msgs' /\ msgs \subseteq msgs'
    BY <1>5, <1>7 DEF SendCommit, SendConfirm
  <2>2. maker.weight <= Cardinality(maker.votes)
    BY <1>1, <1>2, <1>5
  <2>3. v \in fast_timers' => IsQuorum(maker.votes)
    <3>1. CASE v \in fast_timers
      <4>1. IsQuorum(m.votes) /\ m.votes \subseteq votes
        BY <3>1 DEF SafetyInv, PrepareVotesSigned, m, votes
      <4> QED
        BY <4>1, <1>2, <1>5, QuorumGrows
    <3>2. CASE v \notin fast_timers
      BY <3>2, <1>5, <1>6
    <3> QED
      BY <3>1, <3>2
  <2> QED
    BY <1>3, <1>5, <2>1, <2>2, <2>3, MakerCounts DEF SafetyInv
<1> QED
  BY <1>7, <1>8, <1>9
-----------------------------------------------------------------------------
(***************************************************************************)
(* Proposing: the view had no Prepare yet.                                 *)
(***************************************************************************)
LEMMA SendPrepareSafe ==
    ASSUME SafetyInv, NEW r \in Replicas, NEW v \in Views, NEW tc, NEW cut \in Cuts,
           NEW curr, NEW sent, \A m \in sent : m.type = "Timeout",
           consensus_instances[v] = None,
           SendPrepare(r, v, tc, cut, curr, sent), UNCHANGED committed_slots
    PROVE  /\ OnePrepare' /\ PrepareVotesSigned'
           /\ ConfirmVotesSigned' /\ CertificatesJustified'
           /\ \A p \in Sent("Prepare")' : p.view = v \/ p \in Sent("Prepare")
<1> PICK p : p = [type |-> "Prepare", view |-> v, tc |-> tc, cut |-> cut]
  OBVIOUS
<1> DEFINE own == [NewQCMaker EXCEPT !.votes = {r}, !.weight = 1]
<1>1. PICK S : /\ msgs' = msgs \cup S
               /\ p \in S /\ S \subseteq sent \cup {p, PrepareVote(r, v)}
               /\ \/ UNCHANGED qc_makers
                  \/ /\ PrepareVote(r, v) \in S
                     /\ qc_makers' = [qc_makers EXCEPT ![v] = own]
  <2>1. PICK T \in {sent \cup {p}, sent \cup {p, PrepareVote(r, v)}} :
            /\ msgs' = msgs \cup T
            /\ \/ UNCHANGED qc_makers
               \/ /\ PrepareVote(r, v) \in T
                  /\ qc_makers' = [qc_makers EXCEPT ![v] = own]
    <3>1. \/ msgs' = msgs \cup (sent \cup {p}) /\ UNCHANGED qc_makers
          \/ /\ msgs' = msgs \cup (sent \cup {p, PrepareVote(r, v)})
             /\ qc_makers' = [qc_makers EXCEPT ![v] = own]
      BY DEF SendPrepare
    <3> QED
      BY <3>1
  <2> QED
    BY <2>1
<1>2. /\ \A m \in S : m.type \notin {"Confirm", "Commit"}
      /\ \A m \in S : m.type = "Prepare" => m = p
  BY <1>1 DEF PrepareVote
<1>3. Sent("Prepare")' = Sent("Prepare") \cup {p}
  BY <1>1, <1>2 DEF Sent
<1>4. /\ consensus_instances \in [Views -> Cuts \cup {None}]
      /\ consensus_instances' = [consensus_instances EXCEPT ![v] = cut]
      /\ qc_makers \in [Views -> QCMakers]
      /\ UNCHANGED <<confirm_makers, fast_timers>>
      /\ v \notin fast_timers
      /\ \A q \in Sent("Prepare") : q.view \in Views /\ q.cut # None
  <2>1. /\ consensus_instances \in [Views -> Cuts \cup {None}]
        /\ qc_makers \in [Views -> QCMakers]
        /\ v \notin fast_timers
    BY DEF SafetyInv, TypeInv, TypeOK, Registered
  <2>2. \A q \in Sent("Prepare") : q \in Prepares
    BY MessageTypes DEF Sent, SafetyInv, TypeInv
  <2>3. \A q \in Sent("Prepare") : q.view \in Views /\ q.cut # None
    BY <2>2, NoneAssumption DEF Prepares
  <2> QED
    BY <2>1, <2>3 DEF SendPrepare
<1>5. OnePrepare'
  <2>1. \A q \in Sent("Prepare") : q.view # v
    BY <1>4 DEF SafetyInv, OnePrepare
  <2> QED
    BY <1>3, <1>4, <2>1, NoneAssumption DEF SafetyInv, OnePrepare
<1>6. PrepareVotesSigned'
  <2>1. CASE UNCHANGED qc_makers
    BY <1>1, <1>4, <2>1 DEF SafetyInv, PrepareVotesSigned
  <2>2. CASE PrepareVote(r, v) \in S /\ qc_makers' = [qc_makers EXCEPT ![v] = own]
    <3>1. own.votes = {r} /\ own.weight = 1
      BY DEF NewQCMaker
    <3> HIDE DEF own
    <3>2. Cardinality(own.votes) = 1
      BY <3>1, FS_Singleton, Zenon
    <3>3. \A a \in own.votes : PrepareVote(a, v) \in msgs'
      BY <1>1, <2>2, <3>1
    <3>4. own.weight <= Cardinality(own.votes)
      BY <3>1, <3>2
    <3>5. msgs \subseteq msgs' /\ v \notin fast_timers' /\ fast_timers' \subseteq fast_timers \cup {v}
      BY <1>1, <1>4
    <3> QED
      BY <2>2, <3>3, <3>4, <3>5, MakerCounts DEF SafetyInv
  <2> QED
    BY <1>1, <2>1, <2>2
<1>7. ConfirmVotesSigned'
  BY <1>1, <1>4 DEF SafetyInv, ConfirmVotesSigned
<1>8. CertificatesJustified'
  BY <1>1, <1>2, CertificatesStay DEF SafetyInv
<1> QED
  BY <1>3, <1>5, <1>6, <1>7, <1>8

LEMMA CountTimeoutSafe ==
    ASSUME SafetyInv, NEW r \in Replicas, NEW t \in Timeouts, t.view < MaxView,
           NEW sent, sent \subseteq {t}, CountTimeout(r, t, sent)
    PROVE  /\ OnePrepare' /\ TCUsed' /\ PrepareVotesSigned'
           /\ ConfirmVotesSigned' /\ CertificatesJustified'
<1> DEFINE made == Append(tc_makers[r][t.view], t)
           tc == [view |-> t.view, timeouts |-> made]
           next == t.view + 1
<1>1. t.view \in Views /\ next \in Views /\ next \in Nat
  BY SlotAssumption DEF Timeouts, Views
<1>2. /\ tc_makers \in [Replicas -> [Views -> Seq(Timeouts)]]
      /\ tc_makers' = [tc_makers EXCEPT ![r][t.view] = made]
      /\ Len(made) = Len(tc_makers[r][t.view]) + 1
      /\ Len(tc_makers[r][t.view]) \in Nat
      /\ UNCHANGED committed_slots
      /\ \A m \in sent : m.type = "Timeout"
  <2>1. tc_makers \in [Replicas -> [Views -> Seq(Timeouts)]]
    BY DEF SafetyInv, TypeInv, TypeOK
  <2>2. tc_makers[r][t.view] \in Seq(Timeouts)
    BY <1>1, <2>1
  <2>3. Len(made) = Len(tc_makers[r][t.view]) + 1 /\ Len(tc_makers[r][t.view]) \in Nat
    BY <2>2
  <2> QED
    BY <2>1, <2>3 DEF CountTimeout, Timeouts
<1> HIDE DEF made
<1>3. \A p \in Sent("Prepare") :
        p.view > 1 => Len(tc_makers'[Leader(Slot, p.view)][p.view - 1]) >= QuorumThreshold
  <2> SUFFICES ASSUME NEW p \in Sent("Prepare"), p.view > 1
               PROVE  Len(tc_makers'[Leader(Slot, p.view)][p.view - 1]) >= QuorumThreshold
    OBVIOUS
  <2>1. p.view \in Views /\ p.view - 1 \in Views
    BY MessageTypes, SlotAssumption DEF Sent, SafetyInv, TypeInv, Prepares, Views
  <2>2. Len(tc_makers[Leader(Slot, p.view)][p.view - 1]) >= QuorumThreshold
    BY DEF SafetyInv, TCUsed
  <2>3. Leader(Slot, p.view) \in Replicas
    BY <2>1, LeaderIsReplica, SlotAssumption DEF Views
  <2>4. CASE Leader(Slot, p.view) = r /\ p.view - 1 = t.view
    <3>1. tc_makers'[Leader(Slot, p.view)][p.view - 1] = made
      BY <1>1, <1>2, <2>4
    <3> QED
      BY <1>2, <2>2, <2>4, <3>1, QuorumBounds
  <2>5. CASE ~(Leader(Slot, p.view) = r /\ p.view - 1 = t.view)
    <3>1. tc_makers'[Leader(Slot, p.view)][p.view - 1]
            = tc_makers[Leader(Slot, p.view)][p.view - 1]
      BY <1>1, <1>2, <2>1, <2>3, <2>5
    <3> QED
      BY <2>2, <3>1
  <2> QED
    BY <2>4, <2>5
<1>4. CASE /\ Len(made) = QuorumThreshold /\ r = Leader(Slot, next)
           /\ generate_prepare_from_tc(r, tc, sent)
  <2>1. PICK cut \in Cuts : SendPrepare(r, next, tc, cut, next, sent)
    BY <1>4 DEF generate_prepare_from_tc
  <2>2. \A p \in Sent("Prepare") : p.view # next
    <3> SUFFICES ASSUME NEW p \in Sent("Prepare"), p.view = next PROVE FALSE
      OBVIOUS
    <3>1. p.view > 1 /\ p.view - 1 = t.view
      BY <1>1 DEF Views
    <3>2. Len(tc_makers[r][t.view]) >= QuorumThreshold
      BY <1>4, <3>1 DEF SafetyInv, TCUsed
    <3> QED
      BY <1>2, <1>4, <3>2, QuorumBounds
  <2>3. consensus_instances[next] = None
    BY <1>1, <2>2 DEF SafetyInv, OnePrepare
  <2>4. /\ OnePrepare' /\ PrepareVotesSigned'
        /\ ConfirmVotesSigned' /\ CertificatesJustified'
        /\ \A p \in Sent("Prepare")' : p.view = next \/ p \in Sent("Prepare")
    BY <1>1, <1>2, <2>1, <2>3, SendPrepareSafe
  <2>5. Len(tc_makers'[Leader(Slot, next)][next - 1]) >= QuorumThreshold
    <3>1. next - 1 = t.view
      BY <1>1 DEF Views
    <3>2. tc_makers'[r][t.view] = made
      BY <1>1, <1>2
    <3> QED
      BY <1>4, <3>1, <3>2, QuorumBounds
  <2> QED
    BY <1>3, <2>4, <2>5 DEF TCUsed
<1>5. CASE msgs' = msgs \cup sent /\ UNCHANGED leaderVars
  <2>1. Sent("Prepare")' = Sent("Prepare")
    BY <1>2, <1>5 DEF Sent
  <2>2. OnePrepare' /\ TCUsed'
    BY <1>3, <1>5, <2>1 DEF leaderVars, SafetyInv, OnePrepare, TCUsed
  <2>3. CertificatesJustified'
    BY <1>2, <1>5, CertificatesStay DEF SafetyInv
  <2>4. PrepareVotesSigned' /\ ConfirmVotesSigned'
    BY <1>5, MakersStay DEF leaderVars, SafetyInv
  <2> QED
    BY <2>2, <2>3, <2>4
<1> QED
  BY <1>4, <1>5 DEF CountTimeout, Leads, made
-----------------------------------------------------------------------------
(***************************************************************************)
(* Every handler keeps the invariant.                                      *)
(***************************************************************************)
SafeParts == /\ OnePrepare /\ TCUsed /\ PrepareVotesSigned
             /\ ConfirmVotesSigned /\ CertificatesJustified

\* A handler that touches no leader's state and signs only votes.
LEMMA OnlyVotesSafe ==
    ASSUME SafetyInv, msgs \subseteq msgs', msgs' \ msgs \subseteq Votes,
           UNCHANGED <<leaderVars, tc_makers>>,
           \A r \in Replicas : \/ committed_slots'[r] = committed_slots[r]
                               \/ committed_slots'[r] \in msgs
    PROVE  SafeParts'
<1> PICK S : S = msgs' \ msgs
  OBVIOUS
<1>1. msgs' = msgs \cup S /\ \A m \in S : m.type \notin {"Prepare", "Confirm", "Commit"}
  BY DEF Votes
<1>2. OnePrepare' /\ TCUsed'
  BY <1>1, NothingProposed DEF SafetyInv, leaderVars
<1>3. PrepareVotesSigned' /\ ConfirmVotesSigned'
  BY <1>1, MakersStay DEF SafetyInv, leaderVars
<1>4. CertificatesJustified'
  BY <1>1, CertificatesStay DEF SafetyInv
<1> QED
  BY <1>2, <1>3, <1>4 DEF SafeParts

LEMMA SafetyInvStep == ASSUME SafetyInv, [Next]_vars PROVE SafetyInv'
<1>1. TypeInv'
  BY TypeInvStep DEF SafetyInv
<1>2. ASSUME UNCHANGED vars PROVE SafeParts'
  BY <1>2, OnlyVotesSafe DEF vars, leaderVars
<1>3. ASSUME NEW r \in Replicas, StartTimer(r) PROVE SafeParts'
  BY <1>3, OnlyVotesSafe DEF StartTimer
<1>4. ASSUME NEW r \in Replicas, Propose(r) PROVE SafeParts'
  <2>1. 1 \in Views /\ 1 \in Cuts
    BY SlotAssumption DEF Views, Cuts
  <2>2. /\ OnePrepare' /\ PrepareVotesSigned'
        /\ ConfirmVotesSigned' /\ CertificatesJustified'
        /\ \A p \in Sent("Prepare")' : p.view = 1 \/ p \in Sent("Prepare")
    BY <1>4, <2>1, SendPrepareSafe DEF Propose
  <2>3. TCUsed'
    BY <1>4, <2>2 DEF Propose, SafetyInv, TCUsed
  <2> QED
    BY <2>2, <2>3 DEF SafeParts
<1>5. ASSUME NEW r \in Replicas, HandlePrepare(r) PROVE SafeParts'
  <2>1. PICK p \in msgs :
          /\ p.type = "Prepare"
          /\ msgs' = msgs \cup {PrepareVote(r, p.view)} \/ msgs' = msgs
          /\ UNCHANGED <<committed_slots, leaderVars, tc_makers>>
    BY <1>5 DEF HandlePrepare, replicaVars
  <2>2. {PrepareVote(r, p.view)} \subseteq Votes
    BY <2>1, MessageTypes DEF SafetyInv, TypeInv, Prepares, Votes, PrepareVote
  <2> QED
    BY <2>1, <2>2, OnlyVotesSafe
<1>6. ASSUME NEW r \in Replicas, Loopback(r) PROVE SafeParts'
  <2>1. PICK p \in waiting[r] :
          /\ UNCHANGED tc_makers
          /\ \/ UNCHANGED <<voteVars, leaderVars, msgs>>
             \/ /\ CountPrepareVote(r, p.view, r, {PrepareVote(r, p.view)})
                /\ UNCHANGED consensus_instances
             \/ /\ msgs' = msgs \cup {PrepareVote(r, p.view)}
                /\ UNCHANGED <<voteVars, leaderVars>>
    BY <1>6 DEF Loopback
  <2>2. p.view \in Views /\ {PrepareVote(r, p.view)} \subseteq Votes
    BY DEF SafetyInv, TypeInv, TypeOK, Prepares, Votes, PrepareVote
  <2>3. CASE UNCHANGED <<voteVars, leaderVars, msgs>>
    BY <2>1, <2>3, OnlyVotesSafe DEF voteVars
  <2>4. CASE /\ CountPrepareVote(r, p.view, r, {PrepareVote(r, p.view)})
             /\ UNCHANGED consensus_instances
    BY <2>1, <2>2, <2>4, CountPrepareVoteSafe DEF SafeParts
  <2>5. CASE /\ msgs' = msgs \cup {PrepareVote(r, p.view)}
             /\ UNCHANGED <<voteVars, leaderVars>>
    BY <2>1, <2>2, <2>5, OnlyVotesSafe DEF voteVars
  <2> QED
    BY <2>1, <2>3, <2>4, <2>5
<1>7. ASSUME NEW r \in Replicas, HandlePrepareVote(r) PROVE SafeParts'
  <2>1. PICK m \in msgs :
          /\ m.type = "PrepareVote"
          /\ CountPrepareVote(r, m.view, m.author, {})
          /\ UNCHANGED <<consensus_instances, tc_makers>>
    BY <1>7 DEF HandlePrepareVote
  <2>2. m \in Votes /\ m.view \in Views /\ m.author \in Replicas
    BY <2>1, MessageTypes DEF SafetyInv, TypeInv, Votes
  <2>3. m = PrepareVote(m.author, m.view)
    BY <2>1, <2>2 DEF Votes, PrepareVote
  <2> QED
    BY <2>1, <2>2, <2>3, CountPrepareVoteSafe DEF SafeParts
<1>8. ASSUME NEW r \in Replicas, FastTimerExpires(r) PROVE SafeParts'
  <2> DEFINE disabled(v) == [qc_makers[v] EXCEPT !.fast_path_disabled = TRUE]
             confirmed(v) == [disabled(v) EXCEPT !.sent_confirm = TRUE]
             Becomes(v, maker) == qc_makers' = [qc_makers EXCEPT ![v] = maker]
  <2>1. PICK v \in fast_timers :
          /\ fast_timers' = fast_timers \ {v}
          /\ \/ /\ Becomes(v, disabled(v))
                /\ UNCHANGED <<voteVars, confirm_makers, msgs>>
             \/ /\ Becomes(v, confirmed(v))
                /\ SendConfirm(r, v, [phase |-> "Prepare", view |-> v,
                                      votes |-> qc_makers[v].votes], {})
          /\ UNCHANGED <<consensus_instances, tc_makers>>
    BY <1>8 DEF FastTimerExpires
  <2> PICK qc : qc = [phase |-> "Prepare", view |-> v, votes |-> qc_makers[v].votes]
    OBVIOUS
  <2>2. /\ v \in Views /\ qc_makers[v] \in QCMakers /\ consensus_instances[v] # None
        /\ qc \in QCs
    BY DEF SafetyInv, TypeInv, TypeOK, Registered, QCMakers, QCs
  <2>3. /\ VerifyQC(qc, "Prepare", v)
        /\ \A a \in qc.votes : PrepareVote(a, v) \in msgs
        /\ qc_makers[v].weight <= Cardinality(qc.votes)
    BY <2>2 DEF SafetyInv, PrepareVotesSigned, VerifyQC
  <2>4. PICK maker : /\ Becomes(v, maker)
                     /\ maker.votes = qc.votes /\ maker.weight = qc_makers[v].weight
    <3>1. /\ disabled(v).votes = qc.votes /\ disabled(v).weight = qc_makers[v].weight
          /\ confirmed(v).votes = qc.votes /\ confirmed(v).weight = qc_makers[v].weight
      BY <2>2 DEF QCMakers
    <3> HIDE DEF disabled, confirmed
    <3>2. Becomes(v, disabled(v)) \/ Becomes(v, confirmed(v))
      BY <2>1
    <3> QED
      BY <3>1, <3>2
  <2>5. PICK S : /\ msgs' = msgs \cup S /\ \A n \in S : n.type # "Prepare"
                 /\ CertificatesJustified' /\ ConfirmVotesSigned'
    <3>1. CASE UNCHANGED <<voteVars, confirm_makers, msgs>>
      <4>1. CertificatesJustified'
        BY <3>1 DEF voteVars, SafetyInv, CertificatesJustified, Backed, VotedBy, ProposedCut, Sent
      <4>2. ConfirmVotesSigned'
        BY <3>1 DEF SafetyInv, ConfirmVotesSigned
      <4> PICK S : S = {}
        OBVIOUS
      <4>3. msgs' = msgs \cup S /\ \A n \in S : n.type # "Prepare"
        BY <3>1
      <4> QED
        BY <4>1, <4>2, <4>3
    <3>2. CASE SendConfirm(r, v, [phase |-> "Prepare", view |-> v,
                                  votes |-> qc_makers[v].votes], {})
      <4>1. SendConfirm(r, v, qc, {})
        BY <3>2
      <4> QED
        BY <4>1, <2>2, <2>3, SendConfirmSafe
    <3> QED
      BY <2>1, <3>1, <3>2
  <2>6. PrepareVotesSigned'
    <3>1. IsQuorum(maker.votes) /\ msgs \subseteq msgs'
      BY <2>3, <2>4, <2>5 DEF VerifyQC
    <3>2. maker.weight <= Cardinality(maker.votes)
      BY <2>3, <2>4
    <3>3. \A a \in maker.votes : PrepareVote(a, v) \in msgs'
      BY <2>3, <2>4, <3>1
    <3> QED
      BY <2>1, <2>2, <2>4, <3>1, <3>2, <3>3, MakerCounts DEF SafetyInv
  <2> QED
    BY <2>1, <2>5, <2>6, NothingProposed DEF SafetyInv, SafeParts
<1>9. ASSUME NEW r \in Replicas, HandleConfirm(r) PROVE SafeParts'
  <2>1. PICK c \in msgs :
          /\ c.type = "Confirm"
          /\ msgs' = msgs \cup {ConfirmVote(r, c.view)}
          /\ UNCHANGED <<committed_slots, leaderVars, tc_makers>>
    BY <1>9 DEF HandleConfirm
  <2>2. {ConfirmVote(r, c.view)} \subseteq Votes
    BY <2>1, MessageTypes DEF SafetyInv, TypeInv, Confirms, Votes, ConfirmVote
  <2> QED
    BY <2>1, <2>2, OnlyVotesSafe
<1>10. ASSUME NEW r \in Replicas, HandleConfirmVote(r) PROVE SafeParts'
  <2> DEFINE votes(m) == confirm_makers[m.view].votes \cup {m.author}
             weight(m) == confirm_makers[m.view].weight + 1
  <2>1. PICK m, w :
          /\ m \in msgs
          /\ m.type = "ConfirmVote"
          /\ m.author \notin confirm_makers[m.view].votes
          /\ qc_makers[m.view].sent_confirm
          /\ confirm_makers' = [confirm_makers EXCEPT ![m.view] =
                                  [votes |-> votes(m), weight |-> w]]
          /\ w \in {0, weight(m)}
          /\ \/ /\ weight(m) >= QuorumThreshold
                /\ SendCommit(r, m.view, [phase |-> "Confirm", view |-> m.view,
                                          votes |-> votes(m)], {})
             \/ UNCHANGED <<voteVars, msgs>>
          /\ UNCHANGED <<consensus_instances, qc_makers, fast_timers, tc_makers>>
    BY <1>10 DEF HandleConfirmVote, Counts
  <2>2. m.view \in Views /\ m.author \in Replicas
    BY <2>1, MessageTypes DEF SafetyInv, TypeInv, Votes
  <2> PICK qc : qc = [phase |-> "Confirm", view |-> m.view, votes |-> votes(m)]
    OBVIOUS
  <2>3. /\ votes(m) \subseteq Replicas /\ weight(m) \in Nat
        /\ weight(m) <= Cardinality(votes(m)) /\ Cardinality(votes(m)) \in Nat
    <3>1. /\ confirm_makers[m.view].votes \subseteq Replicas
          /\ confirm_makers[m.view].weight \in Nat
          /\ confirm_makers[m.view].weight <= Cardinality(confirm_makers[m.view].votes)
      BY <2>2 DEF SafetyInv, TypeInv, TypeOK, ConfirmMakers, ConfirmVotesSigned
    <3> QED
      BY <2>1, <2>2, <3>1, OneMoreVote
  <2>4. \A a \in votes(m) : ConfirmVote(a, m.view) \in msgs
    <3>1. m = ConfirmVote(m.author, m.view)
      BY <2>1, MessageTypes DEF SafetyInv, TypeInv, Votes, ConfirmVote
    <3> QED
      BY <2>1, <2>2, <3>1 DEF SafetyInv, ConfirmVotesSigned
  <2>5. qc \in QCs /\ consensus_instances[m.view] # None
    BY <2>1, <2>2, <2>3 DEF QCs, SafetyInv, TypeInv, Registered
  <2>6. PICK S : /\ msgs' = msgs \cup S /\ \A n \in S : n.type # "Prepare"
                 /\ CertificatesJustified'
    <3>1. CASE /\ weight(m) >= QuorumThreshold
               /\ SendCommit(r, m.view, [phase |-> "Confirm", view |-> m.view,
                                         votes |-> votes(m)], {})
      <4>1. IsQuorum(votes(m))
        BY <3>1, <2>3, QuorumBounds DEF IsQuorum
      <4>2. VerifyQC(qc, "Confirm", m.view) /\ SendCommit(r, m.view, qc, {})
        BY <3>1, <4>1 DEF VerifyQC
      <4>3. \A a \in qc.votes : SignedVote(qc.phase, m.view, a) \in msgs \cup {}
        BY <2>4 DEF SignedVote
      <4> QED
        BY <4>2, <4>3, <2>2, <2>5, SendCommitSafe DEF VerifyQC
    <3>2. CASE UNCHANGED <<voteVars, msgs>>
      <4>1. CertificatesJustified'
        BY <3>2 DEF voteVars, SafetyInv, CertificatesJustified, Backed, VotedBy, ProposedCut, Sent
      <4> PICK S : S = {}
        OBVIOUS
      <4>2. msgs' = msgs \cup S /\ \A n \in S : n.type # "Prepare"
        BY <3>2
      <4> QED
        BY <4>1, <4>2
    <3> QED
      BY <2>1, <3>1, <3>2
  <2>7. ConfirmVotesSigned'
    <3> SUFFICES ASSUME NEW v \in Views
                 PROVE  /\ \A a \in confirm_makers'[v].votes : ConfirmVote(a, v) \in msgs'
                        /\ confirm_makers'[v].weight <= Cardinality(confirm_makers'[v].votes)
      BY DEF ConfirmVotesSigned
    <3>1. CASE v = m.view
      <4>1. confirm_makers'[v].votes = votes(m) /\ confirm_makers'[v].weight = w
        BY <2>1, <3>1 DEF SafetyInv, TypeInv, TypeOK
      <4> HIDE DEF votes, weight
      <4> QED
        BY <2>1, <2>3, <2>4, <2>6, <3>1, <4>1
    <3>2. CASE v # m.view
      <4>1. confirm_makers'[v] = confirm_makers[v]
        BY <2>1, <3>2 DEF SafetyInv, TypeInv, TypeOK
      <4> QED
        BY <2>6, <4>1 DEF SafetyInv, ConfirmVotesSigned
    <3> QED
      BY <3>1, <3>2
  <2>8. PrepareVotesSigned'
    BY <2>1, <2>6 DEF SafetyInv, PrepareVotesSigned
  <2> QED
    BY <2>1, <2>6, <2>7, <2>8, NothingProposed DEF SafetyInv, SafeParts
<1>11. ASSUME NEW r \in Replicas, HandleCommit(r) PROVE SafeParts'
  <2>1. PICK c \in msgs : /\ committed_slots' = [committed_slots EXCEPT ![r] = c]
                          /\ UNCHANGED <<leaderVars, tc_makers, msgs>>
    BY <1>11 DEF HandleCommit, Commit
  <2>2. \A s \in Replicas : \/ committed_slots'[s] = committed_slots[s]
                            \/ committed_slots'[s] \in msgs
    BY <2>1 DEF SafetyInv, TypeInv, TypeOK
  <2> QED
    BY <2>1, <2>2, OnlyVotesSafe
<1>12. ASSUME NEW r \in Replicas, LocalTimeout(r) PROVE SafeParts'
  <2> DEFINE t(v) == [type |-> "Timeout", view |-> v, author |-> r,
                      high_qc |-> high_qcs[r], high_prop |-> high_proposals[r]]
  <2>1. PICK v \in timer_futures[r] : /\ <<r, v>> \in Expiring
                                      /\ CountTimeout(r, t(v), {t(v)})
    BY <1>12 DEF LocalTimeout
  <2>2. v \in Views /\ v < MaxView
    BY <2>1, ExpiringAssumption DEF SafetyInv, TypeInv, TypeOK
  <2>3. t(v) \in Timeouts /\ t(v).view < MaxView
    BY <2>2 DEF SafetyInv, TypeInv, TypeOK, Timeouts
  <2> HIDE DEF t
  <2> QED
    BY <2>1, <2>3, CountTimeoutSafe DEF SafeParts
<1>13. ASSUME NEW r \in Replicas, HandleTimeout(r) PROVE SafeParts'
  <2>1. PICK t \in msgs : t.type = "Timeout" /\ CountTimeout(r, t, {})
    BY <1>13 DEF HandleTimeout
  <2>2. t \in Timeouts /\ t.view < MaxView
    BY <2>1, MessageTypes DEF SafetyInv, TypeInv, TimeoutsBelowMaxView
  <2> QED
    BY <2>1, <2>2, CountTimeoutSafe DEF SafeParts
<1>14. ASSUME NEW r \in Replicas, UpdateFastPath(r) PROVE SafeParts'
  BY <1>14, OnlyVotesSafe DEF UpdateFastPath, voteVars
<1>15. SafeParts'
  BY <1>2, <1>3, <1>4, <1>5, <1>6, <1>7, <1>8, <1>9, <1>10, <1>11, <1>12, <1>13, <1>14
     DEF Next
<1> QED
  BY <1>1, <1>15 DEF SafetyInv, SafeParts

LEMMA SafetyInvAlways == Spec => []SafetyInv
<1>1. Init => SafetyInv
  BY InitSafetyInv
<1>2. SafetyInv /\ [Next]_vars => SafetyInv'
  BY SafetyInvStep
<1> QED
  BY <1>1, <1>2, PTL DEF Spec

(***************************************************************************)
(* Every Confirm and Commit is backed by a quorum of signed votes for the  *)
(* one cut its leader proposed, whatever the network does.                 *)
(***************************************************************************)
THEOREM Justified == Spec => []CertificatesJustified
<1>1. SafetyInv => CertificatesJustified
  BY DEF SafetyInv
<1> QED
  BY <1>1, SafetyInvAlways, PTL

(***************************************************************************)
(* No view has two Prepares, and replicas that commit a slot in the same   *)
(* view commit the same cut.                                               *)
(***************************************************************************)
THEOREM AgreementInAView == Spec => []OneCutPerView
<1>1. SafetyInv => OneCutPerView
  <2> SUFFICES ASSUME SafetyInv PROVE OneCutPerView
    OBVIOUS
  <2>1. \A p, q \in Sent("Prepare") : p.view = q.view => p = q
    BY DEF SafetyInv, OnePrepare
  <2>2. ASSUME NEW r \in Replicas, committed_slots[r] # None
        PROVE  ProposedCut(committed_slots[r])
    <3>1. committed_slots[r] \in Sent("Commit")
      BY <2>2 DEF SafetyInv, CertificatesJustified, TypeInv, TypeOK, Sent, Commits
    <3> QED
      BY <3>1 DEF SafetyInv, CertificatesJustified, Backed
  <2> QED
    BY <2>1, <2>2 DEF ProposedCut, OneCutPerView
<1> QED
  BY <1>1, SafetyInvAlways, PTL
-----------------------------------------------------------------------------
(***************************************************************************)
(* The path of a view.  A QCMaker that has sent its Confirm has not        *)
(* completed the fast path, and cannot any more: it is off, or the weight  *)
(* it has started anew lacks a quorum of the votes, which count once.      *)
(***************************************************************************)
PathDecided(m) ==
    m.sent_confirm =>
        /\ ~m.completed_fast
        /\ \/ m.fast_path_disabled
           \/ m.weight + QuorumThreshold <= Cardinality(m.votes)

OnePathInv ==
    /\ \A d \in Sent("Confirm") : qc_makers[d.view].sent_confirm
    /\ \A c \in Sent("Commit") :
          c.qc.phase = "Prepare" => qc_makers[c.view].completed_fast
    /\ \A v \in Views : PathDecided(qc_makers[v])

\* Only the QCMaker of view v changes, and certificates are sent for that view alone.
LEMMA PathKept ==
    ASSUME SafetyInv, OnePathInv, NEW v \in Views,
           \A w \in Views : w # v => qc_makers'[w] = qc_makers[w],
           PathDecided(qc_makers'[v]),
           qc_makers[v].sent_confirm => qc_makers'[v].sent_confirm,
           qc_makers[v].completed_fast => qc_makers'[v].completed_fast,
           \A c \in msgs' \ msgs :
              /\ c.type = "Confirm" => c.view = v /\ qc_makers'[v].sent_confirm
              /\ c.type = "Commit" /\ c.qc.phase = "Prepare"
                    => c.view = v /\ qc_makers'[v].completed_fast
    PROVE  OnePathInv'
<1>1. \A w \in Views :
        /\ qc_makers[w].sent_confirm => qc_makers'[w].sent_confirm
        /\ qc_makers[w].completed_fast => qc_makers'[w].completed_fast
  OBVIOUS
<1>2. \A c \in Sent("Confirm") \cup Sent("Commit") : c.view \in Views
  BY MessageTypes DEF Sent, SafetyInv, TypeInv, Confirms, Commits
<1>3. \A d \in Sent("Confirm")' : qc_makers'[d.view].sent_confirm
  BY <1>1, <1>2 DEF Sent, OnePathInv
<1>4. \A c \in Sent("Commit")' :
         c.qc.phase = "Prepare" => qc_makers'[c.view].completed_fast
  BY <1>1, <1>2 DEF Sent, OnePathInv
<1>5. \A w \in Views : PathDecided(qc_makers'[w])
  BY DEF OnePathInv, PathDecided
<1> QED
  BY <1>3, <1>4, <1>5 DEF OnePathInv, PathDecided

LEMMA CountPrepareVotePath ==
    ASSUME SafetyInv, OnePathInv, NEW r \in Replicas, NEW v \in Views,
           NEW author \in Replicas, NEW sent, sent \subseteq Votes,
           CountPrepareVote(r, v, author, sent)
    PROVE  OnePathInv'
<1> DEFINE m == qc_makers[v]
           weight == m.weight + 1
           votes == m.votes \cup {author}
           counted == [m EXCEPT !.votes = votes, !.weight = weight]
           Becomes(maker) == qc_makers' = [qc_makers EXCEPT ![v] = maker]
           Sends(S) == msgs' = msgs \cup S
<1>1. /\ m \in QCMakers /\ m.votes \subseteq Replicas /\ m.weight \in Nat
      /\ author \notin m.votes /\ m.weight <= Cardinality(m.votes)
  BY DEF CountPrepareVote, Counts, SafetyInv, TypeInv, TypeOK, QCMakers, PrepareVotesSigned
<1>2. /\ votes \subseteq Replicas /\ Cardinality(m.votes) \in Nat
      /\ Cardinality(votes) = Cardinality(m.votes) + 1
      /\ Cardinality(votes) <= Size
  BY <1>1, OneMoreVote, SubsetsFinite
<1>3. PathDecided(m)
  BY DEF OnePathInv, PathDecided
<1>4. \A n \in sent : n.type \notin {"Prepare", "Confirm", "Commit"}
  BY DEF Votes
<1>5. /\ counted \in QCMakers
      /\ counted.votes = votes /\ counted.weight = weight
      /\ counted.sent_confirm = m.sent_confirm
      /\ counted.completed_fast = m.completed_fast
      /\ counted.fast_path_disabled = m.fast_path_disabled
  <2> PICK mm : mm = m
    OBVIOUS
  <2> HIDE DEF m
  <2>1. mm \in QCMakers /\ votes \in SUBSET Replicas /\ weight \in Nat
    BY <1>1, <1>2
  <2> HIDE DEF votes, weight
  <2>2. counted = [mm EXCEPT !.votes = votes, !.weight = weight]
    OBVIOUS
  <2> QED
    BY <2>1, <2>2 DEF QCMakers
<1>6. QuorumThreshold \in Nat /\ QuorumThreshold >= 2 /\ FastThreshold = Size /\ Size \in Nat
  BY QuorumBounds, SizeIsNatural DEF FastThreshold
<1>7. \A n \in Nat : n >= QuorumThreshold /\ n = weight => n <= Cardinality(votes)
  BY <1>1, <1>2
<1>11. \A maker : Becomes(maker) => /\ qc_makers'[v] = maker
                                    /\ \A w \in Views : w # v => qc_makers'[w] = qc_makers[w]
  BY DEF SafetyInv, TypeInv, TypeOK
<1> PICK mk : mk = counted
  OBVIOUS
<1> HIDE DEF votes
<1>8. CASE /\ r \in use_fast_path /\ ~m.fast_path_disabled /\ weight >= FastThreshold
           /\ Becomes([mk EXCEPT !.weight = 0, !.completed_fast = TRUE])
           /\ \E qc : SendCommit(r, v, qc, sent)
  <2>1. ~m.sent_confirm
    BY <1>1, <1>2, <1>3, <1>6, <1>8 DEF PathDecided
  <2> PICK maker : maker = [mk EXCEPT !.weight = 0, !.completed_fast = TRUE]
    OBVIOUS
  <2>2. maker.completed_fast /\ ~maker.sent_confirm /\ PathDecided(maker)
    BY <1>5, <2>1 DEF QCMakers, PathDecided
  <2>3. PICK c : c.type = "Commit" /\ c.view = v /\ msgs' = msgs \cup (sent \cup {c})
    <3>1. PICK qc : SendCommit(r, v, qc, sent)
      BY <1>8
    <3> PICK c : c = [type |-> "Commit", view |-> v, qc |-> qc, cut |-> consensus_instances[v]]
      OBVIOUS
    <3> QED
      BY <3>1 DEF SendCommit
  <2>4. \A n \in msgs' \ msgs : n.type # "Confirm" /\ (n.type = "Commit" => n.view = v)
    BY <1>4, <2>3
  <2>5. qc_makers'[v] = maker /\ \A w \in Views : w # v => qc_makers'[w] = qc_makers[w]
    BY <1>8, <1>11
  <2>6. /\ PathDecided(qc_makers'[v]) /\ qc_makers'[v].completed_fast
        /\ ~m.sent_confirm
    BY <2>1, <2>2, <2>5
  <2> HIDE DEF Becomes, Sends, counted
  <2> QED
    BY <2>4, <2>5, <2>6, PathKept
<1>9. CASE /\ Becomes([mk EXCEPT !.weight = 0, !.sent_confirm = TRUE])
           /\ weight >= QuorumThreshold /\ SlowQCReady(m)
           /\ \E qc : SendConfirm(r, v, qc, sent)
  <2> PICK maker : maker = [mk EXCEPT !.weight = 0, !.sent_confirm = TRUE]
    OBVIOUS
  <2>1. maker.sent_confirm /\ ~maker.completed_fast /\ PathDecided(maker)
    <3>1. /\ maker.sent_confirm /\ ~maker.completed_fast /\ maker.weight = 0
          /\ maker.votes = votes
      BY <1>5, <1>9 DEF QCMakers, SlowQCReady
    <3>2. QuorumThreshold <= Cardinality(votes)
      BY <1>1, <1>2, <1>6, <1>9
    <3> QED
      BY <3>1, <3>2, <1>6 DEF PathDecided
  <2>2. ~m.completed_fast
    BY <1>9 DEF SlowQCReady
  <2>3. PICK S : /\ msgs' = msgs \cup S
                 /\ \A n \in S : n.type # "Commit"
                 /\ \A n \in S : n.type = "Confirm" => n.view = v
    <3>1. PICK qc : SendConfirm(r, v, qc, sent)
      BY <1>9
    <3> PICK c : c = [type |-> "Confirm", view |-> v, qc |-> qc, cut |-> consensus_instances[v]]
      OBVIOUS
    <3>2. PICK S \in {sent \cup {c}, sent \cup {c, ConfirmVote(r, v)}} : msgs' = msgs \cup S
      <4>1. \/ msgs' = msgs \cup (sent \cup {c})
            \/ msgs' = msgs \cup (sent \cup {c, ConfirmVote(r, v)})
        BY <3>1 DEF SendConfirm
      <4> QED
        BY <4>1
    <3>3. ConfirmVote(r, v).type \notin {"Commit", "Confirm"}
      BY DEF ConfirmVote
    <3>4. \A n \in sent : n.type \notin {"Commit", "Confirm"}
      BY <1>4
    <3>5. c.type = "Confirm" /\ c.view = v
      OBVIOUS
    <3>6. \A n \in S : n \in sent \/ n = c \/ n = ConfirmVote(r, v)
      BY <3>2
    <3> QED
      BY <3>2, <3>3, <3>4, <3>5, <3>6
  <2> QED
    <3>1. qc_makers'[v] = maker /\ \A w \in Views : w # v => qc_makers'[w] = qc_makers[w]
      BY <1>9, <1>11
    <3>2. PathDecided(qc_makers'[v]) /\ qc_makers'[v].sent_confirm
      BY <2>1, <3>1
    <3>3. \A n \in msgs' \ msgs : n.type # "Commit" /\ (n.type = "Confirm" => n.view = v)
      BY <2>3
    <3> HIDE DEF Becomes, Sends, counted
    <3> QED
      BY <2>2, <3>1, <3>2, <3>3, PathKept
<1>10. CASE /\ \/ Becomes([mk EXCEPT !.first = FALSE])
               \/ Becomes([mk EXCEPT !.weight = 0])
               \/ Becomes(mk)
            /\ msgs' = msgs \cup sent
  <2>a. PICK maker :
        /\ Becomes(maker)
        /\ \/ maker = [mk EXCEPT !.first = FALSE]
           \/ maker = [mk EXCEPT !.weight = 0]
           \/ maker = mk
    BY <1>10
  <2>b. mk \in QCMakers
    BY <1>5
  <2>c. /\ maker.weight \in {0, mk.weight} /\ maker.votes = mk.votes
        /\ maker.sent_confirm = mk.sent_confirm
        /\ maker.completed_fast = mk.completed_fast
        /\ maker.fast_path_disabled = mk.fast_path_disabled
    <3> HIDE DEF Becomes, Sends, counted
    <3> QED
      BY <2>a, <2>b DEF QCMakers
  <2>d. /\ maker.weight \in {0, weight} /\ maker.votes = votes
        /\ maker.sent_confirm = m.sent_confirm
        /\ maker.completed_fast = m.completed_fast
        /\ maker.fast_path_disabled = m.fast_path_disabled
    BY <1>5, <2>c
  <2>1. PathDecided(maker)
    BY <1>1, <1>2, <1>3, <1>6, <2>d DEF PathDecided
  <2>2. \A n \in msgs' \ msgs : n.type # "Confirm" /\ n.type # "Commit"
    BY <1>4, <1>10
  <2>3. qc_makers'[v] = maker /\ \A w \in Views : w # v => qc_makers'[w] = qc_makers[w]
    BY <2>a, <1>11
  <2> QED
    BY <2>1, <2>2, <2>3, <2>d, PathKept
<1> QED
  BY <1>8, <1>9, <1>10 DEF CountPrepareVote, counted, votes

\* No QCMaker changes, and no certificate of the fast path or Confirm is sent.
LEMMA PathStays ==
    ASSUME SafetyInv, OnePathInv, UNCHANGED qc_makers,
           \A c \in msgs' \ msgs :
              /\ c.type # "Confirm"
              /\ c.type = "Commit" => c.qc.phase # "Prepare"
    PROVE  OnePathInv'
<1>1. 1 \in Views /\ PathDecided(qc_makers'[1])
  BY SlotAssumption DEF Views, OnePathInv, PathDecided
<1> QED
  BY <1>1, PathKept

LEMMA SendPreparePath ==
    ASSUME SafetyInv, OnePathInv, NEW r \in Replicas, NEW v \in Views, NEW tc, NEW cut,
           NEW curr, NEW sent, \A m \in sent : m.type = "Timeout",
           consensus_instances[v] = None,
           SendPrepare(r, v, tc, cut, curr, sent)
    PROVE  OnePathInv'
<1> DEFINE own == [NewQCMaker EXCEPT !.votes = {r}, !.weight = 1]
<1> PICK p : p = [type |-> "Prepare", view |-> v, tc |-> tc, cut |-> cut]
  OBVIOUS
<1>1. /\ \/ msgs' = msgs \cup (sent \cup {p})
         \/ msgs' = msgs \cup (sent \cup {p, PrepareVote(r, v)})
      /\ UNCHANGED qc_makers \/ qc_makers' = [qc_makers EXCEPT ![v] = own]
  BY DEF SendPrepare
<1>2. \A c \in msgs' \ msgs : c.type # "Confirm" /\ c.type # "Commit"
  BY <1>1 DEF PrepareVote
<1>3. CASE qc_makers' = [qc_makers EXCEPT ![v] = own]
  <2>1. ~own.sent_confirm
    BY DEF NewQCMaker
  <2>2. qc_makers'[v] = own /\ \A w \in Views : w # v => qc_makers'[w] = qc_makers[w]
    BY <1>3 DEF SafetyInv, TypeInv, TypeOK
  <2> HIDE DEF own
  <2>3. \A c \in Sent("Confirm") \cup Sent("Commit") : c.view \in Views
    BY MessageTypes DEF Sent, SafetyInv, TypeInv, Confirms, Commits
  <2>4. \A c \in Sent("Confirm") \cup Sent("Commit") : c.view # v
    <3>1. \A c \in Sent("Confirm") \cup Sent("Commit") : ProposedCut(c)
      BY DEF SafetyInv, CertificatesJustified, Backed
    <3>2. \A q \in Sent("Prepare") : q.view # v
      <4>1. \A q \in Sent("Prepare") : q.cut # None
        BY MessageTypes, NoneAssumption DEF Sent, SafetyInv, TypeInv, Prepares
      <4> QED
        BY <4>1 DEF SafetyInv, OnePrepare
    <3> QED
      BY <3>1, <3>2 DEF ProposedCut
  <2>5. \A d \in Sent("Confirm")' : qc_makers'[d.view].sent_confirm
    BY <1>2, <2>2, <2>3, <2>4 DEF OnePathInv, Sent
  <2>6. \A c \in Sent("Commit")' :
           c.qc.phase = "Prepare" => qc_makers'[c.view].completed_fast
    BY <1>2, <2>2, <2>3, <2>4 DEF OnePathInv, Sent
  <2>7. \A w \in Views : PathDecided(qc_makers'[w])
    BY <2>1, <2>2 DEF OnePathInv, PathDecided
  <2> QED
    BY <2>5, <2>6, <2>7 DEF OnePathInv, PathDecided
<1> QED
  BY <1>1, <1>2, <1>3, PathStays

\* The TCMaker of a view that lacks the last Timeout of a quorum: no Prepare has
\* been made from it.
LEMMA TCFresh ==
    ASSUME SafetyInv, NEW r \in Replicas, NEW v \in Views, v + 1 \in Views,
           r = Leader(Slot, v + 1), NEW t,
           Len(Append(tc_makers[r][v], t)) = QuorumThreshold
    PROVE  consensus_instances[v + 1] = None
<1>1. tc_makers[r][v] \in Seq(Timeouts)
  BY DEF SafetyInv, TypeInv, TypeOK
<1>2. Len(tc_makers[r][v]) < QuorumThreshold
  BY <1>1, QuorumBounds
<1>3. \A p \in Sent("Prepare") : p.view # v + 1
  <2> SUFFICES ASSUME NEW p \in Sent("Prepare"), p.view = v + 1 PROVE FALSE
    OBVIOUS
  <2>1. p.view > 1 /\ p.view - 1 = v
    BY DEF Views
  <2>2. Len(tc_makers[r][v]) >= QuorumThreshold
    BY <2>1 DEF SafetyInv, TCUsed
  <2> QED
    BY <1>1, <1>2, <2>2, QuorumBounds
<1> QED
  BY <1>3 DEF SafetyInv, OnePrepare

LEMMA CountTimeoutPath ==
    ASSUME SafetyInv, OnePathInv, NEW r \in Replicas, NEW t \in Timeouts, t.view < MaxView,
           NEW sent, sent \subseteq {t}, CountTimeout(r, t, sent)
    PROVE  OnePathInv'
<1> DEFINE made == Append(tc_makers[r][t.view], t)
           tc == [view |-> t.view, timeouts |-> made]
           next == t.view + 1
<1>1. t.view \in Views /\ next \in Views
  BY SlotAssumption DEF Timeouts, Views
<1>2. \A m \in sent : m.type = "Timeout"
  BY DEF Timeouts
<1>3. CASE r = Leader(Slot, next) /\ Len(made) = QuorumThreshold
           /\ generate_prepare_from_tc(r, tc, sent)
  <2>1. PICK cut \in Cuts : SendPrepare(r, next, tc, cut, next, sent)
    BY <1>3 DEF generate_prepare_from_tc
  <2>2. consensus_instances[next] = None
    BY <1>1, <1>3, TCFresh
  <2> QED
    BY <1>1, <1>2, <2>1, <2>2, SendPreparePath
<1>4. CASE msgs' = msgs \cup sent /\ UNCHANGED leaderVars
  BY <1>2, <1>4, PathStays DEF leaderVars
<1> QED
  BY <1>3, <1>4 DEF CountTimeout, Leads

LEMMA OnePathInvStep == ASSUME SafetyInv, OnePathInv, [Next]_vars PROVE OnePathInv'
<1>1. CASE UNCHANGED vars
  BY <1>1, PathStays DEF vars
<1>2. ASSUME NEW r \in Replicas, StartTimer(r) PROVE OnePathInv'
  BY <1>2, PathStays DEF StartTimer, leaderVars
<1>3. ASSUME NEW r \in Replicas, Propose(r) PROVE OnePathInv'
  <2>1. 1 \in Views
    BY SlotAssumption DEF Views
  <2> QED
    BY <1>3, <2>1, SendPreparePath DEF Propose
<1>4. ASSUME NEW r \in Replicas, HandlePrepare(r) PROVE OnePathInv'
  <2>1. PICK p \in msgs : /\ \/ msgs' = msgs \cup {PrepareVote(r, p.view)}
                             \/ msgs' = msgs
                          /\ UNCHANGED qc_makers
    BY <1>4 DEF HandlePrepare, leaderVars
  <2> QED
    BY <2>1, PathStays DEF PrepareVote
<1>5. ASSUME NEW r \in Replicas, Loopback(r) PROVE OnePathInv'
  <2>1. PICK p \in waiting[r] :
          \/ UNCHANGED <<qc_makers, msgs>>
          \/ CountPrepareVote(r, p.view, r, {PrepareVote(r, p.view)})
          \/ /\ msgs' = msgs \cup {PrepareVote(r, p.view)}
             /\ UNCHANGED qc_makers
    BY <1>5 DEF Loopback, leaderVars
  <2>2. p.view \in Views /\ {PrepareVote(r, p.view)} \subseteq Votes
    BY DEF SafetyInv, TypeInv, TypeOK, Prepares, Votes, PrepareVote
  <2>3. CASE CountPrepareVote(r, p.view, r, {PrepareVote(r, p.view)})
    BY <2>2, <2>3, CountPrepareVotePath
  <2>4. CASE UNCHANGED qc_makers /\ (msgs' = msgs \cup {PrepareVote(r, p.view)} \/ UNCHANGED msgs)
    BY <2>4, PathStays DEF PrepareVote
  <2> QED
    BY <2>1, <2>3, <2>4
<1>6. ASSUME NEW r \in Replicas, HandlePrepareVote(r) PROVE OnePathInv'
  <2>1. PICK m \in msgs : m.type = "PrepareVote" /\ CountPrepareVote(r, m.view, m.author, {})
    BY <1>6 DEF HandlePrepareVote
  <2>2. m.view \in Views /\ m.author \in Replicas
    BY <2>1, MessageTypes DEF SafetyInv, TypeInv, Votes
  <2> QED
    BY <2>1, <2>2, CountPrepareVotePath
<1>7. ASSUME NEW r \in Replicas, FastTimerExpires(r) PROVE OnePathInv'
  <2> DEFINE disabled(v) == [qc_makers[v] EXCEPT !.fast_path_disabled = TRUE]
             confirmed(v) == [disabled(v) EXCEPT !.sent_confirm = TRUE]
             Becomes(v, maker) == qc_makers' = [qc_makers EXCEPT ![v] = maker]
  <2>1. PICK v \in fast_timers :
          \/ Becomes(v, disabled(v)) /\ UNCHANGED msgs
          \/ /\ Becomes(v, confirmed(v)) /\ SlowQCReady(qc_makers[v])
             /\ SendConfirm(r, v, [phase |-> "Prepare", view |-> v,
                                   votes |-> qc_makers[v].votes], {})
    BY <1>7 DEF FastTimerExpires
  <2>2. v \in Views /\ qc_makers[v] \in QCMakers
    BY DEF SafetyInv, TypeInv, TypeOK
  <2> PICK m : m = qc_makers[v]
    OBVIOUS
  <2>3. PathDecided(m)
    BY <2>2 DEF OnePathInv, PathDecided
  <2> PICK d : d = [m EXCEPT !.fast_path_disabled = TRUE]
    OBVIOUS
  <2>4. /\ d.fast_path_disabled /\ d.sent_confirm = m.sent_confirm
        /\ d.completed_fast = m.completed_fast /\ d \in QCMakers
    BY <2>2 DEF QCMakers
  <2>5. CASE Becomes(v, d) /\ UNCHANGED msgs
    <3>1. qc_makers'[v] = d /\ \A w \in Views : w # v => qc_makers'[w] = qc_makers[w]
      BY <2>2, <2>5 DEF SafetyInv, TypeInv, TypeOK
    <3>2. PathDecided(d)
      BY <2>3, <2>4 DEF PathDecided
    <3> QED
      BY <2>2, <2>4, <2>5, <3>1, <3>2, PathKept
  <2>6. CASE /\ Becomes(v, [d EXCEPT !.sent_confirm = TRUE]) /\ SlowQCReady(m)
             /\ \E qc : SendConfirm(r, v, qc, {})
    <3> PICK e : e = [d EXCEPT !.sent_confirm = TRUE]
      OBVIOUS
    <3>1. qc_makers'[v] = e /\ \A w \in Views : w # v => qc_makers'[w] = qc_makers[w]
      BY <2>2, <2>6 DEF SafetyInv, TypeInv, TypeOK
    <3>2. PathDecided(e) /\ e.sent_confirm /\ ~m.completed_fast
      BY <2>4, <2>6 DEF PathDecided, SlowQCReady, QCMakers
    <3>3. \A c \in msgs' \ msgs : c.type # "Commit" /\ (c.type = "Confirm" => c.view = v)
      BY <2>6 DEF SendConfirm, ConfirmVote
    <3>4. /\ PathDecided(qc_makers'[v]) /\ qc_makers'[v].sent_confirm
          /\ ~qc_makers[v].completed_fast
      BY <3>1, <3>2
    <3> HIDE DEF Becomes, confirmed, disabled
    <3> QED
      BY <2>2, <3>1, <3>3, <3>4, PathKept
  <2> QED
    BY <2>1, <2>5, <2>6
<1>8. ASSUME NEW r \in Replicas, HandleConfirm(r) PROVE OnePathInv'
  <2>1. PICK c \in msgs : msgs' = msgs \cup {ConfirmVote(r, c.view)} /\ UNCHANGED qc_makers
    BY <1>8 DEF HandleConfirm, leaderVars
  <2> QED
    BY <2>1, PathStays DEF ConfirmVote
<1>9. ASSUME NEW r \in Replicas, HandleConfirmVote(r) PROVE OnePathInv'
  <2>1. /\ UNCHANGED qc_makers
        /\ \/ UNCHANGED msgs
           \/ \E qc, v : qc.phase = "Confirm" /\ SendCommit(r, v, qc, {})
    BY <1>9 DEF HandleConfirmVote
  <2>2. \A c \in msgs' \ msgs : c.type = "Commit" /\ c.qc.phase = "Confirm"
    <3>1. CASE UNCHANGED msgs
      BY <3>1
    <3>2. CASE \E qc, v : qc.phase = "Confirm" /\ SendCommit(r, v, qc, {})
      <4>1. PICK qc, v : qc.phase = "Confirm" /\ SendCommit(r, v, qc, {})
        BY <3>2
      <4> PICK c : c = [type |-> "Commit", view |-> v, qc |-> qc, cut |-> consensus_instances[v]]
        OBVIOUS
      <4>2. msgs' = msgs \cup {} \cup {c}
        BY <4>1 DEF SendCommit
      <4> QED
        BY <4>1, <4>2
    <3> QED
      BY <2>1, <3>1, <3>2
  <2> QED
    BY <2>1, <2>2, PathStays
<1>10. ASSUME NEW r \in Replicas, HandleCommit(r) PROVE OnePathInv'
  BY <1>10, PathStays DEF HandleCommit, leaderVars
<1>11. ASSUME NEW r \in Replicas, LocalTimeout(r) PROVE OnePathInv'
  <2> DEFINE t(v) == [type |-> "Timeout", view |-> v, author |-> r,
                      high_qc |-> high_qcs[r], high_prop |-> high_proposals[r]]
  <2>1. PICK v \in timer_futures[r] : /\ <<r, v>> \in Expiring
                                      /\ CountTimeout(r, t(v), {t(v)})
    BY <1>11 DEF LocalTimeout
  <2>2. v \in Views /\ v < MaxView
    BY <2>1, ExpiringAssumption DEF SafetyInv, TypeInv, TypeOK
  <2>3. t(v) \in Timeouts /\ t(v).view < MaxView
    BY <2>2 DEF SafetyInv, TypeInv, TypeOK, Timeouts
  <2> HIDE DEF t
  <2> QED
    BY <2>1, <2>3, CountTimeoutPath
<1>12. ASSUME NEW r \in Replicas, HandleTimeout(r) PROVE OnePathInv'
  <2>1. PICK t \in msgs : t.type = "Timeout" /\ CountTimeout(r, t, {})
    BY <1>12 DEF HandleTimeout
  <2>2. t \in Timeouts /\ t.view < MaxView
    BY <2>1, MessageTypes DEF SafetyInv, TypeInv, TimeoutsBelowMaxView
  <2> QED
    BY <2>1, <2>2, CountTimeoutPath
<1>13. ASSUME NEW r \in Replicas, UpdateFastPath(r) PROVE OnePathInv'
  BY <1>13, PathStays DEF UpdateFastPath, leaderVars
<1> QED
  BY <1>1, <1>2, <1>3, <1>4, <1>5, <1>6, <1>7, <1>8, <1>9, <1>10, <1>11, <1>12, <1>13
     DEF Next

(***************************************************************************)
(* A view is certified along one path, whichever of its last Prepare votes *)
(* and its FastTimer wins, and whenever an update switches the path.       *)
(***************************************************************************)
THEOREM OnePath == Spec => []OnePathPerView
<1>1. Init => OnePathInv
  BY DEF Init, OnePathInv, PathDecided, Sent, NewQCMaker
<1>2. SafetyInv /\ OnePathInv /\ [Next]_vars => OnePathInv'
  BY OnePathInvStep
<1>3. SafetyInv /\ OnePathInv => OnePathPerView
  <2> SUFFICES ASSUME SafetyInv, OnePathInv,
                      NEW c \in Sent("Commit"), NEW d \in Sent("Confirm"), c.view = d.view
               PROVE  c.qc.phase = "Confirm"
    BY DEF OnePathPerView
  <2>1. c \in Commits
    BY MessageTypes DEF Sent, SafetyInv, TypeInv
  <2>2. c.qc.phase \in {"Prepare", "Confirm"} /\ c.view \in Views
    BY <2>1 DEF Commits, QCs
  <2> QED
    BY <2>2 DEF OnePathInv, PathDecided
<1> QED
  BY <1>1, <1>2, <1>3, SafetyInvAlways, PTL DEF Spec
-----------------------------------------------------------------------------
(***************************************************************************)
(* What a replica holds, step by step: its view only grows; the Confirm it *)
(* holds is replaced by one of the view it is then in, or by a Commit; the *)
(* Prepares it holds have been sent, for a view it has reached.            *)
(***************************************************************************)
CertificatesMove ==
    /\ msgs \subseteq msgs'
    /\ \A r \in Replicas :
          /\ views'[r] >= views[r]
          /\ \/ high_qcs'[r] = high_qcs[r] /\ committed_slots'[r] = committed_slots[r]
             \/ committed_slots'[r] # None
             \/ /\ committed_slots'[r] = committed_slots[r]
                /\ high_qcs'[r] \in Sent("Confirm")'
                /\ high_qcs'[r].view = views'[r]

PreparesMove ==
    \A r \in Replicas :
        /\ \/ high_proposals'[r] = high_proposals[r]
           \/ \E p \in Sent("Prepare")' :
                 /\ high_proposals'[r] = [view |-> p.view, cut |-> p.cut]
                 /\ p.view <= views'[r]
        /\ \A p \in waiting'[r] \ waiting[r] :
              p \in Sent("Prepare")' /\ p.view <= views'[r]

HeldInv ==
    \A r \in Replicas :
        /\ high_qcs[r] # None /\ committed_slots[r] = None
              => high_qcs[r] \in Sent("Confirm") /\ high_qcs[r].view <= views[r]
        /\ high_proposals[r] # None
              => ProposedCut(high_proposals[r]) /\ high_proposals[r].view <= views[r]
        /\ \A p \in waiting[r] : p \in Sent("Prepare") /\ p.view <= views[r]

LEMMA HeldInvKept ==
    ASSUME TypeInv, TypeInv', HeldInv, CertificatesMove, PreparesMove
    PROVE  HeldInv'
<1> SUFFICES ASSUME NEW r \in Replicas
             PROVE  /\ high_qcs'[r] # None /\ committed_slots'[r] = None
                          => /\ high_qcs'[r] \in Sent("Confirm")'
                             /\ high_qcs'[r].view <= views'[r]
                    /\ high_proposals'[r] # None
                          => /\ \E p \in Sent("Prepare")' : /\ p.view = high_proposals'[r].view
                                                            /\ p.cut = high_proposals'[r].cut
                             /\ high_proposals'[r].view <= views'[r]
                    /\ \A p \in waiting'[r] :
                          p \in Sent("Prepare")' /\ p.view <= views'[r]
  BY DEF HeldInv, ProposedCut
<1>1. /\ views[r] \in Nat /\ views'[r] \in Nat /\ views'[r] >= views[r]
      /\ msgs \subseteq msgs'
      /\ \A type : Sent(type) \subseteq Sent(type)'
  BY DEF TypeInv, TypeOK, CertificatesMove, Sent
<1>2. ASSUME high_qcs'[r] # None, committed_slots'[r] = None
      PROVE  high_qcs'[r] \in Sent("Confirm")' /\ high_qcs'[r].view <= views'[r]
  <2>1. CASE high_qcs'[r] = high_qcs[r] /\ committed_slots'[r] = committed_slots[r]
    <3>1. high_qcs[r] \in Sent("Confirm") /\ high_qcs[r].view <= views[r]
      BY <1>2, <2>1 DEF HeldInv
    <3>2. high_qcs[r].view \in Nat
      BY <3>1, MessageTypes DEF Sent, TypeInv, Confirms, Views
    <3> QED
      BY <1>1, <2>1, <3>1, <3>2
  <2>2. CASE high_qcs'[r] \in Sent("Confirm")' /\ high_qcs'[r].view = views'[r]
    BY <1>1, <2>2
  <2> QED
    BY <1>2, <2>1, <2>2 DEF CertificatesMove
<1>3. ASSUME high_proposals'[r] # None
      PROVE  /\ \E p \in Sent("Prepare")' : /\ p.view = high_proposals'[r].view
                                            /\ p.cut = high_proposals'[r].cut
             /\ high_proposals'[r].view <= views'[r]
  <2>1. CASE high_proposals'[r] = high_proposals[r]
    <3>1. ProposedCut(high_proposals[r]) /\ high_proposals[r].view <= views[r]
      BY <1>3, <2>1 DEF HeldInv
    <3>2. high_proposals[r].view \in Nat
      BY <1>3, <2>1 DEF TypeInv, TypeOK, HighProposals, Views
    <3> QED
      BY <1>1, <2>1, <3>1, <3>2 DEF ProposedCut
  <2>2. CASE \E p \in Sent("Prepare")' :
               /\ high_proposals'[r] = [view |-> p.view, cut |-> p.cut]
               /\ p.view <= views'[r]
    BY <2>2
  <2> QED
    BY <2>1, <2>2 DEF PreparesMove
<1>4. ASSUME NEW p \in waiting'[r]
      PROVE  p \in Sent("Prepare")' /\ p.view <= views'[r]
  <2>1. CASE p \in waiting[r]
    <3>1. p \in Sent("Prepare") /\ p.view <= views[r] /\ p.view \in Nat
      BY <2>1 DEF HeldInv, TypeInv, TypeOK, Prepares, Views
    <3> QED
      BY <1>1, <3>1
  <2>2. CASE p \notin waiting[r]
    BY <1>4, <2>2 DEF PreparesMove
  <2> QED
    BY <2>1, <2>2
<1> QED
  BY <1>2, <1>3, <1>4

\* Nothing a replica holds changes.
LEMMA PreparesStay == ASSUME UNCHANGED replicaVars PROVE PreparesMove
BY DEF PreparesMove, replicaVars

LEMMA CertificatesStand ==
    ASSUME TypeInv, UNCHANGED <<views, high_qcs, committed_slots>>, msgs \subseteq msgs'
    PROVE  CertificatesMove
BY DEF CertificatesMove, TypeInv, TypeOK

LEMMA SendCommitMoves ==
    ASSUME TypeInv, NEW r \in Replicas, NEW v \in Views, NEW qc \in QCs, NEW sent,
           consensus_instances[v] # None, SendCommit(r, v, qc, sent)
    PROVE  CertificatesMove
<1> PICK c : c = [type |-> "Commit", view |-> v, qc |-> qc, cut |-> consensus_instances[v]]
  OBVIOUS
<1>1. c \in Commits
  BY TypeGroups DEF Commits, LeaderTypes
<1>2. c # None
  BY <1>1, NoneAssumption
<1>3. /\ msgs \subseteq msgs' /\ views' = views
      /\ \/ UNCHANGED <<high_qcs, committed_slots>>
         \/ /\ high_qcs' = [high_qcs EXCEPT ![r] = c]
            /\ committed_slots' = [committed_slots EXCEPT ![r] = c]
  BY DEF SendCommit, Commit
<1> QED
  BY <1>2, <1>3 DEF TypeInv, TypeOK, CertificatesMove

LEMMA ConfirmMoves ==
    ASSUME TypeInv, NEW r \in Replicas, NEW c \in Sent("Confirm")', NotPast(r, c.view),
           c.view \in Views, msgs \subseteq msgs',
           views' = [views EXCEPT ![r] = c.view],
           high_qcs' = [high_qcs EXCEPT ![r] = c], UNCHANGED committed_slots
    PROVE  CertificatesMove
<1> SUFFICES ASSUME NEW s \in Replicas
             PROVE  /\ views'[s] >= views[s]
                    /\ \/ high_qcs'[s] = high_qcs[s]
                       \/ high_qcs'[s] \in Sent("Confirm")' /\ high_qcs'[s].view = views'[s]
  BY DEF CertificatesMove
<1>1. CASE s = r
  BY <1>1 DEF TypeInv, TypeOK, NotPast
<1>2. CASE s # r
  BY <1>2 DEF TypeInv, TypeOK
<1> QED
  BY <1>1, <1>2

LEMMA SendConfirmMoves ==
    ASSUME TypeInv, NEW r \in Replicas, NEW v \in Views, NEW qc, NEW sent,
           SendConfirm(r, v, qc, sent)
    PROVE  CertificatesMove
<1> PICK c : c = [type |-> "Confirm", view |-> v, qc |-> qc, cut |-> consensus_instances[v]]
  OBVIOUS
<1>1. CASE NotPast(r, v) /\ verify_confirm(c)
  <2>1. /\ views' = [views EXCEPT ![r] = c.view]
        /\ high_qcs' = [high_qcs EXCEPT ![r] = c]
        /\ msgs \subseteq msgs' /\ c \in msgs' /\ UNCHANGED committed_slots
    BY <1>1 DEF SendConfirm
  <2>2. c \in Sent("Confirm")' /\ c.view \in Views /\ NotPast(r, c.view)
    BY <1>1, <2>1 DEF Sent
  <2> QED
    BY <2>1, <2>2, ConfirmMoves
<1>2. CASE ~(NotPast(r, v) /\ verify_confirm(c))
  BY <1>2, CertificatesStand DEF SendConfirm
<1> QED
  BY <1>1, <1>2

LEMMA CountPrepareVoteMoves ==
    ASSUME TypeInv, NEW r \in Replicas, NEW v \in Views, NEW author \in Replicas,
           NEW sent, CountPrepareVote(r, v, author, sent)
    PROVE  CertificatesMove
<1> PICK qc : qc = [phase |-> "Prepare", view |-> v, votes |-> qc_makers[v].votes \cup {author}]
  OBVIOUS
<1>1. qc \in QCs /\ consensus_instances[v] # None
  BY DEF CountPrepareVote, QCs, TypeInv, TypeOK, QCMakers
<1>2. \/ SendCommit(r, v, qc, sent)
      \/ SendConfirm(r, v, qc, sent)
      \/ UNCHANGED voteVars /\ msgs' = msgs \cup sent
  BY DEF CountPrepareVote, TypeInv, TypeOK, QCMakers
<1>3. CASE UNCHANGED voteVars /\ msgs' = msgs \cup sent
  BY <1>3, CertificatesStand DEF voteVars
<1> QED
  BY <1>1, <1>2, <1>3, SendCommitMoves, SendConfirmMoves

\* r votes for p, which is sent, in a view it has reached.
LEMMA RecordPrepareMoves ==
    ASSUME TypeInv, NEW r \in Replicas, NEW p, p \in Sent("Prepare")', p.view <= views'[r],
           RecordPrepare(r, p), \A s \in Replicas : waiting'[s] \subseteq waiting[s]
    PROVE  PreparesMove
BY DEF RecordPrepare, PreparesMove, TypeInv, TypeOK

LEMMA SendPrepareMoves ==
    ASSUME TypeInv, NEW r \in Replicas, NEW v \in Views, NEW tc, NEW cut, NEW sent,
           NEW curr \in 0 .. MaxView, views[r] <= curr,
           SendPrepare(r, v, tc, cut, curr, sent), UNCHANGED <<high_qcs, committed_slots>>
    PROVE  CertificatesMove /\ PreparesMove
<1> PICK p : p = [type |-> "Prepare", view |-> v, tc |-> tc, cut |-> cut]
  OBVIOUS
<1> PICK view : view = IF curr < v THEN v ELSE curr
  OBVIOUS
<1>0. v \in Nat /\ curr \in Nat /\ view \in Nat /\ views[r] \in Nat
  BY SlotAssumption DEF Views, TypeInv, TypeOK
<1>1. /\ msgs \subseteq msgs' /\ p \in Sent("Prepare")'
      /\ views' = [views EXCEPT ![r] = view]
  BY DEF SendPrepare, Sent
<1>2. views'[r] = view /\ v <= view /\ views[r] <= view
  BY <1>0, <1>1 DEF TypeInv, TypeOK
<1>3. CertificatesMove
  BY <1>0, <1>1, <1>2 DEF CertificatesMove, TypeInv, TypeOK
<1>4. CASE /\ ValidPrepare(r, v, TRUE, view) /\ RecordPrepare(r, p) /\ UNCHANGED waiting
  <2>1. p.view <= views'[r]
    BY <1>0, <1>2, <1>4 DEF ValidPrepare
  <2> QED
    BY <1>1, <1>3, <1>4, <2>1, RecordPrepareMoves
<1>5. CASE /\ waiting' = [waiting EXCEPT ![r] = @ \cup {p}]
           /\ UNCHANGED <<last_voted_consensus, high_proposals>>
  BY <1>1, <1>2, <1>3, <1>5 DEF PreparesMove, TypeInv, TypeOK
<1>6. CASE UNCHANGED replicaVars
  BY <1>3, <1>6, PreparesStay
<1> QED
  BY <1>3, <1>4, <1>5, <1>6 DEF SendPrepare

LEMMA CountTimeoutMoves ==
    ASSUME TypeInv, NEW r \in Replicas, NEW t \in Timeouts, t.view < MaxView,
           NEW sent, CountTimeout(r, t, sent)
    PROVE  CertificatesMove /\ PreparesMove
<1> DEFINE made == Append(tc_makers[r][t.view], t)
           tc == [view |-> t.view, timeouts |-> made]
           next == t.view + 1
<1>1. t.view \in Views /\ next \in Views /\ next \in 0 .. MaxView /\ t.view \in Nat
  BY SlotAssumption DEF Timeouts, Views
<1>2. /\ views[r] <= t.view /\ views[r] \in Nat /\ views[r] <= next
      /\ UNCHANGED <<high_qcs, committed_slots>>
  BY <1>1 DEF CountTimeout, TypeInv, TypeOK
<1>3. CASE generate_prepare_from_tc(r, tc, sent)
  <2>1. PICK cut : SendPrepare(r, next, tc, cut, next, sent)
    BY <1>3 DEF generate_prepare_from_tc
  <2> QED
    BY <1>1, <1>2, <2>1, SendPrepareMoves
<1>4. CASE /\ views' = [views EXCEPT ![r] = next] \/ UNCHANGED views
           /\ msgs' = msgs \cup sent /\ UNCHANGED replicaVars
  <2>1. ASSUME NEW s \in Replicas PROVE views'[s] >= views[s]
    <3>1. views[s] \in Nat
      BY DEF TypeInv, TypeOK
    <3>2. views'[s] = views[s] \/ (s = r /\ views'[s] = next)
      BY <1>4 DEF TypeInv, TypeOK
    <3> QED
      BY <1>1, <1>2, <3>1, <3>2
  <2>2. CertificatesMove
    BY <1>2, <1>4, <2>1 DEF CertificatesMove
  <2> QED
    BY <1>4, <2>2, PreparesStay
<1> QED
  BY <1>3, <1>4 DEF CountTimeout

LEMMA MovesStep == ASSUME SafetyInv, HeldInv, Next PROVE CertificatesMove /\ PreparesMove
<1> TypeInv
  BY DEF SafetyInv
<1>1. ASSUME NEW r \in Replicas, StartTimer(r) PROVE CertificatesMove /\ PreparesMove
  BY <1>1, CertificatesStand, PreparesStay DEF StartTimer
<1>2. ASSUME NEW r \in Replicas, Propose(r) PROVE CertificatesMove /\ PreparesMove
  <2>1. 1 \in Views /\ views[r] \in 0 .. MaxView /\ views[r] <= views[r]
    BY SlotAssumption DEF Views, TypeInv, TypeOK
  <2> QED
    BY <1>2, <2>1, SendPrepareMoves DEF Propose
<1>3. ASSUME NEW r \in Replicas, HandlePrepare(r) PROVE CertificatesMove /\ PreparesMove
  <2> PICK p, view :
        /\ p \in Sent("Prepare")
        /\ view = IF views[r] < p.view THEN p.view ELSE views[r]
        /\ views' = [views EXCEPT ![r] = view]
        /\ msgs \subseteq msgs'
        /\ \/ RecordPrepare(r, p) /\ p.view = view /\ UNCHANGED waiting
           \/ /\ waiting' = [waiting EXCEPT ![r] = @ \cup {p}]
              /\ UNCHANGED <<last_voted_consensus, high_proposals>>
           \/ UNCHANGED replicaVars
        /\ UNCHANGED <<high_qcs, committed_slots>>
    BY <1>3 DEF HandlePrepare, Sent, ValidPrepare
  <2>1. p.view \in Nat /\ views[r] \in Nat /\ view \in Nat
    BY MessageTypes DEF Sent, Prepares, Views, TypeInv, TypeOK
  <2>2. /\ views'[r] = view /\ views[r] <= view /\ p.view <= view
        /\ \A s \in Replicas : s # r => views'[s] = views[s]
    BY <2>1 DEF TypeInv, TypeOK
  <2>3. CertificatesMove
    BY <2>1, <2>2 DEF CertificatesMove, TypeInv, TypeOK
  <2>4. p \in Sent("Prepare")'
    BY DEF Sent
  <2>5. CASE RecordPrepare(r, p) /\ p.view = view /\ UNCHANGED waiting
    BY <2>1, <2>2, <2>3, <2>4, <2>5, RecordPrepareMoves
  <2>6. CASE /\ waiting' = [waiting EXCEPT ![r] = @ \cup {p}]
             /\ UNCHANGED <<last_voted_consensus, high_proposals>>
    BY <2>2, <2>3, <2>4, <2>6 DEF PreparesMove, TypeInv, TypeOK
  <2> QED
    BY <2>3, <2>5, <2>6, PreparesStay
<1>4. ASSUME NEW r \in Replicas, Loopback(r) PROVE CertificatesMove /\ PreparesMove
  <2> PICK p \in waiting[r] :
        /\ waiting' = [waiting EXCEPT ![r] = @ \ {p}]
        /\ \/ UNCHANGED <<last_voted_consensus, high_proposals, voteVars, msgs>>
           \/ /\ RecordPrepare(r, p)
              /\ \/ CountPrepareVote(r, p.view, r, {PrepareVote(r, p.view)})
                 \/ /\ msgs' = msgs \cup {PrepareVote(r, p.view)}
                    /\ UNCHANGED voteVars
    BY <1>4 DEF Loopback
  <2>1. p \in Prepares /\ p.view \in Views /\ p.view \in Nat
    BY DEF TypeInv, TypeOK, Prepares, Views
  <2>2. CertificatesMove
    <3>1. CASE CountPrepareVote(r, p.view, r, {PrepareVote(r, p.view)})
      BY <2>1, <3>1, CountPrepareVoteMoves
    <3>2. CASE UNCHANGED voteVars /\ msgs \subseteq msgs'
      BY <3>2, CertificatesStand DEF voteVars
    <3> QED
      BY <3>1, <3>2
  <2>3. CASE UNCHANGED <<last_voted_consensus, high_proposals>>
    BY <2>2, <2>3 DEF PreparesMove, TypeInv, TypeOK
  <2>4. CASE RecordPrepare(r, p)
    <3>1. p \in Sent("Prepare")' /\ p.view <= views[r]
      BY <2>2 DEF HeldInv, CertificatesMove, Sent
    <3>2. views'[r] >= views[r] /\ views[r] \in Nat /\ views'[r] \in Nat
      BY <2>2, TypeInvStep DEF CertificatesMove, TypeInv, TypeOK
    <3>3. p.view <= views'[r]
      BY <2>1, <3>1, <3>2
    <3>4. \A s \in Replicas : waiting'[s] \subseteq waiting[s]
      BY DEF TypeInv, TypeOK
    <3> QED
      BY <2>2, <2>4, <3>1, <3>3, <3>4, RecordPrepareMoves
  <2> QED
    BY <2>3, <2>4
<1>5. ASSUME NEW r \in Replicas, HandlePrepareVote(r) PROVE CertificatesMove /\ PreparesMove
  <2>1. PICK m \in msgs : /\ m.type = "PrepareVote" /\ CountPrepareVote(r, m.view, m.author, {})
                          /\ UNCHANGED replicaVars
    BY <1>5 DEF HandlePrepareVote
  <2>2. m.view \in Views /\ m.author \in Replicas
    BY <2>1, MessageTypes DEF TypeInv, Votes
  <2> QED
    BY <2>1, <2>2, CountPrepareVoteMoves, PreparesStay
<1>6. ASSUME NEW r \in Replicas, FastTimerExpires(r) PROVE CertificatesMove /\ PreparesMove
  <2>1. PICK v \in fast_timers :
          /\ \/ UNCHANGED <<voteVars, msgs>>
             \/ \E qc : SendConfirm(r, v, qc, {})
          /\ UNCHANGED replicaVars
    BY <1>6 DEF FastTimerExpires
  <2>2. v \in Views
    BY DEF TypeInv, TypeOK
  <2> QED
    BY <2>1, <2>2, CertificatesStand, SendConfirmMoves, PreparesStay DEF voteVars
<1>7. ASSUME NEW r \in Replicas, HandleConfirm(r) PROVE CertificatesMove /\ PreparesMove
  <2> PICK c \in Sent("Confirm") :
        /\ NotPast(r, c.view)
        /\ views' = [views EXCEPT ![r] = c.view]
        /\ high_qcs' = [high_qcs EXCEPT ![r] = c]
        /\ msgs \subseteq msgs'
        /\ UNCHANGED <<committed_slots, replicaVars>>
    BY <1>7 DEF HandleConfirm, Sent
  <2>1. c.view \in Views /\ c \in Sent("Confirm")'
    BY MessageTypes DEF Sent, TypeInv, Confirms
  <2> QED
    BY <2>1, ConfirmMoves, PreparesStay
<1>8. ASSUME NEW r \in Replicas, HandleConfirmVote(r) PROVE CertificatesMove /\ PreparesMove
  <2> DEFINE votes(m) == confirm_makers[m.view].votes \cup {m.author}
             qc(m) == [phase |-> "Confirm", view |-> m.view, votes |-> votes(m)]
  <2> PICK m \in msgs :
        /\ m.type = "ConfirmVote"
        /\ qc_makers[m.view].sent_confirm
        /\ SendCommit(r, m.view, qc(m), {}) \/ UNCHANGED <<voteVars, msgs>>
        /\ UNCHANGED replicaVars
    BY <1>8 DEF HandleConfirmVote
  <2>1. m.view \in Views /\ m.author \in Replicas
    BY MessageTypes DEF TypeInv, Votes
  <2>2. qc(m) \in QCs /\ consensus_instances[m.view] # None
    BY <2>1 DEF QCs, TypeInv, TypeOK, ConfirmMakers, Registered
  <2>3. CASE SendCommit(r, m.view, qc(m), {})
    BY <2>1, <2>2, <2>3, SendCommitMoves, PreparesStay
  <2>4. CASE UNCHANGED <<voteVars, msgs>>
    BY <2>4, CertificatesStand, PreparesStay DEF voteVars
  <2> QED
    BY <2>3, <2>4
<1>9. ASSUME NEW r \in Replicas, HandleCommit(r) PROVE CertificatesMove /\ PreparesMove
  <2> PICK c \in Sent("Commit") :
        /\ Commit(r, c)
        /\ UNCHANGED <<views, replicaVars, msgs>>
    BY <1>9 DEF HandleCommit, Sent
  <2>1. c # None
    BY MessageTypes, NoneAssumption DEF Sent, TypeInv
  <2> QED
    BY <2>1, PreparesStay DEF Commit, CertificatesMove, TypeInv, TypeOK
<1>10. ASSUME NEW r \in Replicas, LocalTimeout(r) PROVE CertificatesMove /\ PreparesMove
  <2> DEFINE t(v) == [type |-> "Timeout", view |-> v, author |-> r,
                      high_qc |-> high_qcs[r], high_prop |-> high_proposals[r]]
  <2>1. PICK v \in timer_futures[r] : /\ <<r, v>> \in Expiring
                                      /\ CountTimeout(r, t(v), {t(v)})
    BY <1>10 DEF LocalTimeout
  <2>2. v \in Views /\ v < MaxView
    BY <2>1, ExpiringAssumption DEF TypeInv, TypeOK
  <2>3. t(v) \in Timeouts /\ t(v).view < MaxView
    BY <2>2 DEF TypeInv, TypeOK, Timeouts
  <2> HIDE DEF t
  <2> QED
    BY <2>1, <2>3, CountTimeoutMoves
<1>11. ASSUME NEW r \in Replicas, HandleTimeout(r) PROVE CertificatesMove /\ PreparesMove
  <2>1. PICK t \in msgs : t.type = "Timeout" /\ CountTimeout(r, t, {})
    BY <1>11 DEF HandleTimeout
  <2>2. t \in Timeouts /\ t.view < MaxView
    BY <2>1, MessageTypes DEF TypeInv, TimeoutsBelowMaxView
  <2> QED
    BY <2>1, <2>2, CountTimeoutMoves
<1>12. ASSUME NEW r \in Replicas, UpdateFastPath(r) PROVE CertificatesMove /\ PreparesMove
  BY <1>12, CertificatesStand, PreparesStay DEF UpdateFastPath, voteVars
<1> QED
  BY <1>1, <1>2, <1>3, <1>4, <1>5, <1>6, <1>7, <1>8, <1>9, <1>10, <1>11, <1>12 DEF Next

LEMMA HeldInvStep ==
    ASSUME SafetyInv, HeldInv, [Next]_vars
    PROVE  HeldInv'
<1>1. TypeInv /\ TypeInv'
  BY TypeInvStep DEF SafetyInv
<1>2. CertificatesMove /\ PreparesMove
  <2>1. CASE UNCHANGED vars
    BY <1>1, <2>1, CertificatesStand, PreparesStay DEF vars, replicaVars
  <2> QED
    BY <2>1, MovesStep
<1> QED
  BY <1>1, <1>2, HeldInvKept

LEMMA HeldInvAlways == Spec => []HeldInv
<1>1. Init => HeldInv
  BY DEF Init, HeldInv
<1> QED
  BY <1>1, HeldInvStep, SafetyInvAlways, PTL DEF Spec

(***************************************************************************)
(* No replica goes back to an earlier view, nor, until it commits, to the  *)
(* Confirm of an earlier view.                                             *)
(***************************************************************************)
THEOREM NoReplicaGoesBack == Spec => NeverGoesBack
<1>1. ASSUME SafetyInv, HeldInv, Next, NEW r \in Replicas
      PROVE  /\ views'[r] >= views[r]
             /\ (high_qcs[r] # None /\ committed_slots'[r] = None)
                  => high_qcs'[r] # None /\ high_qcs'[r].view >= high_qcs[r].view
  <2>1. CertificatesMove /\ TypeInv'
    BY <1>1, MovesStep, TypeInvStep DEF SafetyInv
  <2>2. /\ views[r] \in Nat /\ views'[r] \in Nat /\ views'[r] >= views[r]
        /\ \A c \in Sent("Confirm") \cup Sent("Confirm")' : c.view \in Nat /\ c # None
    <3>1. views[r] \in Nat /\ views'[r] \in Nat /\ TypeInv
      BY <1>1, <2>1 DEF SafetyInv, TypeInv, TypeOK
    <3>2. \A c \in Sent("Confirm") : c \in Confirms
      BY <3>1, MessageTypes DEF Sent, TypeInv
    <3>3. \A c \in Sent("Confirm")' : c \in Confirms
      BY <2>1 DEF Sent, TypeInv, TypeOK, Prepares, Commits, Timeouts, Votes
    <3> QED
      BY <2>1, <3>1, <3>2, <3>3, NoneAssumption DEF CertificatesMove, Confirms, Views
  <2>3. ASSUME high_qcs[r] # None, committed_slots'[r] = None
        PROVE  high_qcs'[r] # None /\ high_qcs'[r].view >= high_qcs[r].view
    <3>1. committed_slots[r] = None
      BY <2>1, <2>3 DEF CertificatesMove
    <3>2. high_qcs[r] \in Sent("Confirm") /\ high_qcs[r].view <= views[r]
      BY <1>1, <2>3, <3>1 DEF HeldInv
    <3>3. \/ high_qcs'[r] = high_qcs[r]
          \/ high_qcs'[r] \in Sent("Confirm")' /\ high_qcs'[r].view = views'[r]
      BY <2>1, <2>3 DEF CertificatesMove
    <3> QED
      BY <2>2, <2>3, <3>2, <3>3
  <2> QED
    BY <2>2, <2>3
<1>2. ASSUME SafetyInv, HeldInv, [Next]_vars
      PROVE  [\A r \in Replicas :
                 /\ views'[r] >= views[r]
                 /\ (high_qcs[r] # None /\ committed_slots'[r] = None)
                      => high_qcs'[r] # None /\ high_qcs'[r].view >= high_qcs[r].view]_vars
  BY <1>1, <1>2
<1> QED
  BY <1>2, SafetyInvAlways, HeldInvAlways, PTL DEF Spec, NeverGoesBack
-----------------------------------------------------------------------------
(***************************************************************************)
(* get_winning_proposals is a recursive function over the Timeouts of a    *)
(* TC: it exists for a TC of any length, and its value is the last of any  *)
(* function that satisfies the recursion.                                  *)
(***************************************************************************)
Pass(f, timeouts, n) ==
    f = [i \in 0 .. n |-> IF i = 0 THEN NoWinner ELSE ReadTimeout(f[i - 1], timeouts[i])]

LEMMA PassExists ==
    ASSUME NEW timeouts, NEW n \in Nat
    PROVE  \E f : Pass(f, timeouts, n)
<1> PICK T : T = {k \in 0 .. n : \E f : Pass(f, timeouts, k)}
  OBVIOUS
<1>1. 0 \in T
  <2> PICK f : f = [i \in 0 .. 0 |-> NoWinner]
    OBVIOUS
  <2>1. Pass(f, timeouts, 0)
    BY DEF Pass
  <2> QED
    BY <2>1
<1>2. ASSUME NEW k \in 1 .. n, k - 1 \in T
      PROVE  k \in T
  <2>1. PICK f : Pass(f, timeouts, k - 1)
    BY <1>2
  <2> PICK g : g = [i \in 0 .. k |-> IF i = k THEN ReadTimeout(f[k - 1], timeouts[k]) ELSE f[i]]
    OBVIOUS
  <2>2. \A i \in 0 .. (k - 1) : g[i] = f[i] /\ i # k
    OBVIOUS
  <2>3. \A i \in 0 .. k : g[i] = IF i = 0 THEN NoWinner ELSE ReadTimeout(g[i - 1], timeouts[i])
    <3> SUFFICES ASSUME NEW i \in 0 .. k
                 PROVE  g[i] = IF i = 0 THEN NoWinner ELSE ReadTimeout(g[i - 1], timeouts[i])
      OBVIOUS
    <3>1. CASE i = 0
      BY <2>1, <2>2, <3>1 DEF Pass
    <3>2. CASE i \in 1 .. (k - 1)
      <4>1. i - 1 \in 0 .. (k - 1) /\ i \in 0 .. (k - 1) /\ i # 0
        BY <3>2
      <4> QED
        BY <2>1, <2>2, <4>1 DEF Pass
    <3>3. CASE i = k
      <4>1. i - 1 \in 0 .. (k - 1) /\ i # 0
        BY <3>3
      <4> QED
        BY <2>2, <3>3, <4>1
    <3> QED
      BY <3>1, <3>2, <3>3
  <2>4. Pass(g, timeouts, k)
    BY <2>3 DEF Pass
  <2> QED
    BY <2>4
<1>3. \A i \in 0 .. n : i \in T
  BY <1>1, <1>2, UpTo
<1>4. n \in T
  BY <1>3
<1> QED
  BY <1>4

LEMMA WinnerOfPass ==
    ASSUME NEW tc, Len(tc.timeouts) \in Nat
    PROVE  \E f : /\ Pass(f, tc.timeouts, Len(tc.timeouts))
                  /\ get_winning_proposals(tc) = f[Len(tc.timeouts)].cut
<1> DEFINE n == Len(tc.timeouts)
           pass == CHOOSE f : Pass(f, tc.timeouts, n)
<1>1. Pass(pass, tc.timeouts, n)
  BY PassExists
<1>2. get_winning_proposals(tc) = pass[n].cut
  BY DEF get_winning_proposals, Pass
<1> QED
  BY <1>1, <1>2
-----------------------------------------------------------------------------
(***************************************************************************)
(* What the Timeouts report, and what a Prepare inherits from them.        *)
(***************************************************************************)
\* A Timeout reports a Confirm and a Prepare that were sent, of its view or below.
HonestReport(t) ==
    /\ t.high_qc # None => t.high_qc \in Sent("Confirm") /\ t.high_qc.view <= t.view
    /\ t.high_prop # None => ProposedCut(t.high_prop) /\ t.high_prop.view <= t.view

TimeoutsReport == \A t \in Sent("Timeout") : HonestReport(t)

\* Timeouts of view v that different replicas signed.
FromSigned(timeouts, v) ==
    /\ \A i \in DOMAIN timeouts : timeouts[i] \in Sent("Timeout") /\ timeouts[i].view = v
    /\ \A i, j \in DOMAIN timeouts : timeouts[i].author = timeouts[j].author => i = j

MakersDistinct == \A r \in Replicas, v \in Views : FromSigned(tc_makers[r][v], v)

Inherits(p) ==
    /\ p.view = p.tc.view + 1
    /\ Len(p.tc.timeouts) = QuorumThreshold
    /\ p.cut = IF get_winning_proposals(p.tc) = None THEN p.view
               ELSE get_winning_proposals(p.tc)

FromTC ==
    \A p \in Sent("Prepare") :
        IF p.tc = None THEN p.view = 1
        ELSE Inherits(p) /\ FromSigned(p.tc.timeouts, p.tc.view)

ReportInv == TimeoutsReport /\ MakersDistinct /\ FromTC

LEMMA ReportsStay ==
    ASSUME msgs \subseteq msgs', NEW t, HonestReport(t)
    PROVE  HonestReport(t)'
BY DEF HonestReport, ProposedCut, Sent

LEMMA SignedStay ==
    ASSUME msgs \subseteq msgs', NEW timeouts, NEW v, FromSigned(timeouts, v)
    PROVE  FromSigned(timeouts, v)'
BY DEF FromSigned, Sent

\* No Timeout is signed or counted, and no Prepare is sent.
LEMMA ReportInvStays ==
    ASSUME ReportInv, msgs \subseteq msgs', UNCHANGED tc_makers,
           \A m \in msgs' \ msgs : m.type # "Timeout" /\ m.type # "Prepare"
    PROVE  ReportInv'
<1>1. Sent("Timeout")' = Sent("Timeout") /\ Sent("Prepare")' = Sent("Prepare")
  BY DEF Sent
<1>2. TimeoutsReport'
  BY <1>1, ReportsStay DEF ReportInv, TimeoutsReport
<1>3. MakersDistinct'
  BY SignedStay DEF ReportInv, MakersDistinct
<1>4. FromTC'
  BY <1>1, SignedStay DEF ReportInv, FromTC, Inherits
<1> QED
  BY <1>2, <1>3, <1>4 DEF ReportInv

\* What SendPrepare adds to msgs.
LEMMA SendPrepareSends ==
    ASSUME NEW r, NEW v, NEW tc, NEW cut, NEW curr, NEW sent, NEW p,
           p = [type |-> "Prepare", view |-> v, tc |-> tc, cut |-> cut],
           SendPrepare(r, v, tc, cut, curr, sent)
    PROVE  /\ msgs \cup sent \cup {p} \subseteq msgs'
           /\ msgs' \subseteq msgs \cup sent \cup {p, PrepareVote(r, v)}
BY DEF SendPrepare

LEMMA SendPrepareReports ==
    ASSUME ReportInv, NEW r, NEW v, NEW tc, NEW cut, NEW curr, NEW sent,
           \A t \in sent : t.type = "Timeout" /\ HonestReport(t),
           SendPrepare(r, v, tc, cut, curr, sent),
           NEW p, p = [type |-> "Prepare", view |-> v, tc |-> tc, cut |-> cut],
           IF tc = None THEN v = 1 ELSE Inherits(p) /\ FromSigned(tc.timeouts, tc.view)'
    PROVE  TimeoutsReport' /\ FromTC'
<1>1. /\ msgs \cup sent \cup {p} \subseteq msgs'
      /\ msgs' \subseteq msgs \cup sent \cup {p, PrepareVote(r, v)}
  BY SendPrepareSends
<1>2. /\ Sent("Timeout")' \subseteq Sent("Timeout") \cup sent
      /\ Sent("Prepare")' \subseteq Sent("Prepare") \cup {p}
  BY <1>1 DEF Sent, PrepareVote
<1>3. TimeoutsReport'
  BY <1>1, <1>2, ReportsStay DEF ReportInv, TimeoutsReport
<1>4. FromTC'
  <2> SUFFICES ASSUME NEW q \in Sent("Prepare")'
               PROVE  IF q.tc = None THEN q.view = 1
                      ELSE Inherits(q) /\ FromSigned(q.tc.timeouts, q.tc.view)'
    BY DEF FromTC, Inherits
  <2>1. CASE q = p
    BY <2>1
  <2>2. CASE q \in Sent("Prepare")
    BY <1>1, <2>2, SignedStay DEF ReportInv, FromTC
  <2> QED
    BY <1>2, <2>1, <2>2
<1> QED
  BY <1>3, <1>4

LEMMA CountTimeoutReports ==
    ASSUME SafetyInv, ReportInv, NEW r \in Replicas, NEW t \in Timeouts, t.view < MaxView,
           NEW sent, sent \subseteq {t}, t \in msgs \cup sent, HonestReport(t),
           CountTimeout(r, t, sent)
    PROVE  ReportInv'
<1> PICK made : made = Append(tc_makers[r][t.view], t)
  OBVIOUS
<1> PICK tc : tc = [view |-> t.view, timeouts |-> made]
  OBVIOUS
<1> DEFINE next == t.view + 1
<1>0. t.view \in Views /\ next \in Views /\ t.type = "Timeout"
  BY SlotAssumption DEF Timeouts, Views
<1>1. /\ t.view \in Views /\ next \in Views /\ t.type = "Timeout"
      /\ tc_makers[r][t.view] \in Seq(Timeouts)
  BY <1>0 DEF SafetyInv, TypeInv, TypeOK
<1>2. /\ \A i \in DOMAIN tc_makers[r][t.view] : tc_makers[r][t.view][i].author # t.author
      /\ tc_makers' = [tc_makers EXCEPT ![r][t.view] = made]
      /\ \/ /\ Len(made) = QuorumThreshold
            /\ generate_prepare_from_tc(r, tc, sent)
         \/ /\ msgs' = msgs \cup sent
            /\ UNCHANGED <<replicaVars, leaderVars>>
  BY DEF CountTimeout
<1>3. msgs \cup sent \subseteq msgs'
  BY <1>2 DEF generate_prepare_from_tc, SendPrepare
<1>4. FromSigned(made, t.view)'
  <2> PICK old : old = tc_makers[r][t.view]
    OBVIOUS
  <2>1. /\ old \in Seq(Timeouts) /\ made = Append(old, t)
        /\ FromSigned(old, t.view)'
        /\ \A i \in DOMAIN old : old[i].author # t.author
        /\ t \in Sent("Timeout")'
    <3>1. FromSigned(old, t.view)
      BY <1>1 DEF ReportInv, MakersDistinct
    <3> QED
      BY <1>1, <1>2, <1>3, <3>1, SignedStay DEF Sent
  <2>2. /\ DOMAIN made = 1 .. Len(old) + 1 /\ DOMAIN old = 1 .. Len(old) /\ Len(old) \in Nat
        /\ made[Len(old) + 1] = t
        /\ \A i \in DOMAIN old : made[i] = old[i]
    BY <2>1
  <2>3. \A i \in DOMAIN made : i \in DOMAIN old \/ i = Len(old) + 1
    BY <2>2
  <2>4. \A i \in DOMAIN made : made[i] \in Sent("Timeout")' /\ made[i].view = t.view
    <3> USE <2>1, <2>2 DEF FromSigned
    <3>1. \A i \in DOMAIN old : made[i] \in Sent("Timeout")' /\ made[i].view = t.view
      OBVIOUS
    <3>2. made[Len(old) + 1] \in Sent("Timeout")' /\ made[Len(old) + 1].view = t.view
      OBVIOUS
    <3> QED
      BY <2>3, <3>1, <3>2
  <2>5. ASSUME NEW i \in DOMAIN made, NEW j \in DOMAIN made, made[i].author = made[j].author
        PROVE  i = j
    <3>1. CASE i \in DOMAIN old /\ j \in DOMAIN old
      BY <2>1, <2>2, <2>5, <3>1 DEF FromSigned
    <3>2. CASE i \in DOMAIN old /\ j = Len(old) + 1
      BY <2>1, <2>2, <2>5, <3>2
    <3>3. CASE i = Len(old) + 1 /\ j \in DOMAIN old
      BY <2>1, <2>2, <2>5, <3>3
    <3> QED
      BY <2>3, <3>1, <3>2, <3>3
  <2> QED
    BY <2>4, <2>5 DEF FromSigned
<1>t. tc_makers \in [Replicas -> [Views -> Seq(Timeouts)]]
  BY DEF SafetyInv, TypeInv, TypeOK
<1>5. MakersDistinct'
  <2> SUFFICES ASSUME NEW s \in Replicas, NEW w \in Views
               PROVE  FromSigned(tc_makers[s][w], w)'
    BY DEF MakersDistinct
  <2>1. CASE s = r /\ w = t.view
    <3>1. tc_makers'[s][w] = made
      BY <1>1, <1>2, <1>t, <2>1
    <3>2. \A i \in DOMAIN made : made[i] \in Sent("Timeout")' /\ made[i].view = w
      BY <1>4, <2>1 DEF FromSigned
    <3>3. \A i, j \in DOMAIN made : made[i].author = made[j].author => i = j
      BY <1>4 DEF FromSigned
    <3> QED
      BY <3>1, <3>2, <3>3, Zenon DEF FromSigned
  <2>2. CASE ~(s = r /\ w = t.view)
    <3>1. tc_makers'[s][w] = tc_makers[s][w]
      BY <1>1, <1>2, <1>t, <2>2
    <3>2. FromSigned(tc_makers[s][w], w)
      BY DEF ReportInv, MakersDistinct
    <3>3. msgs \subseteq msgs'
      BY <1>3
    <3> QED
      BY <3>1, <3>2, <3>3 DEF FromSigned, Sent
  <2> QED
    BY <2>1, <2>2
<1>6. TimeoutsReport' /\ FromTC'
  <2>1. CASE msgs' = msgs \cup sent
    <3>1. /\ Sent("Timeout")' \subseteq Sent("Timeout") \cup {t}
          /\ Sent("Prepare")' = Sent("Prepare")
      BY <1>1, <2>1 DEF Sent
    <3>2. TimeoutsReport'
      BY <1>3, <3>1, ReportsStay DEF ReportInv, TimeoutsReport
    <3>3. FromTC'
      BY <1>3, <3>1, SignedStay DEF ReportInv, FromTC, Inherits
    <3> QED
      BY <3>2, <3>3
  <2>2. CASE Len(made) = QuorumThreshold /\ generate_prepare_from_tc(r, tc, sent)
    <3> PICK cut :
          /\ cut = IF get_winning_proposals(tc) = None THEN next
                   ELSE get_winning_proposals(tc)
          /\ SendPrepare(r, next, tc, cut, next, sent)
      BY <2>2 DEF generate_prepare_from_tc
    <3> PICK p : p = [type |-> "Prepare", view |-> next, tc |-> tc, cut |-> cut]
      OBVIOUS
    <3>1. /\ p.tc = tc /\ p.view = next /\ p.cut = cut
          /\ tc.view = t.view /\ tc.timeouts = made
      OBVIOUS
    <3>2. Inherits(p) /\ FromSigned(tc.timeouts, tc.view)'
      BY <1>4, <2>2, <3>1 DEF Inherits
    <3>3. tc # None
      <4>1. t.view \in Views /\ made \in Seq(Timeouts)
        BY <1>1
      <4>2. tc \in TCs
        BY <4>1 DEF TCs
      <4> QED
        BY <4>2, NoneAssumption
    <3>4. \A m \in sent : m.type = "Timeout" /\ HonestReport(m)
      BY <1>1
    <3> QED
      BY <3>2, <3>3, <3>4, SendPrepareReports
  <2> QED
    BY <1>2, <2>1, <2>2
<1> QED
  BY <1>5, <1>6 DEF ReportInv

\* What a step adds to msgs is neither a Timeout nor a Prepare.
SendsNeither ==
    /\ msgs \subseteq msgs'
    /\ \A m \in msgs' \ msgs : m.type # "Timeout" /\ m.type # "Prepare"

LEMMA SendCommitSends ==
    ASSUME NEW r, NEW v, NEW qc, NEW sent, sent \subseteq Votes, SendCommit(r, v, qc, sent)
    PROVE  SendsNeither
<1> PICK c : c = [type |-> "Commit", view |-> v, qc |-> qc, cut |-> consensus_instances[v]]
  OBVIOUS
<1>1. msgs' = msgs \cup sent \cup {c}
  BY DEF SendCommit
<1> QED
  BY <1>1 DEF Votes, SendsNeither

LEMMA SendConfirmSends ==
    ASSUME NEW r, NEW v, NEW qc, NEW sent, sent \subseteq Votes, SendConfirm(r, v, qc, sent)
    PROVE  SendsNeither
<1> PICK c : c = [type |-> "Confirm", view |-> v, qc |-> qc, cut |-> consensus_instances[v]]
  OBVIOUS
<1>1. \/ msgs' = msgs \cup sent \cup {c}
      \/ msgs' = msgs \cup sent \cup {c, ConfirmVote(r, v)}
  BY DEF SendConfirm
<1> QED
  BY <1>1 DEF Votes, ConfirmVote, SendsNeither

LEMMA CountPrepareVoteSends ==
    ASSUME NEW r, NEW v, NEW author, NEW sent, sent \subseteq Votes,
           CountPrepareVote(r, v, author, sent)
    PROVE  SendsNeither
<1>1. CASE msgs' = msgs \cup sent
  BY <1>1 DEF Votes, SendsNeither
<1>2. CASE \E qc : SendCommit(r, v, qc, sent) \/ SendConfirm(r, v, qc, sent)
  BY <1>2, SendCommitSends, SendConfirmSends
<1> QED
  BY <1>1, <1>2 DEF CountPrepareVote

LEMMA ReportInvStep ==
    ASSUME SafetyInv, HeldInv, ReportInv, [Next]_vars
    PROVE  ReportInv'
<1>0. ASSUME SendsNeither, UNCHANGED tc_makers PROVE ReportInv'
  BY <1>0, ReportInvStays DEF SendsNeither
<1>1. ASSUME UNCHANGED <<msgs, tc_makers>> PROVE ReportInv'
  BY <1>0, <1>1 DEF SendsNeither
<1>2. ASSUME NEW r \in Replicas, Propose(r) PROVE ReportInv'
  <2> PICK p : p = [type |-> "Prepare", view |-> 1, tc |-> None, cut |-> 1]
    OBVIOUS
  <2>1. SendPrepare(r, 1, None, 1, views[r], {}) /\ UNCHANGED tc_makers /\ msgs \subseteq msgs'
    BY <1>2 DEF Propose, SendPrepare
  <2>2. TimeoutsReport' /\ FromTC'
    BY <2>1, SendPrepareReports
  <2>3. MakersDistinct'
    BY <2>1, SignedStay DEF ReportInv, MakersDistinct
  <2> QED
    BY <2>2, <2>3 DEF ReportInv
<1>3. ASSUME NEW r \in Replicas, HandlePrepare(r) PROVE ReportInv'
  <2>1. PICK p : msgs' = msgs \cup {PrepareVote(r, p.view)} \/ UNCHANGED msgs
    BY <1>3 DEF HandlePrepare
  <2>2. SendsNeither
    BY <2>1 DEF SendsNeither, PrepareVote
  <2> QED
    BY <1>0, <1>3, <2>2 DEF HandlePrepare
<1>4. ASSUME NEW r \in Replicas, Loopback(r) PROVE ReportInv'
  <2>1. PICK p \in waiting[r] :
          \/ UNCHANGED msgs
          \/ CountPrepareVote(r, p.view, r, {PrepareVote(r, p.view)})
          \/ msgs' = msgs \cup {PrepareVote(r, p.view)}
    BY <1>4 DEF Loopback
  <2>2. {PrepareVote(r, p.view)} \subseteq Votes
    BY DEF SafetyInv, TypeInv, TypeOK, Prepares, Votes, PrepareVote
  <2>3. SendsNeither
    BY <2>1, <2>2, CountPrepareVoteSends DEF SendsNeither, PrepareVote
  <2> QED
    BY <1>0, <1>4, <2>3 DEF Loopback
<1>5. ASSUME NEW r \in Replicas, HandlePrepareVote(r) PROVE ReportInv'
  BY <1>0, <1>5, CountPrepareVoteSends DEF HandlePrepareVote
<1>6. ASSUME NEW r \in Replicas, FastTimerExpires(r) PROVE ReportInv'
  <2>1. UNCHANGED msgs \/ \E v, qc : SendConfirm(r, v, qc, {})
    BY <1>6 DEF FastTimerExpires
  <2>2. SendsNeither
    BY <2>1, SendConfirmSends DEF SendsNeither
  <2> QED
    BY <1>0, <1>6, <2>2 DEF FastTimerExpires
<1>7. ASSUME NEW r \in Replicas, HandleConfirm(r) PROVE ReportInv'
  <2>1. PICK c : msgs' = msgs \cup {ConfirmVote(r, c.view)}
    BY <1>7 DEF HandleConfirm
  <2>2. SendsNeither
    BY <2>1 DEF SendsNeither, ConfirmVote
  <2> QED
    BY <1>0, <1>7, <2>2 DEF HandleConfirm
<1>8. ASSUME NEW r \in Replicas, HandleConfirmVote(r) PROVE ReportInv'
  <2>1. UNCHANGED msgs \/ \E v, qc : SendCommit(r, v, qc, {})
    BY <1>8 DEF HandleConfirmVote
  <2>2. SendsNeither
    BY <2>1, SendCommitSends DEF SendsNeither
  <2> QED
    BY <1>0, <1>8, <2>2 DEF HandleConfirmVote
<1>9. ASSUME NEW r \in Replicas, LocalTimeout(r) PROVE ReportInv'
  <2> DEFINE Report(v) == [type |-> "Timeout", view |-> v, author |-> r,
                           high_qc |-> high_qcs[r], high_prop |-> high_proposals[r]]
  <2>1. PICK v \in timer_futures[r] : /\ <<r, v>> \in Expiring
                                      /\ CountTimeout(r, Report(v), {Report(v)})
    BY <1>9 DEF LocalTimeout
  <2>2. v \in Views /\ v < MaxView
    BY <2>1, ExpiringAssumption DEF SafetyInv, TypeInv, TypeOK
  <2>3. Report(v) \in Timeouts
    BY <2>2 DEF SafetyInv, TypeInv, TypeOK, Timeouts
  <2> PICK t : t = Report(v)
    OBVIOUS
  <2>4. /\ t.view = v /\ t.high_qc = high_qcs[r] /\ t.high_prop = high_proposals[r]
    OBVIOUS
  <2>5. committed_slots[r] = None /\ views[r] <= v
    BY <2>1 DEF CountTimeout
  <2>6. HonestReport(t)
    <3>1. views[r] \in Nat /\ v \in Nat
      BY <2>2 DEF SafetyInv, TypeInv, TypeOK, Views
    <3>2. ASSUME t.high_qc # None
          PROVE  t.high_qc \in Sent("Confirm") /\ t.high_qc.view <= t.view
      <4>1. t.high_qc \in Sent("Confirm") /\ t.high_qc.view <= views[r]
        BY <2>4, <2>5, <3>2 DEF HeldInv
      <4>2. t.high_qc.view \in Nat
        BY <4>1, MessageTypes DEF Sent, SafetyInv, TypeInv, Confirms, Views
      <4> QED
        BY <2>4, <2>5, <3>1, <4>1, <4>2
    <3>3. ASSUME t.high_prop # None
          PROVE  ProposedCut(t.high_prop) /\ t.high_prop.view <= t.view
      <4>1. ProposedCut(t.high_prop) /\ t.high_prop.view <= views[r]
        BY <2>4, <3>3 DEF HeldInv
      <4>2. t.high_prop.view \in Nat
        BY <2>4, <3>3 DEF SafetyInv, TypeInv, TypeOK, HighProposals, Views
      <4> QED
        BY <2>4, <2>5, <3>1, <4>1, <4>2
    <3> QED
      BY <3>2, <3>3 DEF HonestReport
  <2> HIDE DEF Report
  <2>7. CountTimeout(r, t, {t}) /\ t \in Timeouts /\ t.view < MaxView
    BY <2>1, <2>2, <2>3, <2>4
  <2> QED
    BY <2>6, <2>7, CountTimeoutReports
<1>10. ASSUME NEW r \in Replicas, HandleTimeout(r) PROVE ReportInv'
  <2>1. PICK t \in Sent("Timeout") : CountTimeout(r, t, {})
    BY <1>10 DEF HandleTimeout, Sent
  <2>2. t \in Timeouts /\ t.view < MaxView /\ HonestReport(t) /\ t \in msgs
    BY MessageTypes DEF SafetyInv, TypeInv, TimeoutsBelowMaxView, Sent, ReportInv, TimeoutsReport
  <2> QED
    BY <2>1, <2>2, CountTimeoutReports
<1>11. ASSUME NEW r \in Replicas, StartTimer(r) \/ HandleCommit(r) \/ UpdateFastPath(r)
       PROVE  ReportInv'
  BY <1>1, <1>11 DEF StartTimer, HandleCommit, UpdateFastPath
<1> QED
  BY <1>1, <1>2, <1>3, <1>4, <1>5, <1>6, <1>7, <1>8, <1>9, <1>10, <1>11 DEF Next, vars

LEMMA ReportInvAlways == Spec => []ReportInv
<1>1. Init => ReportInv
  BY DEF Init, ReportInv, TimeoutsReport, MakersDistinct, FromTC, FromSigned, Sent
<1> QED
  BY <1>1, ReportInvStep, SafetyInvAlways, HeldInvAlways, PTL DEF Spec
-----------------------------------------------------------------------------
(***************************************************************************)
(* The pass of get_winning_proposals over the Timeouts of a view, when all *)
(* they report is for the same cut.                                        *)
(***************************************************************************)
Winners == [view : Nat, cut : Cuts \cup {None}, weight : [Views -> Nat], final : BOOLEAN]

\* Nothing has won yet, or the cut has.
OnlyWinner(w, cut) ==
    /\ w \in Winners /\ ~w.final
    /\ \/ w.view = 0 /\ w.cut = None
       \/ w.view > 0 /\ w.cut = cut

\* All that t reports is for the cut.
ReportsOnly(t, cut) ==
    /\ t.view \in Views
    /\ t.high_qc # None =>
          t.high_qc.type = "Confirm" /\ t.high_qc.view \in Views /\ t.high_qc.cut = cut
    /\ t.high_prop # None => t.high_prop.view \in Views /\ t.high_prop.cut = cut

LEMMA ValidityBounds ==
    /\ ValidityThreshold \in Nat
    /\ 0 < ValidityThreshold
    /\ ValidityThreshold <= QuorumThreshold
BY SizeIsNatural DEF ValidityThreshold, QuorumThreshold

LEMMA ReadOnlyQC ==
    ASSUME NEW cut \in Cuts, NEW w, OnlyWinner(w, cut), NEW t, ReportsOnly(t, cut)
    PROVE  /\ OnlyWinner(ReadHighQC(w, t), cut)
           /\ w.view > 0 \/ t.high_qc # None => ReadHighQC(w, t).view > 0
           /\ ReadHighQC(w, t).weight = w.weight
<1>1. CASE t.high_qc = None
  BY <1>1 DEF ReadHighQC
<1>2. CASE t.high_qc # None /\ t.high_qc.view <= w.view
  <2>1. /\ t.high_qc.type = "Confirm" /\ ~(t.high_qc.view > w.view)
        /\ t.high_qc.view \in Nat /\ t.high_qc.view > 0 /\ w.view \in Nat
    BY <1>2 DEF ReportsOnly, Views, OnlyWinner, Winners
  <2>2. ReadHighQC(w, t) = w
    BY <1>2, <2>1 DEF ReadHighQC
  <2> QED
    BY <1>2, <2>1, <2>2
<1>3. CASE t.high_qc # None /\ t.high_qc.view > w.view
  <2> PICK u : u = [w EXCEPT !.view = t.view, !.cut = cut]
    OBVIOUS
  <2>1. ReadHighQC(w, t) = u
    <3>1. t.high_qc.type = "Confirm" /\ t.high_qc.cut = cut
      BY <1>3 DEF ReportsOnly
    <3>2. ReadHighQC(w, t) = [w EXCEPT !.view = t.view, !.cut = t.high_qc.cut]
      BY <1>3, <3>1 DEF ReadHighQC
    <3> QED
      BY <3>1, <3>2, Zenon
  <2>2. t.view \in Nat /\ t.view > 0
    BY DEF ReportsOnly, Views
  <2>3. u \in Winners /\ ~u.final /\ u.view > 0 /\ u.cut = cut /\ u.weight = w.weight
    BY <2>2 DEF OnlyWinner, Winners
  <2> QED
    BY <2>1, <2>3 DEF OnlyWinner
<1>4. t.high_qc # None => t.high_qc.view \in Nat /\ w.view \in Nat
  BY DEF ReportsOnly, Views, OnlyWinner, Winners
<1> QED
  BY <1>1, <1>2, <1>3, <1>4

LEMMA ReadOnlyProp ==
    ASSUME NEW cut \in Cuts, NEW w, OnlyWinner(w, cut), NEW t, ReportsOnly(t, cut)
    PROVE  /\ OnlyWinner(ReadHighProp(w, t), cut)
           /\ w.view > 0 => ReadHighProp(w, t).view > 0
           /\ t.high_prop # None /\ ReadHighProp(w, t).view = 0
                 => /\ ReadHighProp(w, t).weight[t.high_prop.view]
                          = w.weight[t.high_prop.view] + 1
                    /\ w.weight[t.high_prop.view] + 1 < ValidityThreshold
<1>1. CASE t.high_prop = None
  BY <1>1 DEF ReadHighProp
<1>2. CASE t.high_prop # None
  <2> PICK p : p = t.high_prop
    OBVIOUS
  <2> PICK weight : weight = w.weight[p.view] + 1
    OBVIOUS
  <2> PICK counted : counted = [w EXCEPT !.weight[p.view] = weight]
    OBVIOUS
  <2> PICK won : won = [counted EXCEPT !.view = p.view, !.cut = p.cut]
    OBVIOUS
  <2>1. /\ p.view \in Views /\ p.view \in Nat /\ p.view > 0 /\ p.cut = cut
        /\ w \in Winners /\ ~w.final /\ w.view \in Nat
        /\ w.weight \in [Views -> Nat] /\ weight \in Nat
    <3>1. p.view \in Views /\ p.cut = cut
      BY <1>2 DEF ReportsOnly
    <3>2. /\ w \in Winners /\ ~w.final /\ w.view \in Nat
          /\ w.weight \in [Views -> Nat]
      BY DEF OnlyWinner, Winners
    <3>3. p.view \in Nat /\ p.view > 0
      BY <3>1 DEF Views
    <3> QED
      BY <3>1, <3>2, <3>3
  <2>2. ReadHighProp(w, t) = IF p.view <= w.view THEN w
                             ELSE IF weight >= ValidityThreshold THEN won ELSE counted
    BY <1>2, <2>1, Zenon DEF ReadHighProp
  <2>3. /\ counted \in Winners /\ ~counted.final
        /\ counted.view = w.view /\ counted.cut = w.cut
        /\ counted.weight[p.view] = weight
    <3> PICK weights : weights = [w.weight EXCEPT ![p.view] = weight]
      OBVIOUS
    <3>1. weights \in [Views -> Nat] /\ weights[p.view] = weight
      BY <2>1
    <3>2. counted = [w EXCEPT !.weight = weights]
      BY <2>1 DEF Winners
    <3> QED
      BY <2>1, <3>1, <3>2 DEF Winners
  <2>4. won \in Winners /\ ~won.final /\ won.view = p.view /\ won.cut = cut
    BY <2>1, <2>3 DEF Winners
  <2>5. ValidityThreshold \in Nat
    BY ValidityBounds
  <2>6. CASE p.view <= w.view
    BY <2>1, <2>2, <2>6
  <2>7. CASE ~(p.view <= w.view) /\ weight >= ValidityThreshold
    <3>1. ReadHighProp(w, t) = won /\ won.view > 0
      BY <2>1, <2>2, <2>4, <2>7
    <3>2. OnlyWinner(won, cut)
      BY <2>4, <3>1 DEF OnlyWinner
    <3> QED
      BY <3>1, <3>2
  <2>8. CASE ~(p.view <= w.view) /\ ~(weight >= ValidityThreshold)
    BY <2>1, <2>2, <2>3, <2>5, <2>8 DEF OnlyWinner
  <2> QED
    BY <2>6, <2>7, <2>8
<1> QED
  BY <1>1, <1>2

\* What has been read up to the i-th Timeout: a Confirm has won at once, and so
\* has a Prepare of view v that all report, when they reach the validity threshold.
ReadSoFar(w, timeouts, i, v, cut) ==
    /\ OnlyWinner(w, cut)
    /\ (\E j \in 1 .. i : timeouts[j].high_qc # None) => w.view > 0
    /\ (\A j \in 1 .. i : timeouts[j].high_prop # None /\ timeouts[j].high_prop.view = v)
         /\ w.view = 0
          => w.weight[v] = i /\ i < ValidityThreshold

LEMMA OnePass ==
    ASSUME NEW cut \in Cuts, NEW v \in Views, NEW timeouts, NEW n \in Nat,
           \A i \in 1 .. n : ReportsOnly(timeouts[i], cut),
           NEW f, Pass(f, timeouts, n)
    PROVE  ReadSoFar(f[n], timeouts, n, v, cut)
<1> PICK T : T = {i \in 0 .. n : ReadSoFar(f[i], timeouts, i, v, cut)}
  OBVIOUS
<1>1. 0 \in T
  <2>1. f[0] = NoWinner
    BY DEF Pass
  <2>2. /\ NoWinner \in Winners /\ ~NoWinner.final
        /\ NoWinner.view = 0 /\ NoWinner.cut = None
        /\ NoWinner.weight[v] = 0
    BY DEF NoWinner, Winners
  <2> QED
    BY <2>1, <2>2, ValidityBounds DEF ReadSoFar, OnlyWinner
<1>2. ASSUME NEW i \in 1 .. n, i - 1 \in T
      PROVE  i \in T
  <2> PICK w : w = f[i - 1]
    OBVIOUS
  <2> PICK t : t = timeouts[i]
    OBVIOUS
  <2> PICK u : u = ReadHighQC(w, t)
    OBVIOUS
  <2>1. ReadSoFar(w, timeouts, i - 1, v, cut) /\ ReportsOnly(t, cut)
    BY <1>2
  <2>2. f[i] = ReadHighProp(u, t)
    <3>1. f[i] = ReadTimeout(w, t)
      BY DEF Pass
    <3>2. ~w.final
      BY <2>1 DEF ReadSoFar, OnlyWinner
    <3> QED
      BY <3>1, <3>2 DEF ReadTimeout
  <2>3. /\ OnlyWinner(u, cut) /\ u.weight = w.weight
        /\ w.view > 0 \/ t.high_qc # None => u.view > 0
    BY <2>1, ReadOnlyQC DEF ReadSoFar
  <2>4. /\ OnlyWinner(f[i], cut)
        /\ u.view > 0 => f[i].view > 0
        /\ t.high_prop # None /\ f[i].view = 0
              => /\ f[i].weight[t.high_prop.view] = u.weight[t.high_prop.view] + 1
                 /\ u.weight[t.high_prop.view] + 1 < ValidityThreshold
    BY <2>1, <2>2, <2>3, ReadOnlyProp
  <2>5. (\E j \in 1 .. i : timeouts[j].high_qc # None) => f[i].view > 0
    <3>1. \A j \in 1 .. i : j \in 1 .. (i - 1) \/ j = i
      OBVIOUS
    <3> QED
      BY <2>1, <2>3, <2>4, <3>1 DEF ReadSoFar
  <2>6. ASSUME \A j \in 1 .. i : timeouts[j].high_prop # None /\ timeouts[j].high_prop.view = v,
               f[i].view = 0
        PROVE  f[i].weight[v] = i /\ i < ValidityThreshold
    <3>1. /\ \A j \in 1 .. (i - 1) :
                timeouts[j].high_prop # None /\ timeouts[j].high_prop.view = v
          /\ t.high_prop # None /\ t.high_prop.view = v
      BY <2>6
    <3>2. w.view = 0
      BY <2>1, <2>3, <2>4, <2>6 DEF ReadSoFar, OnlyWinner
    <3>3. w.weight[v] = i - 1
      BY <2>1, <3>1, <3>2 DEF ReadSoFar
    <3> QED
      BY <2>3, <2>4, <2>6, <3>1, <3>3
  <2> QED
    BY <2>4, <2>5, <2>6 DEF ReadSoFar
<1>3. \A i \in 0 .. n : i \in T
  BY <1>1, <1>2, UpTo
<1> QED
  BY <1>3

\* As many replicas as Timeouts signed the Timeouts.
AuthorsOf(timeouts, n) == {timeouts[i].author : i \in 1 .. n}

LEMMA AuthorsAreMany ==
    ASSUME NEW timeouts, NEW n \in Nat, \A i \in 1 .. n : timeouts[i].author \in Replicas,
           \A i, j \in 1 .. n : timeouts[i].author = timeouts[j].author => i = j
    PROVE  /\ AuthorsOf(timeouts, n) \subseteq Replicas
           /\ Cardinality(AuthorsOf(timeouts, n)) = n
<1> PICK A : A = AuthorsOf(timeouts, n)
  OBVIOUS
<1> PICK g : g = [i \in 1 .. n |-> timeouts[i].author]
  OBVIOUS
<1>1. g \in Bijection(1 .. n, A)
  BY DEF AuthorsOf, Bijection, Injection, Surjection, IsInjective
<1>2. IsFiniteSet(1 .. n) /\ Cardinality(1 .. n) = n
  BY FS_Interval
<1>3. Cardinality(A) = n
  BY <1>1, <1>2, FS_Bijection DEF ExistsBijection
<1> QED
  BY <1>3 DEF AuthorsOf

\* The Prepare of a view change, when everything proposed before is c's cut.
LEMMA NextViewKeeps ==
    ASSUME SafetyInv, ReportInv, \A t \in Sent("Timeout") : ~OmitsVote(t),
           NEW c \in Sent("Commit"), NEW p \in Sent("Prepare"), p.view > c.view,
           \A q \in Sent("Prepare") : q.view < p.view => q.cut = c.cut,
           c.qc.phase = "Confirm" \/ p.view = c.view + 1
    PROVE  p.cut = c.cut
<1> PICK timeouts : timeouts = p.tc.timeouts
  OBVIOUS
<1> PICK n : n = QuorumThreshold
  OBVIOUS
<1> PICK v : v = c.view
  OBVIOUS
<1>0. /\ c \in Commits /\ c.cut \in Cuts /\ c.cut # None /\ v \in Views /\ v \in Nat /\ v > 0
      /\ p \in Prepares /\ p.view \in Nat
  BY MessageTypes, NoneAssumption DEF Sent, SafetyInv, TypeInv, Commits, Prepares, Views
<1>1. /\ p.view = p.tc.view + 1 /\ p.tc.view \in Nat /\ Len(timeouts) = n /\ n \in Nat
      /\ FromSigned(timeouts, p.tc.view)
      /\ p.cut = IF get_winning_proposals(p.tc) = None THEN p.view
                 ELSE get_winning_proposals(p.tc)
  <2>1. p.tc # None
    BY <1>0 DEF ReportInv, FromTC
  <2>2. Inherits(p) /\ FromSigned(timeouts, p.tc.view)
    BY <2>1 DEF ReportInv, FromTC
  <2>3. p.tc.view \in Nat
    BY <1>0, <2>1 DEF Prepares, TCs, Views
  <2> QED
    BY <2>2, <2>3, QuorumBounds DEF Inherits
<1>2. DOMAIN timeouts = 1 .. n
  <2>1. p.tc \in TCs
    BY <1>0 DEF ReportInv, FromTC, Prepares
  <2> QED
    BY <1>1, <2>1 DEF TCs
<1>4. /\ c.qc.view = v /\ VotedBy(c.qc) /\ c.qc.votes \subseteq Replicas
      /\ \/ c.qc.phase = "Confirm" /\ IsQuorum(c.qc.votes)
         \/ c.qc.phase = "Prepare" /\ c.qc.votes = Replicas
  BY <1>0 DEF SafetyInv, CertificatesJustified, Backed, VerifyQC, Commits, QCs
<1>5. \A m : ProposedCut(m) /\ m.view < p.view => m.cut = c.cut
  BY DEF ProposedCut
<1>6. ASSUME NEW i \in 1 .. n
      PROVE  /\ timeouts[i] \in Sent("Timeout") /\ timeouts[i].author \in Replicas
             /\ ReportsOnly(timeouts[i], c.cut) /\ ~OmitsVote(timeouts[i])
             /\ v \in 1 .. timeouts[i].view
             /\ timeouts[i].high_prop # None
                   => timeouts[i].high_prop.view \in Nat /\ timeouts[i].high_prop.view < p.view
  <2> PICK t : t = timeouts[i]
    OBVIOUS
  <2>1. t \in Sent("Timeout") /\ t.view = p.tc.view /\ HonestReport(t)
    BY <1>1, <1>2 DEF FromSigned, ReportInv, TimeoutsReport
  <2>2. t \in Timeouts /\ t.view < p.view
    BY <1>1, <2>1, MessageTypes DEF Sent, SafetyInv, TypeInv
  <2>3. ASSUME t.high_qc # None
        PROVE  /\ t.high_qc.type = "Confirm" /\ t.high_qc.view \in Views
               /\ t.high_qc.cut = c.cut
    <3>1. t.high_qc \in Sent("Confirm") /\ t.high_qc.view <= t.view
      BY <2>1, <2>3 DEF HonestReport
    <3>2. t.high_qc.view \in Views /\ t.high_qc.view < p.view
      <4>1. t.high_qc.view \in Views /\ t.high_qc.view \in Nat /\ t.view \in Nat
        BY <2>2, <3>1, MessageTypes DEF Sent, SafetyInv, TypeInv, Confirms, Timeouts, Views
      <4> QED
        BY <1>0, <2>2, <3>1, <4>1
    <3>3. ProposedCut(t.high_qc)
      BY <3>1 DEF SafetyInv, CertificatesJustified, Backed
    <3> QED
      BY <1>5, <3>1, <3>2, <3>3 DEF Sent
  <2>4. ASSUME t.high_prop # None
        PROVE  /\ t.high_prop.view \in Views /\ t.high_prop.view \in Nat
               /\ t.high_prop.view < p.view /\ t.high_prop.cut = c.cut
    <3>1. ProposedCut(t.high_prop) /\ t.high_prop.view <= t.view
      BY <2>1, <2>4 DEF HonestReport
    <3>2. t.high_prop.view \in Views /\ t.high_prop.view \in Nat /\ t.view \in Nat
      BY <2>2, <2>4 DEF Timeouts, HighProposals, Views
    <3>3. t.high_prop.view < p.view
      BY <1>0, <2>2, <3>1, <3>2
    <3> QED
      BY <1>5, <3>1, <3>2, <3>3
  <2>5. v \in 1 .. t.view /\ t.view \in Views /\ t.author \in Replicas
    BY <1>0, <1>1, <2>1, <2>2 DEF Timeouts
  <2> QED
    BY <1>6, <2>1, <2>3, <2>4, <2>5 DEF ReportsOnly
<1>7. PICK f : /\ Pass(f, timeouts, n)
               /\ get_winning_proposals(p.tc) = f[n].cut
  BY <1>1, WinnerOfPass
<1>8. ReadSoFar(f[n], timeouts, n, v, c.cut)
  BY <1>0, <1>1, <1>6, <1>7, OnePass
<1>9. f[n].view > 0
  <2> PICK A : A = AuthorsOf(timeouts, n)
    OBVIOUS
  <2>1. A \subseteq Replicas /\ IsQuorum(A)
    <3>1. \A i, j \in 1 .. n : timeouts[i].author = timeouts[j].author => i = j
      BY <1>1, <1>2 DEF FromSigned
    <3>2. A \subseteq Replicas /\ Cardinality(A) = n
      <4>1. n \in Nat /\ \A i \in 1 .. n : timeouts[i].author \in Replicas
        BY <1>1, <1>6
      <4> QED
        BY <3>1, <4>1, AuthorsAreMany
    <3> QED
      BY <1>1, <3>2 DEF IsQuorum
  <2>2. CASE c.qc.phase = "Confirm" /\ IsQuorum(c.qc.votes)
    <3>1. PICK a \in A : a \in c.qc.votes
      <4>1. Cardinality(A \cap c.qc.votes) >= ValidityThreshold
        BY <1>4, <2>1, <2>2, QuorumsShareValidity
      <4>2. ASSUME A \cap c.qc.votes = {} PROVE FALSE
        <5>1. Cardinality(A \cap c.qc.votes) = 0
          BY <4>2, FS_EmptySet, Zenon
        <5> QED
          BY <4>1, <5>1, ValidityBounds
      <4> QED
        BY <4>2
    <3>2. PICK i \in 1 .. n : timeouts[i].author = a
      BY DEF AuthorsOf
    <3>3. ConfirmVote(a, v) \in msgs
      BY <1>4, <2>2, <3>1 DEF VotedBy, ConfirmVote
    <3>4. timeouts[i].high_qc # None
      BY <1>6, <3>2, <3>3 DEF OmitsVote, Reports
    <3> QED
      BY <1>8, <3>4 DEF ReadSoFar
  <2>3. CASE c.qc.phase = "Prepare" /\ c.qc.votes = Replicas
    <3>1. ASSUME NEW i \in 1 .. n
          PROVE  timeouts[i].high_prop # None /\ timeouts[i].high_prop.view = v
      <4>1. PrepareVote(timeouts[i].author, v) \in msgs
        BY <1>4, <1>6, <2>3 DEF VotedBy, PrepareVote
      <4>2. Reports(timeouts[i].high_prop, v)
        BY <1>6, <2>3, <4>1 DEF OmitsVote
      <4>3. p.view = v + 1
        BY <2>3
      <4> QED
        BY <1>0, <1>6, <4>2, <4>3 DEF Reports
    <3> QED
      BY <1>1, <1>8, <3>1, ValidityBounds DEF ReadSoFar, OnlyWinner, Winners
  <2> QED
    BY <1>4, <2>2, <2>3
<1> QED
  BY <1>0, <1>1, <1>7, <1>8, <1>9 DEF ReadSoFar, OnlyWinner

(***************************************************************************)
(* A Commit whose cut no earlier view contests is kept: of the slow path   *)
(* by every later view, of the fast path by the next one.  (Two views      *)
(* after a fast Commit the Prepares reported may be of different views,    *)
(* and get_winning_proposals counts each view apart.)                      *)
(***************************************************************************)
Uncontested(c) == \A q \in Sent("Prepare") : q.view <= c.view => q.cut = c.cut

UncontestedCutsAreKept ==
    (\A t \in Sent("Timeout") : ~OmitsVote(t))
       => \A c \in Sent("Commit"), p \in Sent("Prepare") :
             /\ Uncontested(c)
             /\ p.view > c.view
             /\ c.qc.phase = "Confirm" \/ p.view = c.view + 1
             => p.cut = c.cut

LEMMA LaterViewsKeep == ASSUME SafetyInv, ReportInv PROVE UncontestedCutsAreKept
<1> SUFFICES ASSUME \A t \in Sent("Timeout") : ~OmitsVote(t),
                    NEW c \in Sent("Commit"), NEW p \in Sent("Prepare"),
                    Uncontested(c), p.view > c.view,
                    c.qc.phase = "Confirm" \/ p.view = c.view + 1
             PROVE  p.cut = c.cut
  BY DEF UncontestedCutsAreKept
<1>0. /\ c.view \in Nat /\ MaxView \in Nat
      /\ \A q \in Sent("Prepare") : q.view \in Nat /\ q.view \in 1 .. MaxView
  BY SlotAssumption, MessageTypes DEF Sent, SafetyInv, TypeInv, Commits, Prepares, Views
<1>1. CASE c.qc.phase = "Confirm"
  <2> PICK T : T = {k \in 0 .. MaxView : \A q \in Sent("Prepare") : q.view <= k => q.cut = c.cut}
    OBVIOUS
  <2>1. 0 \in T
    BY <1>0
  <2>2. ASSUME NEW k \in 1 .. MaxView, k - 1 \in T
        PROVE  k \in T
    <3> SUFFICES ASSUME NEW q \in Sent("Prepare"), q.view = k
                 PROVE  q.cut = c.cut
      BY <1>0, <2>2
    <3>1. CASE k <= c.view
      BY <3>1 DEF Uncontested
    <3>2. CASE k > c.view
      <4>1. \A o \in Sent("Prepare") : o.view < q.view => o.cut = c.cut
        BY <1>0, <2>2
      <4> QED
        BY <1>1, <3>2, <4>1, NextViewKeeps
    <3> QED
      BY <1>0, <3>1, <3>2
  <2>3. \A k \in 0 .. MaxView : k \in T
    BY <1>0, <2>1, <2>2, UpTo
  <2> QED
    BY <1>0, <2>3
<1>2. CASE p.view = c.view + 1
  <2>1. \A q \in Sent("Prepare") : q.view < p.view => q.cut = c.cut
    BY <1>0, <1>2 DEF Uncontested
  <2> QED
    BY <1>2, <2>1, NextViewKeeps
<1> QED
  BY <1>1, <1>2

(***************************************************************************)
(* When no Timeout omits a vote and no earlier view contests the cut of a  *)
(* Commit, later Prepares are for that cut: of a slow Commit in every      *)
(* later view, of a fast one in the next.  For any number of views.        *)
(***************************************************************************)
THEOREM LaterViewsKeepUncontested == Spec => []UncontestedCutsAreKept
BY LaterViewsKeep, SafetyInvAlways, ReportInvAlways, PTL

(***************************************************************************)
(* Within two views no cut is contested: the view change recovers whatever *)
(* committed on either path, as long as no Timeout omits a vote, for a     *)
(* committee of any size.  With a third view the first Confirm read may be *)
(* of an older view than the Commit's, and it does not.                    *)
(***************************************************************************)
THEOREM ViewChangeRecovers ==
    ASSUME MaxView <= 2
    PROVE  Spec => []RecoversReportedVotes
<1>1. ASSUME SafetyInv, ReportInv PROVE RecoversReportedVotes
  <2> SUFFICES ASSUME \A t \in Sent("Timeout") : ~OmitsVote(t),
                      NEW c \in Sent("Commit"), NEW p \in Sent("Prepare"), p.view > c.view
               PROVE  p.cut = c.cut
    BY DEF RecoversReportedVotes, CommittedCutsAreKept
  <2>1. c.view \in 1 .. MaxView /\ \A q \in Sent("Prepare") : q.view \in 1 .. MaxView
    BY <1>1, MessageTypes DEF Sent, SafetyInv, TypeInv, Commits, Prepares, Views
  <2>2. c.view = 1 /\ p.view = 2
    BY <2>1, SlotAssumption
  <2>3. Uncontested(c)
    <3>1. PICK q \in Sent("Prepare") : q.view = 1 /\ q.cut = c.cut
      BY <1>1, <2>2 DEF SafetyInv, CertificatesJustified, Backed, ProposedCut
    <3> QED
      BY <1>1, <2>1, <2>2, <3>1 DEF Uncontested, SafetyInv, OnePrepare
  <2> QED
    BY <1>1, <2>2, <2>3, LaterViewsKeep DEF UncontestedCutsAreKept
<1> QED
  BY <1>1, SafetyInvAlways, ReportInvAlways, PTL

\* Replicas that committed the slot committed the same cut, if no Timeout omits
\* a vote.
CommitsAgree ==
    (\A t \in Sent("Timeout") : ~OmitsVote(t)) =>
        \A r, s \in Replicas :
            /\ committed_slots[r] # None
            /\ committed_slots[s] # None
            => committed_slots[r].cut = committed_slots[s].cut

(***************************************************************************)
(* Within two views replicas agree on the cut of a slot, whichever view    *)
(* and path each committed it on, as long as no Timeout omits a vote.      *)
(***************************************************************************)
THEOREM TwoViewsAgree ==
    ASSUME MaxView <= 2
    PROVE  Spec => []CommitsAgree
<1>1. ASSUME SafetyInv, RecoversReportedVotes, OneCutPerView PROVE CommitsAgree
  <2> SUFFICES ASSUME \A t \in Sent("Timeout") : ~OmitsVote(t),
                      NEW r \in Replicas, committed_slots[r] # None,
                      NEW s \in Replicas, committed_slots[s] # None
               PROVE  committed_slots[r].cut = committed_slots[s].cut
    BY DEF CommitsAgree
  <2> DEFINE c == committed_slots[r]
             d == committed_slots[s]
  <2>1. c \in Sent("Commit") /\ d \in Sent("Commit")
    BY <1>1 DEF SafetyInv, CertificatesJustified, TypeInv, TypeOK, Sent, Commits
  <2>2. c.view \in Nat /\ d.view \in Nat
    BY <1>1, <2>1, MessageTypes DEF Sent, SafetyInv, TypeInv, Commits, Views
  <2> HIDE DEF c, d
  <2>3. ASSUME NEW x \in Sent("Commit"), NEW y \in Sent("Commit"), y.view > x.view
        PROVE  x.cut = y.cut
    <3>1. PICK q \in Sent("Prepare") : q.view = y.view /\ q.cut = y.cut
      BY <1>1 DEF SafetyInv, CertificatesJustified, Backed, ProposedCut
    <3> QED
      BY <1>1, <2>3, <3>1 DEF RecoversReportedVotes, CommittedCutsAreKept
  <2>4. CASE c.view = d.view
    BY <1>1, <2>4 DEF OneCutPerView, c, d
  <2>5. CASE c.view # d.view
    <3>1. c.cut = d.cut
      BY <2>1, <2>2, <2>3, <2>5
    <3> QED
      BY <3>1 DEF c, d
  <2> QED
    BY <2>4, <2>5
<1> QED
  BY <1>1, SafetyInvAlways, ViewChangeRecovers, AgreementInAView, PTL
-----------------------------------------------------------------------------
(***************************************************************************)
(* Any number of views.  That the cut of the highest QC wins is what the   *)
(* names in get_winning_proposals promise and the code does not keep       *)
(* (HighestQCWins); it is also all that is missing: where it holds, a slow *)
(* Commit needs no other condition on the views before it.                 *)
(***************************************************************************)
\* A Timeout omits a Confirm vote: its author votes on the Confirm of its view,
\* or of a view below, and it reports no Confirm as high.
OmitsConfirmVote(t) ==
    \E v \in 1 .. t.view : ConfirmVote(t.author, v) \in msgs /\ ~Reports(t.high_qc, v)

SlowCommitsAreKept ==
    \A c \in Sent("Commit"), p \in Sent("Prepare") :
        c.qc.phase = "Confirm" /\ p.view > c.view => p.cut = c.cut

HighestQCKeeps ==
    (\A t \in Sent("Timeout") : ~OmitsConfirmVote(t)) /\ HighestQCWins => SlowCommitsAreKept

\* The Timeouts of a TC hold, after a slow Commit, a Confirm of its view or above.
LEMMA TCReportsCommit ==
    ASSUME SafetyInv, ReportInv, \A t \in Sent("Timeout") : ~OmitsConfirmVote(t),
           NEW c \in Sent("Commit"), c.qc.phase = "Confirm",
           NEW p \in Sent("Prepare"), p.view > c.view
    PROVE  /\ p.tc # None
           /\ \A q \in HighQCsOf(p.tc) :
                 q \in Sent("Confirm") /\ q.view \in Views /\ q.view < p.view
           /\ \E q \in HighQCsOf(p.tc) : q.view >= c.view
<1> PICK timeouts : timeouts = p.tc.timeouts
  OBVIOUS
<1> PICK n : n = QuorumThreshold
  OBVIOUS
<1> PICK v : v = c.view
  OBVIOUS
<1>0. /\ c \in Commits /\ v \in Views /\ v \in Nat /\ v > 0
      /\ p \in Prepares /\ p.view \in Nat
  BY MessageTypes DEF Sent, SafetyInv, TypeInv, Commits, Prepares, Views
<1>1. p.tc # None
  BY <1>0 DEF ReportInv, FromTC
<1>2. /\ p.view = p.tc.view + 1 /\ p.tc.view \in Nat /\ Len(timeouts) = n /\ n \in Nat
      /\ FromSigned(timeouts, p.tc.view) /\ DOMAIN timeouts = 1 .. n
  <2>1. Inherits(p) /\ FromSigned(timeouts, p.tc.view)
    BY <1>1 DEF ReportInv, FromTC
  <2>2. p.tc \in TCs /\ p.tc.view \in Nat
    BY <1>0, <1>1 DEF Prepares, TCs, Views
  <2>3. Len(timeouts) = n /\ n \in Nat
    BY <2>1, QuorumBounds DEF Inherits
  <2>4. DOMAIN timeouts = 1 .. n
    BY <2>2, <2>3 DEF TCs
  <2> QED
    BY <2>1, <2>2, <2>3, <2>4 DEF Inherits
<1>3. HighQCsOf(p.tc) = {timeouts[i].high_qc : i \in 1 .. n} \ {None}
  BY <1>2 DEF HighQCsOf
<1>4. ASSUME NEW i \in 1 .. n
      PROVE  /\ timeouts[i] \in Sent("Timeout") /\ timeouts[i].author \in Replicas
             /\ v \in 1 .. timeouts[i].view
             /\ timeouts[i].high_qc # None =>
                   /\ timeouts[i].high_qc \in Sent("Confirm")
                   /\ timeouts[i].high_qc.view \in Views
                   /\ timeouts[i].high_qc.view < p.view
  <2> PICK t : t = timeouts[i]
    OBVIOUS
  <2>1. t \in Sent("Timeout") /\ t.view = p.tc.view /\ HonestReport(t)
    BY <1>2 DEF FromSigned, ReportInv, TimeoutsReport
  <2>2. t \in Timeouts /\ t.view \in Nat /\ t.view < p.view
    BY <1>2, <2>1, MessageTypes DEF Sent, SafetyInv, TypeInv
  <2>3. ASSUME t.high_qc # None
        PROVE  /\ t.high_qc \in Sent("Confirm") /\ t.high_qc.view \in Views
               /\ t.high_qc.view < p.view
    <3>1. t.high_qc \in Sent("Confirm") /\ t.high_qc.view <= t.view
      BY <2>1, <2>3 DEF HonestReport
    <3>2. t.high_qc.view \in Views /\ t.high_qc.view \in Nat
      BY <3>1, MessageTypes DEF Sent, SafetyInv, TypeInv, Confirms, Views
    <3> QED
      BY <1>0, <2>2, <3>1, <3>2
  <2>4. v \in 1 .. t.view /\ t.author \in Replicas
    BY <1>0, <1>2, <2>1, <2>2 DEF Timeouts
  <2> QED
    BY <2>1, <2>3, <2>4
<1>5. c.qc.view = v /\ VotedBy(c.qc) /\ c.qc.votes \subseteq Replicas /\ IsQuorum(c.qc.votes)
  BY <1>0 DEF SafetyInv, CertificatesJustified, Backed, VerifyQC, Commits, QCs
<1>6. PICK i \in 1 .. n : timeouts[i].author \in c.qc.votes
  <2> PICK A : A = AuthorsOf(timeouts, n)
    OBVIOUS
  <2>1. A \subseteq Replicas /\ IsQuorum(A)
    <3>1. \A i, j \in 1 .. n : timeouts[i].author = timeouts[j].author => i = j
      BY <1>2 DEF FromSigned
    <3>2. n \in Nat /\ \A i \in 1 .. n : timeouts[i].author \in Replicas
      BY <1>2, <1>4
    <3>3. A \subseteq Replicas /\ Cardinality(A) = n
      BY <3>1, <3>2, AuthorsAreMany
    <3> QED
      BY <1>2, <3>3 DEF IsQuorum
  <2>2. Cardinality(A \cap c.qc.votes) >= ValidityThreshold
    BY <1>5, <2>1, QuorumsShareValidity
  <2>3. ASSUME A \cap c.qc.votes = {} PROVE FALSE
    <3>1. Cardinality(A \cap c.qc.votes) = 0
      BY <2>3, FS_EmptySet, Zenon
    <3> QED
      BY <2>2, <3>1, ValidityBounds
  <2> QED
    BY <2>3 DEF AuthorsOf
<1>7. timeouts[i].high_qc # None /\ timeouts[i].high_qc.view >= v
  <2>1. ConfirmVote(timeouts[i].author, v) \in msgs
    BY <1>5, <1>6 DEF VotedBy, ConfirmVote
  <2>2. ~OmitsConfirmVote(timeouts[i])
    BY <1>4
  <2> QED
    BY <1>4, <2>1, <2>2 DEF OmitsConfirmVote, Reports
<1>8. \A q \in HighQCsOf(p.tc) :
          q \in Sent("Confirm") /\ q.view \in Views /\ q.view < p.view
  BY <1>3, <1>4
<1>9. timeouts[i].high_qc \in HighQCsOf(p.tc)
  BY <1>3, <1>7
<1> QED
  BY <1>1, <1>7, <1>8, <1>9

LEMMA HighestView ==
    ASSUME NEW H, H # {}, \A q \in H : q.view \in Views
    PROVE  \E q \in H : \A o \in H : o.view <= q.view
<1>1. MaxView \in Nat
  BY SlotAssumption
<1> DEFINE U == {MaxView - q.view : q \in H}
<1>2. U \subseteq Nat /\ U # {}
  BY <1>1 DEF Views
<1> HIDE DEF U
<1>3. PICK x \in U : \A y \in U : x <= y
  BY <1>2, LeastNatural
<1>4. PICK q \in H : x = MaxView - q.view
  BY DEF U
<1>5. ASSUME NEW o \in H PROVE o.view <= q.view
  <2>1. MaxView - o.view \in U
    BY DEF U
  <2>2. x <= MaxView - o.view
    BY <1>3, <2>1
  <2>3. o.view \in Nat /\ q.view \in Nat
    BY DEF Views
  <2> QED
    BY <1>1, <1>4, <2>2, <2>3
<1> QED
  BY <1>5

LEMMA SlowCommitsKept == ASSUME SafetyInv, ReportInv PROVE HighestQCKeeps
<1> SUFFICES ASSUME \A t \in Sent("Timeout") : ~OmitsConfirmVote(t), HighestQCWins,
                    NEW c \in Sent("Commit"), c.qc.phase = "Confirm"
             PROVE  \A p \in Sent("Prepare") : p.view > c.view => p.cut = c.cut
  BY DEF HighestQCKeeps, SlowCommitsAreKept
<1>0. /\ c.view \in Nat /\ MaxView \in Nat
      /\ \A p \in Sent("Prepare") : p.view \in Nat /\ p.view \in 1 .. MaxView
  BY SlotAssumption, MessageTypes DEF Sent, SafetyInv, TypeInv, Commits, Prepares, Views
<1>1. PICK first \in Sent("Prepare") : first.view = c.view /\ first.cut = c.cut
  BY DEF SafetyInv, CertificatesJustified, Backed, ProposedCut
<1> PICK T : T = {k \in 0 .. MaxView : \A p \in Sent("Prepare") :
                     p.view > c.view /\ p.view <= k => p.cut = c.cut}
  OBVIOUS
<1>2. 0 \in T
  BY <1>0
<1>3. ASSUME NEW k \in 1 .. MaxView, k - 1 \in T
      PROVE  k \in T
  <2> SUFFICES ASSUME NEW p \in Sent("Prepare"), p.view > c.view, p.view = k
               PROVE  p.cut = c.cut
    BY <1>0, <1>3
  <2> PICK H : H = HighQCsOf(p.tc)
    OBVIOUS
  <2>1. /\ p.tc # None
        /\ \A q \in H : q \in Sent("Confirm") /\ q.view \in Views /\ q.view < p.view
        /\ \E q \in H : q.view >= c.view
    BY TCReportsCommit
  <2>2. PICK q \in H : \A o \in H : o.view <= q.view
    BY <2>1, HighestView
  <2>3. /\ q \in Sent("Confirm") /\ q.view \in Nat
        /\ q.view >= c.view /\ q.view < p.view
    <3>1. PICK o \in H : o.view >= c.view
      BY <2>1
    <3>2. o.view \in Nat /\ q.view \in Nat /\ o.view <= q.view
      BY <2>1, <2>2 DEF Views
    <3> QED
      BY <1>0, <2>1, <3>1, <3>2
  <2>4. PICK o \in Sent("Prepare") : o.view = q.view /\ o.cut = q.cut
    BY <2>3 DEF SafetyInv, CertificatesJustified, Backed, ProposedCut
  <2>5. q.cut = c.cut
    <3>1. CASE q.view = c.view
      BY <1>1, <2>4, <3>1 DEF SafetyInv, OnePrepare
    <3>2. CASE q.view > c.view
      BY <1>0, <1>3, <2>3, <2>4, <3>2
    <3> QED
      BY <1>0, <2>3, <3>1, <3>2
  <2>6. p.cut = q.cut
    BY <2>1, <2>2 DEF HighestQCWins
  <2> QED
    BY <2>5, <2>6
<1>4. \A k \in 0 .. MaxView : k \in T
  BY <1>0, <1>2, <1>3, UpTo
<1> QED
  BY <1>0, <1>4

(***************************************************************************)
(* If no Timeout omits a Confirm vote and the highest QC of a TC wins, a   *)
(* slow Commit binds every later view: for any number of views, whatever   *)
(* was proposed before it (get_winning_proposals, messages.rs).            *)
(***************************************************************************)
THEOREM HighestQCRecovers == Spec => []HighestQCKeeps
BY SlowCommitsKept, SafetyInvAlways, ReportInvAlways, PTL

\* A replica that committed on the slow path agrees with each that committed in
\* the same view or a later one.
SlowCommitsAgree ==
    (\A t \in Sent("Timeout") : ~OmitsConfirmVote(t)) /\ HighestQCWins =>
        \A r, s \in Replicas :
            /\ committed_slots[r] # None
            /\ committed_slots[s] # None
            /\ committed_slots[r].qc.phase = "Confirm"
            /\ committed_slots[r].view <= committed_slots[s].view
            => committed_slots[r].cut = committed_slots[s].cut

(***************************************************************************)
(* Under the same two conditions a slot that a replica committed on the    *)
(* slow path has no other cut at any replica that commits it in that view  *)
(* or later, on either path.                                               *)
(***************************************************************************)
THEOREM HighestQCAgreement == Spec => []SlowCommitsAgree
<1>1. ASSUME SafetyInv, HighestQCKeeps, OneCutPerView PROVE SlowCommitsAgree
  <2> SUFFICES ASSUME \A t \in Sent("Timeout") : ~OmitsConfirmVote(t), HighestQCWins,
                      NEW r \in Replicas, committed_slots[r] # None,
                      NEW s \in Replicas, committed_slots[s] # None,
                      committed_slots[r].qc.phase = "Confirm",
                      committed_slots[r].view <= committed_slots[s].view
               PROVE  committed_slots[r].cut = committed_slots[s].cut
    BY DEF SlowCommitsAgree
  <2> DEFINE c == committed_slots[r]
             d == committed_slots[s]
  <2>1. c \in Sent("Commit") /\ d \in Sent("Commit")
    BY <1>1 DEF SafetyInv, CertificatesJustified, TypeInv, TypeOK, Sent, Commits
  <2>2. c.view \in Nat /\ d.view \in Nat /\ c.qc.phase = "Confirm" /\ c.view <= d.view
    BY <1>1, <2>1, MessageTypes DEF Sent, SafetyInv, TypeInv, Commits, Views
  <2>3. c.view = d.view => c.cut = d.cut
    BY <1>1 DEF OneCutPerView
  <2> HIDE DEF c, d
  <2>4. ASSUME c.view < d.view PROVE c.cut = d.cut
    <3>1. PICK p \in Sent("Prepare") : p.view = d.view /\ p.cut = d.cut
      BY <1>1, <2>1 DEF SafetyInv, CertificatesJustified, Backed, ProposedCut
    <3>2. SlowCommitsAreKept
      BY <1>1 DEF HighestQCKeeps
    <3> QED
      BY <2>1, <2>2, <2>4, <3>1, <3>2 DEF SlowCommitsAreKept
  <2>5. c.cut = d.cut
    BY <2>2, <2>3, <2>4
  <2> QED
    BY <2>5 DEF c, d
<1> QED
  BY <1>1, SafetyInvAlways, HighestQCRecovers, AgreementInAView, PTL
-----------------------------------------------------------------------------
(***************************************************************************)
(* What a quorum of Prepare votes waits for at the leader: the view has    *)
(* its certificate, or the FastTimer runs that makes one.                  *)
(***************************************************************************)
IsCertified(v) == \E c \in msgs : c.type \in {"Confirm", "Commit"} /\ c.view = v

QuorumIsPending ==
    \A v \in Views : IsQuorum(qc_makers[v].votes) => IsCertified(v) \/ v \in fast_timers

\* A QCMaker that has made no certificate has the weight of its votes, and its
\* FastTimer runs once they are a quorum.
MakerWaits(v, m) ==
    \/ (m.completed_fast \/ m.sent_confirm) /\ IsCertified(v)
    \/ /\ ~m.completed_fast /\ ~m.sent_confirm
       /\ m.weight = Cardinality(m.votes)
       /\ m.weight >= QuorumThreshold \/ ~m.first => v \in fast_timers

MakersWait == \A v \in Views : MakerWaits(v, qc_makers[v])

\* Only the QCMaker of view v and its timer change.
LEMMA WaitKept ==
    ASSUME MakersWait, NEW v \in Views, msgs \subseteq msgs',
           \A w \in Views : w # v => /\ qc_makers'[w] = qc_makers[w]
                                     /\ w \in fast_timers => w \in fast_timers',
           MakerWaits(v, qc_makers[v])'
    PROVE  MakersWait'
<1>1. \A w : IsCertified(w) => IsCertified(w)'
  BY DEF IsCertified
<1> QED
  BY <1>1 DEF MakersWait, MakerWaits

LEMMA WaitStays ==
    ASSUME MakersWait, UNCHANGED <<qc_makers, fast_timers>>, msgs \subseteq msgs'
    PROVE  MakersWait'
BY DEF MakersWait, MakerWaits, IsCertified

LEMMA CountPrepareVoteWaits ==
    ASSUME SafetyInv, MakersWait, NEW r \in Replicas, NEW v \in Views,
           NEW author \in Replicas, NEW sent,
           CountPrepareVote(r, v, author, sent)
    PROVE  MakersWait'
<1> DEFINE m == qc_makers[v]
           weight == m.weight + 1
           votes == m.votes \cup {author}
           counted == [m EXCEPT !.votes = votes, !.weight = weight]
           Becomes(maker) == qc_makers' = [qc_makers EXCEPT ![v] = maker]
<1>1. /\ m \in QCMakers /\ m.votes \subseteq Replicas /\ m.weight \in Nat
      /\ author \notin m.votes
  BY DEF CountPrepareVote, Counts, SafetyInv, TypeInv, TypeOK, QCMakers
<1>2. /\ Cardinality(m.votes) \in Nat
      /\ Cardinality(votes) = Cardinality(m.votes) + 1
  BY <1>1, OneMoreVote, SubsetsFinite
<1>3. MakerWaits(v, m)
  BY DEF MakersWait
<1>4. /\ counted \in QCMakers
      /\ counted.votes = votes /\ counted.weight = weight
      /\ counted.sent_confirm = m.sent_confirm
      /\ counted.completed_fast = m.completed_fast
      /\ counted.first = m.first
  <2> PICK mm : mm = m
    OBVIOUS
  <2> HIDE DEF m
  <2>1. mm \in QCMakers /\ votes \in SUBSET Replicas /\ weight \in Nat
    BY <1>1
  <2> HIDE DEF votes, weight
  <2>2. counted = [mm EXCEPT !.votes = votes, !.weight = weight]
    OBVIOUS
  <2> QED
    BY <2>1, <2>2 DEF QCMakers
<1>5. QuorumThreshold \in Nat
  BY QuorumBounds
<1>6. \A maker : Becomes(maker) => /\ qc_makers'[v] = maker
                                   /\ \A w \in Views : w # v => qc_makers'[w] = qc_makers[w]
  BY DEF SafetyInv, TypeInv, TypeOK
<1> PICK mk : mk = counted
  OBVIOUS
<1> HIDE DEF votes
<1>7. ASSUME NEW maker, Becomes(maker), msgs \subseteq msgs',
             \A w \in fast_timers : w \in fast_timers',
             MakerWaits(v, maker)'
      PROVE  MakersWait'
  BY <1>6, <1>7, WaitKept
<1>8. CASE /\ Becomes([mk EXCEPT !.weight = 0, !.completed_fast = TRUE])
           /\ \E qc : SendCommit(r, v, qc, sent)
           /\ UNCHANGED fast_timers
  <2> PICK maker : maker = [mk EXCEPT !.weight = 0, !.completed_fast = TRUE]
    OBVIOUS
  <2>1. maker.completed_fast
    BY <1>4 DEF QCMakers
  <2>2. IsCertified(v)' /\ msgs \subseteq msgs'
    BY <1>8 DEF SendCommit, IsCertified
  <2> QED
    BY <1>7, <1>8, <2>1, <2>2 DEF MakerWaits
<1>9. CASE /\ Becomes([mk EXCEPT !.weight = 0, !.sent_confirm = TRUE])
           /\ \E qc : SendConfirm(r, v, qc, sent)
           /\ UNCHANGED fast_timers
  <2> PICK maker : maker = [mk EXCEPT !.weight = 0, !.sent_confirm = TRUE]
    OBVIOUS
  <2>1. maker.sent_confirm
    BY <1>4 DEF QCMakers
  <2>2. IsCertified(v)' /\ msgs \subseteq msgs'
    BY <1>9 DEF SendConfirm, IsCertified
  <2> QED
    BY <1>7, <1>9, <2>1, <2>2 DEF MakerWaits
<1>10. CASE /\ \/ /\ Becomes([mk EXCEPT !.first = FALSE])
                  /\ fast_timers' = IF m.first THEN fast_timers \cup {v} ELSE fast_timers
               \/ /\ Becomes([mk EXCEPT !.weight = 0]) /\ ~SlowQCReady(m)
                  /\ UNCHANGED fast_timers
               \/ /\ Becomes(mk) /\ weight < QuorumThreshold
                  /\ UNCHANGED fast_timers
            /\ msgs' = msgs \cup sent
  <2>1. IsCertified(v) => IsCertified(v)'
    BY <1>10 DEF IsCertified
  <2> DEFINE Fits(maker) ==
        /\ Becomes(maker) /\ maker.votes = votes
        /\ maker.sent_confirm = m.sent_confirm
        /\ maker.completed_fast = m.completed_fast
        /\ SlowQCReady(m) => maker.weight = weight
        /\ \/ /\ fast_timers' = IF m.first THEN fast_timers \cup {v} ELSE fast_timers
              /\ maker.first = FALSE
           \/ ~SlowQCReady(m) /\ UNCHANGED fast_timers
           \/ maker.first = m.first /\ weight < QuorumThreshold /\ UNCHANGED fast_timers
  <2> PICK maker : Fits(maker)
    <3>1. CASE /\ Becomes([mk EXCEPT !.first = FALSE])
               /\ fast_timers' = IF m.first THEN fast_timers \cup {v} ELSE fast_timers
      <4> PICK e : e = [mk EXCEPT !.first = FALSE]
        OBVIOUS
      <4>1. Fits(e)
        BY <1>4, <3>1 DEF QCMakers
      <4> QED
        BY <4>1
    <3>2. CASE /\ Becomes([mk EXCEPT !.weight = 0]) /\ ~SlowQCReady(m)
               /\ UNCHANGED fast_timers
      <4> PICK e : e = [mk EXCEPT !.weight = 0]
        OBVIOUS
      <4>1. Fits(e)
        BY <1>4, <3>2 DEF QCMakers
      <4> QED
        BY <4>1
    <3>3. CASE Becomes(mk) /\ weight < QuorumThreshold /\ UNCHANGED fast_timers
      <4>1. Fits(mk)
        BY <1>4, <3>3
      <4> QED
        BY <4>1
    <3> QED
      BY <1>10, <3>1, <3>2, <3>3
  <2>2. MakerWaits(v, maker)'
    <3>1. CASE m.completed_fast \/ m.sent_confirm
      BY <1>3, <2>1, <3>1 DEF MakerWaits
    <3>2. CASE ~m.completed_fast /\ ~m.sent_confirm
      <4>1. maker.weight = weight /\ weight = Cardinality(votes)
        BY <1>3, <1>2, <3>2 DEF MakerWaits, SlowQCReady, votes
      <4>2. weight >= QuorumThreshold \/ ~maker.first => v \in fast_timers'
        BY <1>1, <1>3, <1>5, <3>2 DEF MakerWaits, SlowQCReady
      <4> QED
        BY <3>2, <4>1, <4>2 DEF MakerWaits
    <3> QED
      BY <3>1, <3>2
  <2> QED
    BY <1>7, <1>10, <2>2
<1> QED
  BY <1>8, <1>9, <1>10 DEF CountPrepareVote, counted, votes

LEMMA SendPrepareWaits ==
    ASSUME SafetyInv, MakersWait, NEW r \in Replicas, NEW v \in Views, NEW tc, NEW cut,
           NEW curr, NEW sent, SendPrepare(r, v, tc, cut, curr, sent)
    PROVE  MakersWait'
<1> DEFINE own == [NewQCMaker EXCEPT !.votes = {r}, !.weight = 1]
<1>1. msgs \subseteq msgs' /\ UNCHANGED fast_timers
  BY DEF SendPrepare
<1>2. UNCHANGED qc_makers \/ qc_makers' = [qc_makers EXCEPT ![v] = own]
  BY DEF SendPrepare
<1>3. CASE qc_makers' = [qc_makers EXCEPT ![v] = own]
  <2>1. /\ ~own.completed_fast /\ ~own.sent_confirm /\ own.first
        /\ own.weight = 1 /\ own.votes = {r}
    BY DEF NewQCMaker
  <2>2. qc_makers'[v] = own /\ \A w \in Views : w # v => qc_makers'[w] = qc_makers[w]
    BY <1>3 DEF SafetyInv, TypeInv, TypeOK
  <2> HIDE DEF own
  <2>3. Cardinality({r}) = 1
    BY FS_Singleton
  <2>4. MakerWaits(v, qc_makers[v])'
    BY <2>1, <2>2, <2>3, QuorumBounds DEF MakerWaits
  <2> QED
    BY <1>1, <2>2, <2>4, WaitKept
<1> QED
  BY <1>1, <1>2, <1>3, WaitStays

LEMMA CountTimeoutWaits ==
    ASSUME SafetyInv, MakersWait, NEW r \in Replicas, NEW t \in Timeouts, t.view < MaxView,
           NEW sent, CountTimeout(r, t, sent)
    PROVE  MakersWait'
<1> DEFINE made == Append(tc_makers[r][t.view], t)
           tc == [view |-> t.view, timeouts |-> made]
           next == t.view + 1
<1>1. next \in Views
  BY SlotAssumption DEF Timeouts, Views
<1>2. CASE generate_prepare_from_tc(r, tc, sent)
  <2>1. PICK cut \in Cuts : SendPrepare(r, next, tc, cut, next, sent)
    BY <1>2 DEF generate_prepare_from_tc
  <2> QED
    BY <1>1, <2>1, SendPrepareWaits
<1>3. CASE msgs' = msgs \cup sent /\ UNCHANGED leaderVars
  BY <1>3, WaitStays DEF leaderVars
<1> QED
  BY <1>2, <1>3 DEF CountTimeout

LEMMA MakersWaitStep == ASSUME SafetyInv, MakersWait, [Next]_vars PROVE MakersWait'
<1>1. CASE UNCHANGED vars
  BY <1>1, WaitStays DEF vars
<1>2. ASSUME NEW r \in Replicas, StartTimer(r) PROVE MakersWait'
  BY <1>2, WaitStays DEF StartTimer, leaderVars
<1>3. ASSUME NEW r \in Replicas, Propose(r) PROVE MakersWait'
  <2>1. 1 \in Views
    BY SlotAssumption DEF Views
  <2> QED
    BY <1>3, <2>1, SendPrepareWaits DEF Propose
<1>4. ASSUME NEW r \in Replicas, HandlePrepare(r) PROVE MakersWait'
  BY <1>4, WaitStays DEF HandlePrepare, leaderVars
<1>5. ASSUME NEW r \in Replicas, Loopback(r) PROVE MakersWait'
  <2>1. PICK p \in waiting[r] :
          \/ /\ UNCHANGED <<qc_makers, fast_timers>>
             /\ msgs \subseteq msgs'
          \/ CountPrepareVote(r, p.view, r, {PrepareVote(r, p.view)})
    BY <1>5 DEF Loopback, leaderVars
  <2>2. p.view \in Views
    BY DEF SafetyInv, TypeInv, TypeOK, Prepares
  <2> QED
    BY <2>1, <2>2, CountPrepareVoteWaits, WaitStays
<1>6. ASSUME NEW r \in Replicas, HandlePrepareVote(r) PROVE MakersWait'
  <2>1. PICK m \in msgs : m.type = "PrepareVote" /\ CountPrepareVote(r, m.view, m.author, {})
    BY <1>6 DEF HandlePrepareVote
  <2>2. m.view \in Views /\ m.author \in Replicas
    BY <2>1, MessageTypes DEF SafetyInv, TypeInv, Votes
  <2> QED
    BY <2>1, <2>2, CountPrepareVoteWaits
<1>7. ASSUME NEW r \in Replicas, FastTimerExpires(r) PROVE MakersWait'
  <2> DEFINE disabled(v) == [qc_makers[v] EXCEPT !.fast_path_disabled = TRUE]
             confirmed(v) == [disabled(v) EXCEPT !.sent_confirm = TRUE]
             Becomes(v, maker) == qc_makers' = [qc_makers EXCEPT ![v] = maker]
  <2>1. PICK v \in fast_timers :
          /\ fast_timers' = fast_timers \ {v}
          /\ \/ Becomes(v, disabled(v)) /\ UNCHANGED msgs /\ ~SlowQCReady(qc_makers[v])
             \/ /\ Becomes(v, confirmed(v))
                /\ SendConfirm(r, v, [phase |-> "Prepare", view |-> v,
                                      votes |-> qc_makers[v].votes], {})
    BY <1>7 DEF FastTimerExpires
  <2>2. v \in Views /\ qc_makers[v] \in QCMakers
    BY DEF SafetyInv, TypeInv, TypeOK
  <2> PICK m : m = qc_makers[v]
    OBVIOUS
  <2>3. MakerWaits(v, m)
    BY <2>2 DEF MakersWait
  <2> PICK d : d = [m EXCEPT !.fast_path_disabled = TRUE]
    OBVIOUS
  <2>4. /\ d.sent_confirm = m.sent_confirm
        /\ d.completed_fast = m.completed_fast /\ d \in QCMakers
    BY <2>2 DEF QCMakers
  <2>5. CASE Becomes(v, d) /\ UNCHANGED msgs /\ ~SlowQCReady(m)
    <3>1. qc_makers'[v] = d /\ \A w \in Views : w # v => qc_makers'[w] = qc_makers[w]
      BY <2>2, <2>5 DEF SafetyInv, TypeInv, TypeOK
    <3>2. (d.completed_fast \/ d.sent_confirm) /\ IsCertified(v)'
      BY <2>3, <2>4, <2>5 DEF MakerWaits, SlowQCReady, IsCertified
    <3>3. MakerWaits(v, qc_makers[v])'
      BY <3>1, <3>2 DEF MakerWaits
    <3> QED
      BY <2>1, <2>2, <2>5, <3>1, <3>3, WaitKept
  <2>6. CASE /\ Becomes(v, [d EXCEPT !.sent_confirm = TRUE])
             /\ \E qc : SendConfirm(r, v, qc, {})
    <3> PICK e : e = [d EXCEPT !.sent_confirm = TRUE]
      OBVIOUS
    <3>1. qc_makers'[v] = e /\ \A w \in Views : w # v => qc_makers'[w] = qc_makers[w]
      BY <2>2, <2>6 DEF SafetyInv, TypeInv, TypeOK
    <3>2. e.sent_confirm
      BY <2>4 DEF QCMakers
    <3>3. IsCertified(v)' /\ msgs \subseteq msgs'
      BY <2>6 DEF SendConfirm, IsCertified
    <3>4. MakerWaits(v, qc_makers[v])'
      BY <3>1, <3>2, <3>3 DEF MakerWaits
    <3> QED
      BY <2>1, <2>2, <3>1, <3>3, <3>4, WaitKept
  <2> QED
    BY <2>1, <2>5, <2>6
<1>8. ASSUME NEW r \in Replicas, HandleConfirm(r) PROVE MakersWait'
  BY <1>8, WaitStays DEF HandleConfirm, leaderVars
<1>9. ASSUME NEW r \in Replicas, HandleConfirmVote(r) PROVE MakersWait'
  <2>1. UNCHANGED <<qc_makers, fast_timers>> /\ msgs \subseteq msgs'
    BY <1>9 DEF HandleConfirmVote, SendCommit, voteVars
  <2> QED
    BY <2>1, WaitStays
<1>10. ASSUME NEW r \in Replicas, HandleCommit(r) PROVE MakersWait'
  BY <1>10, WaitStays DEF HandleCommit, leaderVars
<1>11. ASSUME NEW r \in Replicas, LocalTimeout(r) PROVE MakersWait'
  <2> DEFINE t(v) == [type |-> "Timeout", view |-> v, author |-> r,
                      high_qc |-> high_qcs[r], high_prop |-> high_proposals[r]]
  <2>1. PICK v \in timer_futures[r] : /\ <<r, v>> \in Expiring
                                      /\ CountTimeout(r, t(v), {t(v)})
    BY <1>11 DEF LocalTimeout
  <2>2. v \in Views /\ v < MaxView
    BY <2>1, ExpiringAssumption DEF SafetyInv, TypeInv, TypeOK
  <2>3. t(v) \in Timeouts /\ t(v).view < MaxView
    BY <2>2 DEF SafetyInv, TypeInv, TypeOK, Timeouts
  <2> HIDE DEF t
  <2> QED
    BY <2>1, <2>3, CountTimeoutWaits
<1>12. ASSUME NEW r \in Replicas, HandleTimeout(r) PROVE MakersWait'
  <2>1. PICK t \in msgs : t.type = "Timeout" /\ CountTimeout(r, t, {})
    BY <1>12 DEF HandleTimeout
  <2>2. t \in Timeouts /\ t.view < MaxView
    BY <2>1, MessageTypes DEF SafetyInv, TypeInv, TimeoutsBelowMaxView
  <2> QED
    BY <2>1, <2>2, CountTimeoutWaits
<1>13. ASSUME NEW r \in Replicas, UpdateFastPath(r) PROVE MakersWait'
  BY <1>13, WaitStays DEF UpdateFastPath, leaderVars
<1> QED
  BY <1>1, <1>2, <1>3, <1>4, <1>5, <1>6, <1>7, <1>8, <1>9, <1>10, <1>11, <1>12, <1>13
     DEF Next

(***************************************************************************)
(* A quorum of Prepare votes at the leader of a view is certified, or the  *)
(* FastTimer that will do it runs.  The safety side of QuorumIsUsed.       *)
(***************************************************************************)
THEOREM QuorumWaitsForTimer == Spec => []QuorumIsPending
<1>1. Init => MakersWait
  <2>1. Cardinality({}) = 0
    BY FS_EmptySet, Zenon
  <2> SUFFICES ASSUME Init, NEW v \in Views PROVE MakerWaits(v, qc_makers[v])
    BY DEF MakersWait
  <2>2. qc_makers[v] = NewQCMaker
    BY DEF Init
  <2> QED
    BY <2>1, <2>2, QuorumBounds DEF MakerWaits, NewQCMaker
<1>2. SafetyInv /\ MakersWait /\ [Next]_vars => MakersWait'
  BY MakersWaitStep
<1>3. MakersWait => QuorumIsPending
  BY DEF MakersWait, MakerWaits, QuorumIsPending, IsQuorum
<1> QED
  BY <1>1, <1>2, <1>3, SafetyInvAlways, PTL DEF Spec
=============================================================================
