---------------------------- MODULE SlotConsensus ----------------------------
(***************************************************************************)
(* One consensus instance (one slot) of the primaries' Core, in the        *)
(* external mode the node runs in (use_ride_share = false): a leader       *)
(* proposes a cut of the data lanes in a Prepare, collects the votes into  *)
(* a Confirm (slow path) or directly into a Commit (fast path, all         *)
(* votes), and a view change replaces a leader that does not get there:    *)
(* replicas whose timer expires broadcast a Timeout, a quorum of Timeouts  *)
(* is a TC, and the leader of the next view proposes from it.              *)
(*                                                                         *)
(* The replicas follow the code; the network delays, reorders, duplicates  *)
(* and loses: a message once signed stays in msgs and may be delivered     *)
(* never, once or again.  A handler is one action: Core is one task, and   *)
(* what it sends to itself it processes before the next event.             *)
(*                                                                         *)
(* A definition whose comment begins with BUG is a mistake the next        *)
(* definition could contain; the model does not use it.                    *)
(***************************************************************************)
EXTENDS Committee

CONSTANTS
    Slot,        \* the instance
    MaxView,     \* bound: no timer of this view expires
    FastPath,    \* replicas that start with use_fast_path
    Switching,   \* bound: replicas where an update may change use_fast_path, once
    SlowSync,    \* replicas that may lack the data of a proposed cut
    Expiring,    \* bound: the <<replica, view>> timers that may expire
    Reach,       \* bound: per type of broadcast, the replicas it may reach
    Uncovered,   \* replicas whose ticket for view 1 never gets enough new tips
    Crashed,     \* replicas that may stop at any moment
    None

Views == 1 .. MaxView
\* The cut a leader proposes of its own is named by the view it does it in;
\* an inherited one keeps its name.
Cuts == Views

ASSUME SlotAssumption == Slot \in Nat /\ MaxView \in Nat \ {0}
ASSUME ReplicaSetsAssumption ==
    /\ FastPath \subseteq Replicas /\ Switching \subseteq Replicas
    /\ SlowSync \subseteq Replicas
    /\ Reach \in [{"Prepare", "Confirm", "Commit", "Timeout"} -> SUBSET Replicas]
    /\ Uncovered \subseteq Replicas
    /\ Crashed \subseteq Replicas
ASSUME ExpiringAssumption ==
    Expiring \subseteq {rv \in Replicas \X Views : rv[2] < MaxView}

VARIABLES
    views,                  \* Core::views[slot], 0 when the slot is absent
    timers,                 \* the views v with (slot, v) in Core::timers
    timer_futures,          \* the views with a Timer still to expire
    last_voted_consensus,   \* the views whose Prepare this replica voted for
    high_qcs,               \* the Confirm or Commit it last accepted
    high_proposals,         \* the Prepare it last voted for (fast path only)
    committed_slots,        \* the Commit it accepted
    waiting,                \* Prepares that wait for missing data
    tc_makers,              \* per replica and view, TCMaker::votes
    consensus_instances,    \* per view, the cut its leader is proposing
    qc_makers,              \* per view, its leader's QCMaker for the Prepare
    confirm_makers,         \* per view, its leader's QCMaker for the Confirm
    fast_timers,            \* the views whose leader waits for the fast path
    use_fast_path,          \* the replicas where it is set
    msgs                    \* every message and vote signed so far

replicaVars == <<last_voted_consensus, high_proposals, waiting>>
voteVars == <<views, timers, timer_futures, high_qcs, committed_slots>>
leaderVars == <<consensus_instances, qc_makers, confirm_makers, fast_timers>>
vars == <<views, timers, timer_futures, last_voted_consensus, high_qcs,
          high_proposals, committed_slots, waiting, tc_makers,
          consensus_instances, qc_makers, confirm_makers, fast_timers, use_fast_path,
          msgs>>
-----------------------------------------------------------------------------
(***************************************************************************)
(* Messages.  The digest a vote signs covers the slot and view, and for a  *)
(* Confirm the id of its Prepare, never the proposed cut.                  *)
(***************************************************************************)
QCs == [phase : {"Prepare", "Confirm"}, view : Views, votes : SUBSET Replicas]
Confirms == [type : {"Confirm"}, view : Views, qc : QCs, cut : Cuts]
Commits == [type : {"Commit"}, view : Views, qc : QCs, cut : Cuts]
HighProposals == [view : Views, cut : Cuts]
Timeouts == [type : {"Timeout"}, view : Views, author : Replicas,
             high_qc : Confirms \cup Commits \cup {None},
             high_prop : HighProposals \cup {None}]
TCs == [view : Views, timeouts : Seq(Timeouts)]
Prepares == [type : {"Prepare"}, view : Views, tc : TCs \cup {None}, cut : Cuts]
Votes == [type : {"PrepareVote", "ConfirmVote"}, view : Views, author : Replicas]

\* An Option that holds something is not the one that holds nothing.
ASSUME NoneAssumption == None \notin Cuts \cup Confirms \cup Commits \cup HighProposals \cup TCs

PrepareVote(r, v) == [type |-> "PrepareVote", view |-> v, author |-> r]
ConfirmVote(r, v) == [type |-> "ConfirmVote", view |-> v, author |-> r]

VerifyQC(qc, phase, v) ==
    /\ qc.phase = phase
    /\ qc.view = v
    /\ IsQuorum(qc.votes)

verify_confirm(c) == VerifyQC(c.qc, "Prepare", c.view)

\* BUG: a Confirm of a view the replica has left is voted for.
NeverPast(r, view) == TRUE

\* is_valid of a Confirm: the replica is in its view or below.
NotPast(r, view) == views[r] <= view

\* BUG: the fast certificate is not told from the slow one.
VerifySlowCommit(c) == VerifyQC(c.qc, "Confirm", c.view)

\* A certificate with a vote of everyone is read as a fast one.
verify_commit(c) ==
    IF Cardinality(c.qc.votes) = Size
    THEN VerifyQC(c.qc, "Prepare", c.view)
    ELSE VerifyQC(c.qc, "Confirm", c.view)
-----------------------------------------------------------------------------
(***************************************************************************)
(* TC::get_winning_proposals: one pass over the Timeouts in the order the  *)
(* TC holds them.  A Commit is adopted and ends the pass.  A Confirm of a  *)
(* view above the winning one wins, and the winning view becomes that of   *)
(* the Timeout (not of the Confirm).  A Prepare wins when the replicas     *)
(* that report it, counted while it is above the winning view, reach the   *)
(* validity threshold.                                                     *)
(***************************************************************************)
NoWinner == [view |-> 0, cut |-> None, weight |-> [v \in Views |-> 0], final |-> FALSE]

\* BUG: only Commits are recovered.
SkipConfirms(w, t) ==
    IF t.high_qc # None /\ t.high_qc.type = "Commit"
    THEN [w EXCEPT !.cut = t.high_qc.cut, !.final = TRUE]
    ELSE w

ReadHighQC(w, t) ==
    CASE t.high_qc = None -> w
      [] t.high_qc # None /\ t.high_qc.type = "Commit" ->
            [w EXCEPT !.cut = t.high_qc.cut, !.final = TRUE]
      [] OTHER ->
            IF t.high_qc.view > w.view
            THEN [w EXCEPT !.view = t.view, !.cut = t.high_qc.cut]
            ELSE w

\* BUG: a reported Prepare never wins.
SkipPrepares(w, t) == w

ReadHighProp(w, t) ==
    IF w.final \/ t.high_prop = None THEN w
    ELSE LET p == t.high_prop
             weight == w.weight[p.view] + 1
             counted == [w EXCEPT !.weight[p.view] = weight]
         IN  IF p.view <= w.view THEN w
             ELSE IF weight >= ValidityThreshold
                  THEN [counted EXCEPT !.view = p.view, !.cut = p.cut]
                  ELSE counted

ReadTimeout(w, t) == IF w.final THEN w ELSE ReadHighProp(ReadHighQC(w, t), t)

get_winning_proposals(tc) ==
    LET pass[i \in 0 .. Len(tc.timeouts)] ==
            IF i = 0 THEN NoWinner ELSE ReadTimeout(pass[i - 1], tc.timeouts[i])
    IN  pass[Len(tc.timeouts)].cut
-----------------------------------------------------------------------------
QCMakers == [votes : SUBSET Replicas, weight : Nat, first : BOOLEAN,
             completed_fast : BOOLEAN, fast_path_disabled : BOOLEAN,
             sent_confirm : BOOLEAN]
ConfirmMakers == [votes : SUBSET Replicas, weight : Nat]

\* BUG: an author counts as often as its vote arrives.
CountsAgain(maker, author) == TRUE

\* QCMaker::append takes one vote of an author.
Counts(maker, author) == author \notin maker.votes

\* BUG: the FastTimer confirms what the fast path has committed.
IgnoresFastCommit(maker) == ~maker.sent_confirm

\* BUG: the FastTimer is taken for a repetition of the first quorum.
QuorumAgain(maker) == ~maker.completed_fast /\ ~maker.sent_confirm /\ maker.first

\* What the FastTimer's loopback asks of the maker: not committed on the fast
\* path, and not confirmed since.
SlowQCReady(maker) == ~maker.completed_fast /\ ~maker.sent_confirm

NewQCMaker == [votes |-> {}, weight |-> 0, first |-> TRUE, completed_fast |-> FALSE,
               fast_path_disabled |-> FALSE, sent_confirm |-> FALSE]

\* Core::run on slot 1 puts every replica in view 1 with its timer started; a
\* later slot is unknown until something about it arrives.
Init ==
    /\ views = [r \in Replicas |-> IF Slot = 1 THEN 1 ELSE 0]
    /\ timers = [r \in Replicas |-> IF Slot = 1 THEN {1} ELSE {}]
    /\ timer_futures = timers
    /\ last_voted_consensus = [r \in Replicas |-> {}]
    /\ high_qcs = [r \in Replicas |-> None]
    /\ high_proposals = [r \in Replicas |-> None]
    /\ committed_slots = [r \in Replicas |-> None]
    /\ waiting = [r \in Replicas |-> {}]
    /\ tc_makers = [r \in Replicas |-> [v \in Views |-> <<>>]]
    /\ consensus_instances = [v \in Views |-> None]
    /\ qc_makers = [v \in Views |-> NewQCMaker]
    /\ confirm_makers = [v \in Views |-> [votes |-> {}, weight |-> 0]]
    /\ fast_timers = {}
    /\ use_fast_path = FastPath
    /\ msgs = {}
-----------------------------------------------------------------------------
\* BUG: the slot holds the certificate the replica had before the Commit.
CommitPrevious(r, c) ==
    /\ timers' = [timers EXCEPT ![r] = {}]
    /\ high_qcs' = [high_qcs EXCEPT ![r] = c]
    /\ committed_slots' = [committed_slots EXCEPT ![r] = high_qcs[r]]

(***************************************************************************)
(* process_commit_message: the slot is committed, its timers stop.         *)
(***************************************************************************)
Commit(r, c) ==
    /\ timers' = [timers EXCEPT ![r] = {}]
    /\ high_qcs' = [high_qcs EXCEPT ![r] = c]
    /\ committed_slots' = [committed_slots EXCEPT ![r] = c]

(***************************************************************************)
(* send_consensus_req of a Commit: broadcast, then processed as any other. *)
(***************************************************************************)
SendCommit(r, v, qc, sent) ==
    LET c == [type |-> "Commit", view |-> v, qc |-> qc, cut |-> consensus_instances[v]]
    IN  /\ msgs' = msgs \cup sent \cup {c}
        /\ IF verify_commit(c)
           THEN Commit(r, c)
           ELSE UNCHANGED <<timers, high_qcs, committed_slots>>
        /\ UNCHANGED <<views, timer_futures>>

(***************************************************************************)
(* send_consensus_req of a Confirm.  The leader votes for its own Confirm  *)
(* at once, unless it has already left the view.                           *)
(***************************************************************************)
SendConfirm(r, v, qc, sent) ==
    LET c == [type |-> "Confirm", view |-> v, qc |-> qc, cut |-> consensus_instances[v]]
        valid == NotPast(r, v) /\ verify_confirm(c)
    IN  /\ IF valid
           THEN /\ views' = [views EXCEPT ![r] = v]
                /\ high_qcs' = [high_qcs EXCEPT ![r] = c]
                /\ confirm_makers' = [confirm_makers EXCEPT ![v] =
                                        [votes |-> {r}, weight |-> 1]]
                /\ msgs' = msgs \cup sent \cup {c, ConfirmVote(r, v)}
           ELSE /\ UNCHANGED <<views, high_qcs, confirm_makers>>
                /\ msgs' = msgs \cup sent \cup {c}
        /\ UNCHANGED <<timers, timer_futures, committed_slots>>

(***************************************************************************)
(* process_consensus_vote on a Prepare vote, at the leader of the view.    *)
(* QCMaker::append counts an author once.  On the fast path the first      *)
(* quorum only starts the FastTimer and a vote of everyone commits; on the *)
(* slow path a quorum is confirmed, and the weight restarts.               *)
(***************************************************************************)
CountPrepareVote(r, v, author, sent) ==
    LET m == qc_makers[v]
        weight == m.weight + 1
        counted == [m EXCEPT !.votes = @ \cup {author}, !.weight = weight]
        try_fast == r \in use_fast_path /\ ~m.fast_path_disabled
        qc == [phase |-> "Prepare", view |-> v, votes |-> counted.votes]
        Becomes(maker) == qc_makers' = [qc_makers EXCEPT ![v] = maker]
    IN  /\ consensus_instances[v] # None
        /\ Counts(m, author)
        /\ \/ /\ try_fast /\ weight >= FastThreshold
              /\ Becomes([counted EXCEPT !.weight = 0, !.completed_fast = TRUE])
              /\ SendCommit(r, v, qc, sent)
              /\ UNCHANGED <<confirm_makers, fast_timers>>
           \/ /\ try_fast /\ weight < FastThreshold /\ weight >= QuorumThreshold
              /\ Becomes([counted EXCEPT !.first = FALSE])
              /\ fast_timers' = IF m.first THEN fast_timers \cup {v} ELSE fast_timers
              /\ msgs' = msgs \cup sent
              /\ UNCHANGED <<voteVars, confirm_makers>>
           \/ /\ ~try_fast /\ weight >= QuorumThreshold
              /\ SlowQCReady(m)
              /\ Becomes([counted EXCEPT !.weight = 0, !.sent_confirm = TRUE])
              /\ SendConfirm(r, v, qc, sent)
              /\ UNCHANGED fast_timers
           \/ /\ ~try_fast /\ weight >= QuorumThreshold
              /\ ~SlowQCReady(m)
              /\ Becomes([counted EXCEPT !.weight = 0])
              /\ msgs' = msgs \cup sent
              /\ UNCHANGED <<voteVars, confirm_makers, fast_timers>>
           \/ /\ weight < FastThreshold /\ weight < QuorumThreshold
              /\ Becomes(counted)
              /\ msgs' = msgs \cup sent
              /\ UNCHANGED <<voteVars, confirm_makers, fast_timers>>

\* is_valid of the Prepare of view v, once r is in curr.
ValidPrepare(r, v, ticket_valid, curr) ==
    /\ v \notin last_voted_consensus[r]
    /\ ticket_valid
    /\ curr = v

(***************************************************************************)
(* process_prepare_message: the replica records what it votes for.         *)
(***************************************************************************)
RecordPrepare(r, p) ==
    /\ last_voted_consensus' = [last_voted_consensus EXCEPT ![r] = @ \cup {p.view}]
    /\ high_proposals' =
         IF r \in use_fast_path
         THEN [high_proposals EXCEPT ![r] = [view |-> p.view, cut |-> p.cut]]
         ELSE high_proposals

(***************************************************************************)
(* send_consensus_req of a Prepare by a replica that is in view curr: the  *)
(* instance is registered, the Prepare broadcast, and processed by its own *)
(* is_valid.  The leader's vote is the first one its QCMaker counts.       *)
(***************************************************************************)
SendPrepare(r, v, tc, cut, curr, sent) ==
    LET p == [type |-> "Prepare", view |-> v, tc |-> tc, cut |-> cut]
        view == IF curr < v THEN v ELSE curr
        valid == ValidPrepare(r, v, TRUE, view)
    IN  /\ consensus_instances' = [consensus_instances EXCEPT ![v] = cut]
        /\ views' = [views EXCEPT ![r] = view]
        /\ \/ /\ valid
              /\ RecordPrepare(r, p)
              /\ qc_makers' = [qc_makers EXCEPT ![v] =
                                 [NewQCMaker EXCEPT !.votes = {r}, !.weight = 1]]
              /\ msgs' = msgs \cup sent \cup {p, PrepareVote(r, v)}
              /\ UNCHANGED waiting
           \/ /\ valid
              /\ r \in SlowSync
              /\ waiting' = [waiting EXCEPT ![r] = @ \cup {p}]
              /\ msgs' = msgs \cup sent \cup {p}
              /\ UNCHANGED <<last_voted_consensus, high_proposals, qc_makers>>
           \/ /\ ~valid
              /\ msgs' = msgs \cup sent \cup {p}
              /\ UNCHANGED <<replicaVars, qc_makers>>
        /\ UNCHANGED <<confirm_makers, fast_timers>>

(***************************************************************************)
(* handle_timeout at replica r, which may have signed t in the same step:  *)
(* the TCMaker takes one Timeout of each author, and the one that makes a  *)
(* quorum moves r to the next view, starts the timer of that view, and has *)
(* the leader of that view propose what the TC says, or its own cut.       *)
(***************************************************************************)
generate_prepare_from_tc(r, tc, sent) ==
    \E cut \in Cuts :
        /\ cut = IF get_winning_proposals(tc) = None
                 THEN tc.view + 1
                 ELSE get_winning_proposals(tc)
        /\ SendPrepare(r, tc.view + 1, tc, cut, tc.view + 1, sent)

\* BUG: whoever makes the TC proposes from it.
AnyoneLeads(r, view) == TRUE

Leads(r, view) == r = Leader(Slot, view)

CountTimeout(r, t, sent) ==
    LET made == Append(tc_makers[r][t.view], t)
        tc == [view |-> t.view, timeouts |-> made]
        next == t.view + 1
    IN  /\ views[r] <= t.view
        /\ committed_slots[r] = None
        /\ \A i \in DOMAIN tc_makers[r][t.view] : tc_makers[r][t.view][i].author # t.author
        /\ tc_makers' = [tc_makers EXCEPT ![r][t.view] = made]
        /\ IF Len(made) = QuorumThreshold
           THEN /\ timers' = [timers EXCEPT ![r] = @ \cup {next}]
                /\ IF Leads(r, next)
                   THEN generate_prepare_from_tc(r, tc, sent)
                   ELSE /\ views' = [views EXCEPT ![r] = next]
                        /\ msgs' = msgs \cup sent
                        /\ UNCHANGED <<replicaVars, leaderVars>>
           ELSE /\ msgs' = msgs \cup sent
                /\ UNCHANGED <<views, timers, replicaVars, leaderVars>>
        /\ UNCHANGED <<high_qcs, committed_slots, use_fast_path>>
-----------------------------------------------------------------------------
(***************************************************************************)
(* The handlers.                                                           *)
(***************************************************************************)
\* The Prepare of the slot before, or the Commit of k slots before, arrived:
\* the slot's timer starts (the Commit starts it even if the slot is decided).
StartTimer(r) ==
    /\ Slot > 1
    /\ 1 \notin timers[r]
    /\ timers' = [timers EXCEPT ![r] = @ \cup {1}]
    /\ timer_futures' = [timer_futures EXCEPT ![r] = @ \cup {1}]
    /\ UNCHANGED <<views, high_qcs, committed_slots, replicaVars, leaderVars,
                   tc_makers, use_fast_path, msgs>>

\* The leader of view 1 has its ticket and enough new tips: it proposes, once.
Propose(r) ==
    /\ r = Leader(Slot, 1) /\ r \notin Uncovered
    /\ consensus_instances[1] = None
    /\ SendPrepare(r, 1, None, 1, views[r], {})
    /\ UNCHANGED <<timers, timer_futures, high_qcs, committed_slots, tc_makers,
                   use_fast_path>>

\* BUG: a TC that reports nothing justifies no cut.
FollowsWinner(p) == p.cut = get_winning_proposals(p.tc)

\* is_valid of a Prepare.  A TC of another view is refused before anything
\* changes; after that the view is raised even if the Prepare is not voted for.
FollowsTC(p) ==
    \/ get_winning_proposals(p.tc) = None
    \/ p.cut = get_winning_proposals(p.tc)

HandlePrepare(r) ==
    \E p \in {m \in msgs : m.type = "Prepare"} :
        LET view == IF views[r] < p.view THEN p.view ELSE views[r]
            ticket_valid == IF p.tc = None THEN p.view = 1 ELSE FollowsTC(p)
            valid == ValidPrepare(r, p.view, ticket_valid, view)
        IN  /\ r # Leader(Slot, p.view) /\ r \in Reach["Prepare"]
            /\ IF p.tc = None THEN TRUE ELSE p.tc.view + 1 = p.view
            /\ views' = [views EXCEPT ![r] = view]
            /\ \/ /\ valid
                  /\ RecordPrepare(r, p)
                  /\ msgs' = msgs \cup {PrepareVote(r, p.view)}
                  /\ UNCHANGED waiting
               \/ /\ valid
                  /\ r \in SlowSync
                  /\ waiting' = [waiting EXCEPT ![r] = @ \cup {p}]
                  /\ UNCHANGED <<last_voted_consensus, high_proposals, msgs>>
               \/ /\ ~valid
                  /\ UNCHANGED <<replicaVars, msgs>>
            /\ UNCHANGED <<timers, timer_futures, high_qcs, committed_slots,
                           leaderVars, tc_makers, use_fast_path>>

\* process_loopback of a Prepare whose data has arrived: voted for unless that
\* was done meanwhile; the view is not looked at again.
Loopback(r) ==
    \E p \in waiting[r] :
        /\ waiting' = [waiting EXCEPT ![r] = @ \ {p}]
        /\ IF p.view \in last_voted_consensus[r]
           THEN UNCHANGED <<last_voted_consensus, high_proposals, voteVars,
                            leaderVars, msgs>>
           ELSE /\ RecordPrepare(r, p)
                /\ IF r = Leader(Slot, p.view)
                   THEN /\ CountPrepareVote(r, p.view, r, {PrepareVote(r, p.view)})
                        /\ UNCHANGED consensus_instances
                   ELSE /\ msgs' = msgs \cup {PrepareVote(r, p.view)}
                        /\ UNCHANGED <<voteVars, leaderVars>>
        /\ UNCHANGED <<tc_makers, use_fast_path>>

HandlePrepareVote(r) ==
    \E m \in {m \in msgs : m.type = "PrepareVote"} :
        /\ r = Leader(Slot, m.view)
        /\ m.author # r
        /\ CountPrepareVote(r, m.view, m.author, {})
        /\ UNCHANGED <<replicaVars, consensus_instances, tc_makers, use_fast_path>>

\* The FastTimer expires: from now on the slow path, with the votes so far.
FastTimerExpires(r) ==
    \E v \in fast_timers :
        LET m == qc_makers[v]
            qc == [phase |-> "Prepare", view |-> v, votes |-> m.votes]
            disabled == [m EXCEPT !.fast_path_disabled = TRUE]
        IN  /\ r = Leader(Slot, v)
            /\ fast_timers' = fast_timers \ {v}
            /\ IF SlowQCReady(m)
               THEN /\ qc_makers' = [qc_makers EXCEPT ![v] =
                                       [disabled EXCEPT !.sent_confirm = TRUE]]
                    /\ SendConfirm(r, v, qc, {})
               ELSE /\ qc_makers' = [qc_makers EXCEPT ![v] = disabled]
                    /\ UNCHANGED <<voteVars, confirm_makers, msgs>>
            /\ UNCHANGED <<replicaVars, consensus_instances, tc_makers, use_fast_path>>

\* is_valid and process_confirm_message: nothing counts the votes a replica
\* gives to the Confirms of a view, nor looks at the Timeouts it has sent.
HandleConfirm(r) ==
    \E c \in {m \in msgs : m.type = "Confirm"} :
        /\ r # Leader(Slot, c.view) /\ r \in Reach["Confirm"]
        /\ NotPast(r, c.view)
        /\ verify_confirm(c)
        /\ views' = [views EXCEPT ![r] = c.view]
        /\ high_qcs' = [high_qcs EXCEPT ![r] = c]
        /\ msgs' = msgs \cup {ConfirmVote(r, c.view)}
        /\ UNCHANGED <<timers, timer_futures, committed_slots, replicaVars,
                       leaderVars, tc_makers, use_fast_path>>

\* process_consensus_vote on a Confirm vote: the quorum is the Commit's QC.
HandleConfirmVote(r) ==
    \E m \in {m \in msgs : m.type = "ConfirmVote"} :
        LET v == m.view
            maker == confirm_makers[v]
            weight == maker.weight + 1
            votes == maker.votes \cup {m.author}
            qc == [phase |-> "Confirm", view |-> v, votes |-> votes]
        IN  /\ r = Leader(Slot, v)
            /\ m.author # r
            /\ qc_makers[v].sent_confirm
            /\ Counts(maker, m.author)
            /\ IF weight >= QuorumThreshold
               THEN /\ confirm_makers' = [confirm_makers EXCEPT ![v] =
                                            [votes |-> votes, weight |-> 0]]
                    /\ SendCommit(r, v, qc, {})
               ELSE /\ confirm_makers' = [confirm_makers EXCEPT ![v] =
                                            [votes |-> votes, weight |-> weight]]
                    /\ UNCHANGED <<voteVars, msgs>>
            /\ UNCHANGED <<replicaVars, consensus_instances, qc_makers,
                           fast_timers, tc_makers, use_fast_path>>

HandleCommit(r) ==
    \E c \in {m \in msgs : m.type = "Commit"} :
        /\ r # Leader(Slot, c.view) /\ r \in Reach["Commit"]
        /\ verify_commit(c)
        /\ Commit(r, c)
        /\ UNCHANGED <<views, timer_futures, replicaVars, leaderVars, tc_makers,
                       use_fast_path, msgs>>

\* local_timeout_round.  A timer that expires in an older view, or after the
\* commit, does nothing.
LocalTimeout(r) ==
    \E v \in timer_futures[r] :
        LET t == [type |-> "Timeout", view |-> v, author |-> r,
                  high_qc |-> high_qcs[r], high_prop |-> high_proposals[r]]
        IN  /\ <<r, v>> \in Expiring
            /\ v \in timers[r]
            /\ CountTimeout(r, t, {t})
            /\ timer_futures' =
                 [timer_futures EXCEPT ![r] =
                    (@ \ {v}) \cup (timers'[r] \ timers[r])]

HandleTimeout(r) ==
    \E t \in {m \in msgs : m.type = "Timeout"} :
        /\ t.author # r /\ r \in Reach["Timeout"]
        /\ CountTimeout(r, t, {})
        /\ timer_futures' = [timer_futures EXCEPT ![r] = @ \cup (timers'[r] \ timers[r])]

(***************************************************************************)
(* apply_parameter_updates, at the commit of some other slot: the agent's  *)
(* fast_path_timeout is zero, or no longer zero.                           *)
(***************************************************************************)
UpdateFastPath(r) ==
    /\ r \in Switching
    /\ use_fast_path' = IF r \in FastPath THEN use_fast_path \ {r}
                        ELSE use_fast_path \cup {r}
    /\ UNCHANGED <<voteVars, replicaVars, leaderVars, tc_makers, msgs>>

Next ==
    \E r \in Replicas :
        \/ StartTimer(r)
        \/ Propose(r)
        \/ HandlePrepare(r)
        \/ Loopback(r)
        \/ HandlePrepareVote(r)
        \/ FastTimerExpires(r)
        \/ HandleConfirm(r)
        \/ HandleConfirmVote(r)
        \/ HandleCommit(r)
        \/ LocalTimeout(r)
        \/ HandleTimeout(r)
        \/ UpdateFastPath(r)

Spec == Init /\ [][Next]_vars

(***************************************************************************)
(* The primaries' links resend until acknowledged (ReliableSender), Core's *)
(* select loop serves every channel, and a timer that is started expires.  *)
(* None of this is asked of a replica that may stop.                       *)
(***************************************************************************)
Fairness ==
    \A r \in Replicas \ Crashed :
        /\ WF_vars(Propose(r))
        /\ WF_vars(HandlePrepare(r))
        /\ WF_vars(Loopback(r))
        /\ WF_vars(HandlePrepareVote(r))
        /\ WF_vars(FastTimerExpires(r))
        /\ WF_vars(HandleConfirm(r))
        /\ WF_vars(HandleConfirmVote(r))
        /\ WF_vars(HandleCommit(r))
        /\ WF_vars(LocalTimeout(r))
        /\ WF_vars(HandleTimeout(r))

FairSpec == Spec /\ Fairness
-----------------------------------------------------------------------------
TypeOK ==
    /\ views \in [Replicas -> 0 .. MaxView]
    /\ timers \in [Replicas -> SUBSET Views]
    /\ timer_futures \in [Replicas -> SUBSET Views]
    /\ last_voted_consensus \in [Replicas -> SUBSET Views]
    /\ high_qcs \in [Replicas -> Confirms \cup Commits \cup {None}]
    /\ high_proposals \in [Replicas -> HighProposals \cup {None}]
    /\ committed_slots \in [Replicas -> Commits \cup {None}]
    /\ waiting \in [Replicas -> SUBSET Prepares]
    /\ tc_makers \in [Replicas -> [Views -> Seq(Timeouts)]]
    /\ consensus_instances \in [Views -> Cuts \cup {None}]
    /\ qc_makers \in [Views -> QCMakers]
    /\ confirm_makers \in [Views -> ConfirmMakers]
    /\ fast_timers \in SUBSET Views
    /\ use_fast_path \in SUBSET Replicas
    /\ msgs \subseteq Prepares \cup Confirms \cup Commits \cup Timeouts \cup Votes

Sent(type) == {m \in msgs : m.type = type}

(***************************************************************************)
(* A certificate a replica acts on is backed by votes that were signed,    *)
(* for the cut its leader proposed: a Confirm by a quorum of Prepare       *)
(* votes, a Commit by a quorum of Confirm votes or the Prepare votes of    *)
(* everyone.                                                               *)
(***************************************************************************)
VotedBy(qc) == \A r \in qc.votes :
    [type |-> IF qc.phase = "Prepare" THEN "PrepareVote" ELSE "ConfirmVote",
     view |-> qc.view, author |-> r] \in msgs

ProposedCut(m) == \E p \in Sent("Prepare") : p.view = m.view /\ p.cut = m.cut

Backed(m, phase) ==
    /\ VerifyQC(m.qc, phase, m.view)
    /\ VotedBy(m.qc)
    /\ ProposedCut(m)

CertificatesJustified ==
    /\ \A c \in Sent("Confirm") : Backed(c, "Prepare")
    /\ \A c \in Sent("Commit") :
          \/ Backed(c, "Confirm")
          \/ Backed(c, "Prepare") /\ c.qc.votes = Replicas
    /\ \A r \in Replicas : committed_slots[r] # None => committed_slots[r] \in msgs

(***************************************************************************)
(* Whatever is lost, late or repeated, a view has one Prepare, and two     *)
(* replicas that commit in the same view commit the same cut.              *)
(***************************************************************************)
OneCutPerView ==
    /\ \A p, q \in Sent("Prepare") : p.view = q.view => p = q
    /\ \A r, s \in Replicas :
          /\ committed_slots[r] # None
          /\ committed_slots[s] # None
          /\ committed_slots[r].view = committed_slots[s].view
          => committed_slots[r].cut = committed_slots[s].cut

(***************************************************************************)
(* A view is certified along one path: the FastTimer and the last Prepare  *)
(* vote race, and the loser must not certify the view a second time.       *)
(***************************************************************************)
OnePathPerView ==
    \A c \in Sent("Commit"), d \in Sent("Confirm") :
        c.view = d.view => c.qc.phase = "Confirm"

(***************************************************************************)
(* A Timeout omits a vote when its author votes in that view, or a view    *)
(* below, without the Timeout reporting it.                                *)
(***************************************************************************)
Reports(high, v) == high # None /\ high.view >= v

OmitsVote(t) ==
    \E v \in 1 .. t.view :
        \/ /\ ConfirmVote(t.author, v) \in msgs
           /\ ~Reports(t.high_qc, v)
        \/ /\ PrepareVote(t.author, v) \in msgs
           /\ \E c \in Sent("Commit") : c.view = v /\ c.qc.phase = "Prepare"
           /\ ~Reports(t.high_prop, v)

\* A cut that is committed in a view is the cut of every later Prepare.
CommittedCutsAreKept ==
    \A c \in Sent("Commit"), p \in Sent("Prepare") :
        p.view > c.view => p.cut = c.cut

(***************************************************************************)
(* The view change recovers what could have committed, as long as no       *)
(* Timeout omits a vote.                                                   *)
(***************************************************************************)
RecoversReportedVotes ==
    (\A t \in Sent("Timeout") : ~OmitsVote(t)) => CommittedCutsAreKept

(***************************************************************************)
(* The view change of a TC takes the cut of the highest QC in it.          *)
(***************************************************************************)
HighQCsOf(tc) == {tc.timeouts[i].high_qc : i \in DOMAIN tc.timeouts} \ {None}

HighestQCWins ==
    \A p \in Sent("Prepare") : p.tc # None =>
        \A q \in HighQCsOf(p.tc) :
            (\A o \in HighQCsOf(p.tc) : o.view <= q.view) => p.cut = q.cut
-----------------------------------------------------------------------------
(***************************************************************************)
(* A replica never goes back: not to an earlier view, and, until it        *)
(* commits, not to the Confirm of an earlier view.                         *)
(***************************************************************************)
NeverGoesBack ==
    [][\A r \in Replicas :
         /\ views'[r] >= views[r]
         /\ (high_qcs[r] # None /\ committed_slots'[r] = None)
              => high_qcs'[r] # None /\ high_qcs'[r].view >= high_qcs[r].view]_vars

(***************************************************************************)
(* Every replica that does not stop commits the slot.                      *)
(***************************************************************************)
EveryoneCommits == <>(\A r \in Replicas \ Crashed : committed_slots[r] # None)

(***************************************************************************)
(* A quorum of Prepare votes at the leader is not lost: the view is        *)
(* confirmed or committed, whichever of the votes and the FastTimer it     *)
(* takes.                                                                  *)
(***************************************************************************)
QuorumIsUsed ==
    \A v \in Views :
        IsQuorum(qc_makers[v].votes)
            ~> \E m \in msgs : m.type \in {"Confirm", "Commit"} /\ m.view = v
=============================================================================
