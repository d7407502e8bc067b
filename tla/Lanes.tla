-------------------------------- MODULE Lanes --------------------------------
(***************************************************************************)
(* Data dissemination at every replica: the Proposer makes the headers of  *)
(* its lane, the Cores store them, vote for them and certify them, and a   *)
(* leader proposes the tips of all lanes as a cut.  Messages are delayed,  *)
(* repeated and reordered, and some replicas may crash.                    *)
(*                                                                         *)
(* A header is its author and height; its parent certificate is that of    *)
(* the height before, or the header is refused.  What a HeaderWaiter does  *)
(* with a suspended header is in HeaderSync; here it is `waiting`.         *)
(*                                                                         *)
(* A definition whose comment begins with BUG is a mistake the next        *)
(* definition could contain; the model does not use it.                    *)
(***************************************************************************)
EXTENDS Committee

CONSTANTS
    Authors,        \* the replicas that make headers
    MaxHeight,      \* bound: replica -> how many headers it makes
    LateBatches,    \* the headers whose payload may be missing when they arrive
    Leaders,        \* the replicas that propose a cut
    CutCondition,   \* Core::cut_condition_type
    MayCrash,       \* the replicas that may stop at any moment
    OptimisticTips  \* Parameters::use_optimistic_tips

None == -1

Headers == UNION {{a} \X (1 .. MaxHeight[a]) : a \in Authors}
Parent(x) == <<x[1], x[2] - 1>>

\* A tip is a height of its lane.  The tip of a leader without a header of its
\* own has the id of no header (NoTip).
NoTip == -1
Cuts == [Replicas -> Nat \cup {NoTip}]
NoCut == <<>>

ASSUME LanesAssumption ==
    /\ Authors \subseteq Replicas /\ Leaders \subseteq Replicas
    /\ MaxHeight \in [Replicas -> Nat]
    /\ LateBatches \subseteq Headers
    /\ CutCondition \in Nat
    /\ MayCrash \subseteq Replicas
    /\ OptimisticTips \in BOOLEAN

VARIABLES
    \* Proposer, and its channels from and to Core
    height, last_parent, rx_core, rx_proposer,
    \* Core, as the author of a lane
    current_header, votes_aggregator,
    \* Core, as a receiver: the store, and the headers with the HeaderWaiter
    store, keys, waiting, last_voted, proposal_tips, certified_tips,
    \* the headers that were broadcast; of each leader the cut of its Prepare, the
    \* replicas the Prepare has reached, and its voters
    sent, cut, heard, voted,
    crashed

proposerVars == <<height, last_parent>>
channelVars == <<rx_core, rx_proposer>>
authorVars == <<current_header, votes_aggregator>>
storeVars == <<store, keys, waiting, last_voted, proposal_tips, certified_tips>>
cutVars == <<cut, heard, voted>>
vars == <<proposerVars, channelVars, authorVars, storeVars, sent, cutVars, crashed>>

\* The Proposer starts with a genesis parent, and Core sends it another one.
Init ==
    /\ height = [a \in Replicas |-> 0]
    /\ last_parent = [a \in Replicas |-> 0]
    /\ rx_core = [a \in Replicas |-> <<0>>]
    /\ rx_proposer = [a \in Replicas |-> <<>>]
    /\ current_header = [a \in Replicas |-> None]
    /\ votes_aggregator = [a \in Replicas |-> {}]
    /\ store = [r \in Replicas |-> {}]
    /\ keys = [r \in Replicas |-> {}]
    /\ waiting = [r \in Replicas |-> {}]
    /\ last_voted = [r \in Replicas |-> {}]
    /\ proposal_tips = [r \in Replicas |-> [a \in Replicas |-> 0]]
    /\ certified_tips = [r \in Replicas |-> [a \in Replicas |-> 0]]
    /\ sent = {}
    /\ cut = [l \in Replicas |-> NoCut]
    /\ heard = [l \in Replicas |-> {}]
    /\ voted = [l \in Replicas |-> {}]
    /\ crashed = {}

Running(r) == r \notin crashed
-----------------------------------------------------------------------------
(***************************************************************************)
(* Proposer.                                                               *)
(***************************************************************************)
\* BUG: the parent certificate is used again.
KeepParent(a) == a \in Authors /\ UNCHANGED last_parent

UseParent(a) == last_parent' = [last_parent EXCEPT ![a] = None]

\* The timer expired or there are enough batches, and there is a parent.
make_header(a) ==
    /\ Running(a)
    /\ last_parent[a] # None
    /\ height[a] <= MaxHeight[a]
    /\ rx_proposer' = [rx_proposer EXCEPT ![a] =
           Append(@, [height |-> height[a], parent |-> last_parent[a]])]
    /\ UseParent(a)
    /\ UNCHANGED <<height, rx_core, authorVars, storeVars, sent, cutVars, crashed>>

\* BUG: the certificate of the current height is taken for an old one.
NewerOnly(a, h) == h > height[a]

Extends(a, h) == h >= height[a]

\* The certificate of its own header reaches the Proposer.
CertificateArrives(a) ==
    /\ Running(a)
    /\ rx_core[a] # <<>>
    /\ rx_core' = [rx_core EXCEPT ![a] = Tail(@)]
    /\ IF Extends(a, Head(rx_core[a]))
       THEN /\ height' = [height EXCEPT ![a] = @ + 1]
            /\ last_parent' = [last_parent EXCEPT ![a] = Head(rx_core[a])]
       ELSE UNCHANGED proposerVars
    /\ UNCHANGED <<rx_proposer, authorVars, storeVars, sent, cutVars, crashed>>
-----------------------------------------------------------------------------
(***************************************************************************)
(* Votes for headers.                                                      *)
(***************************************************************************)
Complete(votes) == Cardinality(votes) >= ValidityThreshold

\* VotesAggregator::append and get: the vote that completes the certificate
\* sends it to the Proposer; the aggregator takes no vote after that.
CountVote(a, h, votes, voter) ==
    /\ votes_aggregator' = [votes_aggregator EXCEPT ![a] = votes \cup {voter}]
    /\ rx_core' = IF Complete(votes \cup {voter})
                  THEN [rx_core EXCEPT ![a] = Append(@, h)] ELSE rx_core

\* process_vote for the current header.
VoteArrives(a, voter) ==
    /\ Running(a)
    /\ <<a, current_header[a]>> \in last_voted[voter]
    /\ ~Complete(votes_aggregator[a])
    /\ voter \notin votes_aggregator[a]
    /\ CountVote(a, current_header[a], votes_aggregator[a], voter)
    /\ UNCHANGED <<proposerVars, rx_proposer, current_header, storeVars, sent,
                   cutVars, crashed>>
-----------------------------------------------------------------------------
(***************************************************************************)
(* process_header.                                                         *)
(***************************************************************************)
Raise(tips, r, a, h) == [tips EXCEPT ![r][a] = IF h > @ THEN h ELSE @]

\* process_certificate of the parent certificate, before all else.
RaiseCertified(tips, r, x) == Raise(tips, r, x[1], x[2] - 1)

\* BUG: the parent is not looked up.
AnyParent(r, x) == x \in Headers

ParentStored(r, x) == x[2] = 1 \/ Parent(x) \in store[r]

MissingPayload(r, x) ==
    /\ x \in LateBatches
    /\ waiting' = [waiting EXCEPT ![r] = @ \cup {x}]
    /\ certified_tips' = RaiseCertified(certified_tips, r, x)
    /\ UNCHANGED <<store, keys, last_voted, proposal_tips>>

\* BUG: the optimistic key is not written.
NoKey(r, x) == r \in Replicas /\ x \in Headers /\ UNCHANGED keys

\* The header is an optimistic tip as soon as its payload is there.
WriteKey(r, x) ==
    keys' = IF OptimisticTips THEN [keys EXCEPT ![r] = @ \cup {x}] ELSE keys

MissingParent(r, x) ==
    /\ ~ParentStored(r, x)
    /\ WriteKey(r, x)
    /\ waiting' = [waiting EXCEPT ![r] = @ \cup {x}]
    /\ certified_tips' = RaiseCertified(certified_tips, r, x)
    /\ UNCHANGED <<store, last_voted, proposal_tips>>

\* The header is stored, becomes a tip and is voted for, once per author and
\* height.  The vote is what last_voted records: it may arrive at any later time.
StoreHeader(r, x) ==
    /\ ParentStored(r, x)
    /\ WriteKey(r, x)
    /\ store' = [store EXCEPT ![r] = @ \cup {x}]
    /\ waiting' = [waiting EXCEPT ![r] = @ \ {x}]
    /\ last_voted' = [last_voted EXCEPT ![r] = @ \cup {x}]

\* A received header that becomes a tip.
ReceiveHeader(r, x) ==
    /\ StoreHeader(r, x)
    /\ certified_tips' = RaiseCertified(certified_tips, r, x)
    /\ proposal_tips' = IF OptimisticTips
                        THEN Raise(proposal_tips, r, x[1], x[2]) ELSE proposal_tips

\* A header of another author reaches a replica, from the author or as the
\* answer to a request.  A header the replica already has changes nothing.
HeaderArrives(r, x) ==
    /\ Running(r)
    /\ x \in sent /\ x[1] # r
    /\ x \notin store[r] \cup waiting[r]
    /\ MissingPayload(r, x) \/ MissingParent(r, x) \/ ReceiveHeader(r, x)
    /\ UNCHANGED <<proposerVars, channelVars, authorVars, sent, cutVars, crashed>>

\* The HeaderWaiter brings a header back once its payload, or its parent, is
\* there.
HeaderLoopsBack(r, x) ==
    /\ Running(r)
    /\ x \in waiting[r]
    /\ MissingParent(r, x) \/ ReceiveHeader(r, x)
    /\ UNCHANGED <<proposerVars, channelVars, authorVars, sent, cutVars, crashed>>

\* process_own_header: the header becomes a tip even before it is certified,
\* is broadcast, stored and voted for.
OwnHeader(a) ==
    /\ Running(a)
    /\ rx_proposer[a] # <<>>
    /\ LET m == Head(rx_proposer[a])
           x == <<a, m.height>>
           tip == IF OptimisticTips THEN proposal_tips ELSE certified_tips
       IN
        /\ rx_proposer' = [rx_proposer EXCEPT ![a] = Tail(@)]
        /\ IF m.parent + 1 = m.height
           THEN /\ current_header' = [current_header EXCEPT ![a] = m.height]
                /\ sent' = sent \cup {x}
                /\ StoreHeader(a, x)
                /\ CountVote(a, m.height, {}, a)
                /\ IF OptimisticTips
                   THEN /\ proposal_tips' = [proposal_tips EXCEPT ![a][a] = m.height]
                        /\ certified_tips' = RaiseCertified(certified_tips, a, x)
                   ELSE /\ certified_tips' = [certified_tips EXCEPT ![a][a] = m.height]
                        /\ UNCHANGED proposal_tips
           \* process_header refuses it, here and everywhere.
           ELSE /\ current_header' = [current_header EXCEPT ![a] = None]
                /\ votes_aggregator' = [votes_aggregator EXCEPT ![a] = {}]
                /\ IF OptimisticTips
                   THEN /\ proposal_tips' = [proposal_tips EXCEPT ![a][a] = NoTip]
                        /\ UNCHANGED certified_tips
                   ELSE /\ certified_tips' = [certified_tips EXCEPT ![a][a] = NoTip]
                        /\ UNCHANGED proposal_tips
                /\ UNCHANGED <<store, keys, waiting, last_voted, sent, rx_core>>
    /\ UNCHANGED <<proposerVars, cutVars, crashed>>
-----------------------------------------------------------------------------
(***************************************************************************)
(* Cuts.                                                                   *)
(***************************************************************************)
CurrentTips(r) == IF OptimisticTips THEN proposal_tips[r] ELSE certified_tips[r]

\* The tips that are new to a ticket with the genesis tips.  A leader of a
\* later view does not wait for coverage: CutCondition = 0.
enough_coverage(r) ==
    Cardinality({a \in Replicas : CurrentTips(r)[a] > 0}) >= CutCondition

\* BUG: a tip that is missing is asked for, but not waited for.
AskForTips(r, c) == r \in Replicas /\ c # NoCut

\* optimistic_tips_ready: genesis tips are skipped; certified tips are not
\* waited for.
TipsReady(r, c) ==
    \A a \in Replicas : c[a] = 0 \/ ~OptimisticTips \/ <<a, c[a]>> \in keys[r]

\* The Prepare of leader l with cut c reaches r: r votes, or suspends it and
\* asks for the tips it misses.
Hear(r, l, c) ==
    /\ heard' = [heard EXCEPT ![l] = @ \cup {r}]
    /\ voted' = IF TipsReady(r, c) THEN [voted EXCEPT ![l] = @ \cup {r}] ELSE voted

\* set_consensus_proposal: the tips, and the header the leader collects votes
\* for.  The leader processes its own Prepare at once.
Propose(l) ==
    /\ Running(l)
    /\ l \in Leaders /\ cut[l] = NoCut
    /\ enough_coverage(l)
    /\ cut' = [cut EXCEPT ![l] = [CurrentTips(l) EXCEPT ![l] = current_header[l]]]
    /\ Hear(l, l, cut'[l])
    /\ UNCHANGED <<proposerVars, channelVars, authorVars, storeVars, sent, crashed>>

PrepareArrives(r, l) ==
    /\ Running(r)
    /\ cut[l] # NoCut /\ r \notin heard[l]
    /\ Hear(r, l, cut[l])
    /\ UNCHANGED <<proposerVars, channelVars, authorVars, storeVars, sent, cut, crashed>>

\* A suspended Prepare comes back once its tips are there.
PrepareLoopsBack(r, l) ==
    /\ Running(r)
    /\ cut[l] # NoCut /\ r \in heard[l] \ voted[l]
    /\ TipsReady(r, cut[l])
    /\ voted' = [voted EXCEPT ![l] = @ \cup {r}]
    /\ UNCHANGED <<proposerVars, channelVars, authorVars, storeVars, sent, cut, heard, crashed>>

\* At most f replicas stop, and do not come back.
Crash(r) ==
    /\ r \in MayCrash /\ Running(r)
    /\ Cardinality(crashed \cup {r}) < ValidityThreshold
    /\ crashed' = crashed \cup {r}
    /\ UNCHANGED <<proposerVars, channelVars, authorVars, storeVars, sent, cutVars>>
-----------------------------------------------------------------------------
Next ==
    \/ \E a \in Authors : make_header(a) \/ CertificateArrives(a) \/ OwnHeader(a)
    \/ \E a \in Authors, v \in Replicas : VoteArrives(a, v)
    \/ \E r \in Replicas, x \in Headers : HeaderArrives(r, x) \/ HeaderLoopsBack(r, x)
    \/ \E l \in Leaders : Propose(l)
    \/ \E r \in Replicas, l \in Leaders : PrepareArrives(r, l) \/ PrepareLoopsBack(r, l)
    \/ \E r \in MayCrash : Crash(r)

Spec == Init /\ [][Next]_vars

\* BUG: only the author of a header is asked for it.
FromAuthor(r, x) == r \in Replicas /\ Running(x[1])

\* The HeaderWaiter asks for the parent of a suspended header and for the tips
\* of a cut that reached the replica, until a Helper that has the header answers.
Answered(r, x) ==
    /\ \/ <<x[1], x[2] + 1>> \in waiting[r]
       \/ \E l \in Leaders : r \in heard[l] /\ cut[l][x[1]] = x[2]
    /\ \E s \in Replicas : Running(s) /\ x \in store[s]

(***************************************************************************)
(* Fairness: a running replica takes its steps, timers expire, and what a  *)
(* running replica sends arrives.  What a replica sent before it crashed   *)
(* may arrive or not.  No step is repeated for ever, so one condition per  *)
(* replica is enough.                                                      *)
(***************************************************************************)
FairStep(r) ==
    \/ r \in Authors /\ (make_header(r) \/ CertificateArrives(r) \/ OwnHeader(r))
    \/ \E v \in Replicas : Running(v) /\ VoteArrives(r, v)
    \/ \E x \in Headers : (Running(x[1]) \/ Answered(r, x)) /\ HeaderArrives(r, x)
    \/ \E x \in Headers : HeaderLoopsBack(r, x)
    \/ Propose(r)
    \/ \E l \in Leaders : Running(l) /\ PrepareArrives(r, l)
    \/ \E l \in Leaders : PrepareLoopsBack(r, l)

Fairness == \A r \in Replicas : WF_vars(FairStep(r))

FairSpec == Spec /\ Fairness
-----------------------------------------------------------------------------
(***************************************************************************)
(* Properties.                                                             *)
(***************************************************************************)

TypeOK ==
    /\ height \in [Replicas -> Nat]
    /\ last_parent \in [Replicas -> Nat \cup {None}]
    /\ rx_core \in [Replicas -> Seq(Nat)]
    /\ rx_proposer \in [Replicas -> Seq([height : Nat, parent : Nat])]
    /\ \A a \in Replicas : \A i \in DOMAIN rx_proposer[a] :
         a \in Authors /\ rx_proposer[a][i].height <= MaxHeight[a]
    /\ current_header \in [Replicas -> (Nat \ {0}) \cup {None}]
    /\ votes_aggregator \in [Replicas -> SUBSET Replicas]
    /\ store \in [Replicas -> SUBSET Headers] /\ keys \in [Replicas -> SUBSET Headers]
    /\ waiting \in [Replicas -> SUBSET Headers]
    /\ last_voted \in [Replicas -> SUBSET Headers]
    /\ proposal_tips \in [Replicas -> Cuts] /\ certified_tips \in [Replicas -> Cuts]
    /\ sent \in SUBSET Headers
    /\ cut \in [Replicas -> Cuts \cup {NoCut}]
    /\ heard \in [Replicas -> SUBSET Replicas]
    /\ voted \in [Replicas -> SUBSET Replicas]
    /\ crashed \in SUBSET Replicas

\* When a quorum has voted for a cut, every header of it can be had from a
\* replica that still runs, though leader and authors may be gone: the tips from
\* one that voted, with its payload, and what is below from one that stored it
\* (the f + 1 votes of a header's parent certificate are there for this).
CutsAreObtainable ==
    \A l \in Leaders : IsQuorum(voted[l]) =>
        \A a \in Replicas : \A h \in 1 .. cut[l][a] :
            \E r \in Replicas \ crashed :
                <<a, h>> \in (IF h = cut[l][a] THEN keys[r] ELSE store[r])

\* The lanes are chains whose headers are held with their ancestors, and are
\* extended only from a header that f + 1 replicas hold.
Lane(a) == IF current_header[a] = None THEN 0 ELSE current_header[a]
Chain == INSTANCE LaneChain WITH
    Threshold <- ValidityThreshold,
    lane <- [a \in Replicas |-> Lane(a)],
    held <- store
ImplementsChains == Chain!Spec

\* An author does not make two headers of a height, whenever the certificates and
\* the timer come: a replica votes only for one of them.
OneHeaderPerHeight ==
    [][\A a \in Authors :
        Len(rx_proposer'[a]) > Len(rx_proposer[a]) =>
            LET h == rx_proposer'[a][Len(rx_proposer'[a])].height
            IN  /\ <<a, h>> \notin sent
                /\ \A i \in DOMAIN rx_proposer[a] : rx_proposer[a][i].height # h]_vars

\* The lane of an author that keeps running grows, whatever the order of its
\* certificates and of the genesis parents it starts with.
LanesGrow ==
    <>\A a \in Authors :
        \/ ~Running(a)
        \/ current_header[a] = MaxHeight[a] /\ Complete(votes_aggregator[a])

\* A Prepare of a leader that keeps running, and has made a header of its own,
\* gets its votes: the tips that a replica misses reach it from someone.
CutsAreVoted ==
    \A l \in Leaders :
        (cut[l] # NoCut /\ cut[l][l] # NoTip) ~> (~Running(l) \/ IsQuorum(voted[l]))

\* A cut that a quorum voted for is stored by every replica that keeps running, so
\* that every Committer can execute it.  If the leader stops before its Prepare
\* reached a replica, this one hears of the cut in a later view, which is not here.
StoresTips(r, c) ==
    c # NoCut /\ \A a \in Replicas : c[a] > 0 => <<a, c[a]>> \in store[r]

CutsSpread ==
    \A l \in Leaders :
        IsQuorum(voted[l]) ~>
            \A r \in Replicas : \/ ~Running(r)
                                \/ ~Running(l) /\ r \notin heard[l]
                                \/ StoresTips(r, cut[l])
=============================================================================
