----------------------------- MODULE LanesProofs -----------------------------
(***************************************************************************)
(* Proofs about Lanes.  The type of the variables; what a quorum voted for *)
(* can be had from a replica that runs (with optimistic tips); the lanes   *)
(* implement LaneChain, and an author makes one header of a height; no     *)
(* lane and no cut gets stuck.                                             *)
(***************************************************************************)
EXTENDS Lanes, CommitteeProofs, SequenceTheorems

-----------------------------------------------------------------------------
(***************************************************************************)
(* The invariant behind CutsAreObtainable.                                 *)
(***************************************************************************)
Holders(x) == {r \in Replicas : x \in store[r]}
Backed(x) == Cardinality(Holders(x)) >= ValidityThreshold

\* A replica votes for what it stores.
VotesStored == \A r \in Replicas : last_voted[r] \subseteq store[r]

\* A store is closed under ancestors.
StoreClosed ==
    \A r \in Replicas : \A x \in store[r] : \A h \in 1 .. x[2] : <<x[1], h>> \in store[r]

\* What a replica has of a header comes from the header's author.
FromSent ==
    \A r \in Replicas : /\ store[r] \subseteq sent /\ keys[r] \subseteq sent
                        /\ waiting[r] \subseteq sent

\* The votes an author counts were cast for its current header.
VotesCast ==
    \A a \in Replicas :
        /\ current_header[a] = None => votes_aggregator[a] = {}
        /\ \A h \in Nat : current_header[a] = h => votes_aggregator[a] \subseteq Holders(<<a, h>>)

\* A certificate, wherever it is, has f + 1 replicas behind it.
CertificateOf(a, h) ==
    \/ \E i \in DOMAIN rx_core[a] : rx_core[a][i] = h
    \/ last_parent[a] = h
    \/ \E i \in DOMAIN rx_proposer[a] : rx_proposer[a][i].parent = h
CertificatesBacked ==
    \A x \in Headers : CertificateOf(x[1], x[2]) => Backed(x)
SentBacked == \A x \in sent : x[2] > 1 => Backed(Parent(x))

\* Who voted for a cut has the key of each of its tips.
VotersHaveKeys ==
    \A l \in Replicas : \A r \in voted[l] : cut[l] # NoCut /\ TipsReady(r, cut[l])

FewCrashed == Cardinality(crashed) < ValidityThreshold

AvailInv ==
    /\ TypeOK /\ VotesStored /\ StoreClosed /\ FromSent /\ VotesCast
    /\ CertificatesBacked /\ SentBacked /\ VotersHaveKeys /\ FewCrashed

(***************************************************************************)
(* The invariant behind ImplementsChains and OneHeaderPerHeight: each lane *)
(* is in one of four stages.                                               *)
(***************************************************************************)
Message(h, p) == [height |-> h, parent |-> p]
Genesis == Message(0, 0)
Position(h) == IF h = 0 THEN None ELSE h

Certified(a) == current_header[a] # None => Complete(votes_aggregator[a])

\* Before the genesis certificate of Core; a header on the genesis certificate
\* of the Proposer may have been made.
Starting(a) ==
    /\ height[a] = 0 /\ rx_core[a] = <<0>> /\ current_header[a] = None
    /\ \/ last_parent[a] = 0 /\ rx_proposer[a] = <<>>
       \/ last_parent[a] = None /\ rx_proposer[a] \in {<<>>, <<Genesis>>}

HasParent(a) ==
    /\ height[a] >= 1 /\ rx_core[a] = <<>> /\ last_parent[a] = height[a] - 1
    /\ current_header[a] = Position(height[a] - 1) /\ Certified(a)
    /\ \/ rx_proposer[a] = <<>>
       \/ height[a] = 1 /\ rx_proposer[a] = <<Genesis>>

HeaderMade(a) ==
    /\ height[a] >= 1 /\ rx_core[a] = <<>> /\ last_parent[a] = None
    /\ current_header[a] = Position(height[a] - 1) /\ Certified(a)
    /\ \/ rx_proposer[a] = <<Message(height[a], height[a] - 1)>>
       \/ height[a] = 1 /\ rx_proposer[a] = <<Genesis, Message(1, 0)>>

Voting(a) ==
    /\ height[a] >= 1 /\ last_parent[a] = None /\ rx_proposer[a] = <<>>
    /\ current_header[a] = height[a]
    /\ rx_core[a] = IF Complete(votes_aggregator[a]) THEN <<height[a]>> ELSE <<>>

Stage(a) == Starting(a) \/ HasParent(a) \/ HeaderMade(a) \/ Voting(a)
Stages == \A a \in Replicas : Stage(a)

\* What was broadcast does not go beyond the lane.
SentInLane == \A x \in sent : x[2] <= Lane(x[1])

ChainInv == AvailInv /\ Stages /\ SentInLane
-----------------------------------------------------------------------------
(***************************************************************************)
(* Headers, channels and cardinalities.                                    *)
(***************************************************************************)
LEMMA HeaderParts ==
    \A x \in Headers : /\ x = <<x[1], x[2]>> /\ x[1] \in Authors /\ x[1] \in Replicas
                       /\ x[2] \in Nat /\ x[2] >= 1 /\ x[2] <= MaxHeight[x[1]]
<1> TAKE x \in Headers
<1>1. PICK a \in Authors : x \in {a} \X (1 .. MaxHeight[a])
  BY DEF Headers
<1>2. a \in Replicas /\ MaxHeight[a] \in Nat
  BY LanesAssumption
<1> QED
  BY <1>1, <1>2

LEMMA HeaderOf ==
    \A a \in Authors : \A h \in Nat :
        h >= 1 /\ h <= MaxHeight[a] => <<a, h>> \in Headers
<1> TAKE a \in Authors
<1> TAKE h \in Nat
<1>1. MaxHeight[a] \in Nat
  BY LanesAssumption
<1> QED
  BY <1>1 DEF Headers

LEMMA ParentIsHeader ==
    \A x \in Headers : x[2] > 1 => Parent(x) \in Headers
<1> TAKE x \in Headers
<1> HAVE x[2] > 1
<1>1. x[2] - 1 \in Nat /\ x[2] - 1 >= 1 /\ x[2] - 1 <= MaxHeight[x[1]] /\ x[1] \in Authors
  BY HeaderParts, LanesAssumption
<1> QED
  BY <1>1, HeaderOf DEF Parent

\* A channel keeps its messages in order.
LEMMA ChannelFacts ==
    ASSUME NEW S, NEW q \in Seq(S), NEW m \in S
    PROVE  /\ Append(q, m) \in Seq(S)
           /\ \A i \in DOMAIN Append(q, m) :
                \/ i \in DOMAIN q /\ Append(q, m)[i] = q[i]
                \/ Append(q, m)[i] = m
           /\ q # <<>> => /\ Head(q) \in S /\ Head(q) = q[1] /\ 1 \in DOMAIN q
                          /\ Tail(q) \in Seq(S)
                          /\ \A i \in DOMAIN Tail(q) :
                               i + 1 \in DOMAIN q /\ Tail(q)[i] = q[i + 1]
OBVIOUS

LEMMA HeadFacts ==
    ASSUME NEW S, NEW q \in Seq(S), q # <<>>
    PROVE  Head(q) \in S /\ Head(q) = q[1] /\ 1 \in DOMAIN q /\ Tail(q) \in Seq(S)
OBVIOUS

LEMMA AppendSecond ==
    ASSUME NEW S, NEW m \in S, NEW n \in S
    PROVE  Append(<<m>>, n) = <<m, n>>
<1> DEFINE s == Append(<<m>>, n)
           t == <<m, n>>
<1>1. s \in Seq(S) /\ t \in Seq(S) /\ Len(s) = 2 /\ Len(t) = 2
  OBVIOUS
<1>2. \A i \in 1 .. 2 : s[i] = t[i]
  OBVIOUS
<1> HIDE DEF s, t
<1>3. s = t
  BY <1>1, <1>2, SeqEqual
<1> QED
  BY <1>3 DEF s, t

LEMMA ValidityFacts ==
    /\ ValidityThreshold \in Nat /\ ValidityThreshold >= 1
    /\ QuorumThreshold \in Nat /\ QuorumThreshold >= ValidityThreshold
BY SizeIsNatural DEF ValidityThreshold, QuorumThreshold

\* More replicas than can crash include one that runs.
LEMMA OneRuns ==
    ASSUME NEW S, S \subseteq Replicas, NEW C, C \subseteq Replicas,
           Cardinality(S) >= ValidityThreshold, Cardinality(C) < ValidityThreshold
    PROVE  \E r \in S : r \notin C
<1> SUFFICES ASSUME S \subseteq C PROVE FALSE
  OBVIOUS
<1>1. IsFiniteSet(C)
  BY SubsetsFinite
<1>2. Cardinality(S) <= Cardinality(C)
  BY <1>1, FS_Subset
<1> QED
  BY <1>2, ValidityFacts, SubsetsFinite

-----------------------------------------------------------------------------
(***************************************************************************)
(* Types.                                                                  *)
(***************************************************************************)
LEMMA RaiseType ==
    ASSUME NEW tips \in [Replicas -> Cuts], NEW r \in Replicas, NEW a \in Replicas,
           NEW h \in Nat
    PROVE  Raise(tips, r, a, h) \in [Replicas -> Cuts]
BY DEF Raise, Cuts

LEMMA OwnTipType ==
    ASSUME NEW tips \in [Replicas -> Cuts], NEW a \in Replicas, NEW h \in Nat \cup {NoTip}
    PROVE  [tips EXCEPT ![a][a] = h] \in [Replicas -> Cuts]
BY DEF Cuts

LEMMA InitTypeOK == Init => TypeOK
<1> SUFFICES ASSUME Init PROVE TypeOK
  OBVIOUS
<1>1. [a \in Replicas |-> 0] \in Cuts
  BY DEF Cuts
<1>2. /\ height \in [Replicas -> Nat]
      /\ last_parent \in [Replicas -> Nat \cup {None}]
      /\ current_header \in [Replicas -> (Nat \ {0}) \cup {None}]
  BY DEF Init, None
<1>3. /\ rx_core \in [Replicas -> Seq(Nat)]
      /\ rx_proposer \in [Replicas -> Seq([height : Nat, parent : Nat])]
  BY DEF Init
<1>4. \A a \in Replicas : \A i \in DOMAIN rx_proposer[a] :
          a \in Authors /\ rx_proposer[a][i].height <= MaxHeight[a]
  <2>1. \A a \in Replicas : rx_proposer[a] = <<>>
    BY DEF Init
  <2>2. DOMAIN <<>> = {}
    OBVIOUS
  <2> QED
    BY <2>1, <2>2, Zenon
<1>5. /\ votes_aggregator \in [Replicas -> SUBSET Replicas]
      /\ store \in [Replicas -> SUBSET Headers] /\ keys \in [Replicas -> SUBSET Headers]
      /\ waiting \in [Replicas -> SUBSET Headers]
      /\ last_voted \in [Replicas -> SUBSET Headers]
      /\ sent \in SUBSET Headers /\ heard \in [Replicas -> SUBSET Replicas]
      /\ voted \in [Replicas -> SUBSET Replicas]
      /\ crashed \in SUBSET Replicas
  BY DEF Init
<1>6. /\ proposal_tips \in [Replicas -> Cuts] /\ certified_tips \in [Replicas -> Cuts]
      /\ cut \in [Replicas -> Cuts \cup {NoCut}]
  BY <1>1 DEF Init
<1> QED
  BY <1>2, <1>3, <1>4, <1>5, <1>6 DEF TypeOK

LEMMA MakeHeaderType ==
    ASSUME TypeOK, NEW a \in Authors, make_header(a)
    PROVE  TypeOK'
<1>1. a \in Replicas
  BY LanesAssumption
<1> DEFINE m == [height |-> height[a], parent |-> last_parent[a]]
<1>2. m \in [height : Nat, parent : Nat] /\ m.height <= MaxHeight[a]
  BY <1>1 DEF TypeOK, make_header, None
<1>3. rx_proposer' = [rx_proposer EXCEPT ![a] = Append(rx_proposer[a], m)]
  BY DEF make_header
<1>4. rx_proposer[a] \in Seq([height : Nat, parent : Nat])
  BY <1>1 DEF TypeOK
<1>5. rx_proposer' \in [Replicas -> Seq([height : Nat, parent : Nat])]
  BY <1>1, <1>2, <1>3, <1>4, ChannelFacts DEF TypeOK
<1>6. ASSUME NEW b \in Replicas, NEW i \in DOMAIN rx_proposer'[b]
      PROVE  b \in Authors /\ rx_proposer'[b][i].height <= MaxHeight[b]
  <2>1. CASE b = a
    <3>1. rx_proposer'[a] = Append(rx_proposer[a], m)
      BY <1>1, <1>3 DEF TypeOK
    <3> QED
      BY <1>1, <1>2, <1>4, <2>1, <3>1, <1>6, ChannelFacts DEF TypeOK
  <2>2. CASE b # a
    BY <1>3, <1>6, <2>2 DEF TypeOK
  <2> QED
    BY <2>1, <2>2
<1>7. last_parent' \in [Replicas -> Nat \cup {None}]
  BY DEF TypeOK, make_header, UseParent
<1> QED
  BY <1>5, <1>6, <1>7 DEF TypeOK, make_header, authorVars, storeVars, cutVars

LEMMA CertificateArrivesType ==
    ASSUME TypeOK, NEW a \in Authors, CertificateArrives(a)
    PROVE  TypeOK'
<1>1. a \in Replicas
  BY LanesAssumption
<1>2. rx_core[a] \in Seq(Nat) /\ rx_core[a] # <<>>
  BY <1>1 DEF TypeOK, CertificateArrives
<1>3. Head(rx_core[a]) \in Nat /\ Tail(rx_core[a]) \in Seq(Nat)
  BY <1>2
<1>4. rx_core' \in [Replicas -> Seq(Nat)]
  BY <1>3 DEF TypeOK, CertificateArrives
<1>5. height' \in [Replicas -> Nat] /\ last_parent' \in [Replicas -> Nat \cup {None}]
  <2>1. CASE Extends(a, Head(rx_core[a]))
    <3>1. /\ height' = [height EXCEPT ![a] = height[a] + 1]
          /\ last_parent' = [last_parent EXCEPT ![a] = Head(rx_core[a])]
      BY <2>1 DEF CertificateArrives
    <3>2. height[a] + 1 \in Nat
      BY <1>1 DEF TypeOK
    <3> QED
      BY <1>3, <3>1, <3>2 DEF TypeOK
  <2>2. CASE ~Extends(a, Head(rx_core[a]))
    BY <2>2 DEF TypeOK, CertificateArrives, proposerVars
  <2> QED
    BY <2>1, <2>2
<1> QED
  BY <1>4, <1>5 DEF TypeOK, CertificateArrives, authorVars, storeVars, cutVars

LEMMA CountVoteType ==
    ASSUME TypeOK, NEW a \in Replicas, NEW h \in Nat, NEW votes \in SUBSET Replicas,
           NEW voter \in Replicas, CountVote(a, h, votes, voter)
    PROVE  /\ votes_aggregator' \in [Replicas -> SUBSET Replicas]
           /\ rx_core' \in [Replicas -> Seq(Nat)]
<1>1. rx_core[a] \in Seq(Nat)
  BY DEF TypeOK
<1>2. Append(rx_core[a], h) \in Seq(Nat)
  BY <1>1
<1> QED
  BY <1>2 DEF TypeOK, CountVote

LEMMA VoteArrivesType ==
    ASSUME TypeOK, NEW a \in Authors, NEW v \in Replicas, VoteArrives(a, v)
    PROVE  TypeOK'
<1>1. a \in Replicas
  BY LanesAssumption
<1>2. current_header[a] \in Nat
  <2>1. <<a, current_header[a]>> \in Headers
    BY <1>1 DEF VoteArrives, TypeOK
  <2> QED
    BY <2>1, HeaderParts
<1>3. votes_aggregator[a] \in SUBSET Replicas
  BY <1>1 DEF TypeOK
<1>4. CountVote(a, current_header[a], votes_aggregator[a], v)
  BY DEF VoteArrives
<1>5. /\ votes_aggregator' \in [Replicas -> SUBSET Replicas]
      /\ rx_core' \in [Replicas -> Seq(Nat)]
  BY <1>1, <1>2, <1>3, <1>4, CountVoteType
<1> QED
  BY <1>5 DEF TypeOK, VoteArrives, proposerVars, storeVars, cutVars

LEMMA StoreHeaderType ==
    ASSUME TypeOK, NEW r \in Replicas, NEW x \in Headers, StoreHeader(r, x)
    PROVE  /\ store' \in [Replicas -> SUBSET Headers]
           /\ keys' \in [Replicas -> SUBSET Headers]
           /\ waiting' \in [Replicas -> SUBSET Headers]
           /\ last_voted' \in [Replicas -> SUBSET Headers]
BY DEF TypeOK, StoreHeader, WriteKey

LEMMA HandleHeaderType ==
    ASSUME TypeOK, NEW r \in Replicas, NEW x \in Headers,
           MissingPayload(r, x) \/ MissingParent(r, x) \/ ReceiveHeader(r, x),
           UNCHANGED <<proposerVars, channelVars, authorVars, sent, cutVars, crashed>>
    PROVE  TypeOK'
<1>1. x[1] \in Replicas /\ x[2] \in Nat /\ x[2] - 1 \in Nat
  BY HeaderParts
<1>2. RaiseCertified(certified_tips, r, x) \in [Replicas -> Cuts]
  BY <1>1, RaiseType DEF TypeOK, RaiseCertified
<1>3. Raise(proposal_tips, r, x[1], x[2]) \in [Replicas -> Cuts]
  BY <1>1, RaiseType DEF TypeOK
<1>4. /\ store' \in [Replicas -> SUBSET Headers] /\ keys' \in [Replicas -> SUBSET Headers]
      /\ waiting' \in [Replicas -> SUBSET Headers]
      /\ last_voted' \in [Replicas -> SUBSET Headers]
      /\ certified_tips' \in [Replicas -> Cuts] /\ proposal_tips' \in [Replicas -> Cuts]
  <2>1. CASE MissingPayload(r, x)
    BY <1>2, <2>1 DEF TypeOK, MissingPayload
  <2>2. CASE MissingParent(r, x)
    BY <1>2, <2>2 DEF TypeOK, MissingParent, WriteKey
  <2>3. CASE ReceiveHeader(r, x)
    BY <1>2, <1>3, <2>3, StoreHeaderType DEF TypeOK, ReceiveHeader
  <2> QED
    BY <2>1, <2>2, <2>3
<1> QED
  BY <1>4 DEF TypeOK, proposerVars, channelVars, authorVars, cutVars

LEMMA OwnHeaderType ==
    ASSUME TypeOK, NEW a \in Authors, OwnHeader(a)
    PROVE  TypeOK'
<1>1. a \in Replicas
  BY LanesAssumption
<1> DEFINE m == Head(rx_proposer[a])
           x == <<a, m.height>>
           S == [height : Nat, parent : Nat]
<1>2. rx_proposer[a] \in Seq(S) /\ rx_proposer[a] # <<>>
  BY <1>1 DEF TypeOK, OwnHeader
<1>3. m \in S /\ m.height <= MaxHeight[a]
  <2>1. m \in S /\ m = rx_proposer[a][1] /\ 1 \in DOMAIN rx_proposer[a]
    BY <1>2, HeadFacts
  <2> QED
    BY <1>1, <2>1 DEF TypeOK
<1>4. rx_proposer' = [rx_proposer EXCEPT ![a] = Tail(rx_proposer[a])]
  BY DEF OwnHeader
<1>5. rx_proposer' \in [Replicas -> Seq(S)]
  <2>1. Tail(rx_proposer[a]) \in Seq(S)
    BY <1>2
  <2> QED
    BY <1>4, <2>1 DEF TypeOK
<1>6. ASSUME NEW b \in Replicas, NEW i \in DOMAIN rx_proposer'[b]
      PROVE  b \in Authors /\ rx_proposer'[b][i].height <= MaxHeight[b]
  <2>1. CASE b = a
    <3>1. rx_proposer'[a] = Tail(rx_proposer[a])
      BY <1>1, <1>4 DEF TypeOK
    <3>2. i + 1 \in DOMAIN rx_proposer[a] /\ rx_proposer'[a][i] = rx_proposer[a][i + 1]
      BY <1>2, <1>3, <1>6, <2>1, <3>1
    <3> QED
      BY <1>1, <2>1, <3>2 DEF TypeOK
  <2>2. CASE b # a
    BY <1>4, <1>6, <2>2 DEF TypeOK
  <2> QED
    BY <2>1, <2>2
<1>7. /\ votes_aggregator' \in [Replicas -> SUBSET Replicas]
      /\ rx_core' \in [Replicas -> Seq(Nat)]
      /\ current_header' \in [Replicas -> (Nat \ {0}) \cup {None}]
      /\ store' \in [Replicas -> SUBSET Headers] /\ keys' \in [Replicas -> SUBSET Headers]
      /\ waiting' \in [Replicas -> SUBSET Headers]
      /\ last_voted' \in [Replicas -> SUBSET Headers]
      /\ certified_tips' \in [Replicas -> Cuts] /\ proposal_tips' \in [Replicas -> Cuts]
      /\ sent' \in SUBSET Headers
  <2>1. CASE m.parent + 1 = m.height
    <3>1. m.height \in Nat \ {0} /\ x \in Headers
      BY <1>3, <2>1, HeaderOf
    <3>2. /\ current_header' = [current_header EXCEPT ![a] = m.height]
          /\ sent' = sent \cup {x}
          /\ StoreHeader(a, x)
          /\ CountVote(a, m.height, {}, a)
          /\ IF OptimisticTips
             THEN /\ proposal_tips' = [proposal_tips EXCEPT ![a][a] = m.height]
                  /\ certified_tips' = RaiseCertified(certified_tips, a, x)
             ELSE /\ certified_tips' = [certified_tips EXCEPT ![a][a] = m.height]
                  /\ UNCHANGED proposal_tips
      BY <2>1 DEF OwnHeader
    <3>3. RaiseCertified(certified_tips, a, x) \in [Replicas -> Cuts]
      <4>1. x[1] = a /\ x[2] - 1 \in Nat
        BY <3>1
      <4> QED
        BY <1>1, <4>1, RaiseType DEF TypeOK, RaiseCertified
    <3>4. certified_tips' \in [Replicas -> Cuts] /\ proposal_tips' \in [Replicas -> Cuts]
      <4>1. m.height \in Nat \cup {NoTip}
        BY <3>1
      <4>2. certified_tips \in [Replicas -> Cuts] /\ proposal_tips \in [Replicas -> Cuts]
        BY DEF TypeOK
      <4>3. /\ [proposal_tips EXCEPT ![a][a] = m.height] \in [Replicas -> Cuts]
            /\ [certified_tips EXCEPT ![a][a] = m.height] \in [Replicas -> Cuts]
        BY <1>1, <4>1, <4>2, OwnTipType
      <4> QED
        BY <3>2, <3>3, <4>2, <4>3
    <3>5. current_header' \in [Replicas -> (Nat \ {0}) \cup {None}] /\ sent' \in SUBSET Headers
      BY <3>1, <3>2 DEF TypeOK
    <3>6. /\ votes_aggregator' \in [Replicas -> SUBSET Replicas]
          /\ rx_core' \in [Replicas -> Seq(Nat)]
      BY <1>1, <3>1, <3>2, CountVoteType
    <3> QED
      BY <1>1, <3>1, <3>2, <3>4, <3>5, <3>6, StoreHeaderType
  <2>2. CASE m.parent + 1 # m.height
    <3>1. /\ current_header' = [current_header EXCEPT ![a] = None]
          /\ votes_aggregator' = [votes_aggregator EXCEPT ![a] = {}]
          /\ IF OptimisticTips
             THEN /\ proposal_tips' = [proposal_tips EXCEPT ![a][a] = NoTip]
                  /\ UNCHANGED certified_tips
             ELSE /\ certified_tips' = [certified_tips EXCEPT ![a][a] = NoTip]
                  /\ UNCHANGED proposal_tips
          /\ UNCHANGED <<store, keys, waiting, last_voted, sent, rx_core>>
      BY <2>2 DEF OwnHeader
    <3>2. certified_tips' \in [Replicas -> Cuts] /\ proposal_tips' \in [Replicas -> Cuts]
      <4>1. certified_tips \in [Replicas -> Cuts] /\ proposal_tips \in [Replicas -> Cuts]
        BY DEF TypeOK
      <4>2. /\ [proposal_tips EXCEPT ![a][a] = NoTip] \in [Replicas -> Cuts]
            /\ [certified_tips EXCEPT ![a][a] = NoTip] \in [Replicas -> Cuts]
        BY <1>1, <4>1, OwnTipType
      <4> QED
        BY <3>1, <4>1, <4>2
    <3> QED
      BY <1>1, <3>1, <3>2 DEF TypeOK
  <2> QED
    BY <2>1, <2>2
<1> QED
  BY <1>5, <1>6, <1>7 DEF TypeOK, OwnHeader, proposerVars, cutVars

LEMMA HearType ==
    ASSUME TypeOK, NEW r \in Replicas, NEW l \in Replicas, NEW c, Hear(r, l, c)
    PROVE  /\ heard' \in [Replicas -> SUBSET Replicas]
           /\ voted' \in [Replicas -> SUBSET Replicas]
BY DEF TypeOK, Hear

LEMMA ProposeType ==
    ASSUME TypeOK, NEW l \in Leaders, Propose(l)
    PROVE  TypeOK'
<1>1. l \in Replicas
  BY LanesAssumption
<1>2. [CurrentTips(l) EXCEPT ![l] = current_header[l]] \in Cuts
  BY <1>1 DEF TypeOK, CurrentTips, Cuts, None, NoTip
<1>3. cut' \in [Replicas -> Cuts \cup {NoCut}]
  BY <1>2 DEF TypeOK, Propose
<1>4. Hear(l, l, cut'[l])
  BY DEF Propose
<1>5. /\ heard' \in [Replicas -> SUBSET Replicas]
      /\ voted' \in [Replicas -> SUBSET Replicas]
  BY <1>1, <1>4, HearType
<1> QED
  BY <1>3, <1>5 DEF TypeOK, Propose, proposerVars, channelVars, authorVars, storeVars

LEMMA PrepareType ==
    ASSUME TypeOK, NEW r \in Replicas, NEW l \in Leaders,
           PrepareArrives(r, l) \/ PrepareLoopsBack(r, l)
    PROVE  TypeOK'
<1>1. l \in Replicas
  BY LanesAssumption
<1>2. /\ heard' \in [Replicas -> SUBSET Replicas]
      /\ voted' \in [Replicas -> SUBSET Replicas]
  <2>1. CASE PrepareArrives(r, l)
    BY <1>1, <2>1, HearType DEF PrepareArrives
  <2>2. CASE PrepareLoopsBack(r, l)
    BY <2>2 DEF TypeOK, PrepareLoopsBack
  <2> QED
    BY <2>1, <2>2
<1>3. UNCHANGED <<proposerVars, channelVars, authorVars, storeVars, sent, cut, crashed>>
  BY DEF PrepareArrives, PrepareLoopsBack
<1> QED
  BY <1>2, <1>3 DEF TypeOK, proposerVars, channelVars, authorVars, storeVars

LEMMA TypeStep == TypeOK /\ [Next]_vars => TypeOK'
<1> SUFFICES ASSUME TypeOK, [Next]_vars PROVE TypeOK'
  OBVIOUS
<1>1. CASE \E a \in Authors : make_header(a) \/ CertificateArrives(a) \/ OwnHeader(a)
  BY <1>1, MakeHeaderType, CertificateArrivesType, OwnHeaderType
<1>2. CASE \E a \in Authors, v \in Replicas : VoteArrives(a, v)
  BY <1>2, VoteArrivesType
<1>3. CASE \E r \in Replicas, x \in Headers : HeaderArrives(r, x) \/ HeaderLoopsBack(r, x)
  BY <1>3, HandleHeaderType DEF HeaderArrives, HeaderLoopsBack
<1>4. CASE \E l \in Leaders : Propose(l)
  BY <1>4, ProposeType
<1>5. CASE \E r \in Replicas, l \in Leaders : PrepareArrives(r, l) \/ PrepareLoopsBack(r, l)
  BY <1>5, PrepareType
<1>6. CASE \E r \in MayCrash : Crash(r)
  BY <1>6, LanesAssumption DEF Crash, TypeOK, proposerVars, channelVars, authorVars,
                               storeVars, cutVars
<1>7. CASE UNCHANGED vars
  BY <1>7 DEF TypeOK, vars, proposerVars, channelVars, authorVars, storeVars, cutVars
<1> QED
  BY <1>1, <1>2, <1>3, <1>4, <1>5, <1>6, <1>7 DEF Next

(***************************************************************************)
(* The variables keep their types: a header that a replica has, an author  *)
(* counts votes for, or a cut names, is one its author can have made.      *)
(***************************************************************************)
THEOREM LanesTypeCorrect == Spec => []TypeOK
BY InitTypeOK, TypeStep, PTL DEF Spec
-----------------------------------------------------------------------------
(***************************************************************************)
(* Availability.                                                           *)
(***************************************************************************)
\* Stores and keys grow.
Grows == \A r \in Replicas : store[r] \subseteq store'[r] /\ keys[r] \subseteq keys'[r]
HoldersNext(x) == {r \in Replicas : x \in store'[r]}
BackedNext(x) == Cardinality(HoldersNext(x)) >= ValidityThreshold

LEMMA EnoughHold ==
    ASSUME NEW x, NEW S, S \subseteq HoldersNext(x), Cardinality(S) >= ValidityThreshold
    PROVE  BackedNext(x)
<1>1. HoldersNext(x) \subseteq Replicas
  BY DEF HoldersNext
<1>2. IsFiniteSet(HoldersNext(x)) /\ Cardinality(HoldersNext(x)) \in Nat
  BY <1>1, SubsetsFinite
<1>3. Cardinality(S) <= Cardinality(HoldersNext(x)) /\ Cardinality(S) \in Nat
  BY <1>2, FS_Subset, FS_CardinalityType
<1> QED
  BY <1>2, <1>3, ValidityFacts DEF BackedNext

LEMMA BackedGrows ==
    ASSUME NEW x, Grows
    PROVE  /\ Holders(x) \subseteq HoldersNext(x)
           /\ Backed(x) => BackedNext(x)
<1>1. Holders(x) \subseteq HoldersNext(x)
  BY DEF Grows, Holders, HoldersNext
<1> QED
  BY <1>1, EnoughHold DEF Backed

LEMMA PrimedBacked == \A x : Backed(x)' <=> BackedNext(x)
BY DEF Backed, BackedNext, Holders, HoldersNext

(***************************************************************************)
(* What a received header changes.                                         *)
(***************************************************************************)
LEMMA HandleGrows ==
    ASSUME TypeOK, NEW r \in Replicas, NEW x \in Headers,
           MissingPayload(r, x) \/ MissingParent(r, x) \/ StoreHeader(r, x)
    PROVE  Grows
<1>1. CASE MissingPayload(r, x)
  BY <1>1 DEF Grows, MissingPayload
<1>2. CASE MissingParent(r, x)
  BY <1>2 DEF Grows, TypeOK, MissingParent, WriteKey
<1>3. CASE StoreHeader(r, x)
  BY <1>3 DEF Grows, TypeOK, StoreHeader, WriteKey
<1> QED
  BY <1>1, <1>2, <1>3

\* A header that is stored has its ancestors stored, in every outcome.
LEMMA HandleKeepsStores ==
    ASSUME TypeOK, VotesStored, StoreClosed, FromSent,
           NEW r \in Replicas, NEW x \in Headers, x \in sent',
           sent \subseteq sent',
           MissingPayload(r, x) \/ MissingParent(r, x) \/ StoreHeader(r, x)
    PROVE  VotesStored' /\ StoreClosed' /\ FromSent'
<1>1. VotesStored'
  <2>1. CASE MissingPayload(r, x) \/ MissingParent(r, x)
    BY <2>1 DEF VotesStored, MissingPayload, MissingParent
  <2>2. CASE StoreHeader(r, x)
    BY <2>2 DEF TypeOK, VotesStored, StoreHeader
  <2> QED
    BY <2>1, <2>2
<1>2. FromSent'
  <2>1. CASE MissingPayload(r, x)
    BY <2>1 DEF TypeOK, FromSent, MissingPayload
  <2>2. CASE MissingParent(r, x)
    BY <2>2 DEF TypeOK, FromSent, MissingParent, WriteKey
  <2>3. CASE StoreHeader(r, x)
    BY <2>3 DEF TypeOK, FromSent, StoreHeader, WriteKey
  <2> QED
    BY <2>1, <2>2, <2>3
<1>3. StoreClosed'
  <2>1. CASE StoreHeader(r, x)
    <3>1. store' = [store EXCEPT ![r] = store[r] \cup {x}] /\ ParentStored(r, x)
      BY <2>1 DEF StoreHeader
    <3>2. SUFFICES ASSUME NEW s \in Replicas, NEW y \in store'[s], NEW h \in 1 .. y[2]
                   PROVE  <<y[1], h>> \in store'[s]
      BY DEF StoreClosed
    <3>3. CASE y \in store[s]
      BY <3>1, <3>2, <3>3 DEF StoreClosed, TypeOK
    <3>4. CASE y \notin store[s]
      <4>1. s = r /\ y = x /\ store'[r] = store[r] \cup {x}
        BY <3>1, <3>2, <3>4 DEF TypeOK
      <4>2. x = <<x[1], x[2]>> /\ x[2] \in Nat
        BY HeaderParts
      <4>3. CASE h = x[2]
        BY <4>1, <4>2, <4>3
      <4>4. CASE h # x[2]
        <5>1. x[2] # 1 /\ h \in 1 .. (x[2] - 1)
          BY <3>2, <4>1, <4>2, <4>4
        <5>2. Parent(x) \in store[r]
          BY <3>1, <5>1 DEF ParentStored
        <5>3. Parent(x)[1] = x[1] /\ Parent(x)[2] = x[2] - 1
          BY DEF Parent
        <5> QED
          BY <4>1, <5>1, <5>2, <5>3 DEF StoreClosed
      <4> QED
        BY <4>3, <4>4
    <3> QED
      BY <3>3, <3>4
  <2>2. CASE MissingPayload(r, x) \/ MissingParent(r, x)
    BY <2>2 DEF StoreClosed, MissingPayload, MissingParent
  <2> QED
    BY <2>1, <2>2
<1> QED
  BY <1>1, <1>2, <1>3

(***************************************************************************)
(* What a step that leaves the variables of an invariant alone keeps of    *)
(* it, when stores and keys grow.                                          *)
(***************************************************************************)
CertificatesNext ==
    \A x \in Headers : CertificateOf(x[1], x[2])' => BackedNext(x)

LEMMA PrimedCertificates == CertificatesNext => CertificatesBacked'
BY DEF CertificatesNext, CertificatesBacked, Backed, BackedNext, Holders, HoldersNext

LEMMA CertificatesStay ==
    ASSUME CertificatesBacked, Grows, UNCHANGED <<rx_core, last_parent, rx_proposer>>
    PROVE  CertificatesBacked'
<1>1. \A x \in Headers : CertificateOf(x[1], x[2])' => CertificateOf(x[1], x[2])
  BY DEF CertificateOf
<1>2. CertificatesNext
  BY <1>1, BackedGrows DEF CertificatesBacked, CertificatesNext
<1> QED
  BY <1>2, PrimedCertificates

LEMMA SentStays ==
    ASSUME SentBacked, Grows, UNCHANGED sent
    PROVE  SentBacked'
<1>1. \A x \in sent : x[2] > 1 => BackedNext(Parent(x))
  BY BackedGrows DEF SentBacked
<1> QED
  BY <1>1 DEF SentBacked, Backed, BackedNext, Holders, HoldersNext

LEMMA VotesStay ==
    ASSUME VotesCast, Grows, UNCHANGED authorVars
    PROVE  VotesCast'
BY DEF VotesCast, Holders, Grows, authorVars

LEMMA KeysStay ==
    ASSUME VotersHaveKeys, TypeOK, Grows, UNCHANGED cutVars
    PROVE  VotersHaveKeys'
<1> SUFFICES ASSUME NEW l \in Replicas, NEW r \in voted[l]
             PROVE  cut[l] # NoCut /\ \A a \in Replicas :
                        cut[l][a] = 0 \/ ~OptimisticTips \/ <<a, cut[l][a]>> \in keys'[r]
  BY DEF VotersHaveKeys, TipsReady, cutVars
<1>1. r \in Replicas
  BY DEF TypeOK
<1> QED
  BY <1>1 DEF VotersHaveKeys, TipsReady, Grows

(***************************************************************************)
(* One lemma per action.                                                   *)
(***************************************************************************)
\* The stores, what was sent, the cuts and the crashes stay.
QuietVars == <<store, keys, waiting, last_voted, sent, cutVars, crashed>>

LEMMA QuietStep ==
    ASSUME AvailInv, TypeOK', UNCHANGED QuietVars, VotesCast', CertificatesNext
    PROVE  AvailInv'
<1>1. Grows
  BY DEF Grows, QuietVars
<1>2. VotesStored' /\ StoreClosed' /\ FromSent' /\ FewCrashed'
  BY DEF AvailInv, QuietVars, VotesStored, StoreClosed, FromSent, FewCrashed
<1>3. SentBacked' /\ VotersHaveKeys'
  BY <1>1, SentStays, KeysStay DEF AvailInv, QuietVars, cutVars
<1> QED
  BY <1>2, <1>3, PrimedCertificates DEF AvailInv

LEMMA QuietBacked ==
    ASSUME UNCHANGED QuietVars, NEW x, Backed(x)
    PROVE  BackedNext(x)
<1>1. Grows
  BY DEF Grows, QuietVars
<1> QED
  BY <1>1, BackedGrows

LEMMA MakeHeaderAvail ==
    ASSUME AvailInv, TypeOK', NEW a \in Authors, make_header(a)
    PROVE  AvailInv'
<1>1. UNCHANGED QuietVars /\ UNCHANGED authorVars
  BY DEF make_header, QuietVars, storeVars, cutVars
<1>2. VotesCast'
  BY <1>1 DEF AvailInv, VotesCast, Holders, QuietVars, authorVars
<1>3. ASSUME NEW x \in Headers, CertificateOf(x[1], x[2])'
      PROVE  BackedNext(x)
  <2>1. x[1] \in Replicas /\ x[2] \in Nat /\ a \in Replicas
    BY HeaderParts, LanesAssumption
  <2>2. CertificateOf(x[1], x[2])
    <3> DEFINE m == [height |-> height[a], parent |-> last_parent[a]]
    <3>1. /\ rx_core' = rx_core
          /\ last_parent' = [last_parent EXCEPT ![a] = None]
          /\ rx_proposer' = [rx_proposer EXCEPT ![a] = Append(rx_proposer[a], m)]
          /\ last_parent[a] # None
      BY DEF make_header, UseParent
    <3>2. CASE x[1] # a
      BY <1>3, <2>1, <3>1, <3>2 DEF CertificateOf, AvailInv, TypeOK
    <3>3. CASE x[1] = a
      <4>1. CASE \E i \in DOMAIN rx_core'[a] : rx_core'[a][i] = x[2]
        BY <3>1, <3>3, <4>1 DEF CertificateOf
      <4>2. CASE last_parent'[a] = x[2]
        BY <2>1, <3>1, <4>2 DEF AvailInv, TypeOK, None
      <4>3. CASE \E i \in DOMAIN rx_proposer'[a] : rx_proposer'[a][i].parent = x[2]
        <5>1. PICK i \in DOMAIN rx_proposer'[a] : rx_proposer'[a][i].parent = x[2]
          BY <4>3
        <5>2. rx_proposer'[a] = Append(rx_proposer[a], m)
          BY <2>1, <3>1 DEF AvailInv, TypeOK
        <5>3. /\ rx_proposer[a] \in Seq([height : Nat, parent : Nat])
              /\ m \in [height : Nat, parent : Nat]
          BY <2>1, <3>1 DEF AvailInv, TypeOK, None
        <5>4. \/ i \in DOMAIN rx_proposer[a] /\ rx_proposer'[a][i] = rx_proposer[a][i]
              \/ rx_proposer'[a][i] = m
          BY <5>1, <5>2, <5>3, ChannelFacts
        <5> QED
          BY <3>3, <5>1, <5>4 DEF CertificateOf
      <4> QED
        BY <1>3, <3>3, <4>1, <4>2, <4>3 DEF CertificateOf
    <3> QED
      BY <3>2, <3>3
  <2> QED
    BY <1>1, <2>2, QuietBacked DEF AvailInv, CertificatesBacked
<1> QED
  BY <1>1, <1>2, <1>3, QuietStep DEF CertificatesNext

LEMMA CertificateArrivesAvail ==
    ASSUME AvailInv, TypeOK', NEW a \in Authors, CertificateArrives(a)
    PROVE  AvailInv'
<1>1. UNCHANGED QuietVars /\ UNCHANGED authorVars
  BY DEF CertificateArrives, QuietVars, storeVars, cutVars
<1>2. VotesCast'
  BY <1>1 DEF AvailInv, VotesCast, Holders, QuietVars, authorVars
<1>3. ASSUME NEW x \in Headers, CertificateOf(x[1], x[2])'
      PROVE  BackedNext(x)
  <2>1. x[1] \in Replicas /\ x[2] \in Nat /\ a \in Replicas
    BY HeaderParts, LanesAssumption
  <2>2. CertificateOf(x[1], x[2])
    <3>1. rx_core[a] \in Seq(Nat) /\ rx_core[a] # <<>>
      BY <2>1 DEF AvailInv, TypeOK, CertificateArrives
    <3>2. Head(rx_core[a]) = rx_core[a][1] /\ 1 \in DOMAIN rx_core[a]
      BY <3>1, HeadFacts
    <3>3. /\ rx_core' = [rx_core EXCEPT ![a] = Tail(rx_core[a])]
          /\ rx_proposer' = rx_proposer
          /\ \/ last_parent' = [last_parent EXCEPT ![a] = Head(rx_core[a])]
             \/ last_parent' = last_parent
      BY DEF CertificateArrives, proposerVars
    <3>4. \A i \in DOMAIN Tail(rx_core[a]) :
             i + 1 \in DOMAIN rx_core[a] /\ Tail(rx_core[a])[i] = rx_core[a][i + 1]
      BY <3>1
    <3>5. CASE x[1] # a
      BY <1>3, <2>1, <3>3, <3>5 DEF CertificateOf, AvailInv, TypeOK
    <3>6. CASE x[1] = a
      <4>1. CASE \E i \in DOMAIN rx_core'[a] : rx_core'[a][i] = x[2]
        <5>1. rx_core'[a] = Tail(rx_core[a])
          BY <2>1, <3>3 DEF AvailInv, TypeOK
        <5> QED
          BY <3>4, <3>6, <4>1, <5>1 DEF CertificateOf
      <4>2. CASE last_parent'[a] = x[2]
        <5>1. last_parent'[a] = rx_core[a][1] \/ last_parent'[a] = last_parent[a]
          BY <2>1, <3>2, <3>3 DEF AvailInv, TypeOK
        <5> QED
          BY <3>2, <3>6, <4>2, <5>1 DEF CertificateOf
      <4>3. CASE \E i \in DOMAIN rx_proposer'[a] : rx_proposer'[a][i].parent = x[2]
        BY <3>3, <3>6, <4>3 DEF CertificateOf
      <4> QED
        BY <1>3, <3>6, <4>1, <4>2, <4>3 DEF CertificateOf
    <3> QED
      BY <3>5, <3>6
  <2> QED
    BY <1>1, <2>2, QuietBacked DEF AvailInv, CertificatesBacked
<1> QED
  BY <1>1, <1>2, <1>3, QuietStep DEF CertificatesNext

LEMMA VoteArrivesAvail ==
    ASSUME AvailInv, TypeOK', NEW a \in Authors, NEW v \in Replicas, VoteArrives(a, v)
    PROVE  AvailInv'
<1> DEFINE votes == votes_aggregator[a] \cup {v}
           h == current_header[a]
<1>1. UNCHANGED QuietVars /\ UNCHANGED current_header
  BY DEF VoteArrives, QuietVars, storeVars, cutVars
<1>2. /\ votes_aggregator' = [votes_aggregator EXCEPT ![a] = votes]
      /\ rx_core' = IF Complete(votes) THEN [rx_core EXCEPT ![a] = Append(rx_core[a], h)]
                    ELSE rx_core
      /\ UNCHANGED <<last_parent, rx_proposer>>
  BY DEF VoteArrives, CountVote, proposerVars
<1>3. a \in Replicas /\ <<a, h>> \in last_voted[v] /\ <<a, h>> \in store[v]
  BY LanesAssumption DEF VoteArrives, AvailInv, VotesStored
<1>4. <<a, h>> \in Headers /\ h \in Nat /\ h # None
  <2>1. <<a, h>> \in Headers
    BY <1>3 DEF AvailInv, TypeOK
  <2> QED
    BY <2>1, HeaderParts DEF None
<1>5. votes \subseteq Holders(<<a, h>>)
  BY <1>3, <1>4 DEF AvailInv, VotesCast, Holders
<1>6. VotesCast'
  <2>1. ASSUME NEW b \in Replicas
        PROVE  /\ current_header[b] = None => votes_aggregator'[b] = {}
               /\ \A k \in Nat : current_header[b] = k =>
                    votes_aggregator'[b] \subseteq Holders(<<b, k>>)
    <3>1. CASE b = a
      <4>1. votes_aggregator'[b] = votes
        BY <1>2, <1>3, <3>1 DEF AvailInv, TypeOK
      <4> QED
        BY <1>4, <1>5, <3>1, <4>1
    <3>2. CASE b # a
      <4>1. votes_aggregator'[b] = votes_aggregator[b]
        BY <1>2, <3>2 DEF AvailInv, TypeOK
      <4> QED
        BY <4>1 DEF AvailInv, VotesCast
    <3> QED
      BY <3>1, <3>2
  <2> QED
    BY <1>1, <2>1 DEF VotesCast, Holders, QuietVars
<1>7. ASSUME NEW x \in Headers, CertificateOf(x[1], x[2])'
      PROVE  BackedNext(x)
  <2>1. x = <<x[1], x[2]>> /\ x[1] \in Replicas
    BY HeaderParts
  <2>2. CASE CertificateOf(x[1], x[2])
    BY <1>1, <2>2, QuietBacked DEF AvailInv, CertificatesBacked
  <2>3. CASE ~CertificateOf(x[1], x[2])
    <3>1. PICK i \in DOMAIN rx_core'[x[1]] : rx_core'[x[1]][i] = x[2]
      BY <1>2, <1>7, <2>3 DEF CertificateOf
    <3>2. x[1] = a /\ Complete(votes) /\ rx_core'[a] = Append(rx_core[a], h)
      BY <1>2, <1>3, <2>1, <2>3, <3>1 DEF CertificateOf, AvailInv, TypeOK
    <3>3. rx_core[a] \in Seq(Nat)
      BY <1>3 DEF AvailInv, TypeOK
    <3>4. \/ i \in DOMAIN rx_core[a] /\ Append(rx_core[a], h)[i] = rx_core[a][i]
          \/ Append(rx_core[a], h)[i] = h
      BY <1>4, <3>1, <3>2, <3>3, ChannelFacts
    <3>5. x[2] = h
      BY <2>3, <3>1, <3>2, <3>4 DEF CertificateOf
    <3>6. votes \subseteq HoldersNext(x)
      BY <1>1, <1>5, <2>1, <3>2, <3>5 DEF Holders, HoldersNext, QuietVars
    <3> QED
      BY <3>2, <3>6, EnoughHold DEF Complete
  <2> QED
    BY <2>2, <2>3
<1> QED
  BY <1>1, <1>6, <1>7, QuietStep DEF CertificatesNext

\* The header that its author broadcasts has a parent that f + 1 replicas hold.
LEMMA OwnHeaderAvail ==
    ASSUME AvailInv, TypeOK', NEW a \in Authors, OwnHeader(a)
    PROVE  AvailInv'
<1> DEFINE m == Head(rx_proposer[a])
           x == <<a, m.height>>
           S == [height : Nat, parent : Nat]
<1>1. a \in Replicas /\ rx_proposer[a] \in Seq(S) /\ rx_proposer[a] # <<>>
  BY LanesAssumption DEF AvailInv, TypeOK, OwnHeader
<1>2. m \in S /\ m = rx_proposer[a][1] /\ 1 \in DOMAIN rx_proposer[a] /\ m.height <= MaxHeight[a]
  <2>1. m \in S /\ m = rx_proposer[a][1] /\ 1 \in DOMAIN rx_proposer[a]
    BY <1>1, HeadFacts
  <2> QED
    BY <1>1, <2>1 DEF AvailInv, TypeOK
<1>3. /\ rx_proposer' = [rx_proposer EXCEPT ![a] = Tail(rx_proposer[a])]
      /\ UNCHANGED <<last_parent, cutVars, crashed>>
  BY DEF OwnHeader, proposerVars, cutVars
\* No certificate is new but the one that completes the votes.
<1>4. ASSUME NEW y \in Headers, CertificateOf(y[1], y[2])', ~CertificateOf(y[1], y[2])
      PROVE  \E i \in DOMAIN rx_core'[y[1]] : rx_core'[y[1]][i] = y[2]
  <2>1. ASSUME NEW i \in DOMAIN rx_proposer'[y[1]]
        PROVE  \E j \in DOMAIN rx_proposer[y[1]] : rx_proposer'[y[1]][i] = rx_proposer[y[1]][j]
    <3>1. CASE y[1] = a
      <4>1. rx_proposer'[a] = Tail(rx_proposer[a])
        BY <1>1, <1>3 DEF AvailInv, TypeOK
      <4>2. i + 1 \in DOMAIN rx_proposer[a] /\ rx_proposer'[a][i] = rx_proposer[a][i + 1]
        BY <1>1, <1>2, <2>1, <3>1, <4>1
      <4> QED
        BY <3>1, <4>2
    <3>2. CASE y[1] # a
      <4>1. rx_proposer'[y[1]] = rx_proposer[y[1]]
        BY <1>3, <3>2, HeaderParts DEF AvailInv, TypeOK
      <4> QED
        BY <2>1, <4>1
    <3> QED
      BY <3>1, <3>2
  <2> QED
    BY <1>3, <1>4, <2>1 DEF CertificateOf
<1>5. CASE m.parent + 1 = m.height
  <2>1. m.height \in Nat \ {0} /\ x \in Headers /\ x[1] = a /\ x[2] = m.height
    BY <1>2, <1>5, HeaderOf
  <2>2. /\ current_header' = [current_header EXCEPT ![a] = m.height]
        /\ sent' = sent \cup {x}
        /\ StoreHeader(a, x)
        /\ CountVote(a, m.height, {}, a)
    BY <1>5 DEF OwnHeader
  <2>3. Grows
    BY <1>1, <2>1, <2>2, HandleGrows DEF AvailInv
  <2>4. VotesStored' /\ StoreClosed' /\ FromSent'
    BY <1>1, <2>1, <2>2, HandleKeepsStores DEF AvailInv
  <2>5. store' = [store EXCEPT ![a] = store[a] \cup {x}] /\ x \in store'[a]
    BY <1>1, <2>2 DEF StoreHeader, AvailInv, TypeOK
  <2>6. /\ votes_aggregator' = [votes_aggregator EXCEPT ![a] = {a}]
        /\ rx_core' = IF Complete({a})
                      THEN [rx_core EXCEPT ![a] = Append(rx_core[a], m.height)] ELSE rx_core
    BY <2>2 DEF CountVote
  <2>7. VotesCast'
    <3>1. ASSUME NEW b \in Replicas
          PROVE  /\ current_header'[b] = None => votes_aggregator'[b] = {}
                 /\ \A k \in Nat : current_header'[b] = k =>
                      votes_aggregator'[b] \subseteq HoldersNext(<<b, k>>)
      <4>1. CASE b = a
        <5>1. votes_aggregator'[b] = {a} /\ current_header'[b] = m.height
          BY <1>1, <2>2, <2>6, <4>1 DEF AvailInv, TypeOK
        <5>2. {a} \subseteq HoldersNext(x)
          BY <1>1, <2>5 DEF HoldersNext
        <5> QED
          BY <2>1, <4>1, <5>1, <5>2 DEF None
      <4>2. CASE b # a
        <5>1. votes_aggregator'[b] = votes_aggregator[b] /\ current_header'[b] = current_header[b]
          BY <2>2, <2>6, <4>2 DEF AvailInv, TypeOK
        <5>2. \A k \in Nat : Holders(<<b, k>>) \subseteq HoldersNext(<<b, k>>)
          BY <2>3, BackedGrows
        <5> QED
          BY <5>1, <5>2 DEF AvailInv, VotesCast
      <4> QED
        BY <4>1, <4>2
    <3> QED
      BY <3>1 DEF VotesCast, Holders, HoldersNext
  <2>8. ASSUME NEW y \in Headers, CertificateOf(y[1], y[2])'
        PROVE  BackedNext(y)
    <3>1. CASE CertificateOf(y[1], y[2])
      BY <2>3, <3>1, BackedGrows DEF AvailInv, CertificatesBacked
    <3>2. CASE ~CertificateOf(y[1], y[2])
      <4>1. PICK i \in DOMAIN rx_core'[y[1]] : rx_core'[y[1]][i] = y[2]
        BY <1>4, <2>8, <3>2
      <4>2. y = <<y[1], y[2]>> /\ y[1] \in Replicas
        BY HeaderParts
      <4>3. y[1] = a /\ Complete({a}) /\ rx_core'[a] = Append(rx_core[a], m.height)
        BY <1>1, <2>6, <3>2, <4>1, <4>2 DEF CertificateOf, AvailInv, TypeOK
      <4>4. rx_core[a] \in Seq(Nat)
        BY <1>1 DEF AvailInv, TypeOK
      <4>5. \/ i \in DOMAIN rx_core[a] /\ Append(rx_core[a], m.height)[i] = rx_core[a][i]
            \/ Append(rx_core[a], m.height)[i] = m.height
        BY <2>1, <4>1, <4>3, <4>4, ChannelFacts
      <4>6. y = x
        BY <3>2, <4>1, <4>2, <4>3, <4>5 DEF CertificateOf
      <4>7. {a} \subseteq HoldersNext(x)
        BY <1>1, <2>5 DEF HoldersNext
      <4> QED
        BY <4>3, <4>6, <4>7, EnoughHold DEF Complete
    <3> QED
      BY <3>1, <3>2
  <2>9. SentBacked'
    <3>1. ASSUME NEW y \in sent', y[2] > 1 PROVE BackedNext(Parent(y))
      <4>1. CASE y \in sent
        BY <2>3, <3>1, <4>1, BackedGrows DEF AvailInv, SentBacked
      <4>2. CASE y = x
        <5>1. Parent(x) \in Headers
          BY <2>1, <3>1, <4>2, ParentIsHeader
        <5>2. Parent(x)[1] = a /\ Parent(x)[2] = m.parent
          BY <1>2, <1>5, <2>1 DEF Parent
        <5>3. CertificateOf(a, m.parent)
          BY <1>2 DEF CertificateOf
        <5> QED
          BY <2>3, <4>2, <5>1, <5>2, <5>3, BackedGrows DEF AvailInv, CertificatesBacked
      <4> QED
        BY <2>2, <3>1, <4>1, <4>2
    <3> QED
      BY <3>1 DEF SentBacked, Backed, BackedNext, Holders, HoldersNext
  <2>10. VotersHaveKeys' /\ FewCrashed'
    BY <1>3, <2>3, KeysStay DEF AvailInv, FewCrashed, cutVars
  <2> QED
    BY <2>4, <2>7, <2>8, <2>9, <2>10, PrimedCertificates DEF AvailInv, CertificatesNext
<1>6. CASE m.parent + 1 # m.height
  <2>1. /\ current_header' = [current_header EXCEPT ![a] = None]
        /\ votes_aggregator' = [votes_aggregator EXCEPT ![a] = {}]
        /\ UNCHANGED <<rx_core, QuietVars>>
    BY <1>3, <1>6 DEF OwnHeader, QuietVars
  <2>2. VotesCast'
    <3>1. ASSUME NEW b \in Replicas
          PROVE  /\ current_header'[b] = None => votes_aggregator'[b] = {}
                 /\ \A k \in Nat : current_header'[b] = k =>
                      votes_aggregator'[b] \subseteq Holders(<<b, k>>)
      <4>1. CASE b = a
        BY <1>1, <2>1, <4>1 DEF AvailInv, TypeOK
      <4>2. CASE b # a
        <5>1. votes_aggregator'[b] = votes_aggregator[b] /\ current_header'[b] = current_header[b]
          BY <2>1, <4>2 DEF AvailInv, TypeOK
        <5> QED
          BY <5>1 DEF AvailInv, VotesCast
      <4> QED
        BY <4>1, <4>2
    <3> QED
      BY <2>1, <3>1 DEF VotesCast, Holders, QuietVars
  <2>3. ASSUME NEW y \in Headers, CertificateOf(y[1], y[2])'
        PROVE  BackedNext(y)
    <3>1. CertificateOf(y[1], y[2])
      BY <1>4, <2>1, <2>3 DEF CertificateOf
    <3> QED
      BY <2>1, <3>1, QuietBacked DEF AvailInv, CertificatesBacked
  <2> QED
    BY <2>1, <2>2, <2>3, QuietStep DEF CertificatesNext
<1> QED
  BY <1>5, <1>6

LEMMA HandleAvail ==
    ASSUME AvailInv, TypeOK', NEW r \in Replicas, NEW x \in Headers,
           HeaderArrives(r, x) \/ HeaderLoopsBack(r, x)
    PROVE  AvailInv'
<1>1. /\ MissingPayload(r, x) \/ MissingParent(r, x) \/ StoreHeader(r, x)
      /\ UNCHANGED <<proposerVars, channelVars, authorVars, sent, cutVars, crashed>>
      /\ x \in sent
  BY DEF HeaderArrives, HeaderLoopsBack, ReceiveHeader, AvailInv, FromSent
<1>2. Grows
  BY <1>1, HandleGrows DEF AvailInv
<1>3. VotesStored' /\ StoreClosed' /\ FromSent'
  BY <1>1, HandleKeepsStores DEF AvailInv
<1>4. VotesCast' /\ CertificatesBacked' /\ SentBacked' /\ VotersHaveKeys'
  BY <1>1, <1>2, VotesStay, CertificatesStay, SentStays, KeysStay
     DEF AvailInv, proposerVars, channelVars
<1> QED
  BY <1>1, <1>3, <1>4 DEF AvailInv, FewCrashed

\* The stores and what is behind them stay; cuts, their voters or the crashes change.
LEMMA CutStep ==
    ASSUME AvailInv, TypeOK',
           UNCHANGED <<proposerVars, channelVars, authorVars, storeVars, sent>>,
           VotersHaveKeys', FewCrashed'
    PROVE  AvailInv'
<1>1. Grows
  BY DEF Grows, storeVars
<1>2. VotesStored' /\ StoreClosed' /\ FromSent'
  BY DEF AvailInv, storeVars, VotesStored, StoreClosed, FromSent
<1>3. VotesCast' /\ CertificatesBacked' /\ SentBacked'
  BY <1>1, VotesStay, CertificatesStay, SentStays DEF AvailInv, proposerVars, channelVars
<1> QED
  BY <1>2, <1>3 DEF AvailInv

\* A replica that hears of a cut votes for it only with its tips.
LEMMA HearKeys ==
    ASSUME AvailInv, NEW r \in Replicas, NEW l \in Replicas, Hear(r, l, cut'[l]),
           UNCHANGED storeVars, cut'[l] # NoCut,
           \A k \in Replicas : voted[k] # {} => cut'[k] = cut[k]
    PROVE  VotersHaveKeys'
<1> SUFFICES ASSUME NEW k \in Replicas, NEW s \in voted'[k]
             PROVE  cut'[k] # NoCut /\ TipsReady(s, cut'[k])
  BY DEF VotersHaveKeys, TipsReady, storeVars
<1>1. CASE s \in voted[k]
  BY <1>1 DEF AvailInv, VotersHaveKeys
<1>2. CASE s \notin voted[k]
  <2>1. k = l /\ s = r /\ TipsReady(r, cut'[l])
    BY <1>2 DEF Hear, AvailInv, TypeOK
  <2> QED
    BY <2>1
<1> QED
  BY <1>1, <1>2

LEMMA ProposeAvail ==
    ASSUME AvailInv, TypeOK', NEW l \in Leaders, Propose(l)
    PROVE  AvailInv'
<1>1. /\ UNCHANGED <<proposerVars, channelVars, authorVars, storeVars, sent, crashed>>
      /\ cut[l] = NoCut /\ l \in Replicas /\ Hear(l, l, cut'[l])
      /\ \A k \in Replicas : k # l => cut'[k] = cut[k]
      /\ cut'[l] = [CurrentTips(l) EXCEPT ![l] = current_header[l]]
  BY LanesAssumption DEF Propose, AvailInv, TypeOK
<1>2. \A k \in Replicas : voted[k] # {} => k # l
  BY <1>1 DEF AvailInv, VotersHaveKeys
<1>3. cut'[l] # NoCut
  <2>1. CurrentTips(l) \in Cuts /\ DOMAIN CurrentTips(l) = Replicas
    BY <1>1 DEF CurrentTips, AvailInv, TypeOK, Cuts
  <2>2. DOMAIN cut'[l] = Replicas
    BY <1>1, <2>1
  <2>3. DOMAIN NoCut = {}
    BY DEF NoCut
  <2> QED
    BY <1>1, <2>2, <2>3
<1>4. VotersHaveKeys'
  BY <1>1, <1>2, <1>3, HearKeys
<1> QED
  BY <1>1, <1>4, CutStep DEF AvailInv, FewCrashed

LEMMA PrepareAvail ==
    ASSUME AvailInv, TypeOK', NEW r \in Replicas, NEW l \in Leaders,
           PrepareArrives(r, l) \/ PrepareLoopsBack(r, l)
    PROVE  AvailInv'
<1>1. /\ UNCHANGED <<proposerVars, channelVars, authorVars, storeVars, sent, cut, crashed>>
      /\ cut[l] # NoCut /\ l \in Replicas
  BY LanesAssumption DEF PrepareArrives, PrepareLoopsBack
<1>2. VotersHaveKeys'
  <2>1. CASE PrepareArrives(r, l)
    <3>1. Hear(r, l, cut'[l])
      BY <1>1, <2>1 DEF PrepareArrives
    <3> QED
      BY <1>1, <3>1, HearKeys
  <2>2. CASE PrepareLoopsBack(r, l)
    <3>1. /\ TipsReady(r, cut[l])
          /\ voted' = [voted EXCEPT ![l] = voted[l] \cup {r}]
      BY <2>2 DEF PrepareLoopsBack
    <3>2. ASSUME NEW k \in Replicas, NEW s \in voted'[k]
          PROVE  cut[k] # NoCut /\ TipsReady(s, cut[k])
      <4>1. s \in voted[k] \/ (k = l /\ s = r)
        BY <3>1, <3>2 DEF AvailInv, TypeOK
      <4> QED
        BY <1>1, <3>1, <4>1 DEF AvailInv, VotersHaveKeys
    <3> QED
      BY <1>1, <3>2 DEF VotersHaveKeys, TipsReady, storeVars
  <2> QED
    BY <2>1, <2>2
<1> QED
  BY <1>1, <1>2, CutStep DEF AvailInv, FewCrashed

LEMMA CrashAvail ==
    ASSUME AvailInv, TypeOK', NEW r \in MayCrash, Crash(r)
    PROVE  AvailInv'
<1>1. /\ UNCHANGED <<proposerVars, channelVars, authorVars, storeVars, sent, cutVars>>
      /\ FewCrashed'
  BY DEF Crash, FewCrashed
<1>2. VotersHaveKeys'
  BY <1>1 DEF AvailInv, VotersHaveKeys, TipsReady, storeVars, cutVars
<1> QED
  BY <1>1, <1>2, CutStep

LEMMA StutterAvail ==
    ASSUME AvailInv, TypeOK', UNCHANGED vars
    PROVE  AvailInv'
<1>1. /\ UNCHANGED <<proposerVars, channelVars, authorVars, storeVars, sent, cutVars, crashed>>
  BY DEF vars
<1>2. VotersHaveKeys' /\ FewCrashed'
  BY <1>1 DEF AvailInv, VotersHaveKeys, TipsReady, storeVars, cutVars, FewCrashed
<1> QED
  BY <1>1, <1>2, CutStep

LEMMA InitAvail == Init => AvailInv
<1> SUFFICES ASSUME Init PROVE AvailInv
  OBVIOUS
<1>1. TypeOK
  BY InitTypeOK
<1>2. VotesStored /\ StoreClosed /\ FromSent /\ SentBacked /\ VotersHaveKeys
  BY DEF Init, VotesStored, StoreClosed, FromSent, SentBacked, VotersHaveKeys
<1>3. VotesCast
  BY DEF Init, VotesCast, None
<1>4. CertificatesBacked
  <2>1. ASSUME NEW x \in Headers PROVE ~CertificateOf(x[1], x[2])
    <3>1. x[1] \in Replicas /\ x[2] # 0
      BY HeaderParts
    <3>2. /\ last_parent[x[1]] = 0 /\ rx_proposer[x[1]] = <<>> /\ rx_core[x[1]] = <<0>>
      BY <3>1 DEF Init
    <3> QED
      BY <3>1, <3>2 DEF CertificateOf
  <2> QED
    BY <2>1 DEF CertificatesBacked
<1>5. FewCrashed
  BY ValidityFacts, FS_EmptySet DEF Init, FewCrashed
<1> QED
  BY <1>1, <1>2, <1>3, <1>4, <1>5 DEF AvailInv

LEMMA AvailStep == AvailInv /\ [Next]_vars => AvailInv'
<1> SUFFICES ASSUME AvailInv, [Next]_vars PROVE AvailInv'
  OBVIOUS
<1>1. TypeOK'
  BY TypeStep DEF AvailInv
<1>2. CASE \E a \in Authors : make_header(a) \/ CertificateArrives(a) \/ OwnHeader(a)
  BY <1>1, <1>2, MakeHeaderAvail, CertificateArrivesAvail, OwnHeaderAvail
<1>3. CASE \E a \in Authors, v \in Replicas : VoteArrives(a, v)
  BY <1>1, <1>3, VoteArrivesAvail
<1>4. CASE \E r \in Replicas, x \in Headers : HeaderArrives(r, x) \/ HeaderLoopsBack(r, x)
  BY <1>1, <1>4, HandleAvail
<1>5. CASE \E l \in Leaders : Propose(l)
  BY <1>1, <1>5, ProposeAvail
<1>6. CASE \E r \in Replicas, l \in Leaders : PrepareArrives(r, l) \/ PrepareLoopsBack(r, l)
  BY <1>1, <1>6, PrepareAvail
<1>7. CASE \E r \in MayCrash : Crash(r)
  BY <1>1, <1>7, CrashAvail
<1>8. CASE UNCHANGED vars
  BY <1>1, <1>8, StutterAvail
<1> QED
  BY <1>2, <1>3, <1>4, <1>5, <1>6, <1>7, <1>8 DEF Next

LEMMA AvailImpliesObtainable ==
    ASSUME AvailInv, OptimisticTips
    PROVE  CutsAreObtainable
<1> SUFFICES ASSUME NEW l \in Leaders, IsQuorum(voted[l]),
                    NEW a \in Replicas, NEW h \in 1 .. cut[l][a]
             PROVE  \E r \in Replicas \ crashed :
                        <<a, h>> \in (IF h = cut[l][a] THEN keys[r] ELSE store[r])
  BY DEF CutsAreObtainable
<1> DEFINE t == cut[l][a]
           x == <<a, t>>
<1>1. l \in Replicas /\ voted[l] \subseteq Replicas /\ crashed \subseteq Replicas
  BY LanesAssumption DEF AvailInv, TypeOK
\* A voter that runs has the tip.
<1>2. PICK r \in voted[l] : r \notin crashed
  <2>1. Cardinality(voted[l]) >= ValidityThreshold
    BY <1>1, ValidityFacts, SubsetsFinite, FS_CardinalityType DEF IsQuorum
  <2> QED
    BY <1>1, <2>1, OneRuns DEF AvailInv, FewCrashed
<1>3. cut[l] \in Cuts /\ TipsReady(r, cut[l])
  BY <1>1, <1>2 DEF AvailInv, TypeOK, VotersHaveKeys
<1>4. t \in Nat /\ t >= 1 /\ h \in Nat /\ h >= 1 /\ h <= t
  BY <1>3 DEF Cuts, NoTip
<1>5. r \in Replicas /\ x \in keys[r]
  BY <1>1, <1>2, <1>3, <1>4 DEF TipsReady
<1>6. CASE h = t
  BY <1>2, <1>5, <1>6
\* What is below the tip was certified before the tip was made.
<1>7. CASE h # t
  <2>1. x \in sent /\ x \in Headers /\ x[2] > 1
    BY <1>4, <1>5, <1>7 DEF AvailInv, FromSent, TypeOK
  <2>2. Backed(Parent(x)) /\ Parent(x) = <<a, t - 1>>
    BY <2>1 DEF AvailInv, SentBacked, Parent
  <2>3. PICK s \in Holders(Parent(x)) : s \notin crashed
    <3>1. Holders(Parent(x)) \subseteq Replicas
      BY DEF Holders
    <3> QED
      BY <1>1, <2>2, <3>1, OneRuns DEF AvailInv, FewCrashed, Backed
  <2>4. s \in Replicas /\ <<a, t - 1>> \in store[s] /\ h \in 1 .. (t - 1)
    BY <1>4, <1>7, <2>2, <2>3 DEF Holders
  <2>5. <<a, h>> \in store[s]
    BY <2>4 DEF AvailInv, StoreClosed
  <2> QED
    BY <1>7, <2>3, <2>4, <2>5
<1> QED
  BY <1>6, <1>7

(***************************************************************************)
(* With optimistic tips, every header of a cut that a quorum voted for can *)
(* be had from a replica that runs, for any number of replicas of which at *)
(* most f stop: optimistic_tips_ready keeps who votes from voting without  *)
(* the payload of a tip, and the Proposer waits for the certificate of its *)
(* header before it makes the next.                                        *)
(***************************************************************************)
THEOREM CutsObtainable ==
    ASSUME OptimisticTips
    PROVE  Spec => []CutsAreObtainable
<1>1. AvailInv => CutsAreObtainable
  BY AvailImpliesObtainable
<1> QED
  BY <1>1, InitAvail, AvailStep, PTL DEF Spec
-----------------------------------------------------------------------------
(***************************************************************************)
(* The stages of a lane.                                                   *)
(***************************************************************************)
\* A step that leaves the lane of an author alone.
SameLane(a) ==
    /\ height'[a] = height[a] /\ last_parent'[a] = last_parent[a]
    /\ rx_core'[a] = rx_core[a] /\ rx_proposer'[a] = rx_proposer[a]
    /\ current_header'[a] = current_header[a]
    /\ votes_aggregator'[a] = votes_aggregator[a]

LEMMA StageStays ==
    ASSUME NEW a \in Replicas, SameLane(a), Stage(a)
    PROVE  Stage(a)'
BY DEF Stage, Starting, HasParent, HeaderMade, Voting, Certified, SameLane

LEMMA OthersStay ==
    ASSUME TypeOK, NEW a \in Replicas, NEW b \in Replicas, a # b,
           \/ make_header(a) \/ CertificateArrives(a) \/ OwnHeader(a)
           \/ \E v \in Replicas : VoteArrives(a, v)
    PROVE  SameLane(b)
<1>1. CASE make_header(a)
  BY <1>1 DEF TypeOK, make_header, UseParent, SameLane, authorVars
<1>2. CASE CertificateArrives(a)
  BY <1>2 DEF TypeOK, CertificateArrives, SameLane, proposerVars, authorVars
<1>3. CASE OwnHeader(a)
  <2>1. /\ rx_proposer'[b] = rx_proposer[b]
        /\ UNCHANGED proposerVars
    BY <1>3 DEF TypeOK, OwnHeader
  <2>2. /\ rx_core'[b] = rx_core[b] /\ current_header'[b] = current_header[b]
        /\ votes_aggregator'[b] = votes_aggregator[b]
    BY <1>3 DEF TypeOK, OwnHeader, CountVote
  <2> QED
    BY <2>1, <2>2 DEF SameLane, proposerVars
<1>4. CASE \E v \in Replicas : VoteArrives(a, v)
  BY <1>4 DEF TypeOK, VoteArrives, CountVote, SameLane, proposerVars
<1> QED
  BY <1>1, <1>2, <1>3, <1>4

LEMMA MakeHeaderStage ==
    ASSUME TypeOK, NEW a \in Replicas, make_header(a), Stage(a)
    PROVE  Stage(a)'
<1>1. /\ height'[a] = height[a] /\ last_parent[a] # None /\ last_parent'[a] = None
      /\ rx_core'[a] = rx_core[a]
      /\ rx_proposer'[a] = Append(rx_proposer[a], Message(height[a], last_parent[a]))
      /\ current_header'[a] = current_header[a] /\ votes_aggregator'[a] = votes_aggregator[a]
  BY DEF TypeOK, make_header, UseParent, authorVars, Message
<1>2. CASE Starting(a)
  <2>1. height[a] = 0 /\ last_parent[a] = 0 /\ rx_proposer[a] = <<>>
    BY <1>1, <1>2 DEF Starting
  <2>2. rx_proposer'[a] = <<Genesis>>
    BY <1>1, <2>1 DEF Genesis
  <2>3. Starting(a)'
    BY <1>1, <1>2, <2>1, <2>2 DEF Starting
  <2> QED
    BY <2>3 DEF Stage
<1>3. CASE HasParent(a)
  <2>1. \/ rx_proposer'[a] = <<Message(height[a], height[a] - 1)>>
        \/ height[a] = 1 /\ rx_proposer'[a] = <<Genesis, Message(1, 0)>>
    <3>1. rx_proposer'[a] = Append(rx_proposer[a], Message(height[a], height[a] - 1))
      BY <1>1, <1>3 DEF HasParent
    <3>2. CASE rx_proposer[a] = <<>>
      BY <3>1, <3>2
    <3>3. CASE height[a] = 1 /\ rx_proposer[a] = <<Genesis>>
      <4>1. Message(height[a], height[a] - 1) = Message(1, 0)
        BY <3>3 DEF Message
      <4>2. Append(<<Genesis>>, Message(1, 0)) = <<Genesis, Message(1, 0)>>
        <5>1. Genesis \in [height : Nat, parent : Nat] /\ Message(1, 0) \in [height : Nat, parent : Nat]
          BY DEF Genesis, Message
        <5> QED
          BY <5>1, AppendSecond
      <4> QED
        BY <3>1, <3>3, <4>1, <4>2
    <3> QED
      BY <1>3, <3>2, <3>3 DEF HasParent
  <2>2. HeaderMade(a)'
    BY <1>1, <1>3, <2>1 DEF HasParent, HeaderMade, Certified
  <2> QED
    BY <2>2 DEF Stage
<1> QED
  BY <1>1, <1>2, <1>3 DEF Stage, HeaderMade, Voting

LEMMA CertificateArrivesStage ==
    ASSUME TypeOK, NEW a \in Replicas, CertificateArrives(a), Stage(a)
    PROVE  Stage(a)'
<1>1. /\ rx_core[a] # <<>> /\ rx_core'[a] = Tail(rx_core[a])
      /\ rx_proposer'[a] = rx_proposer[a]
      /\ current_header'[a] = current_header[a] /\ votes_aggregator'[a] = votes_aggregator[a]
  BY DEF TypeOK, CertificateArrives, authorVars
<1>2. ASSUME NEW h \in Nat, rx_core[a] = <<h>>, h = height[a]
      PROVE  height'[a] = h + 1 /\ last_parent'[a] = h /\ rx_core'[a] = <<>>
  <2>1. Head(rx_core[a]) = h /\ Tail(rx_core[a]) = <<>>
    BY <1>2
  <2>2. Extends(a, Head(rx_core[a]))
    BY <1>2, <2>1 DEF Extends
  <2> QED
    BY <1>1, <1>2, <2>1, <2>2 DEF TypeOK, CertificateArrives
<1>3. CASE Starting(a)
  <2>1. height'[a] = 1 /\ last_parent'[a] = 0 /\ rx_core'[a] = <<>>
    BY <1>2, <1>3 DEF Starting
  <2>2. HasParent(a)'
    BY <1>1, <1>3, <2>1 DEF Starting, HasParent, Position, Certified
  <2> QED
    BY <2>2 DEF Stage
<1>4. CASE Voting(a)
  <2>1. Complete(votes_aggregator[a]) /\ rx_core[a] = <<height[a]>> /\ height[a] \in Nat
    BY <1>1, <1>4 DEF Voting, TypeOK
  <2>2. height'[a] = height[a] + 1 /\ last_parent'[a] = height[a] /\ rx_core'[a] = <<>>
    BY <1>2, <2>1
  <2>3. HasParent(a)'
    BY <1>1, <1>4, <2>1, <2>2 DEF Voting, HasParent, Position, Certified, Complete
  <2> QED
    BY <2>3 DEF Stage
<1> QED
  BY <1>1, <1>3, <1>4 DEF Stage, HasParent, HeaderMade

\* The header with a genesis parent of height 0 is refused; any other header that
\* reaches process_own_header is the next one of the lane.
LEMMA OwnHeaderStage ==
    ASSUME TypeOK, NEW a \in Replicas, OwnHeader(a), Stage(a)
    PROVE  /\ Stage(a)'
           /\ \/ /\ UNCHANGED <<store, sent>>
                 /\ current_header' = current_header
              \/ /\ HeaderMade(a) /\ height[a] \in Nat \ {0}
                 /\ current_header' = [current_header EXCEPT ![a] = height[a]]
                 /\ sent' = sent \cup {<<a, height[a]>>}
                 /\ StoreHeader(a, <<a, height[a]>>)
                 /\ CertificateOf(a, height[a] - 1)
<1>1. /\ rx_proposer[a] # <<>> /\ rx_proposer'[a] = Tail(rx_proposer[a])
      /\ height'[a] = height[a] /\ last_parent'[a] = last_parent[a]
      /\ height[a] \in Nat
  BY DEF TypeOK, OwnHeader, proposerVars
<1>2. ASSUME Head(rx_proposer[a]) = Genesis
      PROVE  /\ current_header' = [current_header EXCEPT ![a] = None]
             /\ votes_aggregator'[a] = {}
             /\ UNCHANGED <<store, sent, rx_core>>
  BY <1>2 DEF TypeOK, OwnHeader, Genesis, Message
<1>3. ASSUME NEW h \in Nat, Head(rx_proposer[a]) = Message(h, h - 1)
      PROVE  /\ current_header' = [current_header EXCEPT ![a] = h]
             /\ sent' = sent \cup {<<a, h>>}
             /\ StoreHeader(a, <<a, h>>)
             /\ votes_aggregator'[a] = {a}
             /\ rx_core'[a] = IF Complete({a}) THEN Append(rx_core[a], h) ELSE rx_core[a]
             /\ CertificateOf(a, h - 1)
  <2>1. Head(rx_proposer[a]).height = h /\ Head(rx_proposer[a]).parent = h - 1
    BY <1>3 DEF Message
  <2>2. /\ current_header' = [current_header EXCEPT ![a] = h]
        /\ sent' = sent \cup {<<a, h>>}
        /\ StoreHeader(a, <<a, h>>)
        /\ CountVote(a, h, {}, a)
    <3> PICK m : m = Head(rx_proposer[a])
      OBVIOUS
    <3>1. m.parent + 1 = m.height /\ m.height = h
      BY <2>1
    <3>2. /\ current_header' = [current_header EXCEPT ![a] = m.height]
          /\ sent' = sent \cup {<<a, m.height>>}
          /\ StoreHeader(a, <<a, m.height>>)
          /\ CountVote(a, m.height, {}, a)
      BY <3>1, Zenon DEF OwnHeader
    <3> QED
      BY <3>1, <3>2, Zenon
  <2>3. /\ votes_aggregator'[a] = {a}
        /\ rx_core'[a] = IF Complete({a}) THEN Append(rx_core[a], h) ELSE rx_core[a]
    BY <2>2 DEF TypeOK, CountVote
  <2>4. Head(rx_proposer[a]) = rx_proposer[a][1] /\ 1 \in DOMAIN rx_proposer[a]
    BY <1>1, HeadFacts DEF TypeOK
  <2> QED
    BY <2>1, <2>2, <2>3, <2>4 DEF CertificateOf
\* A genesis header.
<1>4. ASSUME rx_proposer[a] = <<Genesis>>, current_header[a] = None,
             Starting(a) \/ HasParent(a)
      PROVE  /\ Stage(a)' /\ UNCHANGED <<store, sent>>
             /\ current_header' = current_header
  <2>1. Head(rx_proposer[a]) = Genesis /\ rx_proposer'[a] = <<>>
    BY <1>1, <1>4
  <2>2. current_header' = current_header /\ UNCHANGED <<store, sent, rx_core>>
    BY <1>2, <1>4, <2>1 DEF TypeOK
  <2>3. Starting(a)' \/ HasParent(a)'
    BY <1>1, <1>4, <2>1, <2>2 DEF Starting, HasParent, Certified
  <2> QED
    BY <2>2, <2>3 DEF Stage
<1>5. CASE Starting(a)
  BY <1>1, <1>4, <1>5 DEF Starting
<1>6. CASE HasParent(a)
  BY <1>1, <1>4, <1>6 DEF HasParent, Position
<1>7. CASE HeaderMade(a)
  <2>1. CASE rx_proposer[a] = <<Message(height[a], height[a] - 1)>>
    <3>1. Head(rx_proposer[a]) = Message(height[a], height[a] - 1) /\ rx_proposer'[a] = <<>>
      BY <1>1, <2>1
    <3>2. /\ current_header' = [current_header EXCEPT ![a] = height[a]]
          /\ sent' = sent \cup {<<a, height[a]>>}
          /\ StoreHeader(a, <<a, height[a]>>)
          /\ votes_aggregator'[a] = {a}
          /\ rx_core'[a] = IF Complete({a}) THEN Append(rx_core[a], height[a]) ELSE rx_core[a]
          /\ CertificateOf(a, height[a] - 1)
      BY <1>1, <1>3, <3>1
    <3>3. current_header'[a] = height[a] /\ rx_core[a] = <<>> /\ height[a] >= 1
      BY <1>7, <3>2 DEF TypeOK, HeaderMade
    <3>4. rx_core'[a] = IF Complete(votes_aggregator'[a]) THEN <<height'[a]>> ELSE <<>>
      BY <1>1, <3>2, <3>3
    <3>5. Voting(a)'
      BY <1>1, <1>7, <3>1, <3>3, <3>4 DEF Voting, HeaderMade, Complete
    <3> QED
      BY <1>1, <1>7, <3>2, <3>3, <3>5 DEF Stage
  <2>2. CASE height[a] = 1 /\ rx_proposer[a] = <<Genesis, Message(1, 0)>>
    <3>1. Head(rx_proposer[a]) = Genesis /\ rx_proposer'[a] = <<Message(1, 0)>>
      BY <1>1, <2>2
    <3>2. current_header[a] = None
      BY <1>7, <2>2 DEF HeaderMade, Position
    <3>3. current_header' = current_header /\ UNCHANGED <<store, sent, rx_core>>
      BY <1>2, <3>1, <3>2 DEF TypeOK
    <3>4. HeaderMade(a)'
      BY <1>1, <1>7, <2>2, <3>1, <3>2, <3>3 DEF HeaderMade, Certified
    <3> QED
      BY <3>3, <3>4 DEF Stage
  <2> QED
    BY <1>7, <2>1, <2>2 DEF HeaderMade
<1> QED
  BY <1>1, <1>5, <1>6, <1>7 DEF Stage, Voting

LEMMA VoteArrivesStage ==
    ASSUME TypeOK, NEW a \in Replicas, NEW v \in Replicas, VoteArrives(a, v), Stage(a)
    PROVE  Stage(a)'
<1> DEFINE votes == votes_aggregator[a] \cup {v}
<1>1. current_header[a] # None /\ ~Complete(votes_aggregator[a])
  <2>1. <<a, current_header[a]>> \in Headers
    BY DEF TypeOK, VoteArrives
  <2> QED
    BY <2>1, HeaderParts DEF VoteArrives, None
<1>2. Voting(a) /\ rx_core[a] = <<>>
  BY <1>1 DEF Stage, Starting, HasParent, HeaderMade, Voting, Certified
<1>3. /\ height'[a] = height[a] /\ last_parent'[a] = last_parent[a]
      /\ rx_proposer'[a] = rx_proposer[a] /\ current_header'[a] = current_header[a]
      /\ votes_aggregator'[a] = votes
      /\ rx_core'[a] = IF Complete(votes) THEN Append(rx_core[a], current_header[a])
                       ELSE rx_core[a]
  BY DEF TypeOK, VoteArrives, CountVote, proposerVars
<1>4. Voting(a)'
  BY <1>2, <1>3 DEF Voting, Complete
<1> QED
  BY <1>4 DEF Stage

\* A step of the lane of one author, or of none.
LEMMA StagesOf ==
    ASSUME TypeOK, Stages, NEW a \in Replicas,
           \/ make_header(a) \/ CertificateArrives(a) \/ OwnHeader(a)
           \/ \E v \in Replicas : VoteArrives(a, v)
    PROVE  Stages'
<1>1. Stage(a)'
  BY MakeHeaderStage, CertificateArrivesStage, OwnHeaderStage, VoteArrivesStage DEF Stages
<1>2. \A b \in Replicas : b # a => Stage(b)'
  BY OthersStay, StageStays DEF Stages
<1> QED
  BY <1>1, <1>2 DEF Stages

LEMMA StagesStay ==
    ASSUME Stages, UNCHANGED <<proposerVars, channelVars, authorVars>>
    PROVE  Stages'
<1>1. \A a \in Replicas : SameLane(a)
  BY DEF SameLane, proposerVars, channelVars, authorVars
<1> QED
  BY <1>1, StageStays DEF Stages

LEMMA InitStages == Init => Stages /\ SentInLane
BY DEF Init, Stages, Stage, Starting, SentInLane

(***************************************************************************)
(* A step of Lanes is a step of LaneChain, or leaves lanes and stores      *)
(* alone.                                                                  *)
(***************************************************************************)
laneVars == <<store, sent, current_header>>

LEMMA HeldUnchanged ==
    ASSUME SentInLane, UNCHANGED laneVars
    PROVE  SentInLane' /\ UNCHANGED Chain!vars
BY DEF SentInLane, Lane, laneVars, Chain!vars

LEMMA OwnHeaderChain ==
    ASSUME AvailInv, Stages, SentInLane, NEW a \in Authors, OwnHeader(a)
    PROVE  /\ Stages' /\ SentInLane'
           /\ Chain!Next \/ UNCHANGED Chain!vars
<1>1. a \in Replicas /\ TypeOK /\ Stage(a)
  BY LanesAssumption DEF AvailInv, Stages
<1>2. Stages'
  BY <1>1, StagesOf
<1>3. CASE UNCHANGED laneVars
  BY <1>2, <1>3, HeldUnchanged
<1>4. CASE /\ HeaderMade(a) /\ height[a] \in Nat \ {0}
           /\ current_header' = [current_header EXCEPT ![a] = height[a]]
           /\ sent' = sent \cup {<<a, height[a]>>}
           /\ StoreHeader(a, <<a, height[a]>>)
           /\ CertificateOf(a, height[a] - 1)
  <2> DEFINE h == height[a]
             lane == [b \in Replicas |-> Lane(b)]
  <2>1. h \in Nat /\ h >= 1 /\ Lane(a) = h - 1 /\ Lane(a)' = h
    BY <1>1, <1>4 DEF HeaderMade, Lane, Position, TypeOK, None
  <2>2. \A b \in Replicas : b # a => Lane(b)' = Lane(b)
    BY <1>4 DEF Lane, TypeOK
  <2>3. SentInLane'
    <3>1. ASSUME NEW x \in sent' PROVE x[2] <= Lane(x[1])'
      <4>1. CASE x = <<a, h>>
        BY <2>1, <4>1
      <4>2. CASE x # <<a, h>>
        <5>1. x \in sent /\ x[1] \in Replicas /\ x[2] \in Nat
          BY <1>1, <1>4, <3>1, <4>2, HeaderParts DEF TypeOK
        <5>2. x[2] <= Lane(x[1])
          BY <5>1 DEF SentInLane
        <5> QED
          BY <2>1, <2>2, <5>1, <5>2
      <4> QED
        BY <4>1, <4>2
    <3> QED
      BY <3>1 DEF SentInLane
  \* LaneChain has a step for it: the header before has f + 1 holders.
  <2>4. Chain!Extend(a)
    <3>1. lane[a] = h - 1 /\ lane[a] + 1 = h
      BY <1>1, <2>1
    <3>6. lane' = [lane EXCEPT ![a] = h]
      BY <1>1, <2>1, <2>2
    <3>2. h <= MaxHeight[a]
      <4>1. \/ rx_proposer[a] = <<Message(h, h - 1)>>
            \/ h = 1 /\ rx_proposer[a] = <<Genesis, Message(1, 0)>>
        BY <1>4 DEF HeaderMade
      <4>2. CASE rx_proposer[a] = <<Message(h, h - 1)>>
        <5>1. 1 \in DOMAIN rx_proposer[a] /\ rx_proposer[a][1].height = h
          BY <4>2 DEF Message
        <5> QED
          BY <1>1, <5>1 DEF TypeOK
      <4>3. CASE h = 1 /\ rx_proposer[a] = <<Genesis, Message(1, 0)>>
        <5>1. 2 \in DOMAIN rx_proposer[a] /\ rx_proposer[a][2].height = h
          BY <4>3 DEF Message
        <5> QED
          BY <1>1, <5>1 DEF TypeOK
      <4> QED
        BY <4>1, <4>2, <4>3
    <3>3. MaxHeight[a] \in Nat
      BY <1>1, LanesAssumption
    <3>4. ASSUME h - 1 > 0
          PROVE  Cardinality(Chain!Holders(<<a, h - 1>>)) >= ValidityThreshold
      <4>1. <<a, h - 1>> \in Headers
        BY <2>1, <3>2, <3>3, <3>4, HeaderOf
      <4>2. Backed(<<a, h - 1>>)
        BY <1>4, <4>1 DEF AvailInv, CertificatesBacked
      <4> QED
        BY <4>2 DEF Backed, Holders, Chain!Holders
    <3>5. store' = [store EXCEPT ![a] = store[a] \cup {<<a, h>>}]
      BY <1>4 DEF StoreHeader
    <3>7. lane[a] < MaxHeight[a] /\ (lane[a] > 0 =>
             Cardinality(Chain!Holders(<<a, lane[a]>>)) >= ValidityThreshold)
      BY <2>1, <3>1, <3>2, <3>3, <3>4
    <3>8. /\ lane' = [lane EXCEPT ![a] = lane[a] + 1]
          /\ store' = [store EXCEPT ![a] = store[a] \cup {<<a, lane[a] + 1>>}]
      BY <3>1, <3>5, <3>6
    <3>9. \A S : Chain!Cardinality(S) = Cardinality(S)
      BY DEF Chain!Cardinality, Cardinality
    <3> QED
      BY <3>7, <3>8, <3>9 DEF Chain!Extend
  <2> QED
    BY <1>1, <1>2, <2>3, <2>4 DEF Chain!Next
<1> QED
  BY <1>1, <1>3, <1>4, OwnHeaderStage DEF laneVars

LEMMA HandleChain ==
    ASSUME AvailInv, Stages, SentInLane, NEW r \in Replicas, NEW x \in Headers,
           HeaderArrives(r, x) \/ HeaderLoopsBack(r, x)
    PROVE  /\ Stages' /\ SentInLane'
           /\ Chain!Next \/ UNCHANGED Chain!vars
<1>1. /\ MissingPayload(r, x) \/ MissingParent(r, x) \/ StoreHeader(r, x)
      /\ UNCHANGED <<proposerVars, channelVars, authorVars, sent>>
      /\ x \in sent
  BY DEF HeaderArrives, HeaderLoopsBack, ReceiveHeader, AvailInv, FromSent
<1>2. Stages'
  BY <1>1, StagesStay
<1>3. SentInLane' /\ UNCHANGED current_header
  BY <1>1 DEF SentInLane, Lane, authorVars
<1>4. CASE MissingPayload(r, x) \/ MissingParent(r, x)
  <2>1. UNCHANGED laneVars
    BY <1>1, <1>3, <1>4 DEF laneVars, MissingPayload, MissingParent
  <2> QED
    BY <1>2, <2>1, HeldUnchanged
<1>5. CASE StoreHeader(r, x)
  <2> DEFINE a == x[1]
             h == x[2]
             lane == [b \in Replicas |-> Lane(b)]
  <2>1. x = <<a, h>> /\ a \in Replicas /\ h \in Nat /\ h >= 1 /\ h <= MaxHeight[a]
    BY HeaderParts
  <2>2. h <= lane[a] /\ lane' = lane
    BY <1>1, <1>3, <2>1 DEF SentInLane, Lane
  <2>3. ASSUME NEW i \in 1 .. h - 1 PROVE <<a, i>> \in store[r]
    <3>1. Parent(x) \in store[r] /\ Parent(x)[1] = a /\ Parent(x)[2] = h - 1
      BY <1>5, <2>1, <2>3 DEF StoreHeader, ParentStored, Parent
    <3> QED
      BY <2>3, <3>1 DEF AvailInv, StoreClosed
  <2>4. store' = [store EXCEPT ![r] = store[r] \cup {<<a, h>>}]
    BY <1>5, <2>1 DEF StoreHeader
  <2>5. Chain!Hold(r, a, h)
    BY <2>2, <2>3, <2>4 DEF Chain!Hold
  <2>6. h \in 1 .. MaxHeight[a]
    BY <2>1, LanesAssumption
  <2> QED
    BY <1>2, <1>3, <2>1, <2>5, <2>6 DEF Chain!Next
<1> QED
  BY <1>1, <1>4, <1>5

LEMMA ChainStep ==
    ChainInv /\ [Next]_vars => ChainInv' /\ (Chain!Next \/ UNCHANGED Chain!vars)
<1> SUFFICES ASSUME ChainInv, [Next]_vars
             PROVE  ChainInv' /\ (Chain!Next \/ UNCHANGED Chain!vars)
  OBVIOUS
<1>1. AvailInv' /\ TypeOK
  BY AvailStep DEF ChainInv, AvailInv
<1> SUFFICES Stages' /\ SentInLane' /\ (Chain!Next \/ UNCHANGED Chain!vars)
  BY <1>1 DEF ChainInv
<1>2. CASE \E a \in Authors : make_header(a) \/ CertificateArrives(a)
  <2>1. PICK a \in Authors : make_header(a) \/ CertificateArrives(a)
    BY <1>2
  <2>2. a \in Replicas /\ UNCHANGED laneVars
    BY <2>1, LanesAssumption DEF make_header, CertificateArrives, laneVars, authorVars, storeVars
  <2> QED
    BY <1>1, <2>1, <2>2, StagesOf, HeldUnchanged DEF ChainInv
<1>3. CASE \E a \in Authors : OwnHeader(a)
  BY <1>3, OwnHeaderChain DEF ChainInv
<1>4. CASE \E a \in Authors, v \in Replicas : VoteArrives(a, v)
  <2>1. PICK a \in Authors, v \in Replicas : VoteArrives(a, v)
    BY <1>4
  <2>2. a \in Replicas /\ UNCHANGED laneVars
    BY <2>1, LanesAssumption DEF VoteArrives, laneVars, storeVars
  <2> QED
    BY <1>1, <2>1, <2>2, StagesOf, HeldUnchanged DEF ChainInv
<1>5. CASE \E r \in Replicas, x \in Headers : HeaderArrives(r, x) \/ HeaderLoopsBack(r, x)
  BY <1>5, HandleChain DEF ChainInv
<1>6. CASE \/ \E l \in Leaders : Propose(l)
           \/ \E r \in Replicas, l \in Leaders : PrepareArrives(r, l) \/ PrepareLoopsBack(r, l)
           \/ \E r \in MayCrash : Crash(r)
           \/ UNCHANGED vars
  <2>1. UNCHANGED <<proposerVars, channelVars, authorVars, storeVars, sent>>
    BY <1>6 DEF Propose, PrepareArrives, PrepareLoopsBack, Crash, vars
  <2>2. UNCHANGED laneVars
    BY <2>1 DEF laneVars, authorVars, storeVars
  <2> QED
    BY <2>1, <2>2, StagesStay, HeldUnchanged DEF ChainInv
<1> QED
  BY <1>2, <1>3, <1>4, <1>5, <1>6 DEF Next

LEMMA InitChain == Init => ChainInv /\ Chain!Init
<1> SUFFICES ASSUME Init PROVE ChainInv /\ Chain!Init
  OBVIOUS
<1>1. Chain!Init
  BY DEF Init, Lane, Chain!Init
<1> QED
  BY <1>1, InitAvail, InitStages DEF ChainInv

(***************************************************************************)
(* Lanes implements LaneChain, for any number of replicas and any lanes:   *)
(* what the Proposer, the Cores and their channels do is, seen from the    *)
(* stores, a chain per author that is extended only from a header that     *)
(* f + 1 replicas store, and stores that are closed under ancestors.       *)
(***************************************************************************)
THEOREM LanesImplementChains == Spec => ImplementsChains
<1>1. ChainInv /\ [Next]_vars => [Chain!Next]_(Chain!vars)
  BY ChainStep
<1> QED
  BY <1>1, InitChain, ChainStep, PTL DEF Spec, ImplementsChains, Chain!Spec
-----------------------------------------------------------------------------
(***************************************************************************)
(* One header of a height.                                                 *)
(***************************************************************************)
NewHeader(a, h) ==
    /\ <<a, h>> \notin sent
    /\ \A i \in DOMAIN rx_proposer[a] : rx_proposer[a][i].height # h

\* What make_header sends is new.
LEMMA MakeHeaderNew ==
    ASSUME ChainInv, NEW a \in Authors, make_header(a)
    PROVE  /\ NewHeader(a, height[a])
           /\ rx_proposer'[a][Len(rx_proposer'[a])].height = height[a]
<1>1. a \in Replicas /\ TypeOK /\ Stage(a) /\ SentInLane /\ last_parent[a] # None
  BY LanesAssumption DEF ChainInv, AvailInv, Stages, make_header
<1>2. rx_proposer'[a][Len(rx_proposer'[a])].height = height[a]
  <2> DEFINE m == [height |-> height[a], parent |-> last_parent[a]]
             S == [height : Nat, parent : Nat]
  <2>1. rx_proposer[a] \in Seq(S) /\ m \in S
    BY <1>1 DEF TypeOK, None
  <2>2. rx_proposer'[a] = Append(rx_proposer[a], m)
    BY <1>1 DEF TypeOK, make_header
  <2>3. Append(rx_proposer[a], m)[Len(Append(rx_proposer[a], m))] = m
    BY <2>1
  <2> QED
    BY <2>2, <2>3
<1>3. ASSUME <<a, height[a]>> \in sent
      PROVE  height[a] >= 1 /\ height[a] <= Lane(a)
  <2>1. <<a, height[a]>> \in Headers
    BY <1>1, <1>3 DEF TypeOK
  <2> QED
    BY <1>1, <1>3, <2>1, HeaderParts DEF SentInLane
<1>4. CASE Starting(a)
  <2>1. height[a] = 0 /\ rx_proposer[a] = <<>>
    BY <1>1, <1>4 DEF Starting
  <2> QED
    BY <1>2, <1>3, <2>1 DEF NewHeader
<1>5. CASE HasParent(a)
  <2>1. height[a] \in Nat /\ height[a] >= 1 /\ Lane(a) = height[a] - 1
    BY <1>1, <1>5 DEF HasParent, Lane, Position, TypeOK, None
  <2>2. <<a, height[a]>> \notin sent
    BY <1>3, <2>1
  <2>3. ASSUME NEW i \in DOMAIN rx_proposer[a]
        PROVE  rx_proposer[a][i].height # height[a]
    <3>1. height[a] = 1 /\ rx_proposer[a] = <<Genesis>>
      BY <1>5, <2>3 DEF HasParent
    <3>2. rx_proposer[a][i] = Genesis
      BY <2>3, <3>1
    <3> QED
      BY <3>1, <3>2 DEF Genesis, Message
  <2> QED
    BY <1>2, <2>2, <2>3 DEF NewHeader
<1> QED
  BY <1>1, <1>4, <1>5 DEF Stage, HeaderMade, Voting

LEMMA OnlyMakeHeaderSends ==
    ASSUME TypeOK, [Next]_vars, NEW a \in Authors,
           Len(rx_proposer'[a]) > Len(rx_proposer[a])
    PROVE  make_header(a)
<1>1. a \in Replicas /\ rx_proposer[a] \in Seq([height : Nat, parent : Nat])
  BY LanesAssumption DEF TypeOK
<1>2. ASSUME rx_proposer'[a] = rx_proposer[a] PROVE FALSE
  BY <1>1, <1>2
<1>3. CASE \E b \in Authors : make_header(b)
  BY <1>1, <1>2, <1>3 DEF make_header, TypeOK
<1>4. CASE \E b \in Authors : OwnHeader(b)
  <2>1. PICK b \in Authors : OwnHeader(b)
    BY <1>4
  <2>2. rx_proposer' = [rx_proposer EXCEPT ![b] = Tail(rx_proposer[b])] /\ rx_proposer[b] # <<>>
    BY <2>1 DEF OwnHeader
  <2>3. CASE b = a
    <3>1. rx_proposer'[a] = Tail(rx_proposer[a])
      BY <1>1, <2>2, <2>3 DEF TypeOK
    <3>2. Len(Tail(rx_proposer[a])) < Len(rx_proposer[a])
      BY <1>1, <2>2, <2>3
    <3> QED
      BY <1>1, <3>1, <3>2
  <2>4. CASE b # a
    BY <1>1, <1>2, <2>2, <2>4 DEF TypeOK
  <2> QED
    BY <2>3, <2>4
<1>5. CASE UNCHANGED rx_proposer
  BY <1>2, <1>5
<1>6. \/ \E b \in Authors : make_header(b)
      \/ \E b \in Authors : OwnHeader(b)
      \/ UNCHANGED rx_proposer
  BY DEF Next, vars, channelVars, CertificateArrives, VoteArrives, HeaderArrives,
         HeaderLoopsBack, Propose, PrepareArrives, PrepareLoopsBack, Crash
<1> QED
  BY <1>3, <1>4, <1>5, <1>6

(***************************************************************************)
(* An author makes at most one header of a height, for any number of       *)
(* replicas and any lanes: the genesis header apart, which is refused, a   *)
(* header is made only when the one before it is certified.                *)
(***************************************************************************)
THEOREM OneHeader == Spec => OneHeaderPerHeight
<1>1. ASSUME ChainInv, [Next]_vars
      PROVE  [\A a \in Authors :
                Len(rx_proposer'[a]) > Len(rx_proposer[a]) =>
                    LET h == rx_proposer'[a][Len(rx_proposer'[a])].height
                    IN  /\ <<a, h>> \notin sent
                        /\ \A i \in DOMAIN rx_proposer[a] : rx_proposer[a][i].height # h]_vars
  <2>1. ASSUME NEW a \in Authors, Len(rx_proposer'[a]) > Len(rx_proposer[a])
        PROVE  NewHeader(a, rx_proposer'[a][Len(rx_proposer'[a])].height)
    <3>1. TypeOK
      BY <1>1 DEF ChainInv, AvailInv
    <3>2. make_header(a)
      BY <1>1, <2>1, <3>1, OnlyMakeHeaderSends
    <3> QED
      BY <1>1, <3>2, MakeHeaderNew
  <2> QED
    BY <2>1 DEF NewHeader
<1> QED
  BY <1>1, InitChain, ChainStep, PTL DEF Spec, OneHeaderPerHeight
-----------------------------------------------------------------------------
(***************************************************************************)
(* Neither a lane nor a cut can get stuck.                                 *)
(***************************************************************************)
\* A replica that has not voted for a header can still get all of it.
Obtainable(x) == x[2] = 1 \/ \E r \in Replicas \ crashed : Parent(x) \in store[r]

\* The votes for the current header are cast, or can be.
Collecting(a) ==
    LET x == <<a, current_header[a]>>
    IN  /\ x \in sent
        /\ \A r \in Replicas : x \in last_voted[r] \/ (x \notin store[r] /\ Obtainable(x))

\* There is something for the Proposer or for Core to take, a header to make, or
\* votes to collect, until the last header is certified.
LanesGoOn ==
    \A a \in Authors : MaxHeight[a] > 0 =>
        \/ rx_core[a] # <<>> \/ rx_proposer[a] # <<>>
        \/ last_parent[a] # None /\ height[a] <= MaxHeight[a]
        \/ Collecting(a)
        \/ current_header[a] = MaxHeight[a] /\ Complete(votes_aggregator[a])

\* A leader has all of its cut, from the tips down, so that it can answer whoever
\* lacks a tip.
LeadersHaveCuts ==
    OptimisticTips =>
        \A l \in Leaders : cut[l] # NoCut /\ cut[l][l] # NoTip =>
            \A a \in Replicas : /\ cut[l][a] \in Nat
                                /\ \A h \in 1 .. cut[l][a] : <<a, h>> \in store[l]

\* What is stored was voted for.
StoredVoted == \A r \in Replicas : store[r] \subseteq last_voted[r]

OwnStored ==
    \A a \in Replicas : current_header[a] # None => <<a, current_header[a]>> \in store[a]

TipStored(r, a, h) == h \in Nat /\ (h > 0 => <<a, h>> \in store[r])

TipsStored ==
    OptimisticTips =>
        \A r, a \in Replicas : a # r => TipStored(r, a, proposal_tips[r][a])

CutsStored ==
    OptimisticTips =>
        \A l \in Replicas : cut[l] # NoCut /\ cut[l][l] # NoTip =>
            \A a \in Replicas : TipStored(l, a, cut[l][a])

FlowInv == StoredVoted /\ OwnStored /\ TipsStored /\ CutsStored

\* What stores the steps of the others leave alone keeps its place.
LEMMA TipsStay ==
    ASSUME TipsStored, Grows, UNCHANGED proposal_tips
    PROVE  TipsStored'
BY DEF TipsStored, TipStored, Grows

LEMMA CutsStay ==
    ASSUME CutsStored, Grows, UNCHANGED cut
    PROVE  CutsStored'
BY DEF CutsStored, TipStored, Grows

LEMMA OwnStays ==
    ASSUME OwnStored, Grows, UNCHANGED current_header
    PROVE  OwnStored'
BY DEF OwnStored, Grows

LEMMA VotedStays ==
    ASSUME TypeOK, StoredVoted, NEW r \in Replicas, NEW x \in Headers,
           MissingPayload(r, x) \/ MissingParent(r, x) \/ StoreHeader(r, x)
    PROVE  StoredVoted'
<1>1. CASE MissingPayload(r, x) \/ MissingParent(r, x)
  BY <1>1 DEF StoredVoted, MissingPayload, MissingParent
<1>2. CASE StoreHeader(r, x)
  BY <1>2 DEF TypeOK, StoredVoted, StoreHeader
<1> QED
  BY <1>1, <1>2

LEMMA OtherFlow ==
    ASSUME FlowInv, UNCHANGED <<store, keys, last_voted, current_header, proposal_tips, cut>>
    PROVE  FlowInv'
<1>1. Grows
  BY DEF Grows
<1>2. StoredVoted'
  BY DEF FlowInv, StoredVoted
<1> QED
  BY <1>1, <1>2, TipsStay, CutsStay, OwnStays DEF FlowInv

\* A header that becomes a tip is stored by the same step.
LEMMA HandleFlow ==
    ASSUME TypeOK, FlowInv, NEW r \in Replicas, NEW x \in Headers,
           HeaderArrives(r, x) \/ HeaderLoopsBack(r, x)
    PROVE  FlowInv'
<1>1. /\ MissingPayload(r, x) \/ MissingParent(r, x) \/ StoreHeader(r, x)
      /\ UNCHANGED <<authorVars, cutVars>>
      /\ MissingPayload(r, x) \/ MissingParent(r, x) \/ ReceiveHeader(r, x)
  BY DEF HeaderArrives, HeaderLoopsBack, ReceiveHeader
<1>2. Grows
  BY <1>1, HandleGrows
<1>3. StoredVoted'
  BY <1>1, VotedStays DEF FlowInv
<1>4. OwnStored' /\ CutsStored'
  BY <1>1, <1>2, OwnStays, CutsStay DEF FlowInv, authorVars, cutVars
<1>5. TipsStored'
  <2>1. CASE UNCHANGED proposal_tips
    BY <1>2, <2>1, TipsStay DEF FlowInv
  <2>2. CASE OptimisticTips /\ ReceiveHeader(r, x)
    <3>1. /\ proposal_tips' = Raise(proposal_tips, r, x[1], x[2])
          /\ x \in store'[r]
      BY <2>2 DEF ReceiveHeader, StoreHeader, TypeOK
    <3>2. x = <<x[1], x[2]>> /\ x[1] \in Replicas /\ x[2] \in Nat
      BY HeaderParts
    <3>3. ASSUME NEW s \in Replicas, NEW a \in Replicas, a # s
          PROVE  TipStored(s, a, proposal_tips[s][a])' 
      <4>1. \/ proposal_tips'[s][a] = proposal_tips[s][a]
            \/ s = r /\ a = x[1] /\ proposal_tips'[s][a] = x[2]
        BY <3>1, <3>2 DEF Raise, TypeOK, Cuts
      <4>2. CASE proposal_tips'[s][a] = proposal_tips[s][a]
        <5>1. TipStored(s, a, proposal_tips[s][a])
          BY <2>2, <3>3 DEF FlowInv, TipsStored
        <5> QED
          BY <1>2, <4>2, <5>1 DEF TipStored, Grows
      <4>3. CASE s = r /\ a = x[1] /\ proposal_tips'[s][a] = x[2]
        BY <3>1, <3>2, <4>3 DEF TipStored
      <4> QED
        BY <4>1, <4>2, <4>3
    <3> QED
      BY <3>3 DEF TipsStored
  <2> QED
    BY <1>1, <2>1, <2>2 DEF MissingPayload, MissingParent, ReceiveHeader
<1> QED
  BY <1>3, <1>4, <1>5 DEF FlowInv

\* The header of its own that a leader collects votes for is stored.
LEMMA OwnHeaderFlow ==
    ASSUME TypeOK, FlowInv, NEW a \in Authors, OwnHeader(a)
    PROVE  FlowInv'
<1> DEFINE h == Head(rx_proposer[a]).height
           x == <<a, h>>
<1>1. a \in Replicas /\ UNCHANGED cut
  BY LanesAssumption DEF OwnHeader, cutVars
<1>2. ASSUME NEW s \in Replicas, NEW b \in Replicas, b # s
      PROVE  proposal_tips'[s][b] = proposal_tips[s][b]
  <2>1. \/ proposal_tips' = proposal_tips
        \/ \E t : proposal_tips' = [proposal_tips EXCEPT ![a][a] = t]
    BY DEF OwnHeader
  <2>2. proposal_tips \in [Replicas -> [Replicas -> Nat \cup {NoTip}]]
    BY DEF TypeOK, Cuts
  <2>3. ASSUME NEW t, proposal_tips' = [proposal_tips EXCEPT ![a][a] = t]
        PROVE  proposal_tips'[s][b] = proposal_tips[s][b]
    <3>1. CASE s = a
      BY <1>1, <1>2, <2>2, <2>3, <3>1
    <3>2. CASE s # a
      BY <2>2, <2>3, <3>2
    <3> QED
      BY <3>1, <3>2
  <2> QED
    BY <2>1, <2>3
<1>3. CASE Head(rx_proposer[a]).parent + 1 = h
  <2>1. /\ StoreHeader(a, x)
        /\ current_header' = [current_header EXCEPT ![a] = h]
        /\ sent' = sent \cup {x}
    BY <1>3 DEF OwnHeader
  <2>2. x \in Headers
    <3>1. /\ rx_proposer[a] \in Seq([height : Nat, parent : Nat]) /\ rx_proposer[a] # <<>>
      BY <1>1 DEF OwnHeader, TypeOK
    <3>2. Head(rx_proposer[a]) = rx_proposer[a][1] /\ 1 \in DOMAIN rx_proposer[a]
          /\ Head(rx_proposer[a]) \in [height : Nat, parent : Nat]
      BY <3>1, HeadFacts
    <3>3. h \in Nat /\ h >= 1
      BY <1>3, <3>2
    <3>4. h <= MaxHeight[a]
      BY <1>1, <3>2 DEF TypeOK
    <3> QED
      BY <3>3, <3>4, HeaderOf
  <2>3. Grows /\ StoredVoted'
    BY <1>1, <2>1, <2>2, HandleGrows, VotedStays DEF FlowInv
  <2>4. OwnStored'
    <3>1. ASSUME NEW b \in Replicas, current_header'[b] # None
          PROVE  <<b, current_header'[b]>> \in store'[b]
      <4>1. CASE b = a
        BY <1>1, <2>1, <4>1 DEF StoreHeader, TypeOK
      <4>2. CASE b # a
        BY <2>1, <2>3, <3>1, <4>2 DEF FlowInv, OwnStored, Grows, TypeOK
      <4> QED
        BY <4>1, <4>2
    <3> QED
      BY <3>1 DEF OwnStored
  <2>5. CutsStored'
    BY <1>1, <2>3, CutsStay DEF FlowInv
  <2>6. TipsStored'
    BY <1>2, <2>3 DEF FlowInv, TipsStored, TipStored, Grows
  <2> QED
    BY <2>3, <2>4, <2>5, <2>6 DEF FlowInv
<1>4. CASE Head(rx_proposer[a]).parent + 1 # h
  <2>1. /\ UNCHANGED <<store, keys, last_voted>>
        /\ current_header' = [current_header EXCEPT ![a] = None]
    BY <1>4 DEF OwnHeader
  <2>2. Grows /\ StoredVoted'
    BY <2>1 DEF Grows, FlowInv, StoredVoted
  <2>3. OwnStored'
    BY <2>1 DEF FlowInv, OwnStored, TypeOK
  <2>4. CutsStored'
    BY <1>1, <2>2, CutsStay DEF FlowInv
  <2>5. TipsStored'
    BY <1>2, <2>2 DEF FlowInv, TipsStored, TipStored, Grows
  <2> QED
    BY <2>2, <2>3, <2>4, <2>5 DEF FlowInv
<1> QED
  BY <1>3, <1>4

LEMMA ProposeFlow ==
    ASSUME TypeOK, FlowInv, NEW l \in Leaders, Propose(l)
    PROVE  FlowInv'
<1>1. /\ UNCHANGED <<authorVars, storeVars>>
      /\ l \in Replicas
      /\ cut' = [cut EXCEPT ![l] = [CurrentTips(l) EXCEPT ![l] = current_header[l]]]
  BY LanesAssumption DEF Propose
<1>2. Grows
  BY <1>1 DEF Grows, storeVars
<1>3. StoredVoted' /\ OwnStored' /\ TipsStored'
  BY <1>1, <1>2, OwnStays, TipsStay DEF FlowInv, StoredVoted, authorVars, storeVars
<1>4. CutsStored'
  <2>1. SUFFICES ASSUME OptimisticTips, NEW k \in Replicas,
                        cut'[k] # NoCut, cut'[k][k] # NoTip, NEW a \in Replicas
                 PROVE  TipStored(k, a, cut'[k][a])
    BY <1>1 DEF CutsStored, TipStored, storeVars
  <2>2. CASE k # l
    BY <1>1, <2>1, <2>2 DEF FlowInv, CutsStored, TypeOK
  <2>3. CASE k = l
    <3>1. /\ cut'[k] = [proposal_tips[k] EXCEPT ![k] = current_header[k]]
          /\ proposal_tips[k] \in Cuts
      BY <1>1, <2>1, <2>3 DEF CurrentTips, TypeOK
    <3>2. CASE a = k
      <4>1. cut'[k][a] = current_header[k] /\ current_header[k] # None
        BY <2>1, <3>1, <3>2 DEF Cuts, NoTip, None
      <4>2. current_header[k] \in Nat
        BY <4>1 DEF TypeOK
      <4> QED
        BY <3>2, <4>1, <4>2 DEF FlowInv, OwnStored, TipStored
    <3>3. CASE a # k
      <4>1. cut'[k][a] = proposal_tips[k][a]
        BY <3>1, <3>3 DEF Cuts
      <4> QED
        BY <2>1, <3>3, <4>1 DEF FlowInv, TipsStored
    <3> QED
      BY <3>2, <3>3
  <2> QED
    BY <2>2, <2>3
<1> QED
  BY <1>3, <1>4 DEF FlowInv

LEMMA FlowStep == TypeOK /\ FlowInv /\ [Next]_vars => FlowInv'
<1> SUFFICES ASSUME TypeOK, FlowInv, [Next]_vars PROVE FlowInv'
  OBVIOUS
<1>1. CASE \E a \in Authors : OwnHeader(a)
  BY <1>1, OwnHeaderFlow
<1>2. CASE \E r \in Replicas, x \in Headers : HeaderArrives(r, x) \/ HeaderLoopsBack(r, x)
  BY <1>2, HandleFlow
<1>3. CASE \E l \in Leaders : Propose(l)
  BY <1>3, ProposeFlow
<1>4. CASE \/ \E a \in Authors : make_header(a) \/ CertificateArrives(a)
           \/ \E a \in Authors, v \in Replicas : VoteArrives(a, v)
           \/ \E r \in Replicas, l \in Leaders : PrepareArrives(r, l) \/ PrepareLoopsBack(r, l)
           \/ \E r \in MayCrash : Crash(r)
           \/ UNCHANGED vars
  <2>1. UNCHANGED <<store, keys, last_voted, current_header, proposal_tips, cut>>
    BY <1>4 DEF make_header, CertificateArrives, VoteArrives, PrepareArrives,
                PrepareLoopsBack, Crash, vars, storeVars, authorVars, cutVars
  <2> QED
    BY <2>1, OtherFlow
<1> QED
  BY <1>1, <1>2, <1>3, <1>4 DEF Next

LEMMA InitFlow == Init => FlowInv
<1> SUFFICES ASSUME Init PROVE FlowInv
  OBVIOUS
<1>1. StoredVoted /\ OwnStored
  BY DEF Init, StoredVoted, OwnStored
<1>2. TipsStored /\ CutsStored
  BY DEF Init, TipsStored, CutsStored, TipStored
<1> QED
  BY <1>1, <1>2 DEF FlowInv

LEMMA FlowAlways == Spec => [](ChainInv /\ FlowInv)
<1>1. ChainInv => TypeOK
  BY DEF ChainInv, AvailInv
<1> QED
  BY <1>1, InitChain, ChainStep, InitFlow, FlowStep, PTL DEF Spec

\* A leader has its cut because a tip is stored, and a store closed.
LEMMA FlowImpliesCuts ==
    ASSUME ChainInv, FlowInv
    PROVE  LeadersHaveCuts
<1> SUFFICES ASSUME OptimisticTips, NEW l \in Leaders, cut[l] # NoCut, cut[l][l] # NoTip,
                    NEW a \in Replicas
             PROVE  /\ cut[l][a] \in Nat
                    /\ \A h \in 1 .. cut[l][a] : <<a, h>> \in store[l]
  BY DEF LeadersHaveCuts
<1>1. l \in Replicas
  BY LanesAssumption
<1>2. TipStored(l, a, cut[l][a])
  BY <1>1 DEF FlowInv, CutsStored
<1>3. PICK t : t = cut[l][a]
  OBVIOUS
<1>4. t \in Nat /\ (t > 0 => <<a, t>> \in store[l])
  BY <1>2, <1>3 DEF TipStored
<1>5. ASSUME NEW h \in 1 .. t PROVE <<a, h>> \in store[l]
  <2>1. <<a, t>> \in store[l]
    BY <1>4, <1>5
  <2> QED
    BY <1>1, <1>5, <2>1 DEF ChainInv, AvailInv, StoreClosed
<1> QED
  BY <1>3, <1>4, <1>5

\* The stages leave an author something to do; while it collects votes, the
\* parent of its header is with f + 1 replicas, of which one runs.
LEMMA FlowImpliesLanes ==
    ASSUME ChainInv, FlowInv
    PROVE  LanesGoOn
<1> SUFFICES ASSUME NEW a \in Authors, MaxHeight[a] > 0,
                    rx_core[a] = <<>>, rx_proposer[a] = <<>>,
                    last_parent[a] = None \/ ~(height[a] <= MaxHeight[a])
             PROVE  \/ Collecting(a)
                    \/ current_header[a] = MaxHeight[a] /\ Complete(votes_aggregator[a])
  BY DEF LanesGoOn
<1>1. /\ a \in Replicas /\ Stage(a) /\ TypeOK
      /\ height[a] \in Nat /\ MaxHeight[a] \in Nat
  BY LanesAssumption DEF ChainInv, Stages, AvailInv, TypeOK
<1>2. CASE HasParent(a)
  <2>1. last_parent[a] = height[a] - 1 /\ height[a] >= 1
        /\ current_header[a] = Position(height[a] - 1) /\ Certified(a)
    BY <1>2 DEF HasParent
  <2>2. height[a] > MaxHeight[a]
    BY <1>1, <2>1 DEF None
  <2>3. current_header[a] = height[a] - 1 /\ current_header[a] # None
    BY <1>1, <2>1, <2>2 DEF Position, None
  <2>4. <<a, current_header[a]>> \in Headers
    BY <1>1, <2>3 DEF FlowInv, OwnStored, TypeOK
  <2>5. current_header[a] <= MaxHeight[a]
    BY <2>4, HeaderParts
  <2>6. current_header[a] = MaxHeight[a]
    BY <1>1, <2>2, <2>3, <2>5
  <2> QED
    BY <2>1, <2>3, <2>6 DEF Certified
<1>3. CASE Voting(a)
  <2>1. PICK x : x = <<a, current_header[a]>>
    OBVIOUS
  <2>2. current_header[a] # None
    BY <1>1, <1>3 DEF Voting, None
  <2>3. x \in store[a] /\ x \in Headers /\ x \in sent
    BY <1>1, <2>1, <2>2 DEF FlowInv, OwnStored, TypeOK, ChainInv, AvailInv, FromSent
  <2>4. Obtainable(x)
    <3>1. CASE x[2] > 1
      <4>1. Backed(Parent(x))
        BY <2>3, <3>1 DEF ChainInv, AvailInv, SentBacked
      <4>2. PICK s \in Holders(Parent(x)) : s \notin crashed
        BY <4>1, OneRuns DEF Backed, Holders, ChainInv, AvailInv, FewCrashed, TypeOK
      <4> QED
        BY <4>2 DEF Holders, Obtainable
    <3>2. x[2] \in Nat /\ x[2] >= 1
      BY <2>3, HeaderParts
    <3> QED
      BY <3>1, <3>2 DEF Obtainable
  <2>5. \A r \in Replicas : x \in last_voted[r] \/ (x \notin store[r] /\ Obtainable(x))
    BY <2>4 DEF FlowInv, StoredVoted
  <2> QED
    BY <2>1, <2>3, <2>5 DEF Collecting
<1> QED
  BY <1>1, <1>2, <1>3 DEF Stage, Starting, HeaderMade

(***************************************************************************)
(* No lane gets stuck, for any number of replicas, any lanes and whichever *)
(* f replicas crash: the safety side of LanesGrow (proposer.rs, and        *)
(* process_own_header, process_vote and process_header of core.rs).        *)
(***************************************************************************)
THEOREM NoLaneIsStuck == Spec => []LanesGoOn
BY FlowAlways, FlowImpliesLanes, PTL

(***************************************************************************)
(* No cut gets stuck: a leader with a header of its own has all of its cut *)
(* stored, though tips need no certificate (set_consensus_proposal and     *)
(* process_header, core.rs).  The safety side of CutsAreVoted.             *)
(***************************************************************************)
THEOREM NoCutIsStuck == Spec => []LeadersHaveCuts
BY FlowAlways, FlowImpliesCuts, PTL
=============================================================================
