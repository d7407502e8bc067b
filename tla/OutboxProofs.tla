---------------------------- MODULE OutboxProofs ----------------------------
(***************************************************************************)
(* What a connection does, whatever Core sends over it: an acknowledged    *)
(* message was read, and messages are read in the order they were sent.    *)
(* The inductive invariant relates the two ends of a connection: what is   *)
(* pending is what was acknowledged, followed by what the current runner   *)
(* still has to read; and every queue of message numbers is complete, in   *)
(* that a number that is missing before another one was read or cancelled. *)
(***************************************************************************)
EXTENDS Outbox, SequenceTheorems, FiniteSetTheorems, TLAPS

-----------------------------------------------------------------------------
(***************************************************************************)
(* Sequences of anything, and queues of numbers.                           *)
(***************************************************************************)
Values(s) == {s[i] : i \in DOMAIN s}
IsSeq(s) == s \in Seq(Values(s))

LEMMA SeqIsSeq == ASSUME NEW S, NEW s \in Seq(S) PROVE IsSeq(s)
BY DEF IsSeq, Values

LEMMA ConcatIsSeq ==
    ASSUME NEW s, NEW t, IsSeq(s), IsSeq(t)
    PROVE  /\ IsSeq(s \o t)
           /\ Len(s) \in Nat /\ Len(t) \in Nat /\ Len(s \o t) = Len(s) + Len(t)
<1> DEFINE S == Values(s) \cup Values(t)
<1>1. s \in Seq(S) /\ t \in Seq(S)
  BY SeqMonotonic DEF IsSeq
<1> HIDE DEF S
<1>2. s \o t \in Seq(S) /\ Len(s \o t) = Len(s) + Len(t)
  BY <1>1, ConcatProperties
<1>3. IsSeq(s \o t)
  BY <1>2, SeqIsSeq
<1>4. Len(s) \in Nat /\ Len(t) \in Nat
  BY <1>1, LenProperties
<1> QED
  BY <1>2, <1>3, <1>4

LEMMA ConcatValues ==
    ASSUME NEW S, NEW s \in Seq(S), NEW t \in Seq(S)
    PROVE  Values(s \o t) = Values(s) \cup Values(t)
<1>1. /\ Len(s) \in Nat /\ Len(t) \in Nat
      /\ DOMAIN s = 1 .. Len(s) /\ DOMAIN t = 1 .. Len(t)
      /\ DOMAIN (s \o t) = 1 .. Len(s) + Len(t)
      /\ \A i \in 1 .. Len(s) + Len(t) :
             (s \o t)[i] = IF i <= Len(s) THEN s[i] ELSE t[i - Len(s)]
  <2>1. s \o t \in Seq(S) /\ Len(s \o t) = Len(s) + Len(t)
    BY ConcatProperties
  <2> QED
    BY <2>1, ConcatProperties, LenProperties
<1>2. \A i \in 1 .. Len(s) : i \in 1 .. Len(s) + Len(t) /\ (s \o t)[i] = s[i]
  BY <1>1
<1>3. \A i \in 1 .. Len(t) :
          i + Len(s) \in 1 .. Len(s) + Len(t) /\ (s \o t)[i + Len(s)] = t[i]
  BY <1>1
<1>4. \A i \in 1 .. Len(s) + Len(t) :
          i \in 1 .. Len(s) \/ i - Len(s) \in 1 .. Len(t)
  BY <1>1
<1>5. Values(s \o t) \subseteq Values(s) \cup Values(t)
  BY <1>1, <1>4 DEF Values
<1>6. ASSUME NEW i \in DOMAIN s PROVE s[i] \in Values(s \o t)
  <2>1. i \in DOMAIN (s \o t) /\ (s \o t)[i] = s[i]
    BY <1>1, <1>2
  <2> QED
    BY <2>1 DEF Values
<1>7. ASSUME NEW i \in DOMAIN t PROVE t[i] \in Values(s \o t)
  <2>1. i + Len(s) \in DOMAIN (s \o t) /\ (s \o t)[i + Len(s)] = t[i]
    BY <1>1, <1>3
  <2> QED
    BY <2>1 DEF Values
<1>8. Values(s) \subseteq Values(s \o t) /\ Values(t) \subseteq Values(s \o t)
  BY <1>6, <1>7 DEF Values
<1> QED
  BY <1>5, <1>8

\* What comes in q before a number has all the smaller ones that S does not.
InOrder(q, S) ==
    \A j \in 1 .. Len(q) : \A m \in 1 .. (q[j] - 1) :
        m \in S \/ \E l \in 1 .. (j - 1) : q[l] = m

LEMMA InOrderMore ==
    ASSUME NEW q, NEW S, NEW T, InOrder(q, S), S \subseteq T
    PROVE  InOrder(q, T)
BY DEF InOrder

LEMMA InOrderHead ==
    ASSUME NEW q, NEW S, InOrder(q, S), Len(q) \in Nat \ {0}
    PROVE  \A m \in 1 .. (q[1] - 1) : m \in S
<1>1. 1 \in 1 .. Len(q) /\ \A l : l \notin 1 .. (1 - 1)
  OBVIOUS
<1> QED
  BY <1>1, Zenon DEF InOrder

LEMMA InOrderTail ==
    ASSUME NEW q \in Seq(Nat), q # <<>>, NEW S, NEW T, InOrder(q, S), S \subseteq T,
           Head(q) \in T
    PROVE  InOrder(Tail(q), T)
<1>1. /\ Len(q) \in Nat \ {0} /\ Len(Tail(q)) = Len(q) - 1 /\ Head(q) = q[1]
      /\ \A j \in 1 .. Len(Tail(q)) : Tail(q)[j] = q[j + 1]
  BY HeadTailProperties, EmptySeq
<1> SUFFICES ASSUME NEW j \in 1 .. Len(Tail(q)), NEW m \in 1 .. (Tail(q)[j] - 1), m \notin T
             PROVE  \E l \in 1 .. (j - 1) : Tail(q)[l] = m
  BY DEF InOrder
<1>2. j + 1 \in 1 .. Len(q) /\ m \in 1 .. (q[j + 1] - 1) /\ m \notin S
  BY <1>1
<1>3. PICK l \in 1 .. j : q[l] = m
  BY <1>2 DEF InOrder
<1>4. l # 1
  BY <1>1, <1>3
<1>5. l - 1 \in 1 .. (j - 1) /\ Tail(q)[l - 1] = m
  BY <1>1, <1>3, <1>4
<1> QED
  BY <1>5

LEMMA InOrderConcat ==
    ASSUME NEW q \in Seq(Nat), NEW r \in Seq(Nat), NEW S, InOrder(q, S),
           InOrder(r, S \cup Values(q))
    PROVE  InOrder(q \o r, S)
<1>1. /\ Len(q) \in Nat /\ Len(r) \in Nat /\ Len(q \o r) = Len(q) + Len(r)
      /\ \A j \in 1 .. Len(q) + Len(r) :
             (q \o r)[j] = IF j <= Len(q) THEN q[j] ELSE r[j - Len(q)]
  BY ConcatProperties, LenProperties
<1> SUFFICES ASSUME NEW j \in 1 .. Len(q) + Len(r), NEW m \in 1 .. ((q \o r)[j] - 1), m \notin S
             PROVE  \E l \in 1 .. (j - 1) : (q \o r)[l] = m
  BY <1>1 DEF InOrder
<1>2. CASE j <= Len(q)
  <2>1. PICK l \in 1 .. (j - 1) : q[l] = m
    BY <1>1, <1>2 DEF InOrder
  <2> QED
    BY <1>1, <1>2, <2>1
<1>3. CASE j > Len(q)
  <2>1. j - Len(q) \in 1 .. Len(r) /\ m \in 1 .. (r[j - Len(q)] - 1)
    BY <1>1, <1>3
  <2>2. CASE m \in Values(q)
    <3>1. PICK l \in 1 .. Len(q) : q[l] = m
      BY <2>2, <1>1, LenProperties DEF Values
    <3> QED
      BY <1>1, <1>3, <3>1
  <2>3. CASE \E l \in 1 .. (j - Len(q) - 1) : r[l] = m
    <3>1. PICK l \in 1 .. (j - Len(q) - 1) : r[l] = m
      BY <2>3
    <3>2. l + Len(q) \in 1 .. (j - 1) /\ (q \o r)[l + Len(q)] = m
      BY <1>1, <1>3, <3>1
    <3> QED
      BY <3>2
  <2> QED
    BY <2>1, <2>2, <2>3 DEF InOrder
<1> QED
  BY <1>1, <1>2, <1>3

LEMMA InOrderAppend ==
    ASSUME NEW q \in Seq(Nat), NEW n \in Nat, NEW S, InOrder(q, S),
           \A m \in 1 .. (n - 1) : m \in S \cup Values(q)
    PROVE  InOrder(Append(q, n), S)
<1>1. /\ Len(q) \in Nat /\ Len(Append(q, n)) = Len(q) + 1
      /\ \A j \in 1 .. Len(q) : Append(q, n)[j] = q[j]
      /\ Append(q, n)[Len(q) + 1] = n /\ DOMAIN q = 1 .. Len(q)
  BY AppendProperties, LenProperties
<1> SUFFICES ASSUME NEW j \in 1 .. Len(q) + 1, NEW m \in 1 .. (Append(q, n)[j] - 1), m \notin S
             PROVE  \E l \in 1 .. (j - 1) : Append(q, n)[l] = m
  BY <1>1 DEF InOrder
<1>2. CASE j = Len(q) + 1
  BY <1>1, <1>2 DEF Values
<1>3. CASE j # Len(q) + 1
  <2>1. j \in 1 .. Len(q)
    BY <1>1, <1>3
  <2>2. PICK l \in 1 .. (j - 1) : q[l] = m
    BY <1>1, <2>1 DEF InOrder
  <2> QED
    BY <1>1, <2>1, <2>2
<1> QED
  BY <1>2, <1>3

LEMMA InOrderPrefix ==
    ASSUME NEW q \in Seq(Nat), NEW n \in 0 .. Len(q), NEW S, InOrder(q, S)
    PROVE  InOrder(SubSeq(q, 1, n), S)
<1>1. Len(q) \in Nat /\ n \in Nat
  BY LenProperties
<1>2. \A i \in 1 .. n : q[i] \in Nat
  BY <1>1, ElementOfSeq
<1>3. Len(SubSeq(q, 1, n)) = n /\ \A i \in 1 .. n : SubSeq(q, 1, n)[i] = q[i]
  BY <1>1, <1>2, SubSeqProperties
<1> QED
  BY <1>1, <1>3 DEF InOrder

-----------------------------------------------------------------------------
(***************************************************************************)
(* The invariant of a connection.                                          *)
(***************************************************************************)
Ids(p) == 1 .. Len(sent[p])
Handlers == {"open", "closed", "acked"}
Served(p) == taken[p] \cup Cancelled(p)
Current(p) == runners[p][Len(runners[p])]

LinkTypes(p) ==
    /\ IsSeq(sent[p])
    /\ cancel_handler[p] \in Seq(Handlers) /\ Len(cancel_handler[p]) = Len(sent[p])
    /\ buffer[p] \in Seq(Ids(p)) /\ pending_replies[p] \in Seq(Ids(p))
    /\ runners[p] \in Seq(Seq(Ids(p)))
    /\ acks[p] \in Nat /\ taken[p] \subseteq Ids(p) /\ connected[p] \in BOOLEAN
    /\ connected[p] => runners[p] # <<>>

AckedTaken(p) == \A i \in Ids(p) : cancel_handler[p][i] = "acked" => i \in taken[p]

\* What is pending: the acknowledged, then the frames of the current runner.
PendingMatches(p) ==
    /\ ~connected[p] => acks[p] = 0 /\ pending_replies[p] = <<>>
    /\ connected[p] =>
           /\ Len(pending_replies[p]) = acks[p] + Len(Current(p))
           /\ \A j \in 1 .. acks[p] : pending_replies[p][j] \in taken[p]
           /\ \A j \in 1 .. Len(Current(p)) : pending_replies[p][acks[p] + j] = Current(p)[j]

QueuesInOrder(p) ==
    /\ \A i \in 1 .. Len(runners[p]) : InOrder(runners[p][i], Served(p))
    /\ InOrder(pending_replies[p], Served(p))
    /\ InOrder(buffer[p], Served(p) \cup Values(pending_replies[p]))
    /\ Ids(p) \subseteq Served(p) \cup Values(pending_replies[p]) \cup Values(buffer[p])

PeerInv(p) == LinkTypes(p) /\ AckedTaken(p) /\ PendingMatches(p) /\ QueuesInOrder(p)

LinkFunctions ==
    /\ DOMAIN sent = Peers /\ DOMAIN cancel_handler = Peers /\ DOMAIN buffer = Peers
    /\ DOMAIN pending_replies = Peers /\ DOMAIN connected = Peers /\ DOMAIN acks = Peers
    /\ DOMAIN runners = Peers /\ DOMAIN taken = Peers

LinkInv == LinkFunctions /\ \A p \in Peers : PeerInv(p)

\* Nothing changes for p.
Rests(p) ==
    /\ sent'[p] = sent[p] /\ cancel_handler'[p] = cancel_handler[p] /\ buffer'[p] = buffer[p]
    /\ pending_replies'[p] = pending_replies[p] /\ connected'[p] = connected[p]
    /\ acks'[p] = acks[p] /\ runners'[p] = runners[p] /\ taken'[p] = taken[p]

LEMMA RestKeeps == ASSUME NEW p, PeerInv(p), Rests(p) PROVE PeerInv(p)'
BY DEF PeerInv, Rests, LinkTypes, AckedTaken, PendingMatches, QueuesInOrder, Ids, Served,
       Cancelled, Current

\* The queues hold natural numbers.
LEMMA QueuesOfNat ==
    ASSUME NEW p, LinkTypes(p)
    PROVE  /\ Len(sent[p]) \in Nat /\ Ids(p) \subseteq Nat
           /\ buffer[p] \in Seq(Nat) /\ pending_replies[p] \in Seq(Nat)
           /\ Len(runners[p]) \in Nat
           /\ \A i \in 1 .. Len(runners[p]) :
                  runners[p][i] \in Seq(Nat) /\ runners[p][i] \in Seq(Ids(p))
           /\ connected[p] => Len(runners[p]) \in 1 .. Len(runners[p])
<1>1. Len(sent[p]) \in Nat
  BY LenProperties DEF LinkTypes, IsSeq
<1>2. Ids(p) \subseteq Nat
  BY <1>1 DEF Ids
<1>3. buffer[p] \in Seq(Nat) /\ pending_replies[p] \in Seq(Nat)
  BY <1>2, SeqMonotonic DEF LinkTypes
<1>4. Len(runners[p]) \in Nat
      /\ \A i \in 1 .. Len(runners[p]) : runners[p][i] \in Seq(Ids(p))
  BY LenProperties, ElementOfSeq DEF LinkTypes
<1>5. \A i \in 1 .. Len(runners[p]) : runners[p][i] \in Seq(Nat)
  BY <1>2, <1>4, SeqMonotonic
<1>6. connected[p] => Len(runners[p]) \in 1 .. Len(runners[p])
  BY <1>4, EmptySeq DEF LinkTypes
<1> QED
  BY <1>1, <1>2, <1>3, <1>4, <1>5, <1>6

LEMMA PostKeeps ==
    ASSUME NEW p \in Peers, PeerInv(p), NEW ms, IsSeq(ms[p]), Post(ms)
    PROVE  /\ PeerInv(p)' /\ Cancelled(p)' = Cancelled(p)
           /\ Len(sent[p]) \in Nat /\ Len(sent'[p]) \in Nat /\ Len(sent'[p]) >= Len(sent[p])
<1> DEFINE N == Len(sent[p])
           L == Len(ms[p])
           opened == [i \in 1 .. L |-> "open"]
           new == [i \in 1 .. L |-> N + i]
           S == Served(p) \cup Values(pending_replies[p])
<1>1. /\ sent'[p] = sent[p] \o ms[p]
      /\ cancel_handler'[p] = cancel_handler[p] \o opened
      /\ buffer'[p] = buffer[p] \o new
      /\ UNCHANGED <<pending_replies, connected, acks, runners, taken>>
  BY DEF Post
<1>2. IsSeq(sent[p]) /\ IsSeq(ms[p])
  BY DEF PeerInv, LinkTypes
<1>3. IsSeq(sent'[p]) /\ N \in Nat /\ L \in Nat /\ Len(sent'[p]) = N + L
  BY <1>1, <1>2, ConcatIsSeq
<1>4. opened \in Seq(Handlers) /\ Len(opened) = L
  BY <1>3 DEF Handlers
<1>5. \A i \in 1 .. L : opened[i] = "open" /\ new[i] = N + i
  OBVIOUS
<1>6. Ids(p) = 1 .. N /\ Ids(p)' = 1 .. (N + L)
  BY <1>3 DEF Ids
<1> HIDE DEF opened, N, L
<1>7. Ids(p) \subseteq Ids(p)' /\ Ids(p)' \subseteq Nat
  BY <1>3, <1>6
<1>8. new \in Seq(Nat) /\ new \in Seq(Ids(p)') /\ Len(new) = L /\ DOMAIN new = 1 .. L
  <2>1. \A i \in 1 .. L : N + i \in Nat /\ N + i \in Ids(p)'
    BY <1>3, <1>6
  <2> QED
    BY <2>1, <1>3
<1> HIDE DEF new
<1>9. cancel_handler[p] \in Seq(Handlers) /\ Len(cancel_handler[p]) = N
  BY DEF PeerInv, LinkTypes, N
<1>10. /\ cancel_handler'[p] \in Seq(Handlers) /\ Len(cancel_handler'[p]) = N + L
       /\ \A i \in 1 .. (N + L) :
              cancel_handler'[p][i] = IF i <= N THEN cancel_handler[p][i] ELSE opened[i - N]
  <2>1. /\ cancel_handler[p] \o opened \in Seq(Handlers)
        /\ Len(cancel_handler[p] \o opened) = Len(cancel_handler[p]) + Len(opened)
        /\ \A i \in 1 .. Len(cancel_handler[p]) + Len(opened) :
               (cancel_handler[p] \o opened)[i] =
                   IF i <= Len(cancel_handler[p]) THEN cancel_handler[p][i]
                   ELSE opened[i - Len(cancel_handler[p])]
    BY <1>4, <1>9, ConcatProperties
  <2> QED
    BY <2>1, <1>1, <1>4, <1>9
<1>11. /\ \A i \in 1 .. N : i \in 1 .. (N + L) /\ cancel_handler'[p][i] = cancel_handler[p][i]
       /\ \A i \in 1 .. (N + L) : i \in 1 .. N \/ cancel_handler'[p][i] = "open"
  <2>1. \A i \in 1 .. (N + L) : i \in 1 .. N \/ (i > N /\ i - N \in 1 .. L)
    BY <1>3
  <2>2. \A i \in 1 .. N : i \in 1 .. (N + L) /\ i <= N
    BY <1>3
  <2>3. \A i \in 1 .. (N + L) : i > N => ~(i <= N)
    BY <1>3
  <2> QED
    BY <1>10, <1>5, <2>1, <2>2, <2>3
<1>12. LinkTypes(p)'
  <2>1. buffer[p] \in Seq(Ids(p)') /\ pending_replies[p] \in Seq(Ids(p)')
    BY <1>7, SeqMonotonic DEF PeerInv, LinkTypes
  <2>2. Seq(Ids(p)) \subseteq Seq(Ids(p)')
    BY <1>7, SeqMonotonic
  <2>3. runners[p] \in Seq(Seq(Ids(p)'))
    BY <2>2, SeqMonotonic DEF PeerInv, LinkTypes
  <2>4. buffer'[p] \in Seq(Ids(p)')
    BY <2>1, <1>1, <1>8, ConcatProperties
  <2> QED
    BY <1>1, <1>3, <1>7, <1>10, <2>1, <2>3, <2>4 DEF PeerInv, LinkTypes
<1>13. Cancelled(p)' = Cancelled(p)
  BY <1>9, <1>10, <1>11 DEF Cancelled
<1>14. AckedTaken(p)'
  BY <1>1, <1>6, <1>11 DEF AckedTaken, PeerInv
<1>15. PendingMatches(p)'
  BY <1>1 DEF PeerInv, PendingMatches, Current
<1>16. QueuesInOrder(p)'
  <2>1. Served(p)' = Served(p) /\ Values(pending_replies[p])' = Values(pending_replies[p])
    BY <1>1, <1>13 DEF Served
  <2>2. buffer[p] \in Seq(Nat)
    BY QueuesOfNat DEF PeerInv
  <2>3. \A m \in 1 .. N : m \in S \cup Values(buffer[p])
    BY <1>6 DEF PeerInv, QueuesInOrder
  <2>4. InOrder(new, S \cup Values(buffer[p]))
    <3> SUFFICES ASSUME NEW j \in 1 .. L, NEW m \in 1 .. (new[j] - 1),
                        m \notin S \cup Values(buffer[p])
                 PROVE  \E l \in 1 .. (j - 1) : new[l] = m
      BY <1>8 DEF InOrder
    <3>0. new[j] = N + j
      BY <1>5
    <3>1. m \in 1 .. (N + j - 1)
      BY <3>0, <1>3
    <3>2. m > N
      BY <1>3, <2>3, <3>1
    <3>3. m - N \in 1 .. (j - 1) /\ m - N \in 1 .. L /\ N + (m - N) = m
      BY <1>3, <3>1, <3>2
    <3>4. new[m - N] = m
      BY <3>3, <1>5
    <3> QED
      BY <3>3, <3>4
  <2>5. InOrder(buffer[p], S)
    BY DEF PeerInv, QueuesInOrder
  <2>6. InOrder(buffer'[p], S)
    BY <1>1, <1>8, <2>2, <2>4, <2>5, InOrderConcat
  <2>7. Values(buffer'[p]) = Values(buffer[p]) \cup Values(new)
    BY <1>1, <1>8, <2>2, ConcatValues
  <2>8. \A m \in 1 .. (N + L) : m \in 1 .. N \/ m \in Values(new)
    <3>1. \A m \in 1 .. (N + L) : m \in 1 .. N \/ (m - N \in 1 .. L /\ N + (m - N) = m)
      BY <1>3
    <3>2. \A m \in 1 .. (N + L) : m - N \in 1 .. L => new[m - N] = N + (m - N)
      BY <1>5
    <3> QED
      BY <3>1, <3>2, <1>8 DEF Values
  <2>9. Ids(p)' \subseteq S \cup Values(buffer'[p])
    BY <1>6, <2>3, <2>7, <2>8
  <2> QED
    BY <1>1, <2>1, <2>6, <2>9 DEF PeerInv, QueuesInOrder
<1>17. Len(sent[p]) \in Nat /\ Len(sent'[p]) \in Nat /\ Len(sent'[p]) >= Len(sent[p])
  BY <1>3 DEF N
<1> QED
  BY <1>12, <1>13, <1>14, <1>15, <1>16, <1>17 DEF PeerInv

LEMMA CancelKeeps ==
    ASSUME NEW p \in Peers, PeerInv(p), NEW ids, Cancel(ids)
    PROVE  PeerInv(p)' /\ Cancelled(p) \subseteq Cancelled(p)'
<1>1. /\ cancel_handler'[p] = [i \in 1 .. Len(sent[p]) |->
               IF i \in ids[p] /\ cancel_handler[p][i] = "open"
               THEN "closed" ELSE cancel_handler[p][i]]
      /\ UNCHANGED <<sent, buffer, pending_replies, connected, acks, runners, taken>>
  BY DEF Cancel
<1>2. Len(sent[p]) \in Nat /\ \A i \in 1 .. Len(sent[p]) : cancel_handler[p][i] \in Handlers
  BY QueuesOfNat, ElementOfSeq DEF PeerInv, LinkTypes
<1>3. cancel_handler'[p] \in Seq(Handlers) /\ Len(cancel_handler'[p]) = Len(sent[p])
  BY <1>1, <1>2 DEF Handlers
<1>4. LinkTypes(p)'
  BY <1>1, <1>3 DEF PeerInv, LinkTypes, Ids
<1>5. Cancelled(p) \subseteq Cancelled(p)'
  BY <1>1, <1>3 DEF Cancelled, PeerInv, LinkTypes
<1>6. AckedTaken(p)'
  BY <1>1 DEF AckedTaken, PeerInv, Ids
<1>7. PendingMatches(p)'
  BY <1>1 DEF PeerInv, PendingMatches, Current
<1>8. QueuesInOrder(p)'
  <2>1. Served(p) \subseteq Served(p)' /\ Ids(p)' = Ids(p)
    BY <1>1, <1>5 DEF Served, Ids
  <2>2. Served(p) \cup Values(pending_replies[p]) \subseteq Served(p)' \cup Values(pending_replies[p])
    BY <2>1
  <2> QED
    BY <1>1, <2>1, <2>2, InOrderMore DEF PeerInv, QueuesInOrder
<1> QED
  BY <1>4, <1>5, <1>6, <1>7, <1>8 DEF PeerInv

\* The first number of a queue, and what is left.
LEMMA QueueHead ==
    ASSUME NEW S, NEW q \in Seq(S), q # <<>>
    PROVE  /\ Head(q) = q[1] /\ Head(q) \in S /\ Tail(q) \in Seq(S) /\ Len(q) \in Nat \ {0}
           /\ Len(Tail(q)) = Len(q) - 1 /\ \A i \in 1 .. Len(Tail(q)) : Tail(q)[i] = q[i + 1]
           /\ Values(q) \subseteq {Head(q)} \cup Values(Tail(q))
<1>1. /\ Head(q) \in S /\ Tail(q) \in Seq(S) /\ Len(Tail(q)) = Len(q) - 1
      /\ \A i \in 1 .. Len(Tail(q)) : Tail(q)[i] = q[i + 1]
  BY HeadTailProperties
<1>2. Len(q) \in Nat \ {0} /\ Head(q) = q[1] /\ DOMAIN q = 1 .. Len(q)
      /\ DOMAIN Tail(q) = 1 .. Len(Tail(q))
  BY <1>1, EmptySeq, LenProperties
<1>3. ASSUME NEW i \in DOMAIN q, i # 1 PROVE q[i] \in Values(Tail(q))
  <2>1. i - 1 \in 1 .. Len(Tail(q)) /\ (i - 1) + 1 = i
    BY <1>1, <1>2, <1>3
  <2>2. Tail(q)[i - 1] = q[i]
    BY <1>1, <2>1
  <2> QED
    BY <1>2, <2>1, <2>2 DEF Values
<1>4. Values(q) \subseteq {Head(q)} \cup Values(Tail(q))
  BY <1>2, <1>3 DEF Values
<1> QED
  BY <1>1, <1>2, <1>4

LEMMA AppendValues ==
    ASSUME NEW S, NEW q \in Seq(S), NEW e \in S
    PROVE  Values(q) \subseteq Values(Append(q, e)) /\ e \in Values(Append(q, e))
<1>1. /\ Append(q, e) \in Seq(S) /\ Len(Append(q, e)) = Len(q) + 1
      /\ \A i \in 1 .. Len(q) : Append(q, e)[i] = q[i]
      /\ Append(q, e)[Len(q) + 1] = e /\ Len(q) \in Nat
  BY AppendProperties, LenProperties
<1>2. DOMAIN Append(q, e) = 1 .. Len(q) + 1 /\ DOMAIN q = 1 .. Len(q)
  BY <1>1, LenProperties
<1>3. \A i \in DOMAIN q : i \in DOMAIN Append(q, e) /\ Append(q, e)[i] = q[i]
  BY <1>1, <1>2
<1>4. Len(q) + 1 \in DOMAIN Append(q, e)
  BY <1>1, <1>2
<1> QED
  BY <1>1, <1>3, <1>4 DEF Values

LEMMA ConnectKeeps ==
    ASSUME LinkFunctions, NEW p \in Peers, PeerInv(p), Connect(p)
    PROVE  PeerInv(p)'
<1>1. /\ ~connected[p] /\ connected'[p] = TRUE /\ runners'[p] = Append(runners[p], <<>>)
      /\ UNCHANGED <<sent, cancel_handler, buffer, pending_replies, acks, taken>>
  BY DEF Connect, LinkFunctions
<1>2. /\ Len(runners[p]) \in Nat /\ runners[p] \in Seq(Seq(Ids(p))) /\ <<>> \in Seq(Ids(p))
  BY QueuesOfNat, EmptySeq DEF PeerInv, LinkTypes
<1>3. /\ runners'[p] \in Seq(Seq(Ids(p))) /\ runners'[p] # <<>>
      /\ Len(runners'[p]) = Len(runners[p]) + 1
      /\ \A i \in 1 .. Len(runners[p]) : runners'[p][i] = runners[p][i]
      /\ runners'[p][Len(runners[p]) + 1] = <<>>
  BY <1>1, <1>2, AppendProperties
<1>4. Ids(p)' = Ids(p) /\ Served(p)' = Served(p)
  BY <1>1 DEF Ids, Served, Cancelled
<1>5. LinkTypes(p)'
  BY <1>1, <1>3, <1>4 DEF PeerInv, LinkTypes
<1>6. AckedTaken(p)'
  BY <1>1, <1>4 DEF PeerInv, AckedTaken
<1>7. PendingMatches(p)'
  <2>1. Current(p)' = <<>> /\ Len(<<>>) = 0 /\ acks[p] = 0 /\ pending_replies[p] = <<>>
    BY <1>1, <1>3 DEF Current, PeerInv, PendingMatches
  <2> QED
    BY <1>1, <2>1 DEF PendingMatches
<1>8. QueuesInOrder(p)'
  <2>1. ASSUME NEW i \in 1 .. Len(runners'[p]) PROVE InOrder(runners'[p][i], Served(p))
    <3>1. CASE i \in 1 .. Len(runners[p])
      BY <1>3, <3>1 DEF PeerInv, QueuesInOrder
    <3>2. CASE i = Len(runners[p]) + 1
      BY <1>3, <3>2 DEF InOrder
    <3> QED
      BY <1>2, <1>3, <3>1, <3>2
  <2> QED
    BY <1>1, <1>4, <2>1 DEF PeerInv, QueuesInOrder
<1> QED
  BY <1>5, <1>6, <1>7, <1>8 DEF PeerInv

\* Replacing the frames of one runner.
LEMMA RunnerReplaced ==
    ASSUME NEW p, LinkTypes(p), NEW i \in 1 .. Len(runners[p]), NEW q \in Seq(Ids(p)),
           runners'[p] = [runners[p] EXCEPT ![i] = q]
    PROVE  /\ runners'[p] \in Seq(Seq(Ids(p))) /\ Len(runners'[p]) = Len(runners[p])
           /\ \A j \in 1 .. Len(runners[p]) : runners'[p][j] = IF j = i THEN q ELSE runners[p][j]
           /\ runners'[p] # <<>>
<1>1. /\ runners'[p] \in Seq(Seq(Ids(p))) /\ Len(runners'[p]) = Len(runners[p])
      /\ \A j \in 1 .. Len(runners[p]) : runners'[p][j] = IF j = i THEN q ELSE runners[p][j]
  BY ExceptSeq DEF LinkTypes
<1>2. Len(runners[p]) # 0
  BY QueuesOfNat
<1> QED
  BY <1>1, <1>2, EmptySeq

LEMMA TransmitKeeps ==
    ASSUME LinkFunctions, NEW p \in Peers, PeerInv(p), Transmit(p)
    PROVE  PeerInv(p)'
<1> DEFINE b == Head(buffer[p])
           c == Len(runners[p])
           S == Served(p)
<1>1. /\ connected[p] /\ buffer[p] # <<>> /\ buffer'[p] = Tail(buffer[p])
      /\ UNCHANGED <<sent, cancel_handler, connected, acks, taken>>
  BY DEF Transmit, LinkFunctions
<1>2. LinkTypes(p) /\ AckedTaken(p) /\ PendingMatches(p) /\ QueuesInOrder(p)
  BY DEF PeerInv
<1>3. /\ buffer[p] \in Seq(Nat) /\ buffer[p] \in Seq(Ids(p)) /\ Ids(p) \subseteq Nat
      /\ pending_replies[p] \in Seq(Nat) /\ pending_replies[p] \in Seq(Ids(p))
      /\ c \in 1 .. Len(runners[p]) /\ Current(p) \in Seq(Ids(p)) /\ Current(p) \in Seq(Nat)
  BY <1>1, <1>2, QueuesOfNat DEF LinkTypes, Current
<1>4. /\ b = buffer[p][1] /\ b \in Ids(p) /\ b \in Nat /\ Tail(buffer[p]) \in Seq(Ids(p))
      /\ Values(buffer[p]) \subseteq {b} \cup Values(Tail(buffer[p]))
      /\ Len(buffer[p]) \in Nat \ {0}
  BY <1>1, <1>3, QueueHead
<1>5. Ids(p)' = Ids(p) /\ Served(p)' = S
  BY <1>1 DEF Ids, Served, Cancelled
<1>6. AckedTaken(p)'
  BY <1>1, <1>2, <1>5 DEF AckedTaken
<1> HIDE DEF b, c, S
<1>7. CASE cancel_handler[p][b] = "closed"
  <2>1. UNCHANGED <<pending_replies, runners>>
    BY <1>7 DEF Transmit, b
  <2>2. b \in S
    BY <1>4, <1>7, <1>2 DEF S, Served, Cancelled, Ids, LinkTypes
  <2>3. LinkTypes(p)'
    BY <1>1, <1>2, <1>4, <1>5, <2>1 DEF LinkTypes
  <2>4. PendingMatches(p)'
    BY <1>1, <1>2, <2>1 DEF PendingMatches, Current
  <2>5. QueuesInOrder(p)'
    <3>1. InOrder(Tail(buffer[p]), S \cup Values(pending_replies[p]))
      BY <1>1, <1>2, <1>3, <2>2, InOrderTail DEF QueuesInOrder, S, b
    <3>2. Ids(p) \subseteq S \cup Values(pending_replies[p]) \cup Values(Tail(buffer[p]))
      BY <1>2, <1>4, <2>2 DEF QueuesInOrder, S
    <3> QED
      BY <1>1, <1>2, <1>5, <2>1, <3>1, <3>2 DEF QueuesInOrder, S
  <2> QED
    BY <1>6, <2>3, <2>4, <2>5 DEF PeerInv
<1>8. CASE cancel_handler[p][b] # "closed"
  <2> DEFINE pending == Append(pending_replies[p], b)
             frames == Append(Current(p), b)
  <2>1. /\ pending_replies'[p] = pending
        /\ runners'[p] = [runners[p] EXCEPT ![c] = frames]
    BY <1>8 DEF Transmit, LinkFunctions, b, c, Current
  <2>2. /\ pending \in Seq(Ids(p)) /\ Len(pending) = Len(pending_replies[p]) + 1
        /\ \A j \in 1 .. Len(pending_replies[p]) : pending[j] = pending_replies[p][j]
        /\ pending[Len(pending_replies[p]) + 1] = b
        /\ Len(pending_replies[p]) \in Nat
    BY <1>3, <1>4, AppendProperties, LenProperties
  <2>3. /\ frames \in Seq(Ids(p)) /\ Len(frames) = Len(Current(p)) + 1
        /\ \A j \in 1 .. Len(Current(p)) : frames[j] = Current(p)[j]
        /\ frames[Len(Current(p)) + 1] = b
        /\ Len(Current(p)) \in Nat
    BY <1>3, <1>4, AppendProperties, LenProperties
  <2>4. Values(pending_replies[p]) \subseteq Values(pending) /\ b \in Values(pending)
    BY <1>3, <1>4, AppendValues
  <2>a. \A m \in 1 .. (b - 1) : m \in S \cup Values(pending_replies[p])
    <3>1. \A l \in 1 .. 0 : FALSE
      OBVIOUS
    <3>2. 1 \in 1 .. Len(buffer[p]) /\ 1 - 1 = 0
      BY <1>4
    <3> QED
      BY <1>2, <1>4, <3>1, <3>2 DEF QueuesInOrder, InOrder, S
  <2>b. InOrder(pending, S)
    BY <1>2, <1>3, <1>4, <2>a, InOrderAppend DEF QueuesInOrder, S
  <2>c. Values(pending_replies[p]) \subseteq S \cup Values(Current(p))
    <3>1. ASSUME NEW j \in 1 .. Len(pending_replies[p])
          PROVE  pending_replies[p][j] \in S \cup Values(Current(p))
      <4>1. acks[p] \in Nat /\ Len(pending_replies[p]) = acks[p] + Len(Current(p))
        BY <1>1, <1>2 DEF LinkTypes, PendingMatches
      <4>2. CASE j \in 1 .. acks[p]
        BY <1>1, <1>2, <4>2 DEF PendingMatches, S, Served
      <4>3. CASE j \notin 1 .. acks[p]
        <5>1. j - acks[p] \in 1 .. Len(Current(p)) /\ acks[p] + (j - acks[p]) = j
          BY <2>2, <2>3, <4>1, <4>3
        <5>2. pending_replies[p][acks[p] + (j - acks[p])] = Current(p)[j - acks[p]]
          BY <5>1, <1>1, <1>2 DEF PendingMatches
        <5>3. j - acks[p] \in DOMAIN Current(p)
          BY <5>1, <1>3, LenProperties
        <5> QED
          BY <5>1, <5>2, <5>3 DEF Values
      <4> QED
        BY <4>2, <4>3
    <3>2. DOMAIN pending_replies[p] = 1 .. Len(pending_replies[p])
      BY <1>3, LenProperties
    <3> QED
      BY <3>1, <3>2 DEF Values
  <2>d. InOrder(frames, S)
    <3>1. InOrder(Current(p), S)
      BY <1>2, <1>3 DEF QueuesInOrder, S, Current, c
    <3>2. \A m \in 1 .. (b - 1) : m \in S \cup Values(Current(p))
      BY <2>a, <2>c
    <3> QED
      BY <3>1, <3>2, <1>3, <1>4, InOrderAppend
  <2> HIDE DEF pending, frames
  <2>5. /\ runners'[p] \in Seq(Seq(Ids(p))) /\ Len(runners'[p]) = Len(runners[p])
        /\ \A j \in 1 .. Len(runners[p]) : runners'[p][j] = IF j = c THEN frames ELSE runners[p][j]
        /\ runners'[p] # <<>>
    BY <1>2, <1>3, <2>1, <2>3, RunnerReplaced
  <2>6. LinkTypes(p)'
    BY <1>1, <1>2, <1>4, <1>5, <2>1, <2>2, <2>5 DEF LinkTypes
  <2>7. PendingMatches(p)'
    <3>1. Current(p)' = frames
      BY <2>5, <1>3 DEF Current, c
    <3>2. acks[p] \in Nat /\ Len(pending_replies[p]) = acks[p] + Len(Current(p))
      BY <1>1, <1>2 DEF LinkTypes, PendingMatches
    <3>3. Len(pending) = acks[p] + Len(frames)
      BY <2>2, <2>3, <3>2
    <3>4. \A j \in 1 .. acks[p] : pending[j] \in taken[p]
      <4>1. \A j \in 1 .. acks[p] : j \in 1 .. Len(pending_replies[p])
        BY <3>2, <2>3
      <4> QED
        BY <4>1, <2>2, <1>1, <1>2 DEF PendingMatches
    <3>5. ASSUME NEW j \in 1 .. Len(frames) PROVE pending[acks[p] + j] = frames[j]
      <4>1. CASE j = Len(Current(p)) + 1
        <5>1. acks[p] + j = Len(pending_replies[p]) + 1
          BY <4>1, <2>3, <3>2
        <5> QED
          BY <4>1, <5>1, <2>2, <2>3
      <4>2. CASE j # Len(Current(p)) + 1
        <5> DEFINE A == acks[p]
                   L == Len(Current(p))
        <5>a. A \in Nat /\ L \in Nat /\ Len(pending_replies[p]) = A + L
          BY <2>3, <3>2
        <5>b. j \in 1 .. L + 1 /\ j # L + 1
          BY <4>2, <2>3
        <5> HIDE DEF A, L
        <5>c. j \in 1 .. L /\ A + j \in 1 .. A + L
          BY <5>a, <5>b
        <5>1. j \in 1 .. Len(Current(p)) /\ acks[p] + j \in 1 .. Len(pending_replies[p])
          BY <5>a, <5>c DEF A, L
        <5> QED
          BY <5>1, <2>2, <2>3, <1>1, <1>2 DEF PendingMatches
      <4> QED
        BY <4>1, <4>2
    <3> QED
      BY <1>1, <2>1, <3>1, <3>3, <3>4, <3>5 DEF PendingMatches
  <2>8. QueuesInOrder(p)'
    <3>1. InOrder(Tail(buffer[p]), S \cup Values(pending))
      <4>1. S \cup Values(pending_replies[p]) \subseteq S \cup Values(pending)
        BY <2>4
      <4>2. InOrder(buffer[p], S \cup Values(pending_replies[p]))
        BY <1>2, Zenon DEF QueuesInOrder, S
      <4>3. Head(buffer[p]) \in S \cup Values(pending)
        BY <2>4 DEF b
      <4> QED
        BY <1>1, <1>3, <4>1, <4>2, <4>3, InOrderTail, Zenon
    <3>2. Ids(p) \subseteq S \cup Values(pending) \cup Values(Tail(buffer[p]))
      BY <1>2, <1>4, <2>4 DEF QueuesInOrder, S
    <3>3. \A i \in 1 .. Len(runners'[p]) : InOrder(runners'[p][i], S)
      BY <1>2, <2>5, <2>d DEF QueuesInOrder, S
    <3> QED
      BY <1>1, <1>5, <2>1, <2>b, <3>1, <3>2, <3>3 DEF QueuesInOrder, S
  <2> QED
    BY <1>6, <2>6, <2>7, <2>8 DEF PeerInv
<1> QED
  BY <1>7, <1>8

LEMMA ReadAckKeeps ==
    ASSUME LinkFunctions, NEW p \in Peers, PeerInv(p), ReadAck(p)
    PROVE  PeerInv(p)' /\ Cancelled(p)' = Cancelled(p)
<1> DEFINE a == Head(pending_replies[p])
           S == Served(p)
           handler == IF cancel_handler[p][a] = "open" THEN "acked" ELSE cancel_handler[p][a]
<1>1. /\ connected[p] /\ acks[p] > 0 /\ pending_replies[p] # <<>>
      /\ acks'[p] = acks[p] - 1 /\ pending_replies'[p] = Tail(pending_replies[p])
      /\ cancel_handler'[p] = [cancel_handler[p] EXCEPT ![a] = handler]
      /\ UNCHANGED <<sent, buffer, connected, runners, taken>>
  BY DEF ReadAck, LinkFunctions
<1>2. LinkTypes(p) /\ AckedTaken(p) /\ PendingMatches(p) /\ QueuesInOrder(p)
  BY DEF PeerInv
<1>3. /\ buffer[p] \in Seq(Nat) /\ pending_replies[p] \in Seq(Nat)
      /\ pending_replies[p] \in Seq(Ids(p)) /\ acks[p] \in Nat /\ Len(sent[p]) \in Nat
  BY <1>2, QueuesOfNat DEF LinkTypes
<1>4. /\ a = pending_replies[p][1] /\ a \in Ids(p) /\ Tail(pending_replies[p]) \in Seq(Ids(p))
      /\ Values(pending_replies[p]) \subseteq {a} \cup Values(Tail(pending_replies[p]))
      /\ Len(pending_replies[p]) \in Nat \ {0}
      /\ Len(Tail(pending_replies[p])) = Len(pending_replies[p]) - 1
      /\ \A j \in 1 .. Len(Tail(pending_replies[p])) :
             Tail(pending_replies[p])[j] = pending_replies[p][j + 1]
  BY <1>1, <1>3, QueueHead
<1>5. a \in taken[p]
  <2>1. 1 \in 1 .. acks[p]
    BY <1>1, <1>3
  <2> QED
    BY <1>1, <1>2, <1>4, <2>1 DEF PendingMatches
<1> HIDE DEF a
<1>6. cancel_handler[p] \in Seq(Handlers) /\ a \in 1 .. Len(cancel_handler[p]) /\ handler \in Handlers
  <2>1. cancel_handler[p] \in Seq(Handlers) /\ a \in 1 .. Len(cancel_handler[p])
    BY <1>2, <1>4 DEF LinkTypes, Ids
  <2>2. cancel_handler[p][a] \in Handlers
    BY <2>1, ElementOfSeq
  <2> QED
    BY <2>1, <2>2 DEF Handlers
<1> HIDE DEF S
<1>7. /\ cancel_handler'[p] \in Seq(Handlers) /\ Len(cancel_handler'[p]) = Len(cancel_handler[p])
      /\ \A i \in 1 .. Len(cancel_handler[p]) :
             cancel_handler'[p][i] = IF i = a THEN handler ELSE cancel_handler[p][i]
  BY <1>1, <1>6, ExceptSeq
<1>8. Cancelled(p)' = Cancelled(p)
  BY <1>6, <1>7 DEF Cancelled
<1>9. Ids(p)' = Ids(p) /\ Served(p)' = S /\ a \in S
  BY <1>1, <1>5, <1>8 DEF Ids, Served, S
<1>10. LinkTypes(p)'
  <2>1. acks'[p] \in Nat
    BY <1>1, <1>3
  <2>2. /\ sent'[p] = sent[p] /\ buffer'[p] = buffer[p] /\ runners'[p] = runners[p]
        /\ taken'[p] = taken[p] /\ connected'[p] = connected[p] /\ Ids(p)' = Ids(p)
    BY <1>1, <1>9
  <2>3. cancel_handler'[p] \in Seq(Handlers) /\ Len(cancel_handler'[p]) = Len(sent[p])
    BY <1>2, <1>7 DEF LinkTypes
  <2>4. pending_replies'[p] \in Seq(Ids(p))
    BY <1>1, <1>4
  <2> QED
    BY <1>2, <2>1, <2>2, <2>3, <2>4 DEF LinkTypes
<1>11. AckedTaken(p)'
  BY <1>1, <1>2, <1>5, <1>7, <1>9 DEF AckedTaken, Ids, LinkTypes
<1>12. PendingMatches(p)'
  <2>1. /\ Len(pending_replies[p]) = acks[p] + Len(Current(p)) /\ Current(p)' = Current(p)
        /\ \A j \in 1 .. acks[p] : pending_replies[p][j] \in taken[p]
        /\ \A j \in 1 .. Len(Current(p)) : pending_replies[p][acks[p] + j] = Current(p)[j]
    BY <1>1, <1>2 DEF PendingMatches, Current
  <2>2. Len(Current(p)) \in Nat
    BY <1>1, <1>2, QueuesOfNat, LenProperties DEF Current
  <2>3. Len(Tail(pending_replies[p])) = acks[p] - 1 + Len(Current(p))
    BY <1>3, <1>4, <2>1, <2>2
  <2>4. \A j \in 1 .. (acks[p] - 1) : Tail(pending_replies[p])[j] \in taken[p]
    <3>1. \A j \in 1 .. (acks[p] - 1) :
              j \in 1 .. Len(Tail(pending_replies[p])) /\ j + 1 \in 1 .. acks[p]
      <4> DEFINE A == acks[p]
                 L == Len(Current(p))
      <4>1. /\ A \in Nat /\ A > 0 /\ L \in Nat
            /\ Len(Tail(pending_replies[p])) = A - 1 + L
        BY <1>1, <1>3, <2>2, <2>3
      <4> HIDE DEF A, L
      <4>2. \A j \in 1 .. (A - 1) : j \in 1 .. (A - 1 + L) /\ j + 1 \in 1 .. A
        BY <4>1
      <4> QED
        BY <4>1, <4>2 DEF A, L
    <3> QED
      BY <3>1, <1>4, <2>1
  <2>5. \A j \in 1 .. Len(Current(p)) : Tail(pending_replies[p])[acks[p] - 1 + j] = Current(p)[j]
    <3>1. \A j \in 1 .. Len(Current(p)) :
              /\ acks[p] - 1 + j \in 1 .. Len(Tail(pending_replies[p]))
              /\ (acks[p] - 1 + j) + 1 = acks[p] + j
      <4> DEFINE A == acks[p]
                 L == Len(Current(p))
      <4>1. /\ A \in Nat /\ A > 0 /\ L \in Nat
            /\ Len(Tail(pending_replies[p])) = A - 1 + L
        BY <1>1, <1>3, <2>2, <2>3
      <4> HIDE DEF A, L
      <4>2. \A j \in 1 .. L : A - 1 + j \in 1 .. (A - 1 + L) /\ (A - 1 + j) + 1 = A + j
        BY <4>1
      <4> QED
        BY <4>1, <4>2 DEF A, L
    <3> QED
      BY <3>1, <1>4, <2>1
  <2> QED
    BY <1>1, <2>1, <2>3, <2>4, <2>5 DEF PendingMatches
<1>13. QueuesInOrder(p)'
  <2>1. InOrder(Tail(pending_replies[p]), S)
    BY <1>1, <1>2, <1>3, <1>9, InOrderTail DEF QueuesInOrder, S, a
  <2>2. S \cup Values(pending_replies[p]) \subseteq S \cup Values(Tail(pending_replies[p]))
    BY <1>4, <1>9
  <2>3. InOrder(buffer[p], S \cup Values(Tail(pending_replies[p])))
    BY <1>2, <2>2, InOrderMore DEF QueuesInOrder, S
  <2>4. Ids(p) \subseteq S \cup Values(Tail(pending_replies[p])) \cup Values(buffer[p])
    BY <1>2, <2>2 DEF QueuesInOrder, S
  <2> QED
    BY <1>1, <1>2, <1>9, <2>1, <2>3, <2>4 DEF QueuesInOrder, S
<1> QED
  BY <1>8, <1>10, <1>11, <1>12, <1>13 DEF PeerInv

LEMMA BreakKeeps ==
    ASSUME LinkFunctions, NEW p \in Peers, PeerInv(p), Break(p)
    PROVE  PeerInv(p)'
<1> DEFINE c == Len(runners[p])
           S == Served(p)
           back == pending_replies[p] \o buffer[p]
<1>1. /\ connected[p] /\ connected'[p] = FALSE /\ acks'[p] = 0
      /\ buffer'[p] = back /\ pending_replies'[p] = <<>>
      /\ UNCHANGED <<sent, cancel_handler, taken>>
  BY DEF Break, NoAcks, PutBack, LinkFunctions
<1>2. LinkTypes(p) /\ AckedTaken(p) /\ PendingMatches(p) /\ QueuesInOrder(p)
  BY DEF PeerInv
<1>3. /\ buffer[p] \in Seq(Nat) /\ pending_replies[p] \in Seq(Nat)
      /\ buffer[p] \in Seq(Ids(p)) /\ pending_replies[p] \in Seq(Ids(p))
      /\ c \in 1 .. c /\ Current(p) \in Seq(Ids(p)) /\ Current(p) \in Seq(Nat)
  BY <1>1, <1>2, QueuesOfNat DEF LinkTypes, Current
<1>4. PICK kept \in Seq(Ids(p)) :
          runners'[p] = [runners[p] EXCEPT ![c] = kept] /\ InOrder(kept, S)
  <2>1. PICK n \in 0 .. Len(Current(p)) :
            runners'[p] = [runners[p] EXCEPT ![c] = SubSeq(Current(p), 1, n)]
    BY DEF Break, LinkFunctions, Current
  <2>2. Len(Current(p)) \in Nat /\ n \in Nat
    BY <1>3, LenProperties
  <2>3. \A i \in 1 .. n : Current(p)[i] \in Ids(p)
    BY <1>3, <2>2, ElementOfSeq
  <2>4. SubSeq(Current(p), 1, n) \in Seq(Ids(p))
    BY <2>2, <2>3, SubSeqProperties
  <2>5. InOrder(SubSeq(Current(p), 1, n), S)
    BY <1>2, <1>3, InOrderPrefix DEF QueuesInOrder, Current
  <2> QED
    BY <2>1, <2>4, <2>5
<1>5. Ids(p)' = Ids(p) /\ Served(p)' = S
  BY <1>1 DEF Ids, Served, Cancelled
<1>6. c \in 1 .. Len(runners[p])
  BY <1>3
<1> HIDE DEF c, S
<1>8. /\ runners'[p] \in Seq(Seq(Ids(p))) /\ Len(runners'[p]) = Len(runners[p])
      /\ \A j \in 1 .. Len(runners[p]) : runners'[p][j] = IF j = c THEN kept ELSE runners[p][j]
      /\ runners'[p] # <<>>
  BY <1>2, <1>4, <1>6, RunnerReplaced
<1>9. /\ back \in Seq(Ids(p)) /\ Values(back) = Values(pending_replies[p]) \cup Values(buffer[p])
  BY <1>3, ConcatProperties, ConcatValues
<1>10. InOrder(back, S)
  BY <1>2, <1>3, InOrderConcat DEF QueuesInOrder, S
<1> HIDE DEF back
<1>11. <<>> \in Seq(Ids(p)) /\ Len(<<>>) = 0 /\ Values(<<>>) = {} /\ DOMAIN <<>> = {}
  BY EmptySeq DEF Values
<1>12. LinkTypes(p)'
  <2>1. pending_replies'[p] \in Seq(Ids(p)) /\ buffer'[p] \in Seq(Ids(p)) /\ acks'[p] \in Nat
    BY <1>1, <1>9, <1>11
  <2> QED
    BY <1>1, <1>2, <1>5, <1>8, <2>1 DEF LinkTypes
<1>13. AckedTaken(p)'
  BY <1>1, <1>2, <1>5 DEF AckedTaken
<1>14. PendingMatches(p)'
  BY <1>1 DEF PendingMatches
<1>15. QueuesInOrder(p)'
  <2>1. InOrder(<<>>, S)
    BY <1>11 DEF InOrder
  <2>2. InOrder(back, S \cup Values(<<>>))
    BY <1>10, <1>11
  <2>3. Ids(p) \subseteq S \cup Values(<<>>) \cup Values(back)
    BY <1>2, <1>9 DEF QueuesInOrder, S
  <2>4. \A i \in 1 .. Len(runners'[p]) : InOrder(runners'[p][i], S)
    BY <1>2, <1>4, <1>8 DEF QueuesInOrder, S
  <2> QED
    BY <1>1, <1>5, <2>1, <2>2, <2>3, <2>4 DEF QueuesInOrder
<1> QED
  BY <1>12, <1>13, <1>14, <1>15 DEF PeerInv

LEMMA TakeKeeps ==
    ASSUME LinkFunctions, NEW p \in Peers, PeerInv(p), Take(p)
    PROVE  /\ PeerInv(p)' /\ Cancelled(p)' = Cancelled(p) /\ sent'[p] = sent[p]
           /\ \E h \in Ids(p) :
                  /\ taken'[p] = taken[p] \cup {h}
                  /\ \A m \in 1 .. (h - 1) : m \in Served(p)
<1>1. PICK i \in 1 .. Len(runners[p]) :
          /\ runners[p][i] # <<>>
          /\ runners'[p] = [runners[p] EXCEPT ![i] = Tail(runners[p][i])]
          /\ taken'[p] = taken[p] \cup {Head(runners[p][i])}
          /\ acks'[p] = IF IsCurrent(p, i) THEN acks[p] + 1 ELSE acks[p]
  BY DEF Take, LinkFunctions
<1>2. UNCHANGED <<sent, cancel_handler, buffer, pending_replies, connected>>
  BY DEF Take
<1>3. LinkTypes(p) /\ AckedTaken(p) /\ PendingMatches(p) /\ QueuesInOrder(p)
  BY DEF PeerInv
<1> DEFINE q == runners[p][i]
           h == Head(q)
           S == Served(p)
           T == Served(p) \cup {h}
<1>4. /\ q \in Seq(Ids(p)) /\ q \in Seq(Nat) /\ Ids(p) \subseteq Nat
      /\ acks[p] \in Nat /\ Len(runners[p]) \in Nat
  BY <1>3, QueuesOfNat DEF LinkTypes
<1>5. /\ h = q[1] /\ h \in Ids(p) /\ Tail(q) \in Seq(Ids(p)) /\ Len(q) \in Nat \ {0}
      /\ Len(Tail(q)) = Len(q) - 1 /\ \A j \in 1 .. Len(Tail(q)) : Tail(q)[j] = q[j + 1]
  BY <1>1, <1>4, QueueHead
<1>6. Ids(p)' = Ids(p) /\ Cancelled(p)' = Cancelled(p) /\ Served(p)' = T
  BY <1>1, <1>2 DEF Ids, Cancelled, Served
<1>7. /\ runners'[p] \in Seq(Seq(Ids(p))) /\ Len(runners'[p]) = Len(runners[p])
      /\ \A j \in 1 .. Len(runners[p]) : runners'[p][j] = IF j = i THEN Tail(q) ELSE runners[p][j]
      /\ runners'[p] # <<>>
  <2>1. Tail(q) \in Seq(Ids(p)) /\ runners'[p] = [runners[p] EXCEPT ![i] = Tail(q)]
    BY <1>1, <1>5
  <2> HIDE DEF q
  <2> QED
    BY <1>3, <2>1, RunnerReplaced
<1>8. InOrder(q, S)
  BY <1>3 DEF QueuesInOrder
<1>9. \A m \in 1 .. (h - 1) : m \in S
  BY <1>5, <1>8, InOrderHead
<1>10. InOrder(Tail(q), T)
  <2>1. q # <<>> /\ S \subseteq T /\ h \in T
    BY <1>1
  <2> QED
    BY <1>4, <1>8, <2>1, InOrderTail
<1>11. taken'[p] = taken[p] \cup {h} /\ (acks'[p] = acks[p] \/ acks'[p] = acks[p] + 1)
  BY <1>1
<1>12. LinkTypes(p)'
  <2>1. acks'[p] \in Nat /\ taken'[p] \subseteq Ids(p)
    <3>1. taken[p] \subseteq Ids(p)
      BY <1>3 DEF LinkTypes
    <3>2. taken'[p] \subseteq Ids(p)
      BY <1>5, <1>11, <3>1
    <3>3. acks'[p] \in Nat
      BY <1>4, <1>11
    <3> QED
      BY <3>2, <3>3
  <2>2. /\ sent'[p] = sent[p] /\ buffer'[p] = buffer[p] /\ connected'[p] = connected[p]
        /\ cancel_handler'[p] = cancel_handler[p] /\ pending_replies'[p] = pending_replies[p]
    BY <1>2
  <2>3. /\ runners'[p] \in Seq(Seq(Ids(p))) /\ runners'[p] # <<>> /\ Ids(p)' = Ids(p)
    BY <1>6, <1>7
  <2> HIDE DEF q, h, S, T
  <2> QED
    BY <1>3, <2>1, <2>2, <2>3 DEF LinkTypes
<1>13. AckedTaken(p)'
  BY <1>2, <1>3, <1>6, <1>11 DEF AckedTaken
<1>14. PendingMatches(p)'
  <2>1. CASE ~connected[p]
    <3>1. acks'[p] = acks[p]
      BY <1>1, <2>1 DEF IsCurrent
    <3> QED
      BY <1>2, <1>3, <2>1, <3>1 DEF PendingMatches
  <2>2. CASE connected[p]
    <3> DEFINE c == Len(runners[p])
    <3>1. /\ Len(pending_replies[p]) = acks[p] + Len(Current(p))
          /\ \A j \in 1 .. acks[p] : pending_replies[p][j] \in taken'[p]
          /\ \A j \in 1 .. Len(Current(p)) : pending_replies[p][acks[p] + j] = Current(p)[j]
          /\ Current(p) = runners[p][c] /\ Current(p)' = runners'[p][c]
      BY <1>3, <1>7, <1>11, <2>2 DEF PendingMatches, Current
    <3>2. c \in 1 .. Len(runners[p])
      BY <1>3, <2>2, QueuesOfNat
    <3> HIDE DEF c
    <3>3. CASE i = c
      <4>1. acks'[p] = acks[p] + 1 /\ Current(p) = q /\ Current(p)' = Tail(q)
        BY <1>1, <1>7, <2>2, <3>1, <3>2, <3>3 DEF IsCurrent, c
      <4> HIDE DEF q, h
      <4>2. Len(pending_replies[p]) = acks[p] + 1 + Len(Tail(q))
        BY <1>4, <1>5, <3>1, <4>1
      <4>3. pending_replies[p][acks[p] + 1] = h
        <5>1. 1 \in 1 .. Len(q)
          BY <1>5
        <5> QED
          BY <1>5, <3>1, <4>1, <5>1
      <4>4. \A j \in 1 .. (acks[p] + 1) : pending_replies[p][j] \in taken'[p]
        <5>1. \A j \in 1 .. (acks[p] + 1) : j \in 1 .. acks[p] \/ j = acks[p] + 1
          BY <1>4
        <5> QED
          BY <1>11, <3>1, <4>3, <5>1
      <4>5. \A j \in 1 .. Len(Tail(q)) : pending_replies[p][acks[p] + 1 + j] = Tail(q)[j]
        <5>1. \A j \in 1 .. Len(Tail(q)) :
                  j + 1 \in 1 .. Len(q) /\ acks[p] + 1 + j = acks[p] + (j + 1)
          <6>1. acks[p] \in Nat /\ Len(q) \in Nat /\ Len(Tail(q)) = Len(q) - 1
            BY <1>4, <1>5
          <6> HIDE DEF q
          <6> QED
            BY <6>1
        <5> QED
          BY <1>5, <3>1, <4>1, <5>1
      <4> QED
        BY <1>2, <2>2, <4>1, <4>2, <4>4, <4>5 DEF PendingMatches
    <3>4. CASE i # c
      <4>1. acks'[p] = acks[p] /\ Current(p)' = Current(p)
        BY <1>1, <1>7, <3>1, <3>2, <3>4 DEF IsCurrent, c
      <4> QED
        BY <1>2, <2>2, <3>1, <4>1 DEF PendingMatches
    <3> QED
      BY <3>3, <3>4
  <2> QED
    BY <2>1, <2>2
<1>15. QueuesInOrder(p)'
  <2>1. \A j \in 1 .. Len(runners'[p]) : InOrder(runners'[p][j], T)
    <3>1. \A j \in 1 .. Len(runners[p]) : InOrder(runners[p][j], T)
      BY <1>3, InOrderMore DEF QueuesInOrder
    <3> QED
      BY <1>7, <1>10, <3>1
  <2>2. InOrder(pending_replies[p], T)
    BY <1>3, InOrderMore DEF QueuesInOrder
  <2>3. InOrder(buffer[p], T \cup Values(pending_replies[p]))
    <3>1. S \cup Values(pending_replies[p]) \subseteq T \cup Values(pending_replies[p])
      OBVIOUS
    <3> QED
      BY <1>3, <3>1, InOrderMore DEF QueuesInOrder
  <2>4. Ids(p) \subseteq T \cup Values(pending_replies[p]) \cup Values(buffer[p])
    BY <1>3 DEF QueuesInOrder
  <2> HIDE DEF T
  <2> QED
    BY <1>2, <1>6, <2>1, <2>2, <2>3, <2>4 DEF QueuesInOrder
<1> QED
  BY <1>2, <1>5, <1>6, <1>9, <1>11, <1>12, <1>13, <1>14, <1>15 DEF PeerInv

-----------------------------------------------------------------------------
(***************************************************************************)
(* Every step of a link, and what OrderedDelivery sees of it.              *)
(***************************************************************************)
LEMMA PostStep ==
    ASSUME LinkInv, NEW ms, \A p \in Peers : IsSeq(ms[p]), Post(ms)
    PROVE  LinkInv' /\ Delivery!Post
<1>1. LinkFunctions'
  BY DEF LinkInv, LinkFunctions, Post
<1>2. \A p \in Peers : PeerInv(p)'
  BY PostKeeps DEF LinkInv
<1>3. \A p \in Peers :
          /\ Len(sent[p]) \in Nat /\ Len(sent'[p]) \in Nat /\ Len(sent'[p]) >= Len(sent[p])
          /\ Cancelled(p)' = Cancelled(p)
  BY PostKeeps DEF LinkInv
<1>4. taken' = taken
  BY DEF Post
<1>5. Delivery!Post
  BY <1>3, <1>4 DEF Delivery!Post
<1> QED
  BY <1>1, <1>2, <1>5 DEF LinkInv

LEMMA CancelStep ==
    ASSUME LinkInv, NEW ids, Cancel(ids)
    PROVE  LinkInv' /\ Delivery!GiveUp
<1>1. LinkFunctions'
  BY DEF LinkInv, LinkFunctions, Cancel
<1>2. \A p \in Peers : PeerInv(p)' /\ Cancelled(p) \subseteq Cancelled(p)'
  BY CancelKeeps DEF LinkInv
<1>3. ASSUME NEW p \in Peers PROVE Cancelled(p)' \subseteq Nat
  <2>1. Len(cancel_handler'[p]) \in Nat
    BY <1>2, LenProperties DEF PeerInv, LinkTypes
  <2> QED
    BY <2>1 DEF Cancelled
<1>4. sent' = sent /\ taken' = taken
  BY DEF Cancel
<1>5. Delivery!GiveUp
  BY <1>2, <1>3, <1>4 DEF Delivery!GiveUp
<1> QED
  BY <1>1, <1>2, <1>5 DEF LinkInv

LEMMA OthersRest ==
    ASSUME LinkInv, NEW p \in Peers, LinkStep(p), NEW q \in Peers, q # p
    PROVE  Rests(q)
BY DEF LinkInv, LinkFunctions, LinkStep, Connect, Transmit, ReadAck, Break, NoAcks, PutBack, Take,
       Rests

LEMMA LinkStepKeeps ==
    ASSUME LinkInv, NEW p \in Peers, LinkStep(p)
    PROVE  LinkInv' /\ (Delivery!Deliver(p) \/ UNCHANGED Delivery!vars)
<1>1. LinkFunctions'
  BY DEF LinkInv, LinkFunctions, LinkStep, Connect, Transmit, ReadAck, Break, NoAcks, PutBack, Take
<1>2. PeerInv(p) /\ LinkFunctions
  BY DEF LinkInv
<1>3. PeerInv(p)'
  BY <1>2, ConnectKeeps, TransmitKeeps, ReadAckKeeps, BreakKeeps, TakeKeeps DEF LinkStep
<1>4. \A q \in Peers : q # p => Rests(q) /\ PeerInv(q)'
  BY OthersRest, RestKeeps DEF LinkInv
<1>5. LinkInv'
  BY <1>1, <1>3, <1>4 DEF LinkInv
<1>6. \A q \in Peers : q # p => Cancelled(q)' = Cancelled(q)
  BY <1>4 DEF Rests, Cancelled
<1>7. CASE Take(p)
  <2>1. PICK h \in Ids(p) :
            taken'[p] = taken[p] \cup {h} /\ \A m \in 1 .. (h - 1) : m \in Served(p)
    BY <1>2, <1>7, TakeKeeps
  <2>2. Cancelled(p)' = Cancelled(p) /\ sent' = sent
    BY <1>2, <1>7, TakeKeeps DEF Take
  <2>3. taken' = [taken EXCEPT ![p] = @ \cup {h}]
    <3>1. PICK g : taken' = [taken EXCEPT ![p] = @ \cup {g}]
      BY <1>7 DEF Take
    <3>2. taken'[p] = taken[p] \cup {g}
      BY <1>2, <3>1 DEF LinkFunctions
    <3> QED
      BY <2>1, <3>1, <3>2
  <2>4. [q \in Peers |-> Cancelled(q)]' = [q \in Peers |-> Cancelled(q)]
    BY <1>6, <2>2
  <2> QED
    BY <1>5, <2>1, <2>2, <2>3, <2>4 DEF Delivery!Deliver, Ids, Served
<1>8. CASE Connect(p) \/ Transmit(p) \/ ReadAck(p) \/ Break(p)
  <2>1. sent' = sent /\ taken' = taken
    BY <1>8 DEF Connect, Transmit, ReadAck, Break
  <2>2. Cancelled(p)' = Cancelled(p)
    <3>1. CASE ReadAck(p)
      BY <1>2, <3>1, ReadAckKeeps
    <3>2. CASE Connect(p) \/ Transmit(p) \/ Break(p)
      BY <3>2 DEF Connect, Transmit, Break, Cancelled
    <3> QED
      BY <1>8, <3>1, <3>2
  <2>3. [q \in Peers |-> Cancelled(q)]' = [q \in Peers |-> Cancelled(q)]
    BY <1>6, <2>2
  <2> QED
    BY <1>5, <2>1, <2>3 DEF Delivery!vars
<1> QED
  BY <1>7, <1>8 DEF LinkStep

-----------------------------------------------------------------------------
(***************************************************************************)
(* Core over its links.                                                    *)
(***************************************************************************)
OutboxInv == LinkInv /\ IsSeq(partition_delayed_msgs)

LEMMA ShortSeqs ==
    ASSUME NEW m
    PROVE  IsSeq(<<>>) /\ IsSeq(<<m>>)
<1>1. <<>> \in Seq({m}) /\ <<m>> \in Seq({m})
  OBVIOUS
<1> QED
  BY <1>1, SeqIsSeq

\* A message is sent at most once to each peer.
LEMMA ToIsSeq == \A ps, m : \A p \in Peers : IsSeq(To(ps, m)[p])
BY ShortSeqs DEF To

LEMMA AsideIsSeq ==
    ASSUME IsSeq(partition_delayed_msgs), NEW m, PutAside(m) \/ UNCHANGED partition_delayed_msgs
    PROVE  IsSeq(partition_delayed_msgs)'
<1>1. CASE UNCHANGED partition_delayed_msgs
  BY <1>1 DEF IsSeq, Values
<1>2. CASE PutAside(m)
  <2> DEFINE S == Values(partition_delayed_msgs) \cup {m}
  <2>1. partition_delayed_msgs \in Seq(S)
    BY SeqMonotonic DEF IsSeq
  <2>2. m \in S
    OBVIOUS
  <2> HIDE DEF S
  <2>3. Append(partition_delayed_msgs, m) \in Seq(S)
    BY <2>1, <2>2, AppendProperties
  <2>4. partition_delayed_msgs' = Append(partition_delayed_msgs, m)
    BY <1>2 DEF PutAside
  <2>5. IsSeq(Append(partition_delayed_msgs, m))
    BY <2>3, SeqIsSeq
  <2> QED
    BY <2>4, <2>5 DEF IsSeq, Values
<1> QED
  BY <1>1, <1>2

LEMMA SendStep ==
    ASSUME OutboxInv, NEW m, send_msg(m)
    PROVE  OutboxInv' /\ Delivery!Post
<1>0. LinkInv /\ IsSeq(partition_delayed_msgs)
  BY DEF OutboxInv
<1>1. \A p \in Peers : IsSeq(send_msg_normal(m)[p]) /\ IsSeq(send_msg_partition(m)[p])
                      /\ IsSeq(Nobody[p])
  BY ToIsSeq, ShortSeqs DEF send_msg_normal, send_msg_partition, Nobody
<1>2. ASSUME NEW ms, \A p \in Peers : IsSeq(ms[p]), Post(ms),
             PutAside(m) \/ UNCHANGED partition_delayed_msgs
      PROVE  OutboxInv' /\ Delivery!Post
  BY <1>0, <1>2, PostStep, AsideIsSeq DEF OutboxInv
<1>3. CASE SendOff(m)
  BY <1>1, <1>2, <1>3 DEF SendOff, KeepNothing
<1>4. CASE SendPartition(m)
  <2>1. PICK ms \in {send_msg_partition(m), send_msg_normal(m), Nobody} :
            Post(ms) /\ (PutAside(m) \/ UNCHANGED partition_delayed_msgs)
    BY <1>4 DEF SendPartition, PutAsideAll, KeepNothing
  <2> QED
    BY <1>1, <1>2, <2>1
<1>5. CASE SendEquivocate(m)
  <2> DEFINE both == [p \in Peers |-> <<IF p \in OwnSide THEN m ELSE Fake(m)>>]
  <2>1. \A p \in Peers : IsSeq(both[p])
    BY ShortSeqs
  <2>2. PICK ms \in {both, send_msg_normal(m)} :
            Post(ms) /\ UNCHANGED partition_delayed_msgs
    BY <1>5 DEF SendEquivocate, KeepNothing
  <2> HIDE DEF both
  <2> QED
    BY <1>1, <1>2, <2>1, <2>2
<1>6. CASE SendEgress(m)
  BY <1>1, <1>2, <1>6 DEF SendEgress, Delay
<1>7. CASE SendPrepareDelay(m)
  <2>1. PICK ms \in {send_msg_normal(m), Nobody} : Post(ms) /\ UNCHANGED partition_delayed_msgs
    BY <1>7 DEF SendPrepareDelay, Delay, Skip, KeepNothing
  <2> QED
    BY <1>1, <1>2, <2>1
<1>8. CASE SendVoteDelay(m)
  <2>1. PICK ms \in {send_msg_normal(m), Nobody} : Post(ms) /\ UNCHANGED partition_delayed_msgs
    BY <1>8 DEF SendVoteDelay, Delay, KeepNothing
  <2> QED
    BY <1>1, <1>2, <2>1
<1> QED
  BY <1>3, <1>4, <1>5, <1>6, <1>7, <1>8 DEF send_msg

LEMMA ReplayIsSeq ==
    ASSUME IsSeq(partition_delayed_msgs), NEW p
    PROVE  IsSeq(Replay(p))
<1> DEFINE I == {i \in DOMAIN partition_delayed_msgs : p \in ReplayedTo(partition_delayed_msgs[i])}
           At(n) == partition_delayed_msgs[CHOOSE i \in I : Cardinality({j \in I : j <= i}) = n]
           S == {At(n) : n \in 1 .. Cardinality(I)}
<1>1. Len(partition_delayed_msgs) \in Nat
      /\ DOMAIN partition_delayed_msgs = 1 .. Len(partition_delayed_msgs)
  BY LenProperties DEF IsSeq
<1>2. IsFiniteSet(1 .. Len(partition_delayed_msgs))
  BY <1>1, FS_Interval
<1>3. Cardinality(I) \in Nat
  BY <1>1, <1>2, FS_Subset, FS_CardinalityType
<1>4. Replay(p) = [n \in 1 .. Cardinality(I) |-> At(n)]
  BY DEF Replay
<1>5. \A n \in 1 .. Cardinality(I) : At(n) \in S
  OBVIOUS
<1> HIDE DEF I, At, S
<1>6. Replay(p) \in Seq(S)
  BY <1>3, <1>4, <1>5
<1> QED
  BY <1>6, SeqIsSeq

\* What OrderedDelivery sees of a step of Outbox.
LEMMA OutboxStep ==
    ASSUME OutboxInv, [Next]_vars
    PROVE  OutboxInv' /\ [Delivery!Next]_(Delivery!vars)
<1>0. LinkInv /\ IsSeq(partition_delayed_msgs)
  BY DEF OutboxInv
<1>1. ASSUME UNCHANGED linkVars PROVE LinkInv' /\ UNCHANGED Delivery!vars
  <2>1. \A p \in Peers : Rests(p)
    BY <1>1 DEF linkVars, Rests
  <2>2. LinkFunctions'
    BY <1>0, <1>1 DEF linkVars, LinkInv, LinkFunctions
  <2>3. \A p \in Peers : PeerInv(p)'
    BY <1>0, <2>1, RestKeeps DEF LinkInv
  <2>4. UNCHANGED Delivery!vars
    BY <1>1 DEF linkVars, Delivery!vars, Cancelled
  <2> QED
    BY <2>2, <2>3, <2>4 DEF LinkInv
<1>2. UNCHANGED partition_delayed_msgs => IsSeq(partition_delayed_msgs)'
  BY <1>0 DEF IsSeq, Values
<1>3. CASE Emit
  <2>1. PICK m : send_msg(m)
    BY <1>3 DEF Emit
  <2> QED
    BY <2>1, SendStep DEF Delivery!Next
<1>4. CASE StartEffect
  BY <1>1, <1>2, <1>4 DEF StartEffect, OutboxInv
<1>5. CASE EndEffect
  <2>1. UNCHANGED partition_delayed_msgs
    BY <1>5 DEF EndEffect
  <2>2. CASE UNCHANGED linkVars
    BY <1>1, <1>2, <2>1, <2>2 DEF OutboxInv
  <2> DEFINE ms == [p \in Peers |-> Replay(p)]
  <2>3. \A p \in Peers : IsSeq(ms[p])
    BY <1>0, ReplayIsSeq
  <2> HIDE DEF ms
  <2>4. CASE Post(ms)
    BY <1>0, <1>2, <2>1, <2>3, <2>4, PostStep DEF OutboxInv, Delivery!Next
  <2> QED
    BY <1>5, <2>2, <2>4 DEF EndEffect, ms
<1>6. CASE SendDelayed
  <2>1. PICK m : Post(send_msg_normal(m)) /\ UNCHANGED partition_delayed_msgs
    BY <1>6 DEF SendDelayed
  <2>2. \A p \in Peers : IsSeq(send_msg_normal(m)[p])
    BY ToIsSeq DEF send_msg_normal
  <2> QED
    BY <1>0, <1>2, <2>1, <2>2, PostStep DEF OutboxInv, Delivery!Next
<1>7. CASE Advance
  <2>1. UNCHANGED partition_delayed_msgs
    BY <1>7 DEF Advance, effectVars
  <2>2. UNCHANGED linkVars \/ \E ids : Cancel(ids)
    BY <1>7 DEF Advance, CollectGarbage
  <2>3. CASE \E ids : Cancel(ids)
    BY <1>0, <1>2, <2>1, <2>3, CancelStep DEF OutboxInv, Delivery!Next
  <2> QED
    BY <1>1, <1>2, <2>1, <2>2, <2>3 DEF OutboxInv
<1>8. ASSUME NEW p \in Peers, LinkStep(p) /\ CoreRests
      PROVE  OutboxInv' /\ [Delivery!Next]_(Delivery!vars)
  <2>1. UNCHANGED partition_delayed_msgs
    BY <1>8 DEF CoreRests, effectVars
  <2> QED
    BY <1>0, <1>2, <1>8, <2>1, LinkStepKeeps DEF OutboxInv, Delivery!Next
<1>9. CASE UNCHANGED vars
  BY <1>1, <1>2, <1>9 DEF vars, effectVars, OutboxInv
<1> QED
  BY <1>3, <1>4, <1>5, <1>6, <1>7, <1>8, <1>9 DEF Next

LEMMA OutboxInit == Init => OutboxInv /\ Delivery!Init
<1> SUFFICES ASSUME Init PROVE OutboxInv /\ Delivery!Init
  OBVIOUS
<1>1. LinkFunctions
  BY DEF Init, LinkInit, LinkFunctions
<1>2. Len(<<>>) = 0 /\ Values(<<>>) = {} /\ 1 .. 0 = {} /\ \A S : <<>> \in Seq(S)
  BY EmptySeq DEF Values
<1>3. ASSUME NEW p \in Peers
      PROVE  /\ sent[p] = <<>> /\ cancel_handler[p] = <<>> /\ buffer[p] = <<>>
             /\ pending_replies[p] = <<>> /\ runners[p] = <<>> /\ connected[p] = FALSE
             /\ acks[p] = 0 /\ taken[p] = {}
  BY DEF Init, LinkInit
<1>4. ASSUME NEW p \in Peers PROVE PeerInv(p) /\ Cancelled(p) = {}
  <2>1. Ids(p) = {} /\ Cancelled(p) = {}
    <3>1. Len(sent[p]) = 0 /\ Len(cancel_handler[p]) = 0
      BY <1>2, <1>3
    <3>2. Ids(p) = 1 .. 0
      BY <3>1 DEF Ids
    <3>3. \A i \in 1 .. Len(cancel_handler[p]) : FALSE
      BY <1>2, <3>1
    <3> QED
      BY <1>2, <3>2, <3>3 DEF Cancelled
  <2>2. LinkTypes(p)
    <3>1. IsSeq(sent[p]) /\ Len(cancel_handler[p]) = Len(sent[p])
      BY <1>3, ShortSeqs
    <3>2. /\ cancel_handler[p] \in Seq(Handlers) /\ buffer[p] \in Seq(Ids(p))
          /\ pending_replies[p] \in Seq(Ids(p)) /\ runners[p] \in Seq(Seq(Ids(p)))
      BY <1>2, <1>3
    <3>3. acks[p] \in Nat /\ taken[p] \subseteq Ids(p)
      <4>1. acks[p] = 0 /\ taken[p] = {}
        BY <1>3, Zenon
      <4> QED
        BY <4>1
    <3>4. connected[p] \in BOOLEAN /\ ~connected[p]
      BY <1>3, Zenon
    <3> QED
      BY <3>1, <3>2, <3>3, <3>4 DEF LinkTypes
  <2>3. AckedTaken(p) /\ PendingMatches(p)
    BY <1>3, <2>1 DEF AckedTaken, PendingMatches
  <2>4. QueuesInOrder(p)
    <3>1. \A j \in 1 .. Len(<<>>) : FALSE
      BY <1>2
    <3>2. \A S : InOrder(<<>>, S)
      BY <3>1 DEF InOrder
    <3> QED
      BY <1>3, <2>1, <3>1, <3>2 DEF QueuesInOrder
  <2> QED
    BY <2>1, <2>2, <2>3, <2>4 DEF PeerInv
<1>5. IsSeq(partition_delayed_msgs)
  BY ShortSeqs DEF Init
<1>6. Delivery!Init
  BY <1>2, <1>3, <1>4 DEF Delivery!Init, Init, LinkInit
<1> QED
  BY <1>1, <1>4, <1>5, <1>6 DEF OutboxInv, LinkInv

-----------------------------------------------------------------------------
(***************************************************************************)
(* A message whose handler was notified was read by the peer.              *)
(***************************************************************************)
THEOREM AckedMessagesAreTaken == Spec => []AckedIsTaken
<1>1. OutboxInv => AckedIsTaken
  BY DEF OutboxInv, LinkInv, PeerInv, AckedTaken, Ids, AckedIsTaken
<1>2. Init => OutboxInv
  BY OutboxInit
<1>3. OutboxInv /\ [Next]_vars => OutboxInv'
  BY OutboxStep
<1> QED
  BY <1>1, <1>2, <1>3, PTL DEF Spec

(***************************************************************************)
(* A connection delivers in order, and all but what was cancelled.         *)
(***************************************************************************)
THEOREM LinkIsOrdered == Spec => ImplementsDelivery
<1>1. Init => OutboxInv /\ Delivery!Init
  BY OutboxInit
<1>2. OutboxInv /\ [Next]_vars => OutboxInv' /\ [Delivery!Next]_(Delivery!vars)
  BY OutboxStep
<1> QED
  BY <1>1, <1>2, PTL DEF Spec, ImplementsDelivery, Delivery!Spec
-----------------------------------------------------------------------------
(***************************************************************************)
(* Where a message is until its addressee has it.  MessageInv: Core has    *)
(* handed it to the link, or still keeps it: in the egress_delay_queue, or *)
(* put aside for the other side while the partition lasts.                 *)
(***************************************************************************)
Handed(n, p) == \E i \in Ids(p) : sent[p][i].n = n

Delayed(n, p) == \E m \in egress_delay_queue : m.n = n /\ p \in Audience(m)

Aside(n, p) ==
    /\ current_effect_type = "Partition"
    /\ \E i \in DOMAIN partition_delayed_msgs :
           /\ partition_delayed_msgs[i].n = n
           /\ p \in ReplayedTo(partition_delayed_msgs[i])

Kept(n, p) == n \in skipped \/ Handed(n, p) \/ Delayed(n, p) \/ Aside(n, p)

MessageInv ==
    /\ IsSeq(addressees)
    /\ \A p \in Peers : \A n \in SentTo(p) : Kept(n, p)

\* A message is in the buffer of the Connection, or not yet acknowledged.
InTransit(n, p) ==
    \E i \in Values(buffer[p]) \cup Values(pending_replies[p]) : sent[p][i].n = n

\* A message that is for p has reached p, was cancelled by garbage collection or
\* skipped by PrepareDelay, or is still kept where it can be sent from.
NoMessageIsLost ==
    \A p \in Peers : \A n \in SentTo(p) :
        \/ n \in skipped
        \/ Reached(n, p) \/ Collected(n, p)
        \/ InTransit(n, p) \/ Delayed(n, p) \/ Aside(n, p)

\* What was handed to the link stays with it, and what is posted joins it.
LEMMA PostHands ==
    ASSUME NEW p \in Peers, IsSeq(sent[p]), NEW ms, IsSeq(ms[p]), Post(ms)
    PROVE  /\ \A n : Handed(n, p) => Handed(n, p)'
           /\ \A i \in 1 .. Len(ms[p]) : Handed(ms[p][i].n, p)'
<1> DEFINE s == sent[p]
           t == ms[p]
           S == Values(s) \cup Values(t)
<1>1. s \in Seq(S) /\ t \in Seq(S)
  BY SeqMonotonic DEF IsSeq
<1>2. sent'[p] = s \o t
  BY DEF Post
<1> HIDE DEF s, t, S
<1>3. /\ Len(s) \in Nat /\ Len(t) \in Nat /\ Len(s \o t) = Len(s) + Len(t)
      /\ \A i \in 1 .. Len(s) + Len(t) :
             (s \o t)[i] = IF i <= Len(s) THEN s[i] ELSE t[i - Len(s)]
  BY <1>1, ConcatProperties, LenProperties
<1>4. \A i \in 1 .. Len(s) : i \in 1 .. Len(s \o t) /\ (s \o t)[i] = s[i]
  BY <1>3
<1>5. \A i \in 1 .. Len(t) : Len(s) + i \in 1 .. Len(s \o t) /\ (s \o t)[Len(s) + i] = t[i]
  BY <1>3
<1>6. ASSUME NEW n, Handed(n, p) PROVE Handed(n, p)'
  <2>1. PICK i \in 1 .. Len(s) : s[i].n = n
    BY <1>6 DEF Handed, Ids, s
  <2> QED
    BY <1>2, <1>4, <2>1 DEF Handed, Ids
<1>7. ASSUME NEW i \in 1 .. Len(t) PROVE Handed(t[i].n, p)'
  BY <1>2, <1>5 DEF Handed, Ids
<1> QED
  BY <1>6, <1>7 DEF t

LEMMA SentSeqs == ASSUME OutboxInv, NEW p \in Peers PROVE IsSeq(sent[p])
BY DEF OutboxInv, LinkInv, PeerInv, LinkTypes

\* A message for the peers ps reaches the link of each of them.
LEMMA PostTo ==
    ASSUME OutboxInv, NEW ps, NEW m, Post(To(ps, m)), NEW p \in Peers
    PROVE  /\ \A n : Handed(n, p) => Handed(n, p)'
           /\ p \in ps => Handed(m.n, p)'
<1>1. IsSeq(sent[p]) /\ IsSeq(To(ps, m)[p])
  BY SentSeqs, ToIsSeq
<1>2. ASSUME p \in ps PROVE Len(To(ps, m)[p]) = 1 /\ To(ps, m)[p][1] = m
  BY <1>2 DEF To
<1>3. 1 \in 1 .. 1
  OBVIOUS
<1> QED
  BY <1>1, <1>2, <1>3, PostHands

LEMMA PostNobody ==
    ASSUME OutboxInv, Post(Nobody), NEW p \in Peers
    PROVE  \A n : Handed(n, p) => Handed(n, p)'
<1>1. IsSeq(sent[p]) /\ IsSeq(Nobody[p])
  BY SentSeqs, ShortSeqs DEF Nobody
<1> QED
  BY <1>1, PostHands

\* What is put aside stays there, and so does what is delayed.
LEMMA PutAsideKeeps ==
    ASSUME OutboxInv, NEW m, PutAside(m), UNCHANGED current_effect_type, NEW p
    PROVE  /\ \A n : Aside(n, p) => Aside(n, p)'
           /\ \A n : Delayed(n, p) => Delayed(n, p)'
           /\ current_effect_type = "Partition" /\ p \in ReplayedTo(m) => Aside(m.n, p)'
<1> DEFINE d == partition_delayed_msgs
           S == Values(d) \cup {m}
<1>1. d \in Seq(S)
  BY SeqMonotonic DEF OutboxInv, IsSeq
<1>2. m \in S
  OBVIOUS
<1> HIDE DEF S
<1>3. partition_delayed_msgs' = Append(d, m) /\ UNCHANGED egress_delay_queue
  BY DEF PutAside
<1>4. /\ Append(d, m) \in Seq(S) /\ Len(Append(d, m)) = Len(d) + 1 /\ Len(d) \in Nat
      /\ \A i \in 1 .. Len(d) : Append(d, m)[i] = d[i]
      /\ Append(d, m)[Len(d) + 1] = m
  BY <1>1, <1>2, AppendProperties, LenProperties
<1>5. DOMAIN Append(d, m) = 1 .. Len(d) + 1 /\ DOMAIN d = 1 .. Len(d)
  BY <1>1, <1>4, LenProperties
<1>6. /\ \A i \in DOMAIN d : i \in DOMAIN Append(d, m) /\ Append(d, m)[i] = d[i]
      /\ Len(d) + 1 \in DOMAIN Append(d, m)
  BY <1>4, <1>5
<1>7. \A n : Aside(n, p) => Aside(n, p)'
  BY <1>3, <1>6 DEF Aside, ReplayedTo, Audience
<1>8. \A n : Delayed(n, p) => Delayed(n, p)'
  BY <1>3 DEF Delayed, Audience
<1>9. current_effect_type = "Partition" /\ p \in ReplayedTo(m) => Aside(m.n, p)'
  BY <1>3, <1>4, <1>6 DEF Aside, ReplayedTo, Audience
<1> QED
  BY <1>7, <1>8, <1>9

\* The other ways to keep, or not to keep, a message for later.
LEMMA QueueKeeps ==
    ASSUME NEW m, Delay(m) \/ Skip(m) \/ KeepNothing, UNCHANGED current_effect_type, NEW p
    PROVE  /\ \A n : Aside(n, p) => Aside(n, p)'
           /\ \A n : Delayed(n, p) => Delayed(n, p)'
           /\ skipped \subseteq skipped'
           /\ Skip(m) => m.n \in skipped'
           /\ Delay(m) /\ p \in Audience(m) => Delayed(m.n, p)'
<1>1. UNCHANGED partition_delayed_msgs /\ egress_delay_queue \subseteq egress_delay_queue'
      /\ skipped \subseteq skipped'
  BY DEF Delay, Skip, KeepNothing
<1>2. \A n : Aside(n, p) => Aside(n, p)'
  BY <1>1 DEF Aside, ReplayedTo, Audience
<1>3. \A n : Delayed(n, p) => Delayed(n, p)'
  BY <1>1 DEF Delayed, Audience
<1>4. Skip(m) => m.n \in skipped'
  BY DEF Skip
<1>5. Delay(m) /\ p \in Audience(m) => Delayed(m.n, p)'
  BY DEF Delay, Delayed, Audience
<1> QED
  BY <1>1, <1>2, <1>3, <1>4, <1>5

\* send_msg keeps the messages before, and this one for each peer it is for.
LEMMA SendKeeps ==
    ASSUME OutboxInv, NEW m, send_msg(m), UNCHANGED current_effect_type, NEW p \in Peers,
           m = [n |-> m.n, kind |-> m.kind, to |-> m.to, by |-> m.by, key |-> m.key]
    PROVE  /\ \A n : Kept(n, p) => Kept(n, p)'
           /\ p \in Audience(m) => Kept(m.n, p)'
<1>1. ASSUME NEW ps, Post(To(ps, m)), p \in Audience(m) => p \in ps,
             Delay(m) \/ Skip(m) \/ KeepNothing
      PROVE  /\ \A n : Kept(n, p) => Kept(n, p)'
             /\ p \in Audience(m) => Kept(m.n, p)'
  <2>1. \A n : Handed(n, p) => Handed(n, p)'
    BY <1>1, PostTo
  <2>2. p \in ps => Handed(m.n, p)'
    BY <1>1, PostTo
  <2> QED
    BY <1>1, <2>1, <2>2, QueueKeeps DEF Kept
<1>2. ASSUME Post(Nobody), Delay(m) \/ Skip(m)
      PROVE  /\ \A n : Kept(n, p) => Kept(n, p)'
             /\ p \in Audience(m) => Kept(m.n, p)'
  <2>1. \A n : Handed(n, p) => Handed(n, p)'
    BY <1>2, PostNobody
  <2> QED
    BY <1>2, <2>1, QueueKeeps DEF Kept
<1>3. ASSUME NEW ps, Post(To(ps, m)) \/ (Post(Nobody) /\ ps = {}), PutAside(m),
             current_effect_type = "Partition",
             p \in Audience(m) => p \in ps \/ p \in ReplayedTo(m)
      PROVE  /\ \A n : Kept(n, p) => Kept(n, p)'
             /\ p \in Audience(m) => Kept(m.n, p)'
  <2>1. /\ \A n : Handed(n, p) => Handed(n, p)'
        /\ p \in ps => Handed(m.n, p)'
    BY <1>3, PostTo, PostNobody
  <2>2. /\ \A n : Aside(n, p) => Aside(n, p)'
        /\ \A n : Delayed(n, p) => Delayed(n, p)'
        /\ p \in ReplayedTo(m) => Aside(m.n, p)'
    BY <1>3, PutAsideKeeps
  <2>3. skipped' = skipped
    BY <1>3 DEF PutAside
  <2> QED
    BY <1>3, <2>1, <2>2, <2>3 DEF Kept
<1>4. CASE SendOff(m)
  BY <1>1, <1>4 DEF SendOff, send_msg_normal
<1>5. CASE SendPartition(m)
  <2>1. CASE m.to = All /\ Post(send_msg_partition(m)) /\ PutAsideAll(m)
    <3>1. p \in OwnSide \/ p \in ReplayedTo(m)
      BY <2>1 DEF ReplayedTo
    <3> QED
      BY <1>3, <1>5, <2>1, <3>1 DEF SendPartition, send_msg_partition, PutAsideAll
  <2>2. CASE Post(send_msg_normal(m)) /\ KeepNothing
    BY <1>1, <2>2 DEF send_msg_normal
  <2>3. CASE m.to \in Peers \ OwnSide /\ Post(Nobody) /\ PutAside(m)
    <3>1. p \in Audience(m) => p \in {} \/ p \in ReplayedTo(m)
      BY <2>3, OutboxAssumption DEF ReplayedTo, Audience
    <3> QED
      BY <1>3, <1>5, <2>3, <3>1 DEF SendPartition
  <2> QED
    BY <1>5, <2>1, <2>2, <2>3 DEF SendPartition
<1>6. CASE SendEquivocate(m)
  <2> DEFINE both == [q \in Peers |-> <<IF q \in OwnSide THEN m ELSE Fake(m)>>]
  <2>1. CASE Post(both)
    <3>1. Len(both[p]) = 1 /\ both[p][1] \in {m, Fake(m)} /\ 1 \in 1 .. 1
      OBVIOUS
    <3>2. Fake(m).n = m.n
      BY DEF Fake
    <3>3. both[p][1].n = m.n
      BY <3>1, <3>2
    <3>4. IsSeq(sent[p]) /\ IsSeq(both[p])
      BY SentSeqs, ShortSeqs
    <3> HIDE DEF both
    <3>5. /\ \A n : Handed(n, p) => Handed(n, p)'
          /\ Handed(m.n, p)'
      BY <2>1, <3>1, <3>3, <3>4, PostHands
    <3>6. KeepNothing
      BY <1>6 DEF SendEquivocate
    <3> QED
      BY <3>5, <3>6, QueueKeeps DEF Kept
  <2>2. CASE Post(send_msg_normal(m))
    BY <1>1, <1>6, <2>2 DEF SendEquivocate, send_msg_normal
  <2> QED
    BY <1>6, <2>1, <2>2 DEF SendEquivocate
<1>7. CASE SendEgress(m)
  BY <1>2, <1>7 DEF SendEgress
<1>8. CASE SendPrepareDelay(m)
  <2>1. \/ Post(Nobody) /\ (Delay(m) \/ Skip(m))
        \/ Post(send_msg_normal(m)) /\ KeepNothing
    BY <1>8 DEF SendPrepareDelay
  <2> QED
    BY <1>1, <1>2, <2>1 DEF send_msg_normal
<1>9. CASE SendVoteDelay(m)
  BY <1>1, <1>2, <1>9 DEF SendVoteDelay, send_msg_normal
<1> QED
  BY <1>4, <1>5, <1>6, <1>7, <1>8, <1>9 DEF send_msg

\* The rank of an index among those of I tells it from the others.
LEMMA RanksDiffer ==
    ASSUME NEW L \in Nat, NEW I \in SUBSET (1 .. L)
    PROVE  /\ \A i \in I : Cardinality({j \in I : j <= i}) \in 1 .. Cardinality(I)
           /\ \A i, h \in I :
                Cardinality({j \in I : j <= i}) = Cardinality({j \in I : j <= h}) => i = h
<1> DEFINE B(i) == {j \in I : j <= i}
<1>0. \A j \in I : j \in Int
  OBVIOUS
<1>1. IsFiniteSet(I)
  <2>1. IsFiniteSet(1 .. L)
    BY FS_Interval
  <2> QED
    BY <2>1, FS_Subset
<1>2. \A i \in I : /\ IsFiniteSet(B(i)) /\ Cardinality(B(i)) <= Cardinality(I)
                   /\ Cardinality(B(i)) \in Nat
  BY <1>1, FS_Subset, FS_CardinalityType
<1>3. \A i \in I : i \in B(i)
  OBVIOUS
<1>4. \A i \in I : Cardinality(B(i)) # 0
  BY <1>2, <1>3, FS_EmptySet
<1>5. Cardinality(I) \in Nat
  BY <1>1, FS_CardinalityType
<1>6. ASSUME NEW i \in I, NEW h \in I, i <= h, Cardinality(B(i)) = Cardinality(B(h))
      PROVE  i = h
  <2>0. i \in Int /\ h \in Int /\ \A j \in Int : j <= i => j <= h
    BY <1>0, <1>6
  <2>1. B(i) \in SUBSET B(h)
    BY <1>0, <2>0
  <2>2. B(h) = B(i)
    BY <1>2, <1>6, <2>1, FS_Subset
  <2>3. h \in B(i)
    BY <1>3, <2>2
  <2> QED
    BY <1>6, <2>3
<1>7. \A i, h \in I : i <= h \/ h <= i
  OBVIOUS
<1>8. \A i, h \in I : Cardinality(B(i)) = Cardinality(B(h)) => i = h
  BY <1>6, <1>7
<1>9. \A i \in I : Cardinality(B(i)) \in 1 .. Cardinality(I)
  BY <1>2, <1>4, <1>5
<1> QED
  BY <1>8, <1>9

\* Every message that was put aside for p is replayed to p.
LEMMA ReplayHasAll ==
    ASSUME IsSeq(partition_delayed_msgs), NEW p, NEW i \in DOMAIN partition_delayed_msgs,
           p \in ReplayedTo(partition_delayed_msgs[i])
    PROVE  \E n \in 1 .. Len(Replay(p)) : Replay(p)[n] = partition_delayed_msgs[i]
<1> DEFINE I == {h \in DOMAIN partition_delayed_msgs : p \in ReplayedTo(partition_delayed_msgs[h])}
           Rank(h) == Cardinality({j \in I : j <= h})
           Chosen(n) == CHOOSE h \in I : Rank(h) = n
           L == Len(partition_delayed_msgs)
<1>1. L \in Nat /\ DOMAIN partition_delayed_msgs = 1 .. L
  BY LenProperties DEF IsSeq
<1>2. I \in SUBSET (1 .. L) /\ i \in I
  BY <1>1
<1>3. Replay(p) = [n \in 1 .. Cardinality(I) |-> partition_delayed_msgs[Chosen(n)]]
  BY DEF Replay
<1> HIDE DEF I
<1>4. Cardinality(I) \in Nat
  <2>1. IsFiniteSet(1 .. L)
    BY <1>1, FS_Interval
  <2> QED
    BY <1>2, <2>1, FS_Subset, FS_CardinalityType
<1>5. /\ Rank(i) \in 1 .. Cardinality(I)
      /\ \A h \in I : Rank(h) = Rank(i) => h = i
  <2> HIDE DEF L
  <2>1. /\ \A h \in I : Cardinality({j \in I : j <= h}) \in 1 .. Cardinality(I)
        /\ \A g, h \in I :
             Cardinality({j \in I : j <= g}) = Cardinality({j \in I : j <= h}) => g = h
    BY <1>1, <1>2, RanksDiffer
  <2> QED
    BY <1>2, <2>1
<1> HIDE DEF Rank
<1>6. Chosen(Rank(i)) = i
  BY <1>2, <1>5
<1> HIDE DEF Chosen
<1>7. Len(Replay(p)) = Cardinality(I)
  BY <1>3, <1>4
<1> QED
  BY <1>3, <1>5, <1>6, <1>7

\* A step that keeps each message keeps the invariant.
LEMMA MessagesKept ==
    ASSUME MessageInv, UNCHANGED addressees,
           \A p \in Peers : \A n : Kept(n, p) => Kept(n, p)'
    PROVE  MessageInv'
BY DEF MessageInv, IsSeq, Values, SentTo

LEMMA EmitKeeps ==
    ASSUME OutboxInv, MessageInv, Emit
    PROVE  MessageInv'
<1>1. PICK m :
          /\ m = Filed(Len(addressees) + 1, Head(traffic))
          /\ send_msg(m) /\ addressees' = Append(addressees, Audience(m))
          /\ UNCHANGED current_effect_type
  BY DEF Emit
<1>2. m.n = Len(addressees) + 1
      /\ m = [n |-> m.n, kind |-> m.kind, to |-> m.to, by |-> m.by, key |-> m.key]
  BY <1>1 DEF Filed
<1> DEFINE S == Values(addressees) \cup {Audience(m)}
<1>3. addressees \in Seq(S) /\ Audience(m) \in S
  BY SeqMonotonic DEF MessageInv, IsSeq
<1> HIDE DEF S
<1>4. /\ Append(addressees, Audience(m)) \in Seq(S)
      /\ Len(Append(addressees, Audience(m))) = Len(addressees) + 1
      /\ Len(addressees) \in Nat
      /\ \A i \in 1 .. Len(addressees) : Append(addressees, Audience(m))[i] = addressees[i]
      /\ Append(addressees, Audience(m))[Len(addressees) + 1] = Audience(m)
  BY <1>3, AppendProperties, LenProperties
<1>5. IsSeq(addressees')
  BY <1>1, <1>4, SeqIsSeq
<1>6. ASSUME NEW p \in Peers, NEW n \in SentTo(p)'
      PROVE  n \in SentTo(p) \/ (n = m.n /\ p \in Audience(m))
  BY <1>1, <1>2, <1>4, <1>6 DEF SentTo
<1>7. ASSUME NEW p \in Peers
      PROVE  /\ \A n : Kept(n, p) => Kept(n, p)'
             /\ p \in Audience(m) => Kept(m.n, p)'
  BY <1>1, <1>2, SendKeeps
<1>8. ASSUME NEW p \in Peers, NEW n \in SentTo(p)' PROVE Kept(n, p)'
  BY <1>6, <1>7, <1>8 DEF MessageInv
<1>9. IsSeq(addressees)'
  BY <1>5 DEF IsSeq, Values
<1> QED
  BY <1>8, <1>9 DEF MessageInv

LEMMA EndKeeps ==
    ASSUME OutboxInv, MessageInv, EndEffect
    PROVE  MessageInv'
<1>1. UNCHANGED <<addressees, skipped, partition_delayed_msgs, egress_delay_queue>>
  BY DEF EndEffect, historyVars
<1>2. \A p : \A n : Delayed(n, p) => Delayed(n, p)'
  BY <1>1 DEF Delayed, Audience
<1>3. CASE current_effect_type = "Partition"
  <2>1. PICK ms : ms = [p \in Peers |-> Replay(p)] /\ Post(ms)
    BY <1>3 DEF EndEffect
  <2>2. ASSUME NEW p \in Peers PROVE \A n : Kept(n, p) => Kept(n, p)'
    <3>1. IsSeq(sent[p]) /\ ms[p] = Replay(p) /\ IsSeq(ms[p])
      BY <2>1, SentSeqs, ReplayIsSeq DEF OutboxInv
    <3>2. /\ \A n : Handed(n, p) => Handed(n, p)'
          /\ \A i \in 1 .. Len(ms[p]) : Handed(ms[p][i].n, p)'
      BY <2>1, <3>1, PostHands
    <3>3. ASSUME NEW n, Aside(n, p) PROVE Handed(n, p)'
      <4>1. PICK i \in DOMAIN partition_delayed_msgs :
                /\ partition_delayed_msgs[i].n = n
                /\ p \in ReplayedTo(partition_delayed_msgs[i])
        BY <3>3 DEF Aside
      <4>2. PICK h \in 1 .. Len(ms[p]) : ms[p][h] = partition_delayed_msgs[i]
        BY <3>1, <4>1, ReplayHasAll DEF OutboxInv
      <4> QED
        BY <3>2, <4>1, <4>2
    <3> QED
      BY <1>1, <1>2, <3>2, <3>3 DEF Kept
  <2> QED
    BY <1>1, <2>2, MessagesKept
<1>4. CASE current_effect_type # "Partition"
  <2>1. \A p, n : ~Aside(n, p)
    BY <1>4 DEF Aside
  <2>2. UNCHANGED sent
    BY <1>4 DEF EndEffect, linkVars
  <2>3. \A p, n : Handed(n, p) => Handed(n, p)'
    BY <2>2 DEF Handed, Ids
  <2> QED
    BY <1>1, <1>2, <2>1, <2>3, MessagesKept DEF Kept
<1> QED
  BY <1>3, <1>4

LEMMA DelayedKeeps ==
    ASSUME OutboxInv, MessageInv, SendDelayed
    PROVE  MessageInv'
<1>1. PICK m \in egress_delay_queue :
          /\ egress_delay_queue' = egress_delay_queue \ {m}
          /\ Post(send_msg_normal(m))
          /\ UNCHANGED <<current_effect_type, partition_delayed_msgs, historyVars>>
  BY DEF SendDelayed
<1>2. UNCHANGED <<addressees, skipped>>
  BY <1>1 DEF historyVars
<1>3. ASSUME NEW p \in Peers PROVE \A n : Kept(n, p) => Kept(n, p)'
  <2>1. /\ \A n : Handed(n, p) => Handed(n, p)'
        /\ p \in Audience(m) => Handed(m.n, p)'
    BY <1>1, PostTo DEF send_msg_normal
  <2>2. \A n : Aside(n, p) => Aside(n, p)'
    BY <1>1 DEF Aside, ReplayedTo, Audience
  <2>3. ASSUME NEW n, Delayed(n, p) PROVE Delayed(n, p)' \/ Handed(n, p)'
    <3>1. PICK e \in egress_delay_queue : e.n = n /\ p \in Audience(e)
      BY <2>3 DEF Delayed
    <3>2. CASE e = m
      BY <2>1, <3>1, <3>2
    <3>3. CASE e # m
      BY <1>1, <3>1, <3>3 DEF Delayed, Audience
    <3> QED
      BY <3>2, <3>3
  <2> QED
    BY <1>2, <2>1, <2>2, <2>3 DEF Kept
<1> QED
  BY <1>2, <1>3, MessagesKept

LEMMA MessageStep ==
    ASSUME OutboxInv, MessageInv, [Next]_vars
    PROVE  MessageInv'
<1>1. ASSUME UNCHANGED <<sent, historyVars, partition_delayed_msgs, egress_delay_queue>>,
             current_effect_type = "Off" \/ UNCHANGED current_effect_type
      PROVE  MessageInv'
  <2>1. UNCHANGED <<addressees, skipped>>
    BY <1>1 DEF historyVars
  <2>2. ASSUME NEW p \in Peers, NEW n, Kept(n, p) PROVE Kept(n, p)'
    <3>1. Handed(n, p) => Handed(n, p)'
      BY <1>1 DEF Handed, Ids
    <3>2. Delayed(n, p) => Delayed(n, p)'
      BY <1>1 DEF Delayed, Audience
    <3>3. Aside(n, p) => Aside(n, p)'
      BY <1>1 DEF Aside, ReplayedTo, Audience
    <3> QED
      BY <2>1, <2>2, <3>1, <3>2, <3>3 DEF Kept
  <2> QED
    BY <2>1, <2>2, MessagesKept
<1>2. CASE Emit
  BY <1>2, EmitKeeps
<1>3. CASE StartEffect
  BY <1>1, <1>3 DEF StartEffect, linkVars
<1>4. CASE EndEffect
  BY <1>4, EndKeeps
<1>5. CASE SendDelayed
  BY <1>5, DelayedKeeps
<1>6. CASE Advance
  <2>1. UNCHANGED sent
    BY <1>6 DEF Advance, CollectGarbage, Cancel, linkVars
  <2> QED
    BY <1>1, <1>6, <2>1 DEF Advance, effectVars
<1>7. ASSUME NEW p \in Peers, LinkStep(p) /\ CoreRests
      PROVE  MessageInv'
  <2>1. UNCHANGED sent
    BY <1>7 DEF LinkStep, Connect, Transmit, ReadAck, Break, Take
  <2> QED
    BY <1>1, <1>7, <2>1 DEF CoreRests, effectVars
<1>8. CASE UNCHANGED vars
  BY <1>1, <1>8 DEF vars, effectVars, linkVars
<1> QED
  BY <1>2, <1>3, <1>4, <1>5, <1>6, <1>7, <1>8 DEF Next

(***************************************************************************)
(* No effect of send_msg, no end of an effect and no broken connection     *)
(* loses a message that Core sent (send_msg and async_timer_futures,       *)
(* primary/src/core.rs; network/src/reliable_sender.rs).                   *)
(***************************************************************************)
THEOREM MessagesAreKept == Spec => []NoMessageIsLost
<1>1. Init => MessageInv
  <2> SUFFICES ASSUME Init PROVE MessageInv
    OBVIOUS
  <2>1. addressees = <<>> /\ IsSeq(<<>>) /\ Len(<<>>) = 0
    BY ShortSeqs, EmptySeq DEF Init
  <2>2. \A p : SentTo(p) = {}
    BY <2>1 DEF SentTo
  <2>3. IsSeq(addressees)
    BY <2>1
  <2> QED
    BY <2>2, <2>3 DEF MessageInv
<1>2. OutboxInv /\ MessageInv /\ [Next]_vars => MessageInv'
  BY MessageStep
<1>3. OutboxInv /\ MessageInv => NoMessageIsLost
  <2> SUFFICES ASSUME OutboxInv, MessageInv, NEW p \in Peers, NEW n \in SentTo(p),
                      Handed(n, p)
               PROVE  Reached(n, p) \/ Collected(n, p) \/ InTransit(n, p)
    BY DEF MessageInv, NoMessageIsLost, Kept
  <2>1. PICK i \in Ids(p) : sent[p][i].n = n
    BY DEF Handed
  <2>2. i \in Served(p) \cup Values(pending_replies[p]) \cup Values(buffer[p])
    BY <2>1 DEF OutboxInv, LinkInv, PeerInv, QueuesInOrder
  <2> QED
    BY <2>1, <2>2 DEF Served, Reached, Collected, InTransit
<1>4. Init => OutboxInv
  BY OutboxInit
<1>5. OutboxInv /\ [Next]_vars => OutboxInv'
  BY OutboxStep
<1> QED
  BY <1>1, <1>2, <1>3, <1>4, <1>5, PTL DEF Spec
=============================================================================
