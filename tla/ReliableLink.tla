---------------------------- MODULE ReliableLink ----------------------------
(***************************************************************************)
(* The ReliableSender of a task, and the Receivers of its peers.  Each     *)
(* peer has a Connection, which transmits the messages of its buffer and   *)
(* keeps those that are not acknowledged; it reconnects when the TCP       *)
(* connection breaks.  The peer starts a runner for each TCP connection,   *)
(* and an old one goes on with the frames it has.                          *)
(*                                                                         *)
(* The messages to a peer are numbered in the order they are sent.         *)
(*                                                                         *)
(* A definition whose comment begins with BUG is a mistake the next        *)
(* definition could contain; the model does not use it.                    *)
(***************************************************************************)
EXTENDS Integers, Sequences

CONSTANTS
    Peers,
    MaxBreaks       \* bound: TCP connections that break

VARIABLES
    sent,               \* the messages sent to each peer, in order
    cancel_handler,     \* of each of them: "open", "closed" or "acked"
    buffer,             \* those to transmit, with those still in the channel
    pending_replies,    \* those transmitted and not acknowledged
    connected,          \* is there a TCP connection
    acks,               \* acknowledgements on it
    runners,            \* for each runner of the peer, the frames it has to read
    taken,              \* what the runners read and acknowledged
    breaks

linkVars == <<sent, cancel_handler, buffer, pending_replies, connected, acks, runners,
              taken, breaks>>

LinkInit ==
    /\ sent = [p \in Peers |-> <<>>]
    /\ cancel_handler = [p \in Peers |-> <<>>]
    /\ buffer = [p \in Peers |-> <<>>]
    /\ pending_replies = [p \in Peers |-> <<>>]
    /\ connected = [p \in Peers |-> FALSE]
    /\ acks = [p \in Peers |-> 0]
    /\ runners = [p \in Peers |-> <<>>]
    /\ taken = [p \in Peers |-> {}]
    /\ breaks = 0
-----------------------------------------------------------------------------
(***************************************************************************)
(* ReliableSender.                                                         *)
(***************************************************************************)
\* send and broadcast: to each peer the messages of ms[p], in this order.
Post(ms) ==
    /\ sent' = [p \in Peers |-> sent[p] \o ms[p]]
    /\ cancel_handler' =
           [p \in Peers |-> cancel_handler[p] \o [i \in 1 .. Len(ms[p]) |-> "open"]]
    /\ buffer' =
           [p \in Peers |-> buffer[p] \o [i \in 1 .. Len(ms[p]) |-> Len(sent[p]) + i]]
    /\ UNCHANGED <<pending_replies, connected, acks, runners, taken, breaks>>

\* The caller drops the handlers of the messages ids[p].
Cancel(ids) ==
    /\ cancel_handler' =
           [p \in Peers |-> [i \in 1 .. Len(sent[p]) |->
               IF i \in ids[p] /\ cancel_handler[p][i] = "open"
               THEN "closed" ELSE cancel_handler[p][i]]]
    /\ UNCHANGED <<sent, buffer, pending_replies, connected, acks, runners, taken,
                   breaks>>

\* BUG: acknowledgements of the connection before are still read.
KeepAcks(p) == UNCHANGED acks

NoAcks(p) == acks' = [acks EXCEPT ![p] = 0]

\* Connection::run connects, and the peer accepts.
Connect(p) ==
    /\ ~connected[p]
    /\ connected' = [connected EXCEPT ![p] = TRUE]
    /\ runners' = [runners EXCEPT ![p] = Append(@, <<>>)]
    /\ UNCHANGED <<sent, cancel_handler, buffer, pending_replies, acks, taken,
                   breaks>>

\* keep_alive: the first message of the buffer is transmitted, unless it was
\* cancelled.
Transmit(p) ==
    /\ connected[p]
    /\ buffer[p] # <<>>
    /\ buffer' = [buffer EXCEPT ![p] = Tail(@)]
    /\ IF cancel_handler[p][Head(buffer[p])] = "closed"
       THEN UNCHANGED <<pending_replies, runners>>
       ELSE /\ pending_replies' =
                   [pending_replies EXCEPT ![p] = Append(@, Head(buffer[p]))]
            /\ runners' = [runners EXCEPT ![p][Len(runners[p])] =
                               Append(@, Head(buffer[p]))]
    /\ UNCHANGED <<sent, cancel_handler, connected, acks, taken, breaks>>

\* An acknowledgement does not say of which message: it is the first pending.
ReadAck(p) ==
    /\ connected[p]
    /\ acks[p] > 0
    /\ pending_replies[p] # <<>>
    /\ acks' = [acks EXCEPT ![p] = @ - 1]
    /\ pending_replies' = [pending_replies EXCEPT ![p] = Tail(@)]
    /\ cancel_handler' = [cancel_handler EXCEPT ![p][Head(pending_replies[p])] =
                              IF @ = "open" THEN "acked" ELSE @]
    /\ UNCHANGED <<sent, buffer, connected, runners, taken, breaks>>

\* BUG: what was not acknowledged is put behind the messages of the buffer.
PutBehind(p) == buffer' = [buffer EXCEPT ![p] = @ \o pending_replies[p]]

\* BUG: what was transmitted is not put back.
PutNothing(p) == UNCHANGED buffer

PutBack(p) == buffer' = [buffer EXCEPT ![p] = pending_replies[p] \o @]

\* The connection breaks: the runner keeps the frames that arrived, and what
\* is not acknowledged will be transmitted again.
Break(p) ==
    /\ connected[p]
    /\ breaks < MaxBreaks
    /\ breaks' = breaks + 1
    /\ connected' = [connected EXCEPT ![p] = FALSE]
    /\ \E n \in 0 .. Len(runners[p][Len(runners[p])]) :
           runners' = [runners EXCEPT ![p][Len(runners[p])] = SubSeq(@, 1, n)]
    /\ NoAcks(p)
    /\ PutBack(p)
    /\ pending_replies' = [pending_replies EXCEPT ![p] = <<>>]
    /\ UNCHANGED <<sent, cancel_handler, taken>>
-----------------------------------------------------------------------------
(***************************************************************************)
(* Receiver: a runner reads a message and acknowledges it.  The handler    *)
(* passes it on after that, which may take long when the channel is full.  *)
(***************************************************************************)
IsCurrent(p, i) == connected[p] /\ i = Len(runners[p])

Take(p) ==
    \E i \in 1 .. Len(runners[p]) :
        /\ runners[p][i] # <<>>
        /\ runners' = [runners EXCEPT ![p][i] = Tail(@)]
        /\ taken' = [taken EXCEPT ![p] = @ \cup {Head(runners[p][i])}]
        /\ acks' = [acks EXCEPT ![p] = IF IsCurrent(p, i) THEN @ + 1 ELSE @]
        /\ UNCHANGED <<sent, cancel_handler, buffer, pending_replies, connected, breaks>>

LinkStep(p) ==
    Connect(p) \/ Transmit(p) \/ ReadAck(p) \/ Break(p) \/ Take(p)
-----------------------------------------------------------------------------
(***************************************************************************)
(* A message whose handler was notified was read by the peer: the          *)
(* acknowledgements carry no number, so they have to come in the order of  *)
(* the pending messages and never outlive their connection.                *)
(***************************************************************************)
AckedIsTaken ==
    \A p \in Peers : \A i \in 1 .. Len(sent[p]) :
        cancel_handler[p][i] = "acked" => i \in taken[p]

\* The messages that were cancelled before they were acknowledged.
Cancelled(p) == {i \in 1 .. Len(cancel_handler[p]) : cancel_handler[p][i] = "closed"}

Delivery == INSTANCE OrderedDelivery WITH
    posted <- [p \in Peers |-> Len(sent[p])],
    given_up <- [p \in Peers |-> Cancelled(p)],
    delivered <- taken

(***************************************************************************)
(* The peer reads the messages in the order they were sent, whatever is    *)
(* transmitted again on a new connection while the runner of the old one   *)
(* still reads.                                                            *)
(***************************************************************************)
ImplementsDelivery == Delivery!Spec
=============================================================================
