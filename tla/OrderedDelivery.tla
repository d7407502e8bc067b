-------------------------- MODULE OrderedDelivery --------------------------
(***************************************************************************)
(* What a sender may expect of the connection to each peer: a message is   *)
(* delivered at least once, and not before the messages sent earlier are   *)
(* delivered or given up.                                                  *)
(***************************************************************************)
EXTENDS Integers

CONSTANT Peers

VARIABLES
    posted,     \* how many messages were sent to each peer
    given_up,   \* those that were cancelled
    delivered   \* those that reached the peer

vars == <<posted, given_up, delivered>>

Init ==
    /\ posted = [p \in Peers |-> 0]
    /\ given_up = [p \in Peers |-> {}]
    /\ delivered = [p \in Peers |-> {}]

\* One message for several peers, or several for one.
Post ==
    /\ posted' \in [Peers -> Nat]
    /\ \A p \in Peers : posted'[p] >= posted[p]
    /\ UNCHANGED <<given_up, delivered>>

GiveUp ==
    /\ given_up' \in [Peers -> SUBSET Nat]
    /\ \A p \in Peers : given_up[p] \subseteq given_up'[p]
    /\ UNCHANGED <<posted, delivered>>

Deliver(p) ==
    \E n \in 1 .. posted[p] :
        /\ \A m \in 1 .. (n - 1) : m \in delivered[p] \cup given_up[p]
        /\ delivered' = [delivered EXCEPT ![p] = @ \cup {n}]
        /\ UNCHANGED <<posted, given_up>>

Next == Post \/ GiveUp \/ \E p \in Peers : Deliver(p)

Spec == Init /\ [][Next]_vars
=============================================================================
