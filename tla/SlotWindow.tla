----------------------------- MODULE SlotWindow -----------------------------
(***************************************************************************)
(* What the ticket rule of the primaries' Core promises about its          *)
(* parallel instances: slots are started in order, and slot s only once    *)
(* slot s - K is committed at some replica, so that at most K consecutive  *)
(* slots are open (primary/src/core.rs, fields k and last_committed_slot). *)
(***************************************************************************)
EXTENDS Integers

CONSTANT K      \* the number of parallel instances

VARIABLES
    started,    \* the slots some replica has begun
    committed   \* the slots some replica has committed

vars == <<started, committed>>

\* The ticket of slot s: the slots before it are begun, and slot s - K is done.
Ticket(s, begun, done) ==
    /\ 1 .. (s - 1) \subseteq begun
    /\ s > K => s - K \in done

Init == started = {1} /\ committed = {}

\* Slots are started, committed, or committed and started on that commit.
Next ==
    /\ started' \subseteq Nat \ {0}
    /\ started \subseteq started'
    /\ committed \subseteq committed'
    /\ committed' \subseteq started'
    /\ \A s \in started' \ started : Ticket(s, started', committed')

Spec == Init /\ [][Next]_vars
=============================================================================
