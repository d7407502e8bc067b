----------------------------- MODULE HeaderSync -----------------------------
(***************************************************************************)
(* One primary that receives the lanes of the others: its Core (headers    *)
(* and consensus messages), the Synchronizer that finds out what is        *)
(* missing, the HeaderWaiter that asks for it and brings suspended work    *)
(* back, and the Committer that executes the committed cuts.  The tasks    *)
(* share the store and talk through channels.                              *)
(*                                                                         *)
(* A lane is one author's chain of headers, so a header is its lane and    *)
(* height.  The cuts are SlotConsensus's; the Helpers of the other         *)
(* primaries and the workers are what answers to requests.                 *)
(*                                                                         *)
(* A definition whose comment begins with BUG is a mistake the next        *)
(* definition could contain; the model does not use it.                    *)
(***************************************************************************)
EXTENDS Integers, FiniteSets, Sequences

CONSTANTS
    Lanes,          \* the authors of the headers
    MaxHeight,      \* bound: the last height of a lane
    MaxSlot,        \* bound: the last slot
    Cuts,           \* the cuts that may be committed: slot -> lane -> height
    Messages,       \* the consensus messages that reach the primary
    Lost,           \* the headers whose author's own copy never arrives
    LateBatches,    \* the headers whose payload has to be asked for
    FastSync,       \* Parameters::use_fast_sync
    OptimisticTips  \* Parameters::use_optimistic_tips

Slots == 1 .. MaxSlot
Headers == Lanes \X (1 .. MaxHeight)
Parent(x) == <<x[1], x[2] - 1>>

(***************************************************************************)
(* A slot has one cut, with a proposal for every lane.  A message holds it *)
(* in a HashMap of its own, which is iterated in an order of its own: two  *)
(* messages with the same cut may have the same order or not.              *)
(***************************************************************************)
Orders ==
    {f \in [1 .. Cardinality(Lanes) -> Lanes] : \A l \in Lanes : \E i \in DOMAIN f : f[i] = l}

ASSUME HeaderSyncAssumption ==
    /\ IsFiniteSet(Lanes)
    /\ MaxHeight \in Nat /\ MaxSlot \in Nat
    /\ Cuts \subseteq [Slots -> [Lanes -> 0 .. MaxHeight]]
    /\ Messages \subseteq [kind : {"Prepare", "Confirm", "Commit"}, slot : Slots,
                           view : Nat, order : Orders]
    /\ Lost \subseteq Headers /\ LateBatches \subseteq Headers
    /\ FastSync \in BOOLEAN /\ OptimisticTips \in BOOLEAN

VARIABLES
    cut,                    \* the cut of each slot
    \* messages that still have to reach the primary
    coming, replies, unread,
    \* the store: payloads, optimistic keys and headers
    batches, tips, store,
    \* Core and its Synchronizer
    last_fast_sync_heights, views, voted,
    \* HeaderWaiter, and the channels from Core to it and back
    commands, parked, waiting, parent_requests, batch_requests,
    loop_headers, loop_messages,
    \* Committer
    log, last_executed_slot, last_executed_heights, delivered

netVars == <<coming, replies, unread>>
storeVars == <<batches, tips, store>>
coreVars == <<last_fast_sync_heights, views, voted>>
waiterVars == <<parked, waiting, parent_requests, batch_requests>>
loopVars == <<loop_headers, loop_messages>>
committerVars == <<log, last_executed_slot, last_executed_heights, delivered>>
vars == <<cut, netVars, storeVars, coreVars, commands, waiterVars, loopVars,
          committerVars>>

Init ==
    /\ cut \in Cuts
    /\ coming = Headers \ Lost
    /\ replies = {}
    /\ unread = Messages
    /\ batches = Headers \ LateBatches
    /\ tips = {} /\ store = {}
    /\ last_fast_sync_heights = [l \in Lanes |-> 1]
    /\ views = [s \in Slots |-> 0] /\ voted = {}
    /\ commands = <<>>
    /\ parked = {} /\ waiting = {} /\ batch_requests = {}
    /\ parent_requests = [x \in {} |-> 0]
    /\ loop_headers = {} /\ loop_messages = {}
    /\ log = {} /\ last_executed_slot = 0
    /\ last_executed_heights = [l \in Lanes |-> 0]
    /\ delivered = [x \in Headers |-> 0]
-----------------------------------------------------------------------------
(***************************************************************************)
(* process_header.  A header without its payload or its parent is handed   *)
(* to the HeaderWaiter; otherwise it is stored.  Its optimistic key is     *)
(* written as soon as the payload is there.                                *)
(***************************************************************************)
MissingPayload(x) ==
    /\ x \notin batches
    /\ commands' = Append(commands, [type |-> "SyncBatches", header |-> x])
    /\ UNCHANGED <<tips, store, last_fast_sync_heights>>

\* BUG: the optimistic key is not written.
NoTip(x) == x \in Headers /\ UNCHANGED tips

WriteTip(x) == tips' = IF OptimisticTips THEN tips \cup {x} ELSE tips

\* get_parent_header: the parent is asked for from the last synced height on.
MissingParent(x) ==
    /\ x \in batches
    /\ x[2] > 1 /\ Parent(x) \notin store
    /\ WriteTip(x)
    /\ commands' = Append(commands,
           [type |-> "SyncParent", header |-> x, lower |-> last_fast_sync_heights[x[1]]])
    /\ last_fast_sync_heights' = [last_fast_sync_heights EXCEPT ![x[1]] = x[2] - 1]
    /\ UNCHANGED store

\* BUG: a header is stored before its parent.
StoreAnyHeader(x) ==
    /\ x \in batches
    /\ WriteTip(x)
    /\ store' = store \cup {x}
    /\ UNCHANGED <<commands, last_fast_sync_heights>>

StoreHeader(x) ==
    /\ x \in batches
    /\ x[2] > 1 => Parent(x) \in store
    /\ WriteTip(x)
    /\ store' = store \cup {x}
    /\ last_fast_sync_heights' =
           [last_fast_sync_heights EXCEPT ![x[1]] = IF @ < x[2] - 1 THEN x[2] - 1 ELSE @]
    /\ UNCHANGED commands

process_header(x) ==
    /\ MissingPayload(x) \/ MissingParent(x) \/ StoreHeader(x)
    /\ UNCHANGED <<cut, batches, views, voted, waiterVars, committerVars>>

\* The author sends its headers in order; some are cancelled and never arrive.
HeaderArrives(x) ==
    /\ x \in coming
    /\ \A y \in coming : y[1] = x[1] => y[2] >= x[2]
    /\ coming' = coming \ {x}
    /\ process_header(x)
    /\ UNCHANGED <<replies, unread, loopVars>>

ReplyArrives(x) ==
    /\ x \in replies
    /\ replies' = replies \ {x}
    /\ process_header(x)
    /\ UNCHANGED <<coming, unread, loopVars>>

\* The header comes back from the HeaderWaiter.
HeaderLoopsBack(x) ==
    /\ x \in loop_headers
    /\ loop_headers' = loop_headers \ {x}
    /\ process_header(x)
    /\ UNCHANGED <<netVars, loop_messages>>

\* The worker has fetched the payload, and the PayloadReceiver stores that.
BatchArrives(x) ==
    /\ x \in batch_requests \ batches
    /\ batches' = batches \cup {x}
    /\ UNCHANGED <<cut, netVars, tips, store, coreVars, commands, waiterVars,
                   loopVars, committerVars>>
-----------------------------------------------------------------------------
(***************************************************************************)
(* Consensus messages.  A Prepare needs the tips of its cut, or with       *)
(* certified tips only starts fetching them; Confirm and Commit need the   *)
(* headers.  What is missing is handed to the HeaderWaiter.                *)
(***************************************************************************)
Cut(m) == {x \in Headers : x[2] = cut[m.slot][x[1]]}
OnTips(m) == m.kind = "Prepare" /\ OptimisticTips
Present(m) == IF OnTips(m) THEN tips ELSE store
Missing(m) == Cut(m) \ Present(m)

\* optimistic_tips_ready leaves out what an earlier request covers, get_proposals does not.
ToSync(m) ==
    {x \in Missing(m) : FastSync /\ OnTips(m) => x[2] > last_fast_sync_heights[x[1]]}

SyncProposals(m) ==
    /\ commands' =
         IF ToSync(m) = {} THEN commands
         ELSE Append(commands,
                [type |-> "SyncProposals", message |-> m,
                 missing |-> [x \in ToSync(m) |->
                                IF FastSync THEN last_fast_sync_heights[x[1]] ELSE 1]])
    /\ last_fast_sync_heights' = [l \in Lanes |->
           IF FastSync /\ <<l, cut[m.slot][l]>> \in ToSync(m)
           THEN cut[m.slot][l] ELSE last_fast_sync_heights[l]]

ProcessPrepare(m) ==
    /\ SyncProposals(m)
    /\ voted' = IF OptimisticTips /\ Missing(m) # {} THEN voted
                ELSE voted \cup {<<m.slot, m.view>>}
    /\ UNCHANGED log

ProcessConfirm(m) ==
    /\ SyncProposals(m)
    /\ UNCHANGED <<voted, log>>

ToCommitter(m) == log' = IF m.slot > last_executed_slot THEN log \cup {m.slot} ELSE log

\* BUG: the Committer gets the slot whether or not its headers are there.
CommitAtOnce(m) ==
    /\ SyncProposals(m)
    /\ ToCommitter(m)
    /\ UNCHANGED voted

\* get_proposals returns no header when one is missing, and when all are genesis.
ProcessCommit(m) ==
    /\ SyncProposals(m)
    /\ IF Missing(m) = {} /\ Cut(m) # {} THEN ToCommitter(m) ELSE UNCHANGED log
    /\ UNCHANGED voted

Kinds == <<"Prepare", "Confirm", "Commit">>

\* The messages of one leader arrive in the order in which it sends them.
Before(n, m) ==
    /\ n.slot = m.slot /\ n.view = m.view
    /\ \E i, j \in 1 .. 3 : i < j /\ Kinds[i] = n.kind /\ Kinds[j] = m.kind

\* is_valid drops a Prepare or Confirm of a view that was left.
Ignored(m) ==
    \/ m.kind # "Commit" /\ m.view < views[m.slot]
    \/ m.kind = "Prepare" /\ <<m.slot, m.view>> \in voted

process_consensus_message(m) ==
    CASE m.kind = "Prepare" -> ProcessPrepare(m)
      [] m.kind = "Confirm" -> ProcessConfirm(m)
      [] m.kind = "Commit" -> ProcessCommit(m)

MessageArrives(m) ==
    /\ m \in unread
    /\ \A n \in unread : ~Before(n, m)
    /\ unread' = unread \ {m}
    /\ IF Ignored(m)
       THEN UNCHANGED <<commands, coreVars, log>>
       ELSE /\ process_consensus_message(m)
            /\ views' = IF m.kind = "Commit" THEN views
                        ELSE [views EXCEPT ![m.slot] = m.view]
    /\ UNCHANGED <<cut, coming, replies, storeVars, waiterVars, loopVars,
                   last_executed_slot, last_executed_heights, delivered>>

\* process_loopback: a Prepare is processed again, a Commit goes to the Committer.
MessageLoopsBack(m) ==
    /\ m \in loop_messages
    /\ loop_messages' = loop_messages \ {m}
    /\ CASE m.kind = "Prepare" /\ <<m.slot, m.view>> \notin voted -> ProcessPrepare(m)
         [] m.kind = "Commit" ->
                ToCommitter(m) /\ UNCHANGED <<commands, last_fast_sync_heights, voted>>
         [] OTHER -> UNCHANGED <<commands, last_fast_sync_heights, voted, log>>
    /\ UNCHANGED <<cut, netVars, storeVars, views, waiterVars, loop_headers,
                   last_executed_slot, last_executed_heights, delivered>>
-----------------------------------------------------------------------------
(***************************************************************************)
(* The HeaderWaiter takes commands in order.  A header waits once, under   *)
(* its id.  A message waits under proposal_digest: the digests of its      *)
(* headers in the order of its HashMap, whatever its kind, slot and view.  *)
(* Waiting a second time drops the cancel handle of the first waiter,      *)
(* which ends it.                                                          *)
(***************************************************************************)
Parked(x) == \E w \in parked : w.header = x

Take(type) == commands # <<>> /\ Head(commands).type = type /\ commands' = Tail(commands)

\* The Helper that is asked sends the header, and under fast sync its ancestors above lower.
Answered(x, lower) ==
    {x} \cup {y \in Headers : FastSync /\ y[1] = x[1] /\ y[2] \in (lower + 1) .. x[2]}

\* BUG: a request is sent and not kept for the timer.
AskOnce(wanted) ==
    /\ UNCHANGED parent_requests
    /\ \/ replies' = replies \cup UNION {Answered(x, wanted[x]) : x \in DOMAIN wanted}
       \/ replies' = replies

\* Requests for the headers that are not yet asked for; who is asked answers all or none.
Ask(wanted) ==
    LET new == {x \in DOMAIN wanted : x \notin DOMAIN parent_requests}
    IN  /\ parent_requests' =
             [x \in DOMAIN parent_requests \cup new |->
                IF x \in new THEN wanted[x] ELSE parent_requests[x]]
        /\ \/ replies' = replies \cup UNION {Answered(x, wanted[x]) : x \in new}
           \/ replies' = replies

Drop == [x \in {} |-> 0]

SyncBatches ==
    LET x == Head(commands).header
    IN  /\ Take("SyncBatches")
        /\ IF Parked(x) THEN UNCHANGED <<parked, batch_requests>>
           ELSE /\ parked' = parked \cup {[header |-> x, on |-> "batches"]}
                /\ batch_requests' = batch_requests \cup {x}
        /\ UNCHANGED <<waiting, parent_requests, replies>>

SyncParent ==
    LET x == Head(commands).header
        lower == Head(commands).lower
    IN  /\ Take("SyncParent")
        /\ IF Parked(x) THEN UNCHANGED <<parked, parent_requests, replies>>
           ELSE /\ parked' = parked \cup {[header |-> x, on |-> "parent"]}
                /\ Ask(IF FastSync /\ x[2] - 1 <= lower THEN Drop
                       ELSE [p \in {Parent(x)} |-> lower])
        /\ UNCHANGED <<waiting, batch_requests>>

\* BUG: the headers are sorted before they are hashed.
KeyOfCut(m) == cut[m.slot]

Key(m) == [i \in DOMAIN m.order |-> <<m.order[i], cut[m.slot][m.order[i]]>>]

\* The waiters once another one takes, or gives up, the key of m.
Release(m) == {[w EXCEPT !.held = @ /\ Key(w.message) # Key(m)] : w \in waiting}

SyncMessage ==
    LET c == Head(commands)
        already == \E w \in waiting : w.held /\ Key(w.message) = Key(c.message)
        wanted == {x \in DOMAIN c.missing : FastSync => x[2] > c.missing[x] /\ ~already}
    IN  /\ Take("SyncProposals")
        /\ waiting' = Release(c.message) \cup
             {[message |-> c.message, on |-> DOMAIN c.missing, held |-> TRUE]}
        /\ Ask([x \in wanted |-> c.missing[x]])
        /\ UNCHANGED <<parked, batch_requests>>

HandleCommand ==
    /\ SyncBatches \/ SyncParent \/ SyncMessage
    /\ UNCHANGED <<cut, coming, unread, storeVars, coreVars, loopVars, committerVars>>

\* A header's waiter ends when what it waits for is stored, and forgets the request for its parent.
HeaderReady(w) ==
    /\ w \in parked
    /\ IF w.on = "batches" THEN w.header \in batches ELSE Parent(w.header) \in store
    /\ parked' = parked \ {w}
    /\ parent_requests' =
           [x \in DOMAIN parent_requests \ {Parent(w.header)} |-> parent_requests[x]]
    /\ loop_headers' = loop_headers \cup {w.header}
    /\ UNCHANGED <<cut, netVars, storeVars, coreVars, commands, waiting, batch_requests,
                   loop_messages, committerVars>>

\* A message's waiter ends likewise, and forgets the requests for its tips.
MessageReady(w) ==
    /\ w \in waiting
    /\ w.on \subseteq Present(w.message)
    /\ waiting' = Release(w.message) \ {w, [w EXCEPT !.held = FALSE]}
    /\ parent_requests' =
           [x \in DOMAIN parent_requests \ Cut(w.message) |-> parent_requests[x]]
    /\ loop_messages' = loop_messages \cup {w.message}
    /\ UNCHANGED <<cut, netVars, storeVars, coreVars, commands, parked, batch_requests,
                   loop_headers, committerVars>>

\* The waiter sees that its cancel handle was dropped.
MessageCancelled(w) ==
    /\ w \in waiting /\ ~w.held
    /\ waiting' = waiting \ {w}
    /\ UNCHANGED <<cut, netVars, storeVars, coreVars, commands, parked, parent_requests,
                   batch_requests, loopVars, committerVars>>
-----------------------------------------------------------------------------
(***************************************************************************)
(* When the timer expires, the requests still out are sent to a few        *)
(* primaries at random; some primary has every header.  The timer is       *)
(* longer than what is on its way takes to arrive and to be handled.       *)
(***************************************************************************)
Retry ==
    /\ DOMAIN parent_requests # {}
    /\ replies = {} /\ commands = <<>> /\ loop_headers = {} /\ loop_messages = {}
    /\ replies' = UNION {Answered(x, parent_requests[x]) : x \in DOMAIN parent_requests}
    /\ UNCHANGED <<cut, coming, unread, storeVars, coreVars, commands, waiterVars,
                   loopVars, committerVars>>
-----------------------------------------------------------------------------
(***************************************************************************)
(* The Committer executes the next slot of its log.  A tip that is not     *)
(* above what was executed is skipped; otherwise the lane is walked from   *)
(* the tip down to there, which needs every header of it.                  *)
(***************************************************************************)
\* BUG: the tip's lane is walked from genesis.
FromGenesis(s) == {x \in Headers : x[2] <= cut[s][x[1]]}

ToExecute(s) ==
    {x \in Headers : last_executed_heights[x[1]] < x[2] /\ x[2] <= cut[s][x[1]]}

Execute ==
    LET s == last_executed_slot + 1
    IN  /\ s \in log
        /\ ToExecute(s) \subseteq store
        /\ last_executed_slot' = s
        /\ last_executed_heights' = [l \in Lanes |->
               IF cut[s][l] > last_executed_heights[l] THEN cut[s][l]
               ELSE last_executed_heights[l]]
        /\ delivered' = [x \in Headers |->
               IF x \in ToExecute(s) THEN delivered[x] + 1 ELSE delivered[x]]
        /\ UNCHANGED <<cut, netVars, storeVars, coreVars, commands, waiterVars,
                       loopVars, log>>
-----------------------------------------------------------------------------
Next ==
    \/ \E x \in Headers : \/ HeaderArrives(x) \/ ReplyArrives(x)
                          \/ HeaderLoopsBack(x) \/ BatchArrives(x)
    \/ \E m \in unread : MessageArrives(m)
    \/ \E m \in loop_messages : MessageLoopsBack(m)
    \/ HandleCommand
    \/ \E w \in parked : HeaderReady(w)
    \/ \E w \in waiting : MessageReady(w) \/ MessageCancelled(w)
    \/ Retry
    \/ Execute

Spec == Init /\ [][Next]_vars

(***************************************************************************)
(* Fairness: the tasks run, the channels and connections deliver, and the  *)
(* timer of the HeaderWaiter expires.                                      *)
(***************************************************************************)
Fairness ==
    /\ \A x \in Headers : /\ WF_vars(HeaderArrives(x)) /\ WF_vars(ReplyArrives(x))
                          /\ WF_vars(HeaderLoopsBack(x)) /\ WF_vars(BatchArrives(x))
    /\ WF_vars(\E m \in unread : MessageArrives(m))
    /\ WF_vars(\E m \in loop_messages : MessageLoopsBack(m))
    /\ WF_vars(HandleCommand)
    /\ WF_vars(\E w \in parked : HeaderReady(w))
    /\ WF_vars(\E w \in waiting : MessageReady(w) \/ MessageCancelled(w))
    /\ WF_vars(Retry)
    /\ WF_vars(Execute)

FairSpec == Spec /\ Fairness
-----------------------------------------------------------------------------
(***************************************************************************)
(* Properties.                                                             *)
(***************************************************************************)

\* A Helper and the Committer walk a lane from a stored header without looking
\* ("since we have the header in the store, we must have all of its
\* ancestors", primary/src/helper.rs): whatever the order in which headers,
\* payloads and answers come, a stored header has all its ancestors stored.
StoreIsClosed ==
    \A x \in store : \A h \in 1 .. x[2] : <<x[1], h>> \in store

\* The Committer panics on a header that is missing ("should have ancestors by
\* now", primary/src/committer.rs): when the next slot is in its log, every
\* header that the slot delivers is stored.
NextSlotIsReady ==
    last_executed_slot + 1 \in log => ToExecute(last_executed_slot + 1) \subseteq store

\* What will bring a message back to Core.
Held(m) ==
    \/ m \in loop_messages
    \/ \E w \in waiting : w.message = m
    \/ \E i \in DOMAIN commands :
         commands[i].type = "SyncProposals" /\ commands[i].message = m

InOrder(m) == m.slot \in log \/ m.slot <= last_executed_slot \/ Held(m)

\* A Commit that was received goes to the Committer, or waits for its headers
\* and comes back ("otherwise sync will be triggered, and this commit message
\* will be reprocessed", primary/src/core.rs).
CommitsAreReprocessed ==
    \A m \in Messages \ unread : m.kind = "Commit" => InOrder(m)

\* Another message with the same proposals in the same order.
Rival(m) ==
    \E n \in Messages \ unread :
        n # m /\ cut[n.slot] = cut[m.slot] /\ n.order = m.order

\* Only a rival can make the HeaderWaiter forget a Commit that was received,
\* on any way through the Synchronizer, the HeaderWaiter and back.  (With no
\* header above genesis in its cut a Commit waits for nothing, and Core does
\* not send it on.)
CommitsAreKept ==
    \A m \in Messages \ unread :
        m.kind = "Commit" => InOrder(m) \/ Cut(m) = {} \/ Rival(m)

\* The Committer implements the ordered log: slots are executed in order, and
\* each header is delivered exactly once, by the first slot whose cut covers it.
Log == INSTANCE OrderedLog
ImplementsLog == Log!Spec

\* Every committed cut is executed in the end, whatever is missing when its
\* Commit arrives, as long as someone can be asked.
EveryCutIsExecuted ==
    \A m \in Messages : m.kind = "Commit" => <>(m.slot <= last_executed_slot)

\* A Prepare whose tips are missing when it arrives is voted for in the end,
\* unless the slot has moved to a later view.
EveryPrepareIsVoted ==
    \A m \in Messages : m.kind = "Prepare" =>
        <>(\/ <<m.slot, m.view>> \in voted
           \/ \E n \in Messages \ unread : n.slot = m.slot /\ n.view > m.view)
=============================================================================
