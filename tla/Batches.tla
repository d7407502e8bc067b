------------------------------ MODULE Batches ------------------------------
(***************************************************************************)
(* The payload of the headers: a worker collects transactions into         *)
(* batches, stores and broadcasts them, and tells its primary, which puts  *)
(* their digests into headers.  A primary accepts a header once its own    *)
(* worker has the batches; what is missing the workers fetch from each     *)
(* other.  Each replica runs one worker and one primary, each with its     *)
(* store.                                                                  *)
(*                                                                         *)
(* A digest is ideal: it is the batch, and a batch is the transactions of  *)
(* its maker.  Channels and connections are one set of messages: nothing   *)
(* here depends on the order of two of them.  The connections of a         *)
(* SimpleSender lose messages, the others do not.                          *)
(*                                                                         *)
(* A definition whose comment begins with BUG is a mistake the next        *)
(* definition could contain; the model does not use it.                    *)
(***************************************************************************)
EXTENDS Integers, FiniteSets

CONSTANTS
    Replicas,
    Makers,         \* the replicas whose clients send transactions
    Side,           \* the keys on each worker's side of the partition
    BatchSizes,     \* the values of Parameters::batch_size, in transactions
    MaxTxs,         \* bound: the transactions of a maker
    MaxEvents       \* bound: updates, asynchronies, repeated headers and losses

ASSUME BatchesAssumption ==
    /\ Makers \subseteq Replicas
    /\ Side \in [Replicas -> SUBSET Replicas]
    /\ BatchSizes \subseteq Nat
    /\ MaxTxs \in Nat /\ MaxEvents \in Nat

VARIABLES
    \* BatchMaker
    arrived, current_batch, batch_size, during_simulated_asynchrony,
    \* the stores of workers and primaries, and the reads that wait for them
    db, reads,
    \* primaries: Proposer, HeaderWaiter and Core
    digests, batch_requests, accepted,
    \* messages under way, messages lost, the headers made, and what disturbed
    wire, lost, headers, events

makerVars == <<arrived, current_batch, batch_size, during_simulated_asynchrony>>
storeVars == <<db, reads>>
primaryVars == <<digests, batch_requests, accepted>>
vars == <<makerVars, storeVars, primaryVars, wire, lost, headers, events>>

Worker(r) == <<"worker", r>>
Primary(r) == <<"primary", r>>
Stores == {"worker", "primary"} \X Replicas

Init ==
    /\ arrived = [a \in Makers |-> 0]
    /\ current_batch = [a \in Makers |-> {}]
    /\ batch_size \in [Makers -> BatchSizes]
    /\ during_simulated_asynchrony = [a \in Makers |-> FALSE]
    /\ db = [s \in Stores |-> {}]
    /\ reads = [s \in Stores |-> [x \in {} |-> "obliged"]]
    /\ digests = [r \in Replicas |-> {}]
    /\ batch_requests = [r \in Replicas |-> {}]
    /\ accepted = [r \in Replicas |-> {}]
    /\ wire = {} /\ lost = {} /\ headers = {} /\ events = 0

\* The messages.  The first two travel between workers, and so does the
\* third, which a Helper sends; the others stay within a replica.
Broadcast(b, r) == [type |-> "Broadcast", to |-> r, batch |-> b]
BatchRequest(bs, r, to) == [type |-> "BatchRequest", from |-> r, to |-> to, batches |-> bs]
Answer(b, r) == [type |-> "Answer", to |-> r, batch |-> b]
OwnBatch(b) == [type |-> "OwnBatch", to |-> b.maker, batch |-> b]
Notice(type, b, r) == [type |-> type, to |-> r, batch |-> b]
HeaderCopy(h, r) == [type |-> "Header", to |-> r, header |-> h]
SyncBatches(bs, h, r) == [type |-> "SyncBatches", to |-> r, header |-> h, missing |-> bs]
Synchronize(bs, target, r) ==
    [type |-> "Synchronize", to |-> r, batches |-> bs, target |-> target]

\* What disturbs the others may happen MaxEvents times.
Disturb == events < MaxEvents /\ events' = events + 1
-----------------------------------------------------------------------------
(***************************************************************************)
(* Store.  A read that waits is the waiter and the batch it waits for: an  *)
(* obligation of the store ("obliged"), or answered.                       *)
(***************************************************************************)
\* The command Write answers the obligations of the key.
Write(s, b) ==
    /\ db' = [db EXCEPT ![s] = @ \cup {b}]
    /\ reads' = [reads EXCEPT ![s] =
           [x \in DOMAIN reads[s] |-> IF x[2] = b THEN "answered" ELSE reads[s][x]]]

\* BUG: the obligation is recorded without a look at the database.
AlwaysOblige(s, b) == "obliged"

ReadOrOblige(s, b) == IF b \in db[s] THEN "answered" ELSE "obliged"

\* NotifyRead of the batches bs for the waiter w.  Its command follows the
\* step that creates the waiter; a Write between the two comes to the same.
NotifyRead(s, w, bs) ==
    reads' = [reads EXCEPT ![s] =
        [x \in DOMAIN reads[s] \cup ({w} \X bs) |->
            IF x \in DOMAIN reads[s] THEN reads[s][x] ELSE ReadOrOblige(s, x[2])]]

EndReads(s, X) ==
    reads' = [reads EXCEPT ![s] = [x \in DOMAIN reads[s] \ X |-> reads[s][x]]]

WaitingFor(s, w) == {x \in DOMAIN reads[s] : x[1] = w}
-----------------------------------------------------------------------------
(***************************************************************************)
(* BatchMaker.                                                             *)
(***************************************************************************)
\* In a simulated asynchrony the batch goes to the worker's side only; the
\* copy put aside for the others is never sent.
Addresses(a) ==
    IF during_simulated_asynchrony[a] THEN Side[a] \ {a} ELSE Replicas \ {a}

\* BUG: the batch is left to the Processor to store.
SealUnstored(a, txs) ==
    LET b == [maker |-> a, txs |-> txs] IN
    /\ current_batch' = [current_batch EXCEPT ![a] = {}]
    /\ wire' = wire \cup {OwnBatch(b)} \cup {Broadcast(b, r) : r \in Addresses(a)}
    /\ UNCHANGED storeVars

seal(a, txs) ==
    LET b == [maker |-> a, txs |-> txs] IN
    /\ current_batch' = [current_batch EXCEPT ![a] = {}]
    /\ Write(Worker(a), b)
    /\ wire' = wire \cup {OwnBatch(b)} \cup {Broadcast(b, r) : r \in Addresses(a)}

\* A transaction of a client, which may fill the batch.
TransactionArrives(a) ==
    /\ arrived[a] < MaxTxs
    /\ arrived' = [arrived EXCEPT ![a] = @ + 1]
    /\ LET txs == current_batch[a] \cup {arrived[a] + 1} IN
       IF Cardinality(txs) >= batch_size[a]
       THEN seal(a, txs)
       ELSE /\ current_batch' = [current_batch EXCEPT ![a] = txs]
            /\ UNCHANGED <<storeVars, wire>>
    /\ UNCHANGED <<batch_size, during_simulated_asynchrony, primaryVars,
                   lost, headers, events>>

\* BUG: the timer seals full batches only.
IsFull(a) == Cardinality(current_batch[a]) >= batch_size[a]

IsNotEmpty(a) == current_batch[a] # {}

\* max_batch_delay passes.
BatchTimer(a) ==
    /\ IsNotEmpty(a)
    /\ seal(a, current_batch[a])
    /\ UNCHANGED <<arrived, batch_size, during_simulated_asynchrony,
                   primaryVars, lost, headers, events>>

\* The worker rereads its parameters; the batch is not looked at.
SetBatchSize(a) ==
    /\ Disturb
    /\ \E n \in BatchSizes : batch_size' = [batch_size EXCEPT ![a] = n]
    /\ UNCHANGED <<arrived, current_batch, during_simulated_asynchrony, storeVars,
                   primaryVars, wire, lost, headers>>

\* One of the timers of async_timer_futures: the start or the end of an effect.
ToggleAsynchrony(a) ==
    /\ Disturb
    /\ during_simulated_asynchrony' = [during_simulated_asynchrony EXCEPT ![a] = ~@]
    /\ UNCHANGED <<arrived, current_batch, batch_size, storeVars, primaryVars,
                   wire, lost, headers>>
-----------------------------------------------------------------------------
(***************************************************************************)
(* The other tasks of the worker.                                          *)
(***************************************************************************)
\* The two Processors: a batch is stored, and the primary told.
ProcessBatch(r) ==
    \E m \in wire :
        /\ m.to = r /\ m.type \in {"OwnBatch", "Broadcast", "Answer"}
        /\ Write(Worker(r), m.batch)
        /\ wire' = (wire \ {m}) \cup
               {Notice(IF m.type = "OwnBatch" THEN "OurBatch" ELSE "OthersBatch", m.batch, r)}
        /\ UNCHANGED <<makerVars, primaryVars, lost, headers, events>>

\* The Synchronizer: asks the target for the batches it does not have and does
\* not wait for already.  The request is sent even when it asks for nothing.
SynchronizeBatches(r) ==
    \E m \in wire :
        /\ m.to = r /\ m.type = "Synchronize"
        /\ LET s == Worker(r)
               fresh == {b \in m.batches : <<"Synchronizer", b>> \notin DOMAIN reads[s]}
           IN  /\ NotifyRead(s, "Synchronizer", fresh)
               /\ wire' = (wire \ {m}) \cup {BatchRequest(fresh \ db[s], r, m.target)}
        /\ UNCHANGED <<makerVars, db, primaryVars, lost, headers, events>>

\* The batch is there: it is no longer pending.
FinishBatch(r) ==
    \E x \in WaitingFor(Worker(r), "Synchronizer") :
        /\ reads[Worker(r)][x] = "answered"
        /\ EndReads(Worker(r), {x})
        /\ UNCHANGED <<makerVars, db, primaryVars, wire, lost, headers, events>>

\* The Helper answers with what it has.
Help(r) ==
    \E m \in wire :
        /\ m.to = r /\ m.type = "BatchRequest"
        /\ wire' = (wire \ {m}) \cup {Answer(b, m.from) : b \in m.batches \cap db[Worker(r)]}
        /\ UNCHANGED <<makerVars, storeVars, primaryVars, lost, headers, events>>
-----------------------------------------------------------------------------
(***************************************************************************)
(* The primary.                                                            *)
(***************************************************************************)
\* WorkerReceiverHandler: a batch of our own is for the Proposer, one of the
\* others for the PayloadReceiver, which stores its key.
ReceiveNotice(r) ==
    \E m \in wire :
        /\ m.to = r
        /\ \/ /\ m.type = "OurBatch"
              /\ digests' = [digests EXCEPT ![r] = @ \cup {m.batch}]
              /\ UNCHANGED storeVars
           \/ /\ m.type = "OthersBatch"
              /\ Write(Primary(r), m.batch)
              /\ UNCHANGED digests
        /\ wire' = wire \ {m}
        /\ UNCHANGED <<makerVars, batch_requests, accepted, lost, headers, events>>

\* The Proposer's header takes all digests, and is sent to the other primaries.
make_header(a) ==
    /\ digests[a] # {}
    /\ LET h == [author |-> a, payload |-> digests[a]] IN
       /\ headers' = headers \cup {h}
       /\ wire' = wire \cup {HeaderCopy(h, r) : r \in Replicas \ {a}}
    /\ digests' = [digests EXCEPT ![a] = {}]
    /\ UNCHANGED <<makerVars, storeVars, batch_requests, accepted, lost, events>>

\* BUG: a batch that was asked for counts as there.
NotAskedFor(r, h) == h.payload \ (db[Primary(r)] \cup batch_requests[r])

missing_payload(r, h) == h.payload \ db[Primary(r)]

\* process_header: a header whose payload is not there goes to the
\* HeaderWaiter.
process_header(r, h, others) ==
    LET missing == missing_payload(r, h) IN
    /\ IF missing = {}
       THEN /\ accepted' = [accepted EXCEPT ![r] = @ \cup {h}]
            /\ wire' = others
       ELSE /\ wire' = others \cup {SyncBatches(missing, h, r)}
            /\ UNCHANGED accepted
    /\ UNCHANGED <<makerVars, storeVars, digests, batch_requests, lost, headers>>

ReceiveHeader(r) ==
    \E m \in wire :
        /\ m.to = r /\ m.type = "Header"
        /\ process_header(r, m.header, wire \ {m})
        /\ UNCHANGED events

\* A header that is waited for comes again, in the reply to a header request.
ReceiveHeaderAgain(r) ==
    \E h \in headers :
        /\ WaitingFor(Primary(r), h) # {}
        /\ Disturb
        /\ process_header(r, h, wire)

RequestMissing(missing, h, r) ==
    LET requires_sync == missing \ batch_requests[r] IN
    IF requires_sync = {} THEN {} ELSE {Synchronize(requires_sync, h.author, r)}

\* The HeaderWaiter takes a header up once.
SuspendHeader(r) ==
    \E m \in wire :
        /\ m.to = r /\ m.type = "SyncBatches"
        /\ IF WaitingFor(Primary(r), m.header) # {}
           THEN /\ wire' = wire \ {m}
                /\ UNCHANGED <<reads, batch_requests>>
           ELSE /\ NotifyRead(Primary(r), m.header, m.missing)
                /\ batch_requests' = [batch_requests EXCEPT ![r] = @ \cup m.missing]
                /\ wire' = (wire \ {m}) \cup RequestMissing(m.missing, m.header, r)
        /\ UNCHANGED <<makerVars, db, digests, accepted, lost, headers, events>>

\* All that was missing is there: the header goes back to Core.
ResumeHeader(r) ==
    \E h \in {x[1] : x \in DOMAIN reads[Primary(r)]} :
        LET X == WaitingFor(Primary(r), h) IN
        /\ \A x \in X : reads[Primary(r)][x] = "answered"
        /\ EndReads(Primary(r), X)
        /\ batch_requests' = [batch_requests EXCEPT ![r] = @ \ h.payload]
        /\ wire' = wire \cup {HeaderCopy(h, r)}
        /\ UNCHANGED <<makerVars, db, digests, accepted, lost, headers, events>>
-----------------------------------------------------------------------------
\* A connection of a SimpleSender fails with a message in it.
Lossy == {"Broadcast", "BatchRequest", "Answer", "OurBatch", "OthersBatch"}

Lose ==
    \E m \in wire :
        /\ m.type \in Lossy
        /\ Disturb
        /\ wire' = wire \ {m}
        /\ lost' = lost \cup {m}
        /\ UNCHANGED <<makerVars, storeVars, primaryVars, headers>>

Next ==
    \/ \E a \in Makers :
           \/ TransactionArrives(a) \/ BatchTimer(a) \/ make_header(a)
           \/ SetBatchSize(a) \/ ToggleAsynchrony(a)
    \/ \E r \in Replicas :
           \/ ProcessBatch(r) \/ SynchronizeBatches(r) \/ FinishBatch(r) \/ Help(r)
           \/ ReceiveNotice(r) \/ ReceiveHeader(r) \/ ReceiveHeaderAgain(r)
           \/ SuspendHeader(r) \/ ResumeHeader(r)
    \/ Lose

Spec == Init /\ [][Next]_vars

(***************************************************************************)
(* Every task goes on with what is in its channels.  The batch timer is    *)
(* rearmed by a sealed batch, and by one of finitely many updates.         *)
(***************************************************************************)
FairSpec ==
    /\ Spec
    /\ \A a \in Makers : WF_vars(BatchTimer(a)) /\ WF_vars(make_header(a))
    /\ \A r \in Replicas :
           /\ WF_vars(ProcessBatch(r)) /\ WF_vars(SynchronizeBatches(r))
           /\ WF_vars(Help(r)) /\ WF_vars(ReceiveNotice(r)) /\ WF_vars(ReceiveHeader(r))
           /\ WF_vars(SuspendHeader(r)) /\ WF_vars(ResumeHeader(r))
-----------------------------------------------------------------------------
(***************************************************************************)
(* Properties.                                                             *)
(***************************************************************************)
\* The batches, the headers and the messages there are.
Batch == [maker : Makers, txs : SUBSET (1 .. MaxTxs)]
Header == [author : Replicas, payload : SUBSET Batch]

BatchTypes == {"Broadcast", "Answer", "OwnBatch", "OurBatch", "OthersBatch"}

Message ==
    [type : BatchTypes, to : Replicas, batch : Batch]
        \cup [type : {"BatchRequest"}, from : Replicas, to : Replicas, batches : SUBSET Batch]
        \cup [type : {"Synchronize"}, to : Replicas, batches : SUBSET Batch, target : Replicas]
        \cup [type : {"Header"}, to : Replicas, header : Header]
        \cup [type : {"SyncBatches"}, to : Replicas, header : Header, missing : SUBSET Batch]

(***************************************************************************)
(* Every variable has its type; a worker's store is read by its            *)
(* Synchronizer and a primary's by the headers that wait.                  *)
(***************************************************************************)
TypeOK ==
    /\ arrived \in [Makers -> 0 .. MaxTxs]
    /\ current_batch \in [Makers -> SUBSET (1 .. MaxTxs)]
    /\ batch_size \in [Makers -> BatchSizes]
    /\ during_simulated_asynchrony \in [Makers -> BOOLEAN]
    /\ db \in [Stores -> SUBSET Batch]
    /\ DOMAIN reads = Stores
    /\ \A r \in Replicas :
           /\ DOMAIN reads[Worker(r)] \subseteq {"Synchronizer"} \X Batch
           /\ DOMAIN reads[Primary(r)] \subseteq Header \X Batch
    /\ digests \in [Replicas -> SUBSET Batch]
    /\ batch_requests \in [Replicas -> SUBSET Batch]
    /\ accepted \in [Replicas -> SUBSET Header]
    /\ wire \subseteq Message /\ lost \subseteq Message
    /\ headers \subseteq Header
    /\ events \in 0 .. MaxEvents

\* The batches that somebody holds, waits for or has been told of.
KnownBatches ==
    (UNION {db[s] : s \in Stores}) \cup (UNION {h.payload : h \in headers})
        \cup (UNION {digests[r] \cup batch_requests[r] : r \in Replicas})
        \cup {m.batch : m \in {n \in wire : n.type \in BatchTypes}}

(***************************************************************************)
(* A header names its author, and that is whom a worker asks for the       *)
(* payload, once.  So a batch that anybody may hear of has to be in the    *)
(* store of its maker's worker before: seal stores it before the batch     *)
(* goes to the Processor and to the network.                               *)
(***************************************************************************)
MakerHasBatch == \A b \in KnownBatches : b \in db[Worker(b.maker)]

(***************************************************************************)
(* A header that passes missing_payload at a primary has its batches in    *)
(* the store of that replica's worker: the primary decides on the keys its *)
(* PayloadReceiver stored, which the worker's Processor announced, and     *)
(* not on the batches.                                                     *)
(***************************************************************************)
AcceptedIsStored ==
    \A r \in Replicas : \A h \in accepted[r] : h.payload \subseteq db[Worker(r)]

\* A message was lost without which r cannot have the batch: the request, its
\* answer, or the notice to r's primary.  The broadcast can be lost.
CutOff(r, b) ==
    \E m \in lost :
        \/ m.type = "BatchRequest" /\ m.from = r /\ b \in m.batches
        \/ m.type \in {"Answer", "OthersBatch"} /\ m.to = r /\ m.batch = b

(***************************************************************************)
(* A header that waits for its payload is accepted in the end, whether the *)
(* broadcast of its batches is late, lost or withheld by a simulated       *)
(* asynchrony, unless the request for a batch, its answer or the notice to *)
(* the primary is lost: these are sent once, over a SimpleSender.          *)
(***************************************************************************)
SuspendedHeadersResume ==
    \A r \in Replicas, a \in Makers :
        (\E h \in headers : h.author = a /\ r # a /\ h \notin accepted[r])
            ~> (\/ \A h \in headers : h.author = a => h \in accepted[r]
                \/ \E h \in headers : \E b \in h.payload : CutOff(r, b))

(***************************************************************************)
(* A transaction that reached a worker ends up in the payload of a header, *)
(* unless the notice of its batch to the own primary is lost: the batch is *)
(* then in every worker's store and in nobody's header.                    *)
(***************************************************************************)
TransactionsAreProposed ==
    \A a \in Makers : \A t \in 1 .. MaxTxs :
        t <= arrived[a] ~>
            \/ \E h \in headers : \E b \in h.payload : b.maker = a /\ t \in b.txs
            \/ \E m \in lost : m.type = "OurBatch" /\ m.batch.maker = a /\ t \in m.batch.txs
=============================================================================
