---------------------------- MODULE BatchesProofs ----------------------------
(***************************************************************************)
(* Proofs about Batches: the type of the variables; who made a batch has   *)
(* it when anybody hears of it; a primary accepts what its worker stores;  *)
(* a header that waits for a batch has it coming, or something is lost; a  *)
(* transaction gets into a header, or the notice of its batch is lost.     *)
(***************************************************************************)
EXTENDS Batches, TLAPS

-----------------------------------------------------------------------------
(***************************************************************************)
(* The stores.                                                             *)
(***************************************************************************)
LEMMA StoresOf ==
    /\ \A r \in Replicas : Worker(r) \in Stores /\ Primary(r) \in Stores
    /\ \A s \in Stores : \E r \in Replicas : s = Worker(r) \/ s = Primary(r)
    /\ \A r, q \in Replicas : /\ Worker(r) # Primary(q)
                              /\ Worker(r) = Worker(q) => r = q
                              /\ Primary(r) = Primary(q) => r = q
  BY DEF Stores, Worker, Primary

LEMMA MakersAreReplicas == Makers \subseteq Replicas
  BY BatchesAssumption DEF BatchesAssumption

\* A Write adds the batch to its store and ends no read.
LEMMA Writes ==
    ASSUME TypeOK, NEW s \in Stores, NEW b \in Batch, Write(s, b)
    PROVE  /\ db' \in [Stores -> SUBSET Batch]
           /\ db'[s] = db[s] \cup {b}
           /\ \A t \in Stores : t # s => db'[t] = db[t]
           /\ DOMAIN reads' = Stores
           /\ \A t \in Stores : DOMAIN reads'[t] = DOMAIN reads[t]
  BY DEF TypeOK, Write

\* A NotifyRead adds the reads of its waiter.
LEMMA NotifyReads ==
    ASSUME TypeOK, NEW s \in Stores, NEW w, NEW bs, NotifyRead(s, w, bs)
    PROVE  /\ DOMAIN reads' = Stores
           /\ DOMAIN reads'[s] = DOMAIN reads[s] \cup ({w} \X bs)
           /\ \A t \in Stores : t # s => DOMAIN reads'[t] = DOMAIN reads[t]
  BY DEF TypeOK, NotifyRead

\* EndReads removes reads.
LEMMA ReadsEnd ==
    ASSUME TypeOK, NEW s \in Stores, NEW X, EndReads(s, X)
    PROVE  /\ DOMAIN reads' = Stores
           /\ \A t \in Stores : DOMAIN reads'[t] \subseteq DOMAIN reads[t]
  BY DEF TypeOK, EndReads

-----------------------------------------------------------------------------
(***************************************************************************)
(* The types.                                                              *)
(***************************************************************************)
\* The reads of a store are by those that may read it.
ReadsOK ==
    /\ DOMAIN reads = Stores
    /\ \A r \in Replicas :
           /\ DOMAIN reads[Worker(r)] \subseteq {"Synchronizer"} \X Batch
           /\ DOMAIN reads[Primary(r)] \subseteq Header \X Batch

\* The types of what a message carries.
LEMMA Carries ==
    ASSUME NEW m \in Message
    PROVE  /\ m.to \in Replicas
           /\ m.type \in BatchTypes => m.batch \in Batch
           /\ m.type = "BatchRequest" => m.from \in Replicas /\ m.batches \in SUBSET Batch
           /\ m.type = "Synchronize" => m.target \in Replicas /\ m.batches \in SUBSET Batch
           /\ m.type \in {"Header", "SyncBatches"} => m.header \in Header
           /\ m.type = "SyncBatches" => m.missing \in SUBSET Batch
  BY DEF Message, BatchTypes

\* What the operators for messages make are messages.
LEMMA Messages ==
    /\ \A b \in Batch, r \in Replicas :
           /\ Broadcast(b, r) \in Message /\ Answer(b, r) \in Message
           /\ \A t \in {"OurBatch", "OthersBatch"} : Notice(t, b, r) \in Message
    /\ \A b \in Batch : b.maker \in Replicas => OwnBatch(b) \in Message
    /\ \A bs \in SUBSET Batch, r, q \in Replicas :
           BatchRequest(bs, r, q) \in Message /\ Synchronize(bs, r, q) \in Message
    /\ \A h \in Header, r \in Replicas :
           /\ HeaderCopy(h, r) \in Message
           /\ \A bs \in SUBSET Batch : SyncBatches(bs, h, r) \in Message
  BY DEF Message, BatchTypes, Broadcast, Answer, Notice, OwnBatch, BatchRequest, Synchronize,
         HeaderCopy, SyncBatches

\* Sealing keeps the types.
LEMMA SealTypes ==
    ASSUME TypeOK, NEW a \in Makers, NEW txs \in SUBSET (1 .. MaxTxs), seal(a, txs)
    PROVE  /\ current_batch' \in [Makers -> SUBSET (1 .. MaxTxs)]
           /\ db' \in [Stores -> SUBSET Batch]
           /\ ReadsOK'
           /\ wire' \subseteq Message
<1> DEFINE b == [maker |-> a, txs |-> txs]
<1>1. b \in Batch /\ b.maker = a
  BY DEF Batch
<1>2. Worker(a) \in Stores /\ a \in Replicas
  BY StoresOf, MakersAreReplicas
<1>3. db' \in [Stores -> SUBSET Batch] /\ ReadsOK'
  BY <1>1, <1>2, Writes, StoresOf DEF seal, ReadsOK, TypeOK
<1>4. Addresses(a) \subseteq Replicas
  BY <1>2, BatchesAssumption DEF BatchesAssumption, Addresses
<1>5. wire' \subseteq Message
  BY <1>1, <1>2, <1>4, Messages DEF seal, TypeOK
<1>6. current_batch' \in [Makers -> SUBSET (1 .. MaxTxs)]
  BY DEF seal, TypeOK
<1> QED
  BY <1>3, <1>5, <1>6

\* A missing payload is part of a header's payload.
LEMMA ProcessHeaderTypes ==
    ASSUME TypeOK, NEW r \in Replicas, NEW h \in Header, NEW others \in SUBSET Message,
           process_header(r, h, others)
    PROVE  accepted' \in [Replicas -> SUBSET Header] /\ wire' \subseteq Message
<1>1. missing_payload(r, h) \in SUBSET Batch
  BY DEF missing_payload, Header
<1> QED
  BY <1>1, Messages DEF process_header, TypeOK

LEMMA TypeStep ==
    ASSUME TypeOK, [Next]_vars
    PROVE  TypeOK'
<1> USE BatchesAssumption DEF BatchesAssumption
<1>1. ASSUME NEW a \in Makers, TransactionArrives(a)
      PROVE  TypeOK'
  <2>1. arrived[a] + 1 \in 1 .. MaxTxs /\ arrived' \in [Makers -> 0 .. MaxTxs]
    BY <1>1 DEF TransactionArrives, TypeOK
  <2> DEFINE txs == current_batch[a] \cup {arrived[a] + 1}
  <2>2. txs \in SUBSET (1 .. MaxTxs)
    BY <2>1 DEF TypeOK
  <2>3. CASE seal(a, txs)
    BY <1>1, <2>1, <2>2, <2>3, SealTypes DEF TransactionArrives, TypeOK, ReadsOK, primaryVars
  <2>4. CASE /\ current_batch' = [current_batch EXCEPT ![a] = txs]
             /\ UNCHANGED <<storeVars, wire>>
    BY <1>1, <2>1, <2>2, <2>4 DEF TransactionArrives, TypeOK, primaryVars, storeVars
  <2> QED
    BY <1>1, <2>3, <2>4 DEF TransactionArrives
<1>2. ASSUME NEW a \in Makers, BatchTimer(a)
      PROVE  TypeOK'
  <2>1. current_batch[a] \in SUBSET (1 .. MaxTxs)
    BY DEF TypeOK
  <2> QED
    BY <1>2, <2>1, SealTypes DEF BatchTimer, TypeOK, ReadsOK, primaryVars
<1>3. ASSUME NEW a \in Makers, make_header(a)
      PROVE  TypeOK'
  <2> DEFINE h == [author |-> a, payload |-> digests[a]]
  <2>1. h \in Header
    BY MakersAreReplicas DEF TypeOK, Header
  <2>2. {HeaderCopy(h, r) : r \in Replicas \ {a}} \subseteq Message
    BY <2>1, Messages
  <2> QED
    BY <1>3, <2>1, <2>2 DEF make_header, TypeOK, makerVars, storeVars
<1>4. ASSUME NEW a \in Makers, SetBatchSize(a) \/ ToggleAsynchrony(a)
      PROVE  TypeOK'
  <2>1. events' \in 0 .. MaxEvents
    BY <1>4 DEF SetBatchSize, ToggleAsynchrony, Disturb, TypeOK
  <2>2. batch_size' \in [Makers -> BatchSizes]
    BY <1>4 DEF SetBatchSize, ToggleAsynchrony, TypeOK
  <2>3. during_simulated_asynchrony' \in [Makers -> BOOLEAN]
    BY <1>4, Zenon DEF SetBatchSize, ToggleAsynchrony, TypeOK
  <2> QED
    BY <1>4, <2>1, <2>2, <2>3
    DEF SetBatchSize, ToggleAsynchrony, TypeOK, storeVars, primaryVars
<1>5. ASSUME NEW r \in Replicas, ProcessBatch(r)
      PROVE  TypeOK'
  <2>1. PICK m \in wire :
            /\ m.to = r /\ m.type \in {"OwnBatch", "Broadcast", "Answer"}
            /\ Write(Worker(r), m.batch)
            /\ wire' = (wire \ {m}) \cup
                   {Notice(IF m.type = "OwnBatch" THEN "OurBatch" ELSE "OthersBatch", m.batch, r)}
    BY <1>5 DEF ProcessBatch
  <2>2. m.batch \in Batch
    BY <2>1, Carries DEF TypeOK, BatchTypes
  <2>3. wire' \subseteq Message
    BY <2>1, <2>2, Messages DEF TypeOK
  <2>4. db' \in [Stores -> SUBSET Batch] /\ ReadsOK'
    BY <2>1, <2>2, Writes, StoresOf DEF TypeOK, ReadsOK
  <2> QED
    BY <1>5, <2>3, <2>4 DEF ProcessBatch, TypeOK, ReadsOK, makerVars, primaryVars
<1>6. ASSUME NEW r \in Replicas, SynchronizeBatches(r)
      PROVE  TypeOK'
  <2> DEFINE s == Worker(r)
             fresh(m) == {b \in m.batches : <<"Synchronizer", b>> \notin DOMAIN reads[s]}
  <2>1. PICK m \in wire :
            /\ m.to = r /\ m.type = "Synchronize"
            /\ NotifyRead(s, "Synchronizer", fresh(m))
            /\ wire' = (wire \ {m}) \cup {BatchRequest(fresh(m) \ db[s], r, m.target)}
    BY <1>6 DEF SynchronizeBatches
  <2>2. fresh(m) \in SUBSET Batch /\ m.target \in Replicas
    BY <2>1, Carries DEF TypeOK
  <2>3. BatchRequest(fresh(m) \ db[s], r, m.target) \in Message
    <3>1. fresh(m) \ db[s] \in SUBSET Batch
      BY <2>2
    <3> QED
      BY <2>2, <3>1, Messages
  <2>4. wire' \subseteq Message
    BY <2>1, <2>3 DEF TypeOK
  <2>5. ReadsOK'
    <3>1. s \in Stores
      BY StoresOf
    <3>2. {"Synchronizer"} \X fresh(m) \subseteq {"Synchronizer"} \X Batch
      BY <2>2
    <3> QED
      BY <2>1, <3>1, <3>2, NotifyReads, StoresOf DEF TypeOK, ReadsOK
  <2> QED
    BY <1>6, <2>4, <2>5 DEF SynchronizeBatches, TypeOK, ReadsOK, makerVars, primaryVars
<1>7. ASSUME NEW r \in Replicas, FinishBatch(r)
      PROVE  TypeOK'
  <2>1. PICK x : EndReads(Worker(r), {x})
    BY <1>7 DEF FinishBatch
  <2>2. ReadsOK'
    BY <2>1, ReadsEnd, StoresOf DEF TypeOK, ReadsOK
  <2> QED
    BY <1>7, <2>2 DEF FinishBatch, TypeOK, ReadsOK, makerVars, primaryVars
<1>8. ASSUME NEW r \in Replicas, Help(r)
      PROVE  TypeOK'
  <2>1. PICK m \in wire :
            /\ m.type = "BatchRequest"
            /\ wire' = (wire \ {m}) \cup {Answer(b, m.from) : b \in m.batches \cap db[Worker(r)]}
    BY <1>8 DEF Help
  <2>2. m.from \in Replicas /\ m.batches \in SUBSET Batch
    BY <2>1, Carries DEF TypeOK
  <2>3. wire' \subseteq Message
    BY <2>1, <2>2, Messages DEF TypeOK
  <2> QED
    BY <1>8, <2>3 DEF Help, TypeOK, makerVars, primaryVars, storeVars
<1>9. ASSUME NEW r \in Replicas, ReceiveNotice(r)
      PROVE  TypeOK'
  <2>1. PICK m \in wire :
            /\ m.to = r
            /\ \/ /\ m.type = "OurBatch"
                  /\ digests' = [digests EXCEPT ![r] = @ \cup {m.batch}]
                  /\ UNCHANGED storeVars
               \/ /\ m.type = "OthersBatch"
                  /\ Write(Primary(r), m.batch)
                  /\ UNCHANGED digests
    BY <1>9 DEF ReceiveNotice
  <2>2. m.batch \in Batch
    BY <2>1, Carries DEF TypeOK, BatchTypes
  <2>3. db' \in [Stores -> SUBSET Batch] /\ ReadsOK'
    BY <2>1, <2>2, Writes, StoresOf DEF TypeOK, ReadsOK, storeVars
  <2>4. digests' \in [Replicas -> SUBSET Batch]
    BY <2>1, <2>2 DEF TypeOK
  <2> QED
    BY <1>9, <2>3, <2>4 DEF ReceiveNotice, TypeOK, ReadsOK, makerVars
<1>10. ASSUME NEW r \in Replicas, ReceiveHeader(r) \/ ReceiveHeaderAgain(r)
       PROVE  TypeOK'
  <2>1. PICK h \in Header, others \in SUBSET Message : process_header(r, h, others)
    <3>1. CASE ReceiveHeader(r)
      BY <3>1, Carries DEF ReceiveHeader, TypeOK
    <3>2. CASE ReceiveHeaderAgain(r)
      BY <3>2 DEF ReceiveHeaderAgain, TypeOK
    <3> QED
      BY <1>10, <3>1, <3>2
  <2>2. accepted' \in [Replicas -> SUBSET Header] /\ wire' \subseteq Message
    BY <2>1, ProcessHeaderTypes
  <2>3. events' \in 0 .. MaxEvents
    <3>1. CASE ReceiveHeader(r)
      BY <3>1 DEF ReceiveHeader, TypeOK
    <3>2. CASE ReceiveHeaderAgain(r)
      BY <3>2 DEF ReceiveHeaderAgain, Disturb, TypeOK
    <3> QED
      BY <1>10, <3>1, <3>2
  <2> QED
    BY <2>1, <2>2, <2>3 DEF process_header, TypeOK, makerVars, storeVars
<1>11. ASSUME NEW r \in Replicas, SuspendHeader(r)
       PROVE  TypeOK'
  <2>1. PICK m \in wire :
            /\ m.to = r /\ m.type = "SyncBatches"
            /\ IF WaitingFor(Primary(r), m.header) # {}
               THEN /\ wire' = wire \ {m}
                    /\ UNCHANGED <<reads, batch_requests>>
               ELSE /\ NotifyRead(Primary(r), m.header, m.missing)
                    /\ batch_requests' = [batch_requests EXCEPT ![r] = @ \cup m.missing]
                    /\ wire' = (wire \ {m}) \cup RequestMissing(m.missing, m.header, r)
    BY <1>11 DEF SuspendHeader
  <2>2. m.header \in Header /\ m.missing \in SUBSET Batch
    BY <2>1, Carries DEF TypeOK
  <2>3. RequestMissing(m.missing, m.header, r) \subseteq Message
    <3>1. m.header.author \in Replicas /\ m.missing \ batch_requests[r] \in SUBSET Batch
      BY <2>2 DEF Header
    <3> QED
      BY <3>1, Messages DEF RequestMissing
  <2>4. ReadsOK'
    BY <2>1, <2>2, NotifyReads, StoresOf DEF TypeOK, ReadsOK
  <2>5. batch_requests' \in [Replicas -> SUBSET Batch] /\ wire' \subseteq Message
    BY <2>1, <2>2, <2>3 DEF TypeOK
  <2> QED
    BY <1>11, <2>4, <2>5 DEF SuspendHeader, TypeOK, ReadsOK, makerVars
<1>12. ASSUME NEW r \in Replicas, ResumeHeader(r)
       PROVE  TypeOK'
  <2>1. PICK h \in {x[1] : x \in DOMAIN reads[Primary(r)]} :
            /\ EndReads(Primary(r), WaitingFor(Primary(r), h))
            /\ batch_requests' = [batch_requests EXCEPT ![r] = @ \ h.payload]
            /\ wire' = wire \cup {HeaderCopy(h, r)}
    BY <1>12 DEF ResumeHeader
  <2>2. h \in Header
    BY <2>1 DEF TypeOK
  <2>3. ReadsOK'
    BY <2>1, ReadsEnd, StoresOf DEF TypeOK, ReadsOK
  <2>4. batch_requests' \in [Replicas -> SUBSET Batch] /\ wire' \subseteq Message
    BY <2>1, <2>2, Messages DEF TypeOK
  <2> QED
    BY <1>12, <2>3, <2>4 DEF ResumeHeader, TypeOK, ReadsOK, makerVars
<1>13. CASE Lose
  BY <1>13 DEF Lose, Disturb, TypeOK, makerVars, primaryVars, storeVars
<1>14. CASE UNCHANGED vars
  BY <1>14 DEF vars, TypeOK, makerVars, primaryVars, storeVars
<1> QED
  BY <1>1, <1>2, <1>3, <1>4, <1>5, <1>6, <1>7, <1>8, <1>9, <1>10, <1>11, <1>12, <1>13, <1>14
  DEF Next

LEMMA TypeInit == Init => TypeOK
<1> SUFFICES ASSUME Init PROVE TypeOK
  OBVIOUS
<1>1. ReadsOK /\ db \in [Stores -> SUBSET Batch]
  BY StoresOf DEF Init, ReadsOK
<1>2. /\ arrived \in [Makers -> 0 .. MaxTxs] /\ events \in 0 .. MaxEvents
      /\ during_simulated_asynchrony \in [Makers -> BOOLEAN]
  BY BatchesAssumption DEF BatchesAssumption, Init
<1> QED
  BY <1>1, <1>2 DEF Init, TypeOK, ReadsOK

(***************************************************************************)
(* Every variable has its type, whatever is lost and however often.        *)
(***************************************************************************)
THEOREM BatchesTypeCorrect == Spec => []TypeOK
<1>1. Init => TypeOK
  BY TypeInit
<1>2. TypeOK /\ [Next]_vars => TypeOK'
  BY TypeStep
<1> QED
  BY <1>1, <1>2, PTL DEF Spec

-----------------------------------------------------------------------------
(***************************************************************************)
(* The invariant.                                                          *)
(***************************************************************************)
\* The maker's worker has the batch.
Held(b) == b \in db[Worker(b.maker)]

\* So it is with every batch that is somewhere.
KnownHeld ==
    /\ \A s \in Stores : \A b \in db[s] : Held(b)
    /\ \A h \in headers : \A b \in h.payload : Held(b)
    /\ \A r \in Replicas : \A b \in digests[r] \cup batch_requests[r] : Held(b)

\* A batch that travels is there at its maker, and one of which a primary is
\* told at its worker; a header that travels was made, and what is missing is
\* of its payload.
MessageTrue(m) ==
    /\ m.type \in BatchTypes => Held(m.batch)
    /\ m.type = "OthersBatch" => m.batch \in db[Worker(m.to)]
    /\ m.type \in {"Header", "SyncBatches"} => m.header \in headers
    /\ m.type = "SyncBatches" => m.missing \subseteq m.header.payload

MessagesTrue == \A m \in wire : MessageTrue(m)

\* A header that waits was made.
WaitersMade == \A r \in Replicas : \A x \in DOMAIN reads[Primary(r)] : x[1] \in headers

\* What a primary stored of what it was told, its worker stores.
PrimaryFollows == \A r \in Replicas : db[Primary(r)] \subseteq db[Worker(r)]

BatchInv ==
    TypeOK /\ KnownHeld /\ MessagesTrue /\ WaitersMade /\ PrimaryFollows /\ AcceptedIsStored

\* Stores and headers only grow, so a step has to answer for what is new.
LEMMA OnlyNew ==
    ASSUME BatchInv, TypeOK',
           \A s \in Stores : db[s] \subseteq db'[s],
           headers \subseteq headers',
           \A s \in Stores : \A b \in db'[s] \ db[s] : Held(b)',
           \A h \in headers' \ headers : \A b \in h.payload : Held(b)',
           \A r \in Replicas : \A b \in digests'[r] \ digests[r] : Held(b)',
           \A r \in Replicas : \A b \in batch_requests'[r] \ batch_requests[r] : Held(b)',
           \A m \in wire' \ wire : MessageTrue(m)',
           \A r \in Replicas :
               \A x \in DOMAIN reads'[Primary(r)] \ DOMAIN reads[Primary(r)] : x[1] \in headers',
           \A r \in Replicas : db'[Primary(r)] \ db[Primary(r)] \subseteq db'[Worker(r)],
           \A r \in Replicas : \A h \in accepted'[r] \ accepted[r] : h.payload \subseteq db'[Worker(r)]
    PROVE  BatchInv'
<1>1. ASSUME NEW b \in Batch, Held(b), Worker(b.maker) \in Stores
      PROVE  Held(b)'
  BY <1>1 DEF Held
<1>2. \A b \in Batch : Worker(b.maker) \in Stores
  BY StoresOf, MakersAreReplicas DEF Batch
<1>3. KnownHeld'
  <2>1. ASSUME NEW s \in Stores, NEW b \in db'[s] PROVE Held(b)'
    BY <2>1, <1>1, <1>2 DEF BatchInv, KnownHeld, TypeOK
  <2>2. ASSUME NEW h \in headers', NEW b \in h.payload PROVE Held(b)'
    BY <2>2, <1>1, <1>2 DEF BatchInv, KnownHeld, TypeOK, Header
  <2>3. ASSUME NEW r \in Replicas, NEW b \in digests'[r] \cup batch_requests'[r]
        PROVE  Held(b)'
    BY <2>3, <1>1, <1>2 DEF BatchInv, KnownHeld, TypeOK
  <2> QED
    BY <2>1, <2>2, <2>3 DEF KnownHeld
<1>4. MessagesTrue'
  <2> SUFFICES ASSUME NEW m \in wire', m \in wire PROVE MessageTrue(m)'
    BY DEF MessagesTrue
  <2>1. m \in Message /\ MessageTrue(m)
    BY DEF BatchInv, TypeOK, MessagesTrue
  <2>2. m.type \in BatchTypes => Held(m.batch)'
    BY <2>1, <1>1, <1>2, Carries DEF MessageTrue
  <2>3. m.type = "OthersBatch" => m.batch \in db'[Worker(m.to)]
    BY <2>1, Carries, StoresOf DEF MessageTrue
  <2> QED
    BY <2>1, <2>2, <2>3 DEF MessageTrue
<1>5. WaitersMade'
  BY DEF BatchInv, WaitersMade
<1>6. PrimaryFollows'
  BY StoresOf DEF BatchInv, PrimaryFollows
<1>7. AcceptedIsStored'
  BY StoresOf DEF BatchInv, AcceptedIsStored
<1> QED
  BY <1>3, <1>4, <1>5, <1>6, <1>7 DEF BatchInv

\* A batch that is sealed is in its maker's store before anybody hears of it.
LEMMA SealKeeps ==
    ASSUME BatchInv, TypeOK', NEW a \in Makers, NEW txs \in SUBSET (1 .. MaxTxs), seal(a, txs),
           UNCHANGED <<primaryVars, headers>>
    PROVE  BatchInv'
<1> DEFINE b == [maker |-> a, txs |-> txs]
<1>1. b \in Batch /\ b.maker = a /\ Worker(a) \in Stores /\ a \in Replicas
  BY StoresOf, MakersAreReplicas DEF Batch
<1>2. /\ db'[Worker(a)] = db[Worker(a)] \cup {b}
      /\ \A s \in Stores : s # Worker(a) => db'[s] = db[s]
      /\ \A s \in Stores : DOMAIN reads'[s] = DOMAIN reads[s]
  BY <1>1, Writes DEF seal, BatchInv
<1>3. Held(b)'
  BY <1>1, <1>2 DEF Held
<1>4. \A m \in wire' \ wire : MessageTrue(m)'
  BY <1>3 DEF seal, MessageTrue, BatchTypes, OwnBatch, Broadcast
<1> QED
  BY <1>1, <1>2, <1>3, <1>4, OnlyNew, StoresOf DEF primaryVars

\* Where the stores, the reads and what the primaries hold stay, the messages
\* that are new are all there is to look at.
LEMMA OnlyMessages ==
    ASSUME BatchInv, TypeOK', UNCHANGED <<storeVars, digests, batch_requests, accepted, headers>>,
           \A m \in wire' \ wire : MessageTrue(m)'
    PROVE  BatchInv'
  BY OnlyNew DEF storeVars

\* What is missing of a header is asked for, or the header is accepted.
LEMMA ProcessHeaderKeeps ==
    ASSUME BatchInv, TypeOK', NEW r \in Replicas, NEW h \in headers, NEW others \in SUBSET wire,
           process_header(r, h, others)
    PROVE  BatchInv'
<1>1. UNCHANGED <<db, reads, digests, batch_requests, headers>>
  BY DEF process_header, storeVars
<1>2. \A m \in wire' \ wire : MessageTrue(m)'
  BY <1>1 DEF process_header, missing_payload, SyncBatches, MessageTrue, BatchTypes
<1>3. \A q \in Replicas : \A g \in accepted'[q] \ accepted[q] : g.payload \subseteq db'[Worker(q)]
  <2>1. accepted \in [Replicas -> SUBSET Header] /\ db[Primary(r)] \subseteq db[Worker(r)]
    BY DEF BatchInv, TypeOK, PrimaryFollows
  <2> QED
    BY <1>1, <2>1 DEF process_header, missing_payload
<1> QED
  BY <1>1, <1>2, <1>3, OnlyNew

LEMMA InvStep ==
    ASSUME BatchInv, [Next]_vars
    PROVE  BatchInv'
<1> USE DEF BatchTypes
<1>0. TypeOK' /\ TypeOK
  BY TypeStep DEF BatchInv
<1>1. ASSUME NEW a \in Makers, TransactionArrives(a)
      PROVE  BatchInv'
  <2> DEFINE txs == current_batch[a] \cup {arrived[a] + 1}
  <2>1. txs \in SUBSET (1 .. MaxTxs)
    BY <1>0, <1>1, BatchesAssumption DEF BatchesAssumption, TransactionArrives, TypeOK
  <2>2. CASE seal(a, txs)
    BY <1>0, <1>1, <2>1, <2>2, SealKeeps DEF TransactionArrives
  <2>3. CASE UNCHANGED <<storeVars, wire>>
    BY <1>0, <1>1, <2>3, OnlyMessages DEF TransactionArrives, primaryVars
  <2> QED
    BY <1>1, <2>2, <2>3 DEF TransactionArrives
<1>2. ASSUME NEW a \in Makers, BatchTimer(a)
      PROVE  BatchInv'
  <2>1. current_batch[a] \in SUBSET (1 .. MaxTxs)
    BY <1>0 DEF TypeOK
  <2> QED
    BY <1>0, <1>2, <2>1, SealKeeps DEF BatchTimer
<1>3. ASSUME NEW a \in Makers, make_header(a)
      PROVE  BatchInv'
  <2> DEFINE h == [author |-> a, payload |-> digests[a]]
  <2>1. a \in Replicas /\ UNCHANGED <<db, reads, batch_requests, accepted>>
    BY <1>3, MakersAreReplicas DEF make_header, storeVars
  <2>2. \A b \in h.payload : Held(b)'
    BY <2>1 DEF BatchInv, KnownHeld, Held
  <2>3. \A m \in wire' \ wire : MessageTrue(m)'
    BY <1>3 DEF make_header, HeaderCopy, MessageTrue
  <2>4. headers' = headers \cup {h} /\ digests' = [digests EXCEPT ![a] = {}]
    BY <1>3 DEF make_header
  <2>5. \A r \in Replicas : digests'[r] \subseteq digests[r]
    BY <1>0, <2>4 DEF TypeOK
  <2> QED
    BY <1>0, <2>1, <2>2, <2>3, <2>4, <2>5, OnlyNew
<1>4. ASSUME NEW a \in Makers, SetBatchSize(a) \/ ToggleAsynchrony(a)
      PROVE  BatchInv'
  BY <1>0, <1>4, OnlyMessages DEF SetBatchSize, ToggleAsynchrony, primaryVars
<1>5. ASSUME NEW r \in Replicas, ProcessBatch(r)
      PROVE  BatchInv'
  <2>1. PICK m \in wire :
            /\ m.to = r /\ m.type \in {"OwnBatch", "Broadcast", "Answer"}
            /\ Write(Worker(r), m.batch)
            /\ wire' = (wire \ {m}) \cup
                   {Notice(IF m.type = "OwnBatch" THEN "OurBatch" ELSE "OthersBatch", m.batch, r)}
    BY <1>5 DEF ProcessBatch
  <2>2. m.batch \in Batch /\ Held(m.batch)
    BY <1>0, <2>1, Carries DEF TypeOK, BatchInv, MessagesTrue, MessageTrue
  <2>3. /\ db'[Worker(r)] = db[Worker(r)] \cup {m.batch}
        /\ \A s \in Stores : s # Worker(r) => db'[s] = db[s]
        /\ \A s \in Stores : DOMAIN reads'[s] = DOMAIN reads[s]
    BY <1>0, <2>1, <2>2, Writes, StoresOf
  <2>4. Held(m.batch)'
    BY <2>2, <2>3, StoresOf, MakersAreReplicas DEF Held, Batch
  <2>5. \A n \in wire' \ wire : MessageTrue(n)'
    BY <2>1, <2>3, <2>4 DEF Notice, MessageTrue
  <2> QED
    BY <1>0, <1>5, <2>3, <2>4, <2>5, OnlyNew, StoresOf DEF ProcessBatch, primaryVars
<1>6. ASSUME NEW r \in Replicas, SynchronizeBatches(r)
      PROVE  BatchInv'
  <2>1. PICK m \in wire : \E bs, cs :
            /\ NotifyRead(Worker(r), "Synchronizer", bs)
            /\ wire' = (wire \ {m}) \cup {BatchRequest(cs, r, m.target)}
    BY <1>6 DEF SynchronizeBatches
  <2>2. \A q \in Replicas : DOMAIN reads'[Primary(q)] = DOMAIN reads[Primary(q)]
    BY <1>0, <2>1, NotifyReads, StoresOf
  <2>3. \A n \in wire' \ wire : MessageTrue(n)'
    BY <2>1 DEF BatchRequest, MessageTrue
  <2> QED
    BY <1>0, <1>6, <2>2, <2>3, OnlyNew DEF SynchronizeBatches, primaryVars
<1>7. ASSUME NEW r \in Replicas, FinishBatch(r)
      PROVE  BatchInv'
  <2>1. \A q \in Replicas : DOMAIN reads'[Primary(q)] \subseteq DOMAIN reads[Primary(q)]
    BY <1>0, <1>7, ReadsEnd, StoresOf DEF FinishBatch
  <2> QED
    BY <1>0, <1>7, <2>1, OnlyNew DEF FinishBatch, primaryVars
<1>8. ASSUME NEW r \in Replicas, Help(r)
      PROVE  BatchInv'
  <2>1. \A n \in wire' \ wire : \E b \in db[Worker(r)] : \E q : n = Answer(b, q)
    BY <1>8 DEF Help
  <2>2. UNCHANGED <<storeVars, digests, batch_requests, accepted, headers>>
    BY <1>8 DEF Help, primaryVars
  <2>3. \A b \in db[Worker(r)] : Held(b)'
    BY <2>2, StoresOf DEF BatchInv, KnownHeld, Held, storeVars
  <2>4. \A n \in wire' \ wire : MessageTrue(n)'
    BY <2>1, <2>3 DEF Answer, MessageTrue
  <2> QED
    BY <1>0, <2>2, <2>4, OnlyMessages
<1>9. ASSUME NEW r \in Replicas, ReceiveNotice(r)
      PROVE  BatchInv'
  <2>1. PICK m \in wire :
            /\ m.to = r
            /\ \/ /\ m.type = "OurBatch"
                  /\ digests' = [digests EXCEPT ![r] = @ \cup {m.batch}]
                  /\ UNCHANGED storeVars
               \/ /\ m.type = "OthersBatch"
                  /\ Write(Primary(r), m.batch)
                  /\ UNCHANGED digests
            /\ wire' = wire \ {m}
    BY <1>9 DEF ReceiveNotice
  <2>2. m.batch \in Batch /\ Held(m.batch) /\ MessageTrue(m)
    BY <1>0, <2>1, Carries DEF TypeOK, BatchInv, MessagesTrue, MessageTrue
  <2>3. UNCHANGED <<batch_requests, accepted, headers>>
    BY <1>9 DEF ReceiveNotice
  <2>4. CASE m.type = "OurBatch"
    <3>1. UNCHANGED <<db, reads>> /\ digests' = [digests EXCEPT ![r] = @ \cup {m.batch}]
      BY <2>1, <2>4 DEF storeVars
    <3>2. Held(m.batch)'
      BY <2>2, <3>1 DEF Held
    <3>3. \A q \in Replicas : \A b \in digests'[q] \ digests[q] : Held(b)'
      BY <1>0, <3>1, <3>2 DEF TypeOK
    <3> QED
      BY <1>0, <2>1, <2>3, <3>1, <3>3, OnlyNew
  <2>5. CASE m.type = "OthersBatch"
    <3>1. /\ db'[Primary(r)] = db[Primary(r)] \cup {m.batch}
          /\ \A s \in Stores : s # Primary(r) => db'[s] = db[s]
          /\ \A s \in Stores : DOMAIN reads'[s] = DOMAIN reads[s]
      BY <1>0, <2>1, <2>2, <2>5, Writes, StoresOf
    <3>2. Held(m.batch)'
      BY <2>2, <3>1, StoresOf, MakersAreReplicas DEF Held, Batch
    <3>3. m.batch \in db'[Worker(r)]
      BY <2>1, <2>2, <2>5, <3>1, StoresOf DEF MessageTrue
    <3> QED
      BY <1>0, <2>1, <2>3, <2>5, <3>1, <3>2, <3>3, OnlyNew, StoresOf
  <2> QED
    BY <2>1, <2>4, <2>5
<1>10. ASSUME NEW r \in Replicas, ReceiveHeader(r) \/ ReceiveHeaderAgain(r)
       PROVE  BatchInv'
  <2>1. PICK h \in headers, others \in SUBSET wire : process_header(r, h, others)
    <3>1. CASE ReceiveHeader(r)
      BY <3>1 DEF ReceiveHeader, BatchInv, MessagesTrue, MessageTrue
    <3>2. CASE ReceiveHeaderAgain(r)
      BY <3>2 DEF ReceiveHeaderAgain
    <3> QED
      BY <1>10, <3>1, <3>2
  <2> QED
    BY <1>0, <2>1, ProcessHeaderKeeps
<1>11. ASSUME NEW r \in Replicas, SuspendHeader(r)
       PROVE  BatchInv'
  <2>1. PICK m \in wire :
            /\ m.to = r /\ m.type = "SyncBatches"
            /\ IF WaitingFor(Primary(r), m.header) # {}
               THEN /\ wire' = wire \ {m}
                    /\ UNCHANGED <<reads, batch_requests>>
               ELSE /\ NotifyRead(Primary(r), m.header, m.missing)
                    /\ batch_requests' = [batch_requests EXCEPT ![r] = @ \cup m.missing]
                    /\ wire' = (wire \ {m}) \cup RequestMissing(m.missing, m.header, r)
    BY <1>11 DEF SuspendHeader
  <2>2. UNCHANGED <<db, digests, accepted, headers>>
    BY <1>11 DEF SuspendHeader
  <2>3. m.header \in headers /\ m.missing \subseteq m.header.payload
    BY <2>1 DEF BatchInv, MessagesTrue, MessageTrue
  <2>4. \A b \in m.missing : Held(b)'
    BY <2>2, <2>3 DEF BatchInv, KnownHeld, Held
  <2>5. \A n \in wire' \ wire : MessageTrue(n)'
    BY <2>1 DEF RequestMissing, Synchronize, MessageTrue
  <2>6. \A q \in Replicas : \A b \in batch_requests'[q] \ batch_requests[q] : Held(b)'
    BY <1>0, <2>1, <2>4 DEF TypeOK
  <2>7. \A q \in Replicas :
            \A x \in DOMAIN reads'[Primary(q)] \ DOMAIN reads[Primary(q)] : x[1] \in headers'
    BY <1>0, <2>1, <2>2, <2>3, NotifyReads, StoresOf
  <2> QED
    BY <1>0, <2>2, <2>5, <2>6, <2>7, OnlyNew
<1>12. ASSUME NEW r \in Replicas, ResumeHeader(r)
       PROVE  BatchInv'
  <2>1. PICK h \in {x[1] : x \in DOMAIN reads[Primary(r)]} :
            /\ EndReads(Primary(r), WaitingFor(Primary(r), h))
            /\ batch_requests' = [batch_requests EXCEPT ![r] = @ \ h.payload]
            /\ wire' = wire \cup {HeaderCopy(h, r)}
    BY <1>12 DEF ResumeHeader
  <2>2. UNCHANGED <<db, digests, accepted, headers>>
    BY <1>12 DEF ResumeHeader
  <2>3. h \in headers
    BY <2>1 DEF BatchInv, WaitersMade
  <2>4. \A n \in wire' \ wire : MessageTrue(n)'
    BY <2>1, <2>2, <2>3 DEF HeaderCopy, MessageTrue
  <2>5. \A q \in Replicas : DOMAIN reads'[Primary(q)] \subseteq DOMAIN reads[Primary(q)]
    BY <1>0, <2>1, ReadsEnd, StoresOf
  <2>6. \A q \in Replicas : batch_requests'[q] \subseteq batch_requests[q]
    BY <1>0, <2>1 DEF TypeOK
  <2> QED
    BY <1>0, <2>2, <2>4, <2>5, <2>6, OnlyNew
<1>13. CASE Lose
  BY <1>0, <1>13, OnlyMessages DEF Lose, primaryVars
<1>14. CASE UNCHANGED vars
  BY <1>0, <1>14, OnlyMessages DEF vars, primaryVars
<1> QED
  BY <1>1, <1>2, <1>3, <1>4, <1>5, <1>6, <1>7, <1>8, <1>9, <1>10, <1>11, <1>12, <1>13, <1>14
  DEF Next

LEMMA InvInit == Init => BatchInv
<1> SUFFICES ASSUME Init PROVE BatchInv
  OBVIOUS
<1>1. \A s \in Stores : db[s] = {} /\ DOMAIN reads[s] = {}
  BY DEF Init
<1>2. \A r \in Replicas : digests[r] = {} /\ batch_requests[r] = {} /\ accepted[r] = {}
  BY DEF Init
<1> QED
  BY <1>1, <1>2, TypeInit, StoresOf
  DEF Init, BatchInv, KnownHeld, MessagesTrue, WaitersMade, PrimaryFollows, AcceptedIsStored

LEMMA Invariant == Spec => []BatchInv
<1>1. Init => BatchInv
  BY InvInit
<1>2. BatchInv /\ [Next]_vars => BatchInv'
  BY InvStep
<1> QED
  BY <1>1, <1>2, PTL DEF Spec

-----------------------------------------------------------------------------
(***************************************************************************)
(* Whoever hears of a batch can have it from its maker's worker.           *)
(***************************************************************************)
THEOREM MakersHaveBatches == Spec => []MakerHasBatch
<1>1. BatchInv => MakerHasBatch
  <2> SUFFICES ASSUME BatchInv, NEW b \in KnownBatches PROVE Held(b)
    BY DEF MakerHasBatch, Held
  <2>1. CASE \E s \in Stores : b \in db[s]
    BY <2>1 DEF BatchInv, KnownHeld
  <2>2. CASE \E h \in headers : b \in h.payload
    BY <2>2 DEF BatchInv, KnownHeld
  <2>3. CASE \E r \in Replicas : b \in digests[r] \cup batch_requests[r]
    BY <2>3 DEF BatchInv, KnownHeld
  <2>4. CASE \E m \in wire : m.type \in BatchTypes /\ b = m.batch
    BY <2>4 DEF BatchInv, MessagesTrue, MessageTrue
  <2> QED
    BY <2>1, <2>2, <2>3, <2>4 DEF KnownBatches
<1> QED
  BY <1>1, Invariant, PTL

(***************************************************************************)
(* The payload of an accepted header is in the store of the replica's      *)
(* worker.                                                                 *)
(***************************************************************************)
THEOREM AcceptedHeadersAreStored == Spec => []AcceptedIsStored
<1>1. BatchInv => AcceptedIsStored
  BY DEF BatchInv
<1> QED
  BY <1>1, Invariant, PTL

-----------------------------------------------------------------------------
(***************************************************************************)
(* What a header that is not accepted waits for.  A message asks for a     *)
(* batch of another replica, answers, or tells the primary of it.          *)
(***************************************************************************)
AsksFor(m, r, b) ==
    \/ m.type = "BatchRequest" /\ m.from = r /\ b \in m.batches
    \/ m.type = "Answer" /\ m.to = r /\ m.batch = b
Tells(m, r, b) == m.type = "OthersBatch" /\ m.to = r /\ m.batch = b
Orders(m, r, b) == m.type = "Synchronize" /\ m.to = r /\ b \in m.batches
Brings(m, r, h) == m.type \in {"Header", "SyncBatches"} /\ m.to = r /\ m.header = h

\* r's worker has asked for b and not got it; r's primary has b's key or will
\* be told; or the order to ask is on its way.  Or else something is lost.
Asked(r, b) == CutOff(r, b) \/ \E m \in wire : AsksFor(m, r, b)
Announced(r, b) == CutOff(r, b) \/ b \in db[Primary(r)] \/ \E m \in wire : Tells(m, r, b)
Fetched(r, b) == Asked(r, b) \/ Announced(r, b) \/ \E m \in wire : Orders(m, r, b)

Awaited(r, h) ==
    \/ h \in accepted[r]
    \/ \E m \in wire : Brings(m, r, h)
    \/ WaitingFor(Primary(r), h) # {}

\* A read is answered when the batch is there.
ReadsAnswered ==
    \A s \in Stores : \A x \in DOMAIN reads[s] :
        reads[s][x] = IF x[2] \in db[s] THEN "answered" ELSE "obliged"

\* A batch is of the author of its header, and a replica waits for headers of others.
MakersKnown ==
    /\ \A r \in Replicas : \A b \in digests[r] : b.maker = r
    /\ \A h \in headers : \A b \in h.payload : b.maker = h.author
    /\ \A r \in Replicas : \A x \in DOMAIN reads[Primary(r)] : x[1].author # r

\* A message asks the maker of a batch, who is another replica and has it.
MakerKnown(m) ==
    /\ m.type \in {"OwnBatch", "OurBatch"} => m.batch.maker = m.to
    /\ m.type = "BatchRequest" => \A b \in m.batches : b.maker = m.to /\ Held(b)
    /\ m.type = "Synchronize" =>
           \A b \in m.batches : b.maker = m.target /\ b.maker # m.to /\ Held(b)
    /\ m.type \in {"Header", "SyncBatches"} => m.header.author # m.to
    /\ m.type = "SyncBatches" => m.missing # {}

FetchInv ==
    /\ ReadsAnswered
    /\ MakersKnown
    /\ \A m \in wire : MakerKnown(m)
    /\ \A r \in Replicas : \A b \in db[Worker(r)] : b.maker # r => Announced(r, b)
    /\ \A r \in Replicas : \A x \in DOMAIN reads[Worker(r)] :
           x[2] \in db[Worker(r)] \/ Asked(r, x[2])
    /\ \A r \in Replicas : \A b \in batch_requests[r] : Fetched(r, b)
    /\ \A r \in Replicas : \A x \in DOMAIN reads[Primary(r)] : Fetched(r, x[2])
    /\ \A r \in Replicas, h \in headers : h.author # r => Awaited(r, h)

\* The stores answer the reads they have promised to answer.
LEMMA WriteAnswers ==
    ASSUME TypeOK, ReadsAnswered, NEW s \in Stores, NEW b, Write(s, b)
    PROVE  ReadsAnswered'
<1>1. \A t \in Stores : t # s => db'[t] = db[t] /\ reads'[t] = reads[t]
  BY DEF TypeOK, Write
<1>2. /\ db'[s] = db[s] \cup {b}
      /\ reads'[s] = [x \in DOMAIN reads[s] |-> IF x[2] = b THEN "answered" ELSE reads[s][x]]
  BY DEF TypeOK, Write
<1> QED
  BY <1>1, <1>2 DEF ReadsAnswered

\* A new read is answered at once or when its batch comes.
LEMMA NotifyAnswers ==
    ASSUME TypeOK, ReadsAnswered, NEW s \in Stores, NEW w, NEW bs, NotifyRead(s, w, bs),
           UNCHANGED db
    PROVE  ReadsAnswered'
<1>1. \A t \in Stores : t # s => reads'[t] = reads[t]
  BY DEF TypeOK, NotifyRead
<1>2. reads'[s] = [x \in DOMAIN reads[s] \cup ({w} \X bs) |->
                      IF x \in DOMAIN reads[s] THEN reads[s][x] ELSE ReadOrOblige(s, x[2])]
  BY DEF TypeOK, NotifyRead
<1> QED
  BY <1>1, <1>2 DEF ReadsAnswered, ReadOrOblige

LEMMA EndAnswers ==
    ASSUME TypeOK, ReadsAnswered, NEW s \in Stores, NEW X, EndReads(s, X), UNCHANGED db
    PROVE  ReadsAnswered'
<1>1. \A t \in Stores : t # s => reads'[t] = reads[t]
  BY DEF TypeOK, EndReads
<1>2. reads'[s] = [x \in DOMAIN reads[s] \ X |-> reads[s][x]]
  BY DEF TypeOK, EndReads
<1> QED
  BY <1>1, <1>2 DEF ReadsAnswered

\* A step answers for the messages that are gone and for what is new.
LEMMA FetchKept ==
    ASSUME BatchInv, BatchInv', FetchInv,
           lost \subseteq lost',
           \A s \in Stores : db[s] \subseteq db'[s],
           \A r \in Replicas : accepted[r] \subseteq accepted'[r],
           \A m \in wire \ wire', r \in Replicas :
               /\ \A b : AsksFor(m, r, b) =>
                      Asked(r, b)' \/ (b \in db'[Worker(r)] /\ Announced(r, b)')
               /\ \A b : Tells(m, r, b) => Announced(r, b)'
               /\ \A b : Orders(m, r, b) => Fetched(r, b)'
               /\ \A h : Brings(m, r, h) => Awaited(r, h)',
           \A r \in Replicas : \A b \in db'[Worker(r)] \ db[Worker(r)] :
               b.maker # r => Announced(r, b)',
           \A r \in Replicas : \A x \in DOMAIN reads'[Worker(r)] \ DOMAIN reads[Worker(r)] :
               x[2] \in db'[Worker(r)] \/ Asked(r, x[2])',
           \A r \in Replicas : \A b \in batch_requests'[r] \ batch_requests[r] : Fetched(r, b)',
           \A r \in Replicas : \A x \in DOMAIN reads'[Primary(r)] \ DOMAIN reads[Primary(r)] :
               Fetched(r, x[2])',
           \A r \in Replicas, h \in headers' \ headers : h.author # r => Awaited(r, h)',
           \A r \in Replicas, h \in headers : WaitingFor(Primary(r), h) # {} => Awaited(r, h)',
           ReadsAnswered', MakersKnown', \A m \in wire' \ wire : MakerKnown(m)'
    PROVE  FetchInv'
<1>1. ASSUME NEW r \in Replicas, NEW b, Asked(r, b)
      PROVE  Asked(r, b)' \/ (b \in db'[Worker(r)] /\ Announced(r, b)')
  <2>1. CASE CutOff(r, b)
    BY <2>1 DEF CutOff, Asked
  <2>2. CASE \E m \in wire : AsksFor(m, r, b)
    BY <2>2 DEF Asked, AsksFor
  <2> QED
    BY <1>1, <2>1, <2>2 DEF Asked
<1>2. ASSUME NEW r \in Replicas, NEW b, Announced(r, b) PROVE Announced(r, b)'
  <2>1. CASE CutOff(r, b)
    BY <2>1 DEF CutOff, Announced
  <2>2. CASE b \in db[Primary(r)]
    BY <2>2, StoresOf DEF Announced
  <2>3. CASE \E m \in wire : Tells(m, r, b)
    BY <2>3 DEF Announced, Tells
  <2> QED
    BY <1>2, <2>1, <2>2, <2>3 DEF Announced
<1>3. ASSUME NEW r \in Replicas, NEW b, Fetched(r, b) PROVE Fetched(r, b)'
  <2>1. CASE \E m \in wire : Orders(m, r, b)
    BY <2>1 DEF Fetched, Orders
  <2> QED
    BY <1>1, <1>2, <1>3, <2>1 DEF Fetched
<1>4. ASSUME NEW r \in Replicas, NEW h \in headers, Awaited(r, h) PROVE Awaited(r, h)'
  <2>1. CASE h \in accepted[r]
    BY <2>1 DEF Awaited
  <2>2. CASE \E m \in wire : Brings(m, r, h)
    BY <2>2 DEF Awaited, Brings
  <2> QED
    BY <1>4, <2>1, <2>2 DEF Awaited
<1>5. ASSUME NEW m \in wire' PROVE MakerKnown(m)'
  <2>1. \A b \in Batch : Held(b) => Held(b)'
    <3>1. \A b \in Batch : Worker(b.maker) \in Stores
      BY StoresOf, MakersAreReplicas DEF Batch
    <3> QED
      BY <3>1 DEF Held
  <2>2. CASE m \in wire
    <3>1. m \in Message /\ MakerKnown(m)
      BY <2>2 DEF FetchInv, BatchInv, TypeOK
    <3> QED
      BY <2>1, <3>1, Carries DEF MakerKnown
  <2> QED
    BY <2>2
<1>6. ASSUME NEW r \in Replicas, NEW b \in db'[Worker(r)], b.maker # r PROVE Announced(r, b)'
  BY <1>2, <1>6 DEF FetchInv
<1>7. ASSUME NEW r \in Replicas, NEW x \in DOMAIN reads'[Worker(r)]
      PROVE  x[2] \in db'[Worker(r)] \/ Asked(r, x[2])'
  BY <1>1, StoresOf DEF FetchInv
<1>8. ASSUME NEW r \in Replicas, NEW b \in batch_requests'[r] PROVE Fetched(r, b)'
  BY <1>3 DEF FetchInv
<1>9. ASSUME NEW r \in Replicas, NEW x \in DOMAIN reads'[Primary(r)] PROVE Fetched(r, x[2])'
  BY <1>3 DEF FetchInv
<1>10. ASSUME NEW r \in Replicas, NEW h \in headers', h.author # r PROVE Awaited(r, h)'
  BY <1>4, <1>10 DEF FetchInv
<1> QED
  BY <1>5, <1>6, <1>7, <1>8, <1>9, <1>10 DEF FetchInv

\* A step that removes no message, where the requests do not grow.
LEMMA FetchGrows ==
    ASSUME BatchInv, BatchInv', FetchInv,
           wire \subseteq wire', UNCHANGED <<batch_requests, accepted, lost>>,
           \A s \in Stores : db[s] \subseteq db'[s] /\ DOMAIN reads'[s] \subseteq DOMAIN reads[s],
           \A r \in Replicas : DOMAIN reads'[Primary(r)] = DOMAIN reads[Primary(r)],
           \A r \in Replicas : \A b \in db'[Worker(r)] \ db[Worker(r)] : b.maker = r,
           \A r \in Replicas, h \in headers' \ headers : h.author # r => Awaited(r, h)',
           ReadsAnswered', MakersKnown', \A m \in wire' \ wire : MakerKnown(m)'
    PROVE  FetchInv'
<1>1. \A r \in Replicas : \A h : WaitingFor(Primary(r), h) # {} => Awaited(r, h)'
  BY DEF WaitingFor, Awaited
<1>2. \A r \in Replicas : Worker(r) \in Stores
  BY StoresOf
<1> QED
  BY <1>1, <1>2, FetchKept

\* A sealed batch is its maker's own.
LEMMA SealFetches ==
    ASSUME BatchInv, BatchInv', FetchInv, NEW a \in Makers, NEW txs \in SUBSET (1 .. MaxTxs),
           seal(a, txs), UNCHANGED <<primaryVars, headers, lost>>
    PROVE  FetchInv'
<1> DEFINE b == [maker |-> a, txs |-> txs]
<1>1. b \in Batch /\ b.maker = a /\ Worker(a) \in Stores /\ a \in Replicas
  BY StoresOf, MakersAreReplicas DEF Batch
<1>2. /\ db'[Worker(a)] = db[Worker(a)] \cup {b}
      /\ \A s \in Stores : s # Worker(a) => db'[s] = db[s]
      /\ \A s \in Stores : DOMAIN reads'[s] = DOMAIN reads[s]
  BY <1>1, Writes DEF seal, BatchInv
<1>3. ReadsAnswered'
  BY <1>1, WriteAnswers DEF seal, FetchInv, BatchInv
<1>4. MakersKnown'
  BY <1>2, StoresOf DEF FetchInv, MakersKnown, primaryVars
<1>5. \A m \in wire' \ wire : MakerKnown(m)'
  BY DEF seal, MakerKnown, OwnBatch, Broadcast
<1>6. wire \subseteq wire'
  BY DEF seal
<1>7. \A r \in Replicas : \A c \in db'[Worker(r)] \ db[Worker(r)] : c.maker = r
  BY <1>1, <1>2, StoresOf
<1>8. UNCHANGED <<batch_requests, accepted, lost, headers>>
  BY DEF primaryVars
<1> QED
  BY <1>1, <1>2, <1>3, <1>4, <1>5, <1>6, <1>7, <1>8, FetchGrows, StoresOf

\* A header that comes is accepted, or what it misses is ordered.
LEMMA ProcessHeaderFetches ==
    ASSUME BatchInv, BatchInv', FetchInv, NEW r \in Replicas, NEW h \in headers,
           NEW others \in SUBSET wire, h.author # r,
           \A m \in wire \ others : m.type = "Header" /\ m.to = r /\ m.header = h,
           process_header(r, h, others)
    PROVE  FetchInv'
<1>1. UNCHANGED <<db, reads, digests, batch_requests, headers, lost>>
  BY DEF process_header, storeVars
<1>2. \/ /\ accepted' = [accepted EXCEPT ![r] = @ \cup {h}] /\ wire' = others
      \/ \E bs : /\ bs # {} /\ wire' = others \cup {SyncBatches(bs, h, r)}
                 /\ UNCHANGED accepted
  BY DEF process_header
<1>3. \A q \in Replicas : accepted[q] \subseteq accepted'[q]
  BY <1>2 DEF BatchInv, TypeOK
<1>4. ASSUME NEW m \in wire \ wire' PROVE m.type = "Header" /\ m.to = r /\ m.header = h
  BY <1>2
<1>5. Awaited(r, h)'
  <2>1. CASE accepted' = [accepted EXCEPT ![r] = @ \cup {h}]
    BY <2>1 DEF Awaited, BatchInv, TypeOK
  <2>2. CASE \E bs : SyncBatches(bs, h, r) \in wire'
    BY <2>2 DEF Awaited, Brings, SyncBatches
  <2> QED
    BY <1>2, <2>1, <2>2
<1>6. \A m \in wire' \ wire : MakerKnown(m)'
  BY <1>2 DEF MakerKnown, SyncBatches
<1>7. ReadsAnswered' /\ MakersKnown'
  BY <1>1 DEF FetchInv, ReadsAnswered, MakersKnown
<1>8. \A q \in Replicas : \A g : WaitingFor(Primary(q), g) # {} => Awaited(q, g)'
  BY <1>1 DEF WaitingFor, Awaited
<1>9. \A m \in wire \ wire', q \in Replicas :
          /\ \A b : ~AsksFor(m, q, b) /\ ~Tells(m, q, b) /\ ~Orders(m, q, b)
          /\ \A g : Brings(m, q, g) => Awaited(q, g)'
  BY <1>4, <1>5 DEF AsksFor, Tells, Orders, Brings
<1> QED
  BY <1>1, <1>3, <1>6, <1>7, <1>8, <1>9, FetchKept

\* A Processor stores the batch and has the notice on its way.
LEMMA ProcessBatchFetches ==
    ASSUME BatchInv, BatchInv', FetchInv, NEW r \in Replicas, ProcessBatch(r)
    PROVE  FetchInv'
<1>0. TypeOK
  BY DEF BatchInv
<1>1. PICK m \in wire :
          /\ m.to = r /\ m.type \in {"OwnBatch", "Broadcast", "Answer"}
          /\ Write(Worker(r), m.batch)
          /\ wire' = (wire \ {m}) \cup
                 {Notice(IF m.type = "OwnBatch" THEN "OurBatch" ELSE "OthersBatch", m.batch, r)}
  BY DEF ProcessBatch
<1>2. m.batch \in Batch /\ MakerKnown(m)
  BY <1>0, <1>1, Carries DEF TypeOK, BatchTypes, FetchInv
<1>3. /\ db'[Worker(r)] = db[Worker(r)] \cup {m.batch}
      /\ \A s \in Stores : s # Worker(r) => db'[s] = db[s]
      /\ \A s \in Stores : DOMAIN reads'[s] = DOMAIN reads[s]
  BY <1>0, <1>1, <1>2, Writes, StoresOf
<1>4. UNCHANGED <<digests, batch_requests, accepted, headers, lost>>
  BY DEF ProcessBatch, primaryVars
<1>5. ReadsAnswered'
  BY <1>0, <1>1, WriteAnswers, StoresOf DEF FetchInv
<1>6. MakersKnown'
  BY <1>3, <1>4, StoresOf DEF FetchInv, MakersKnown
<1>7. \A n \in wire' \ wire : MakerKnown(n)'
  <2>1. m.type = "OwnBatch" => m.batch.maker = r
    BY <1>1, <1>2 DEF MakerKnown
  <2> QED
    BY <1>1, <2>1 DEF MakerKnown, Notice
<1>8. ASSUME m.type # "OwnBatch" PROVE Announced(r, m.batch)'
  <2>1. Notice("OthersBatch", m.batch, r) \in wire'
    BY <1>1, <1>8
  <2>2. Tells(Notice("OthersBatch", m.batch, r), r, m.batch)
    BY DEF Tells, Notice
  <2> QED
    BY <2>1, <2>2 DEF Announced, Tells
<1>9. ASSUME NEW n \in wire \ wire', NEW q \in Replicas
      PROVE  /\ \A b : AsksFor(n, q, b) => b \in db'[Worker(q)] /\ Announced(q, b)'
             /\ \A b : ~Tells(n, q, b) /\ ~Orders(n, q, b)
             /\ \A h : ~Brings(n, q, h)
  <2>1. n = m
    BY <1>1
  <2> QED
    BY <1>1, <1>3, <1>8, <2>1 DEF AsksFor, Tells, Orders, Brings
<1>10. \A q \in Replicas : \A b \in db'[Worker(q)] \ db[Worker(q)] :
           b.maker # q => Announced(q, b)'
  <2>1. m.type = "OwnBatch" => m.batch.maker = r
    BY <1>1, <1>2 DEF MakerKnown
  <2> QED
    BY <1>3, <1>8, <2>1, StoresOf
<1>11. \A q \in Replicas : \A g : WaitingFor(Primary(q), g) # {} => Awaited(q, g)'
  BY <1>3, StoresOf DEF WaitingFor, Awaited
<1> QED
  BY <1>3, <1>4, <1>5, <1>6, <1>7, <1>9, <1>10, <1>11, FetchKept, StoresOf

\* A worker asks for what it has not and does not wait for.
LEMMA SynchronizeFetches ==
    ASSUME BatchInv, BatchInv', FetchInv, NEW r \in Replicas, SynchronizeBatches(r)
    PROVE  FetchInv'
<1> DEFINE s == Worker(r)
           fresh(m) == {b \in m.batches : <<"Synchronizer", b>> \notin DOMAIN reads[s]}
<1>0. TypeOK /\ s \in Stores
  BY StoresOf DEF BatchInv
<1>1. PICK m \in wire :
          /\ m.to = r /\ m.type = "Synchronize"
          /\ NotifyRead(s, "Synchronizer", fresh(m))
          /\ wire' = (wire \ {m}) \cup {BatchRequest(fresh(m) \ db[s], r, m.target)}
  BY DEF SynchronizeBatches
<1>2. \A b \in m.batches : b.maker = m.target /\ b.maker # r /\ Held(b)
  BY <1>1 DEF FetchInv, MakerKnown
<1>3. UNCHANGED <<db, digests, batch_requests, accepted, headers, lost>>
  BY DEF SynchronizeBatches, primaryVars
<1>4. /\ DOMAIN reads'[s] = DOMAIN reads[s] \cup ({"Synchronizer"} \X fresh(m))
      /\ \A t \in Stores : t # s => DOMAIN reads'[t] = DOMAIN reads[t]
  BY <1>0, <1>1, NotifyReads
<1>5. ReadsAnswered'
  BY <1>0, <1>1, <1>3, NotifyAnswers DEF FetchInv
<1>6. MakersKnown'
  BY <1>3, <1>4, StoresOf DEF FetchInv, MakersKnown
<1>7. \A n \in wire' \ wire : MakerKnown(n)'
  <2>1. \A b \in fresh(m) \ db[s] : b.maker = m.target /\ Held(b)'
    BY <1>2, <1>3 DEF Held
  <2> HIDE DEF fresh, s
  <2> QED
    BY <1>1, <2>1 DEF MakerKnown, BatchRequest
<1>8. ASSUME NEW b, Asked(r, b) PROVE Asked(r, b)'
  BY <1>1, <1>3, <1>8 DEF Asked, AsksFor, CutOff
<1>9. ASSUME NEW b, Announced(r, b) PROVE Announced(r, b)'
  BY <1>1, <1>3, <1>9 DEF Announced, Tells, CutOff
<1>10. ASSUME NEW b \in fresh(m) \ db[s] PROVE Asked(r, b)'
  <2>1. BatchRequest(fresh(m) \ db[s], r, m.target) \in wire'
    BY <1>1
  <2>2. AsksFor(BatchRequest(fresh(m) \ db[s], r, m.target), r, b)
    BY DEF AsksFor, BatchRequest
  <2> QED
    BY <2>1, <2>2 DEF Asked, AsksFor
<1>11. ASSUME NEW b \in m.batches PROVE Fetched(r, b)'
  <2>1. CASE b \in db[s]
    BY <1>2, <1>9, <2>1 DEF FetchInv, Fetched
  <2>2. CASE b \notin db[s] /\ b \in fresh(m)
    BY <1>10, <2>2 DEF Fetched
  <2>3. CASE b \notin db[s] /\ b \notin fresh(m)
    <3>1. Asked(r, b)
      <4> DEFINE x == <<"Synchronizer", b>>
      <4>1. x \in DOMAIN reads[s] /\ x[2] = b
        BY <2>3
      <4> HIDE DEF x
      <4> QED
        BY <2>3, <4>1 DEF FetchInv
    <3> QED
      BY <1>8, <3>1 DEF Fetched
  <2> QED
    BY <2>1, <2>2, <2>3
<1>12. ASSUME NEW n \in wire \ wire', NEW q \in Replicas
       PROVE  /\ \A b : ~AsksFor(n, q, b) /\ ~Tells(n, q, b)
              /\ \A b : Orders(n, q, b) => Fetched(q, b)'
              /\ \A h : ~Brings(n, q, h)
  <2>1. n = m
    BY <1>1
  <2> QED
    BY <1>1, <1>11, <2>1 DEF AsksFor, Tells, Orders, Brings
<1>13. \A q \in Replicas : \A x \in DOMAIN reads'[Worker(q)] \ DOMAIN reads[Worker(q)] :
           x[2] \in db'[Worker(q)] \/ Asked(q, x[2])'
  <2> SUFFICES ASSUME NEW q \in Replicas, NEW x \in DOMAIN reads'[Worker(q)] \ DOMAIN reads[Worker(q)]
               PROVE  x[2] \in db'[Worker(q)] \/ Asked(q, x[2])'
    OBVIOUS
  <2>1. q = r
    <3>1. Worker(q) # s => DOMAIN reads'[Worker(q)] = DOMAIN reads[Worker(q)]
      BY <1>4, StoresOf
    <3>2. Worker(q) = s
      BY <3>1
    <3> QED
      BY <3>2 DEF Worker
  <2>2. x \in {"Synchronizer"} \X fresh(m)
    BY <1>4, <2>1
  <2>3. x[2] \in fresh(m)
    BY <2>2
  <2> HIDE DEF fresh
  <2> QED
    BY <1>3, <1>10, <2>1, <2>3
<1>14. \A q \in Replicas : DOMAIN reads'[Primary(q)] = DOMAIN reads[Primary(q)]
  BY <1>4, StoresOf
<1>15. \A q \in Replicas : \A g : WaitingFor(Primary(q), g) # {} => Awaited(q, g)'
  BY <1>14 DEF WaitingFor, Awaited
<1> HIDE DEF s, fresh
<1> QED
  BY <1>3, <1>5, <1>6, <1>7, <1>12, <1>13, <1>14, <1>15, FetchKept

\* The maker has every batch it is asked for.
LEMMA HelpFetches ==
    ASSUME BatchInv, BatchInv', FetchInv, NEW r \in Replicas, Help(r)
    PROVE  FetchInv'
<1>1. PICK m \in wire :
          /\ m.to = r /\ m.type = "BatchRequest"
          /\ wire' = (wire \ {m}) \cup {Answer(b, m.from) : b \in m.batches \cap db[Worker(r)]}
  BY DEF Help
<1>2. \A b \in m.batches : b \in db[Worker(r)]
  BY <1>1 DEF FetchInv, MakerKnown, Held
<1>3. UNCHANGED <<db, reads, digests, batch_requests, accepted, headers, lost>>
  BY DEF Help, storeVars, primaryVars
<1>4. ReadsAnswered' /\ MakersKnown'
  BY <1>3 DEF FetchInv, ReadsAnswered, MakersKnown
<1>5. \A n \in wire' \ wire : MakerKnown(n)'
  BY <1>1 DEF MakerKnown, Answer
<1>6. ASSUME NEW b \in m.batches PROVE Asked(m.from, b)'
  <2>1. Answer(b, m.from) \in wire'
    BY <1>1, <1>2
  <2>2. AsksFor(Answer(b, m.from), m.from, b)
    BY DEF AsksFor, Answer
  <2> QED
    BY <2>1, <2>2 DEF Asked, AsksFor
<1>7. ASSUME NEW n \in wire \ wire', NEW q \in Replicas
      PROVE  /\ \A b : AsksFor(n, q, b) => Asked(q, b)'
             /\ \A b : ~Tells(n, q, b) /\ ~Orders(n, q, b)
             /\ \A h : ~Brings(n, q, h)
  <2>1. n = m
    BY <1>1
  <2> QED
    BY <1>1, <1>6, <2>1 DEF AsksFor, Tells, Orders, Brings
<1>8. \A q \in Replicas : \A g : WaitingFor(Primary(q), g) # {} => Awaited(q, g)'
  BY <1>3 DEF WaitingFor, Awaited
<1> QED
  BY <1>3, <1>4, <1>5, <1>7, <1>8, FetchKept

LEMMA MakeHeaderFetches ==
    ASSUME BatchInv, BatchInv', FetchInv, NEW a \in Makers, make_header(a)
    PROVE  FetchInv'
<1> DEFINE h == [author |-> a, payload |-> digests[a]]
<1>0. TypeOK /\ a \in Replicas
  BY MakersAreReplicas DEF BatchInv
<1>1. /\ headers' = headers \cup {h}
      /\ wire' = wire \cup {HeaderCopy(h, r) : r \in Replicas \ {a}}
      /\ digests' = [digests EXCEPT ![a] = {}]
  BY DEF make_header
<1>2. UNCHANGED <<db, reads, batch_requests, accepted, lost>>
  BY DEF make_header, storeVars
<1>3. ReadsAnswered'
  BY <1>2 DEF FetchInv, ReadsAnswered
<1>4. MakersKnown'
  <2>1. \A r \in Replicas : digests'[r] \subseteq digests[r]
    BY <1>0, <1>1 DEF TypeOK
  <2>2. \A b \in h.payload : b.maker = h.author
    BY <1>0 DEF FetchInv, MakersKnown
  <2> HIDE DEF h
  <2> QED
    BY <1>1, <1>2, <2>1, <2>2 DEF FetchInv, MakersKnown
<1>5. \A m \in wire' \ wire : MakerKnown(m)'
  BY <1>1 DEF MakerKnown, HeaderCopy
<1>6. ASSUME NEW r \in Replicas, NEW g \in headers' \ headers, g.author # r
      PROVE  Awaited(r, g)'
  <2>1. g = h /\ r # a
    BY <1>1, <1>6
  <2>2. HeaderCopy(h, r) \in wire'
    BY <1>1, <2>1
  <2>3. Brings(HeaderCopy(h, r), r, h)
    BY DEF Brings, HeaderCopy
  <2> HIDE DEF h
  <2> QED
    BY <2>1, <2>2, <2>3 DEF Awaited, Brings
<1>7. wire \subseteq wire'
  BY <1>1
<1> QED
  BY <1>2, <1>3, <1>4, <1>5, <1>6, <1>7, FetchGrows

LEMMA FinishFetches ==
    ASSUME BatchInv, BatchInv', FetchInv, NEW r \in Replicas, FinishBatch(r)
    PROVE  FetchInv'
<1>0. TypeOK /\ Worker(r) \in Stores
  BY StoresOf DEF BatchInv
<1>1. UNCHANGED <<db, digests, batch_requests, accepted, wire, headers, lost>>
  BY DEF FinishBatch, primaryVars
<1>2. PICK X : EndReads(Worker(r), X)
  BY DEF FinishBatch
<1>3. ReadsAnswered'
  BY <1>0, <1>1, <1>2, EndAnswers DEF FetchInv
<1>4. \A s \in Stores : DOMAIN reads'[s] \subseteq DOMAIN reads[s]
  BY <1>0, <1>2, ReadsEnd
<1>5. \A q \in Replicas : DOMAIN reads'[Primary(q)] = DOMAIN reads[Primary(q)]
  BY <1>0, <1>2, StoresOf DEF EndReads, TypeOK
<1>6. MakersKnown'
  BY <1>1, <1>5 DEF FetchInv, MakersKnown
<1> QED
  BY <1>1, <1>3, <1>4, <1>5, <1>6, FetchGrows

LEMMA NoticeFetches ==
    ASSUME BatchInv, BatchInv', FetchInv, NEW r \in Replicas, ReceiveNotice(r)
    PROVE  FetchInv'
<1>0. TypeOK
  BY DEF BatchInv
<1>1. PICK m \in wire :
          /\ m.to = r
          /\ \/ /\ m.type = "OurBatch"
                /\ digests' = [digests EXCEPT ![r] = @ \cup {m.batch}]
                /\ UNCHANGED storeVars
             \/ /\ m.type = "OthersBatch"
                /\ Write(Primary(r), m.batch)
                /\ UNCHANGED digests
          /\ wire' = wire \ {m}
  BY DEF ReceiveNotice
<1>2. m.batch \in Batch /\ MakerKnown(m)
  BY <1>0, <1>1, Carries DEF TypeOK, FetchInv, BatchTypes
<1>3. UNCHANGED <<batch_requests, accepted, headers, lost>>
  BY DEF ReceiveNotice
<1>4. /\ \A s \in Stores : DOMAIN reads'[s] = DOMAIN reads[s]
      /\ \A s \in Stores : db[s] \subseteq db'[s]
      /\ \A q \in Replicas : db'[Worker(q)] = db[Worker(q)]
      /\ m.type = "OthersBatch" => m.batch \in db'[Primary(r)]
      /\ ReadsAnswered'
  <2>1. CASE UNCHANGED storeVars /\ m.type = "OurBatch"
    BY <2>1 DEF storeVars, FetchInv, ReadsAnswered
  <2>2. CASE Write(Primary(r), m.batch)
    <3>1. ReadsAnswered'
      BY <1>0, <2>2, WriteAnswers, StoresOf DEF FetchInv
    <3> QED
      BY <1>0, <1>2, <2>2, <3>1, Writes, StoresOf
  <2> QED
    BY <1>1, <2>1, <2>2
<1>5. MakersKnown'
  <2>1. \A q \in Replicas : \A b \in digests'[q] : b.maker = q
    <3>1. CASE UNCHANGED digests
      BY <3>1 DEF FetchInv, MakersKnown
    <3>2. CASE m.type = "OurBatch" /\ digests' = [digests EXCEPT ![r] = @ \cup {m.batch}]
      <4>1. m.batch.maker = r
        BY <1>1, <1>2, <3>2 DEF MakerKnown
      <4> QED
        BY <1>0, <3>2, <4>1 DEF FetchInv, MakersKnown, TypeOK
    <3> QED
      BY <1>1, <3>1, <3>2
  <2> QED
    BY <1>3, <1>4, <2>1, StoresOf DEF FetchInv, MakersKnown
<1>6. ASSUME NEW n \in wire \ wire', NEW q \in Replicas
      PROVE  /\ \A b : ~AsksFor(n, q, b) /\ ~Orders(n, q, b)
             /\ \A b : Tells(n, q, b) => Announced(q, b)'
             /\ \A h : ~Brings(n, q, h)
  <2>1. n = m /\ m.type \in {"OurBatch", "OthersBatch"}
    BY <1>1
  <2> QED
    BY <1>1, <1>4, <2>1 DEF AsksFor, Tells, Orders, Brings, Announced
<1>7. \A q \in Replicas : \A g : WaitingFor(Primary(q), g) # {} => Awaited(q, g)'
  BY <1>4, StoresOf DEF WaitingFor, Awaited
<1>8. \A n \in wire' \ wire : MakerKnown(n)'
  BY <1>1
<1> QED
  BY <1>3, <1>4, <1>5, <1>6, <1>7, <1>8, FetchKept, StoresOf

LEMMA ReceiveHeaderFetches ==
    ASSUME BatchInv, BatchInv', FetchInv, NEW r \in Replicas,
           ReceiveHeader(r) \/ ReceiveHeaderAgain(r)
    PROVE  FetchInv'
<1>1. CASE ReceiveHeader(r)
  <2>1. PICK m \in wire :
            m.to = r /\ m.type = "Header" /\ process_header(r, m.header, wire \ {m})
    BY <1>1 DEF ReceiveHeader
  <2>2. m.header \in headers /\ m.header.author # r
    BY <2>1 DEF BatchInv, MessagesTrue, MessageTrue, FetchInv, MakerKnown
  <2> QED
    BY <2>1, <2>2, ProcessHeaderFetches
<1>2. CASE ReceiveHeaderAgain(r)
  <2>1. PICK h \in headers : WaitingFor(Primary(r), h) # {} /\ process_header(r, h, wire)
    BY <1>2 DEF ReceiveHeaderAgain
  <2>2. h.author # r
    BY <2>1 DEF WaitingFor, FetchInv, MakersKnown
  <2> QED
    BY <2>1, <2>2, ProcessHeaderFetches
<1> QED
  BY <1>1, <1>2

\* What a header waits for is ordered, or was before.
LEMMA SuspendFetches ==
    ASSUME BatchInv, BatchInv', FetchInv, NEW r \in Replicas, SuspendHeader(r)
    PROVE  FetchInv'
<1>0. TypeOK /\ Primary(r) \in Stores
  BY StoresOf DEF BatchInv
<1>1. PICK m \in wire :
          /\ m.to = r /\ m.type = "SyncBatches"
          /\ IF WaitingFor(Primary(r), m.header) # {}
             THEN /\ wire' = wire \ {m}
                  /\ UNCHANGED <<reads, batch_requests>>
             ELSE /\ NotifyRead(Primary(r), m.header, m.missing)
                  /\ batch_requests' = [batch_requests EXCEPT ![r] = @ \cup m.missing]
                  /\ wire' = (wire \ {m}) \cup RequestMissing(m.missing, m.header, r)
  BY DEF SuspendHeader
<1>2. UNCHANGED <<db, digests, accepted, headers, lost>>
  BY DEF SuspendHeader
<1> DEFINE h == m.header
           bs == m.missing
<1>3. /\ h \in headers /\ bs \subseteq h.payload /\ bs # {} /\ h.author # r
      /\ \A b \in bs : b.maker = h.author /\ Held(b)
  BY <1>1 DEF BatchInv, MessagesTrue, MessageTrue, KnownHeld, FetchInv, MakerKnown, MakersKnown
<1>4. ASSUME NEW n \in wire \ wire' PROVE n.type = "SyncBatches" /\ n.to = r /\ n.header = h
  BY <1>1
<1>5. CASE WaitingFor(Primary(r), h) # {}
  <2>1. wire' = wire \ {m} /\ UNCHANGED <<reads, batch_requests>>
    BY <1>1, <1>5
  <2>2. \A q \in Replicas : \A g : WaitingFor(Primary(q), g) # {} => Awaited(q, g)'
    BY <2>1 DEF WaitingFor, Awaited
  <2>3. ReadsAnswered' /\ MakersKnown'
    BY <1>2, <2>1 DEF FetchInv, ReadsAnswered, MakersKnown
  <2>4. \A n \in wire \ wire', q \in Replicas :
            /\ \A b : ~AsksFor(n, q, b) /\ ~Tells(n, q, b) /\ ~Orders(n, q, b)
            /\ \A g : Brings(n, q, g) => Awaited(q, g)'
    BY <1>4, <1>5, <2>2 DEF AsksFor, Tells, Orders, Brings
  <2>5. \A n \in wire' \ wire : MakerKnown(n)'
    BY <2>1
  <2> QED
    BY <1>2, <2>1, <2>2, <2>3, <2>4, <2>5, FetchKept
<1>6. CASE WaitingFor(Primary(r), h) = {}
  <2>1. /\ NotifyRead(Primary(r), h, bs)
        /\ batch_requests' = [batch_requests EXCEPT ![r] = @ \cup bs]
        /\ wire' = (wire \ {m}) \cup RequestMissing(bs, h, r)
    BY <1>1, <1>6
  <2> HIDE DEF h, bs
  <2>2. /\ DOMAIN reads'[Primary(r)] = DOMAIN reads[Primary(r)] \cup ({h} \X bs)
        /\ \A t \in Stores : t # Primary(r) => DOMAIN reads'[t] = DOMAIN reads[t]
    BY <1>0, <2>1, NotifyReads
  <2>3. ReadsAnswered'
    BY <1>0, <1>2, <2>1, NotifyAnswers DEF FetchInv
  <2>4. ASSUME NEW q \in Replicas, q # r
        PROVE  /\ DOMAIN reads'[Primary(q)] = DOMAIN reads[Primary(q)]
               /\ batch_requests'[q] = batch_requests[q]
    BY <1>0, <2>1, <2>2, <2>4, StoresOf DEF TypeOK
  <2>5. \A q \in Replicas : DOMAIN reads'[Worker(q)] = DOMAIN reads[Worker(q)]
    BY <2>2, StoresOf
  <2>6. MakersKnown'
    BY <1>2, <1>3, <2>2, <2>4 DEF FetchInv, MakersKnown
  <2>7. \A n \in wire' \ wire : MakerKnown(n)'
    <3>1. \A b \in bs : b.maker = h.author /\ Held(b)'
      BY <1>2, <1>3 DEF Held
    <3> QED
      BY <1>3, <2>1, <3>1 DEF RequestMissing, MakerKnown, Synchronize
  <2>8. \A q \in Replicas : \A g : WaitingFor(Primary(q), g) # {} => Awaited(q, g)'
    BY <2>2, <2>4 DEF WaitingFor, Awaited
  <2>9. Awaited(r, h)'
    <3>1. PICK b \in bs : TRUE
      BY <1>3
    <3>2. <<h, b>> \in WaitingFor(Primary(r), h)'
      BY <2>2, <3>1 DEF WaitingFor
    <3> QED
      BY <3>2 DEF Awaited
  <2>10. \A n \in wire \ wire', q \in Replicas :
             /\ \A b : ~AsksFor(n, q, b) /\ ~Tells(n, q, b) /\ ~Orders(n, q, b)
             /\ \A g : Brings(n, q, g) => Awaited(q, g)'
    BY <1>4, <2>9 DEF AsksFor, Tells, Orders, Brings
  <2>11. ASSUME NEW b, Fetched(r, b) PROVE Fetched(r, b)'
    <3>1. \A n \in wire : n.type # "SyncBatches" => n \in wire'
      BY <1>1, <2>1
    <3> QED
      BY <1>2, <2>11, <3>1 DEF Fetched, Asked, Announced, AsksFor, Tells, Orders, CutOff
  <2>12. ASSUME NEW b \in bs PROVE Fetched(r, b)'
    <3>1. CASE b \in batch_requests[r]
      BY <2>11, <3>1 DEF FetchInv
    <3>2. CASE b \notin batch_requests[r]
      <4> DEFINE n == Synchronize(bs \ batch_requests[r], h.author, r)
      <4>1. n \in wire'
        BY <2>1, <3>2 DEF RequestMissing
      <4>2. Orders(n, r, b)
        BY <3>2 DEF Orders, Synchronize
      <4> HIDE DEF n
      <4> QED
        BY <4>1, <4>2 DEF Fetched, Orders
    <3> QED
      BY <3>1, <3>2
  <2>13. \A q \in Replicas : \A b \in batch_requests'[q] \ batch_requests[q] : Fetched(q, b)'
    BY <1>0, <2>1, <2>12 DEF TypeOK
  <2>14. ASSUME NEW q \in Replicas, NEW x \in DOMAIN reads'[Primary(q)] \ DOMAIN reads[Primary(q)]
         PROVE  Fetched(q, x[2])'
    <3>1. q = r
      BY <2>4
    <3>2. x[2] \in bs
      BY <2>2, <3>1
    <3> QED
      BY <2>12, <3>1, <3>2
  <2> QED
    BY <1>2, <2>3, <2>5, <2>6, <2>7, <2>8, <2>10, <2>13, <2>14, FetchKept
<1> QED
  BY <1>5, <1>6

LEMMA ResumeFetches ==
    ASSUME BatchInv, BatchInv', FetchInv, NEW r \in Replicas, ResumeHeader(r)
    PROVE  FetchInv'
<1>0. TypeOK /\ Primary(r) \in Stores
  BY StoresOf DEF BatchInv
<1>1. PICK h \in {x[1] : x \in DOMAIN reads[Primary(r)]} :
          /\ EndReads(Primary(r), WaitingFor(Primary(r), h))
          /\ batch_requests' = [batch_requests EXCEPT ![r] = @ \ h.payload]
          /\ wire' = wire \cup {HeaderCopy(h, r)}
  BY DEF ResumeHeader
<1>2. UNCHANGED <<db, digests, accepted, headers, lost>>
  BY DEF ResumeHeader
<1>3. /\ DOMAIN reads'[Primary(r)] = DOMAIN reads[Primary(r)] \ WaitingFor(Primary(r), h)
      /\ \A t \in Stores : t # Primary(r) => DOMAIN reads'[t] = DOMAIN reads[t]
  BY <1>0, <1>1 DEF EndReads, TypeOK
<1>4. ReadsAnswered'
  BY <1>0, <1>1, <1>2, EndAnswers DEF FetchInv
<1>5. h.author # r
  BY <1>1 DEF FetchInv, MakersKnown
<1>6. MakersKnown'
  BY <1>2, <1>3, StoresOf DEF FetchInv, MakersKnown
<1>7. \A n \in wire' \ wire : MakerKnown(n)'
  BY <1>1, <1>5 DEF MakerKnown, HeaderCopy
<1>8. Awaited(r, h)'
  <2>1. HeaderCopy(h, r) \in wire'
    BY <1>1
  <2>2. Brings(HeaderCopy(h, r), r, h)
    BY DEF Brings, HeaderCopy
  <2> QED
    BY <2>1, <2>2 DEF Awaited, Brings
<1>9. ASSUME NEW q \in Replicas, NEW g, WaitingFor(Primary(q), g) # {} PROVE Awaited(q, g)'
  <2>1. CASE q = r /\ g = h
    BY <1>8, <2>1
  <2>2. CASE ~(q = r /\ g = h)
    <3>1. PICK x \in WaitingFor(Primary(q), g) : TRUE
      BY <1>9
    <3>2. x \in WaitingFor(Primary(q), g)'
      BY <1>3, <2>2, <3>1, StoresOf DEF WaitingFor
    <3> QED
      BY <3>2 DEF Awaited
  <2> QED
    BY <2>1, <2>2
<1>10. \A q \in Replicas : batch_requests'[q] \subseteq batch_requests[q]
  BY <1>0, <1>1 DEF TypeOK
<1>11. \A q \in Replicas : /\ DOMAIN reads'[Primary(q)] \subseteq DOMAIN reads[Primary(q)]
                           /\ DOMAIN reads'[Worker(q)] = DOMAIN reads[Worker(q)]
  BY <1>3, StoresOf
<1> QED
  BY <1>1, <1>2, <1>4, <1>6, <1>7, <1>9, <1>10, <1>11, FetchKept

\* What is lost cuts the replica off.
LEMMA LoseFetches ==
    ASSUME BatchInv, BatchInv', FetchInv, Lose
    PROVE  FetchInv'
<1>1. PICK m \in wire : m.type \in Lossy /\ wire' = wire \ {m} /\ lost' = lost \cup {m}
  BY DEF Lose
<1>2. UNCHANGED <<db, reads, digests, batch_requests, accepted, headers>>
  BY DEF Lose, storeVars, primaryVars
<1>3. ReadsAnswered' /\ MakersKnown'
  BY <1>2 DEF FetchInv, ReadsAnswered, MakersKnown
<1>4. ASSUME NEW n \in wire \ wire', NEW q \in Replicas
      PROVE  /\ \A b : AsksFor(n, q, b) => Asked(q, b)'
             /\ \A b : Tells(n, q, b) => Announced(q, b)'
             /\ \A b : ~Orders(n, q, b)
             /\ \A h : ~Brings(n, q, h)
  <2>1. n \in lost' /\ n.type \in Lossy
    BY <1>1
  <2> QED
    BY <2>1 DEF Lossy, AsksFor, Tells, Orders, Brings, Asked, Announced, CutOff
<1>5. \A q \in Replicas : \A g : WaitingFor(Primary(q), g) # {} => Awaited(q, g)'
  BY <1>2 DEF WaitingFor, Awaited
<1>6. \A n \in wire' \ wire : MakerKnown(n)'
  BY <1>1
<1> QED
  BY <1>1, <1>2, <1>3, <1>4, <1>5, <1>6, FetchKept

LEMMA FetchStep ==
    ASSUME BatchInv, FetchInv, [Next]_vars
    PROVE  FetchInv'
<1>0. BatchInv' /\ TypeOK
  BY InvStep DEF BatchInv
<1> USE <1>0
<1>1. ASSUME UNCHANGED <<storeVars, primaryVars, wire, lost, headers>>
      PROVE  FetchInv'
  <2>1. UNCHANGED <<db, reads, digests, batch_requests, accepted, wire, lost, headers>>
    BY <1>1 DEF storeVars, primaryVars
  <2>2. ReadsAnswered' /\ MakersKnown'
    BY <2>1 DEF FetchInv, ReadsAnswered, MakersKnown
  <2> QED
    BY <2>1, <2>2, FetchGrows
<1>2. ASSUME NEW a \in Makers, TransactionArrives(a)
      PROVE  FetchInv'
  <2> DEFINE txs == current_batch[a] \cup {arrived[a] + 1}
  <2>1. txs \in SUBSET (1 .. MaxTxs)
    BY <1>2, BatchesAssumption DEF BatchesAssumption, TransactionArrives, TypeOK
  <2>2. CASE seal(a, txs)
    BY <1>2, <2>1, <2>2, SealFetches DEF TransactionArrives
  <2>3. CASE UNCHANGED <<storeVars, wire>>
    BY <1>1, <1>2, <2>3 DEF TransactionArrives
  <2> QED
    BY <1>2, <2>2, <2>3 DEF TransactionArrives
<1>3. ASSUME NEW a \in Makers, BatchTimer(a)
      PROVE  FetchInv'
  <2>1. current_batch[a] \in SUBSET (1 .. MaxTxs)
    BY DEF TypeOK
  <2> QED
    BY <1>3, <2>1, SealFetches DEF BatchTimer
<1>4. ASSUME NEW a \in Makers, SetBatchSize(a) \/ ToggleAsynchrony(a)
      PROVE  FetchInv'
  BY <1>1, <1>4 DEF SetBatchSize, ToggleAsynchrony
<1>5. CASE UNCHANGED vars
  BY <1>1, <1>5 DEF vars
<1> QED
  BY <1>2, <1>3, <1>4, <1>5, MakeHeaderFetches, ProcessBatchFetches, SynchronizeFetches,
     FinishFetches, HelpFetches, NoticeFetches, ReceiveHeaderFetches, SuspendFetches,
     ResumeFetches, LoseFetches
  DEF Next

LEMMA FetchInit ==
    ASSUME Init
    PROVE  FetchInv
<1>1. \A s \in Stores : db[s] = {} /\ DOMAIN reads[s] = {}
  BY DEF Init
<1>2. \A r \in Replicas : digests[r] = {} /\ batch_requests[r] = {}
  BY DEF Init
<1> QED
  BY <1>1, <1>2, StoresOf DEF Init, FetchInv, ReadsAnswered, MakersKnown

LEMMA FetchInvariant == Spec => [](BatchInv /\ FetchInv)
<1>1. Init => BatchInv /\ FetchInv
  BY InvInit, FetchInit
<1>2. BatchInv /\ FetchInv /\ [Next]_vars => BatchInv' /\ FetchInv'
  BY InvStep, FetchStep
<1> QED
  BY <1>1, <1>2, PTL DEF Spec

\* A header of another is accepted, is coming, or waits; and then every batch
\* it waits for is there, is under way in some form, or was cut off.
HeadersGoOn ==
    \A r \in Replicas, h \in headers :
        h.author # r =>
            \/ h \in accepted[r]
            \/ \E m \in wire : Brings(m, r, h)
            \/ /\ WaitingFor(Primary(r), h) # {}
               /\ \A x \in WaitingFor(Primary(r), h) :
                      \/ reads[Primary(r)][x] = "answered"
                      \/ CutOff(r, x[2])
                      \/ \E m \in wire : \/ AsksFor(m, r, x[2])
                                         \/ Tells(m, r, x[2])
                                         \/ Orders(m, r, x[2])

(***************************************************************************)
(* A header of another replica is never stuck: the HeaderWaiter forgets no *)
(* header, and each batch that one waits for is ordered, asked for,        *)
(* answered or announced, unless a message that is sent once was lost.     *)
(* The safety side of SuspendedHeadersResume.                              *)
(***************************************************************************)
THEOREM NoHeaderIsStuck == Spec => []HeadersGoOn
<1>1. ASSUME BatchInv, FetchInv PROVE HeadersGoOn
  <2> SUFFICES ASSUME NEW r \in Replicas, NEW h \in headers,
                      NEW x \in WaitingFor(Primary(r), h)
               PROVE  \/ reads[Primary(r)][x] = "answered"
                      \/ CutOff(r, x[2])
                      \/ \E m \in wire : \/ AsksFor(m, r, x[2])
                                         \/ Tells(m, r, x[2])
                                         \/ Orders(m, r, x[2])
    BY <1>1 DEF FetchInv, Awaited, HeadersGoOn
  <2>1. x \in DOMAIN reads[Primary(r)] /\ Primary(r) \in Stores
    BY StoresOf DEF WaitingFor
  <2>2. Fetched(r, x[2])
    BY <1>1, <2>1 DEF FetchInv
  <2>3. x[2] \in db[Primary(r)] => reads[Primary(r)][x] = "answered"
    BY <1>1, <2>1 DEF FetchInv, ReadsAnswered
  <2> QED
    BY <2>2, <2>3 DEF Fetched, Asked, Announced
<1> QED
  BY <1>1, FetchInvariant, PTL

(***************************************************************************)
(* Where a transaction that reached a worker is.                           *)
(***************************************************************************)
Carrier(m, a, t) ==
    m.type \in {"OwnBatch", "OurBatch"} /\ m.to = a /\ t \in m.batch.txs

Kept(a, t) ==
    \/ t \in current_batch[a]
    \/ \E m \in wire : Carrier(m, a, t)
    \/ \E b \in digests[a] : b.maker = a /\ t \in b.txs
    \/ \E h \in headers : \E b \in h.payload : b.maker = a /\ t \in b.txs
    \/ \E m \in lost : m.type = "OurBatch" /\ m.batch.maker = a /\ t \in m.batch.txs

TransactionsKept == \A a \in Makers : \A t \in 1 .. arrived[a] : Kept(a, t)

\* A step that leaves all of these alone, or adds to them.
LEMMA KeptOn ==
    ASSUME NEW a \in Makers, NEW t, Kept(a, t),
           current_batch[a] \subseteq current_batch'[a],
           digests[a] \subseteq digests'[a],
           headers \subseteq headers', lost \subseteq lost',
           \A m \in wire \ wire' : Carrier(m, a, t) => Kept(a, t)'
    PROVE  Kept(a, t)'
<1>1. CASE \E m \in wire : Carrier(m, a, t)
  BY <1>1 DEF Kept, Carrier
<1> QED
  BY <1>1 DEF Kept

\* What is sealed is on its way to the Processor.
LEMMA KeptSealed ==
    ASSUME NEW a \in Makers, NEW c \in Makers, NEW t, NEW txs, TypeOK, seal(a, txs),
           UNCHANGED <<primaryVars, headers, lost>>,
           c = a => current_batch[a] \subseteq txs,
           Kept(c, t) \/ (c = a /\ t \in txs)
    PROVE  Kept(c, t)'
<1> DEFINE b == [maker |-> a, txs |-> txs]
<1>1. OwnBatch(b) \in wire' /\ wire \subseteq wire'
  BY DEF seal
<1>2. t \in txs => Carrier(OwnBatch(b), a, t)
  BY DEF Carrier, OwnBatch
<1>3. CASE c = a /\ t \in txs
  BY <1>1, <1>2, <1>3 DEF Kept, Carrier
<1>4. CASE ~(c = a /\ t \in txs)
  <2>1. t \in current_batch[c] => t \in current_batch'[c]
    BY <1>4 DEF seal, TypeOK
  <2>2. Kept(c, t)
    BY <1>4
  <2> QED
    BY <1>1, <2>1, <2>2 DEF Kept, Carrier, primaryVars
<1> QED
  BY <1>3, <1>4

LEMMA KeptStep ==
    ASSUME BatchInv, FetchInv, TransactionsKept, [Next]_vars
    PROVE  TransactionsKept'
<1>0. TypeOK
  BY DEF BatchInv
<1> SUFFICES ASSUME NEW c \in Makers, NEW t \in 1 .. arrived'[c] PROVE Kept(c, t)'
  BY DEF TransactionsKept
<1>1. CASE t \in 1 .. arrived[c]
  <2>0. Kept(c, t) /\ c \in Replicas
    BY <1>1, MakersAreReplicas DEF TransactionsKept
  <2>1. ASSUME UNCHANGED <<current_batch, digests>>, headers \subseteq headers', lost \subseteq lost',
               \A m \in wire \ wire' : m.type \notin {"OwnBatch", "OurBatch"}
        PROVE  Kept(c, t)'
    BY <2>0, <2>1, KeptOn DEF Carrier
  <2>2. ASSUME NEW a \in Makers, TransactionArrives(a)
        PROVE  Kept(c, t)'
    <3> DEFINE txs == current_batch[a] \cup {arrived[a] + 1}
    <3>1. CASE seal(a, txs)
      BY <1>0, <2>0, <2>2, <3>1, KeptSealed DEF TransactionArrives
    <3>2. CASE current_batch' = [current_batch EXCEPT ![a] = txs] /\ UNCHANGED wire
      BY <1>0, <2>0, <2>2, <3>2, KeptOn DEF TransactionArrives, TypeOK, primaryVars
    <3> QED
      BY <2>2, <3>1, <3>2 DEF TransactionArrives
  <2>3. ASSUME NEW a \in Makers, BatchTimer(a)
        PROVE  Kept(c, t)'
    BY <1>0, <2>0, <2>3, KeptSealed DEF BatchTimer
  <2>4. ASSUME NEW a \in Makers, make_header(a)
        PROVE  Kept(c, t)'
    <3> DEFINE h == [author |-> a, payload |-> digests[a]]
    <3>1. /\ headers' = headers \cup {h} /\ digests' = [digests EXCEPT ![a] = {}]
          /\ wire \subseteq wire' /\ UNCHANGED <<current_batch, lost>>
      BY <2>4 DEF make_header, makerVars
    <3>2. CASE \E b \in digests[c] : b.maker = c /\ t \in b.txs
      <4>1. CASE c = a
        <5>1. h \in headers' /\ h.payload = digests[c]
          BY <3>1, <4>1
        <5> HIDE DEF h
        <5> QED
          BY <3>2, <5>1 DEF Kept
      <4>2. CASE c # a
        BY <1>0, <2>0, <3>1, <3>2, <4>2 DEF Kept, TypeOK
      <4> QED
        BY <4>1, <4>2
    <3> QED
      BY <2>0, <3>1, <3>2 DEF Kept, Carrier
  <2>5. ASSUME NEW r \in Replicas, ProcessBatch(r)
        PROVE  Kept(c, t)'
    <3>1. PICK m \in wire :
              /\ m.to = r
              /\ wire' = (wire \ {m}) \cup
                     {Notice(IF m.type = "OwnBatch" THEN "OurBatch" ELSE "OthersBatch",
                             m.batch, r)}
              /\ m.type \in {"OwnBatch", "Broadcast", "Answer"}
      BY <2>5 DEF ProcessBatch
    <3>2. ASSUME Carrier(m, c, t) PROVE Kept(c, t)'
      <4>1. Notice("OurBatch", m.batch, r) \in wire'
        BY <3>1, <3>2 DEF Carrier
      <4>2. Carrier(Notice("OurBatch", m.batch, r), c, t)
        BY <3>1, <3>2 DEF Carrier, Notice
      <4> QED
        BY <4>1, <4>2 DEF Kept, Carrier
    <3> QED
      BY <2>0, <2>5, <3>1, <3>2, KeptOn DEF ProcessBatch, makerVars, primaryVars
  <2>6. ASSUME NEW r \in Replicas, ReceiveNotice(r)
        PROVE  Kept(c, t)'
    <3>1. PICK m \in wire :
              /\ m.to = r
              /\ \/ /\ m.type = "OurBatch"
                    /\ digests' = [digests EXCEPT ![r] = @ \cup {m.batch}]
                 \/ m.type = "OthersBatch" /\ UNCHANGED digests
              /\ wire' = wire \ {m}
      BY <2>6 DEF ReceiveNotice
    <3>2. digests[c] \subseteq digests'[c]
      BY <1>0, <2>0, <3>1 DEF TypeOK
    <3>3. ASSUME Carrier(m, c, t) PROVE Kept(c, t)'
      <4>1. m.batch \in digests'[c]
        BY <1>0, <2>0, <3>1, <3>3 DEF Carrier, TypeOK
      <4>2. m.batch.maker = c /\ t \in m.batch.txs
        BY <3>1, <3>3 DEF Carrier, FetchInv, MakerKnown
      <4> QED
        BY <4>1, <4>2 DEF Kept
    <3> QED
      BY <2>0, <2>6, <3>1, <3>2, <3>3, KeptOn DEF ReceiveNotice, makerVars
  <2>7. CASE Lose
    <3>1. PICK m \in wire : wire' = wire \ {m} /\ lost' = lost \cup {m} /\ m.type \in Lossy
      BY <2>7 DEF Lose
    <3>2. ASSUME Carrier(m, c, t) PROVE Kept(c, t)'
      <4>1. m.type = "OurBatch" /\ m.batch.maker = c /\ t \in m.batch.txs
        BY <3>1, <3>2 DEF Carrier, Lossy, FetchInv, MakerKnown
      <4> QED
        BY <3>1, <4>1 DEF Kept
    <3> QED
      BY <2>0, <2>7, <3>1, <3>2, KeptOn DEF Lose, makerVars, primaryVars
  <2>8. ASSUME NEW a \in Makers, SetBatchSize(a) \/ ToggleAsynchrony(a)
        PROVE  Kept(c, t)'
    BY <2>1, <2>8 DEF SetBatchSize, ToggleAsynchrony, primaryVars
  <2>9. ASSUME NEW r \in Replicas, SynchronizeBatches(r) \/ FinishBatch(r) \/ Help(r)
        PROVE  Kept(c, t)'
    <3>1. UNCHANGED <<current_batch, digests, headers, lost>>
      BY <2>9 DEF SynchronizeBatches, FinishBatch, Help, makerVars, primaryVars
    <3>2. \A m \in wire \ wire' : m.type \in {"Synchronize", "BatchRequest"}
      BY <2>9 DEF SynchronizeBatches, FinishBatch, Help
    <3> QED
      BY <2>1, <3>1, <3>2
  <2>10. ASSUME NEW r \in Replicas, SuspendHeader(r) \/ ResumeHeader(r)
         PROVE  Kept(c, t)'
    <3>1. UNCHANGED <<current_batch, digests, headers, lost>>
      BY <2>10 DEF SuspendHeader, ResumeHeader, makerVars
    <3>2. \A m \in wire \ wire' : m.type = "SyncBatches"
      BY <2>10 DEF SuspendHeader, ResumeHeader
    <3> QED
      BY <2>1, <3>1, <3>2
  <2>11. ASSUME NEW r \in Replicas, ReceiveHeader(r) \/ ReceiveHeaderAgain(r)
         PROVE  Kept(c, t)'
    <3>1. PICK h, others : /\ process_header(r, h, others)
                           /\ \A m \in wire \ others : m.type = "Header"
      <4>1. CASE ReceiveHeader(r)
        <5>1. PICK m \in wire : m.type = "Header" /\ process_header(r, m.header, wire \ {m})
          BY <4>1 DEF ReceiveHeader
        <5>2. \A n \in wire \ (wire \ {m}) : n.type = "Header"
          BY <5>1
        <5> QED
          BY <5>1, <5>2
      <4>2. CASE ReceiveHeaderAgain(r)
        <5>1. PICK h : process_header(r, h, wire)
          BY <4>2 DEF ReceiveHeaderAgain
        <5>2. \A n \in wire \ wire : n.type = "Header"
          OBVIOUS
        <5> QED
          BY <5>1, <5>2
      <4> QED
        BY <2>11, <4>1, <4>2
    <3> QED
      BY <2>1, <3>1 DEF process_header, makerVars
  <2>12. CASE UNCHANGED vars
    BY <2>1, <2>12 DEF vars, makerVars, primaryVars
  <2> QED
    BY <2>2, <2>3, <2>4, <2>5, <2>6, <2>7, <2>8, <2>9, <2>10, <2>11, <2>12 DEF Next
<1>2. CASE t \notin 1 .. arrived[c]
  <2>1. ASSUME ~TransactionArrives(c) PROVE FALSE
    <3>1. arrived'[c] = arrived[c]
      <4>1. ASSUME NEW a \in Makers, TransactionArrives(a) PROVE arrived'[c] = arrived[c]
        BY <1>0, <2>1, <4>1 DEF TransactionArrives, TypeOK
      <4>2. ASSUME UNCHANGED arrived PROVE arrived'[c] = arrived[c]
        BY <4>2
      <4> QED
        BY <4>1, <4>2
        DEF Next, vars, makerVars, BatchTimer, make_header, SetBatchSize, ToggleAsynchrony,
            ProcessBatch, SynchronizeBatches, FinishBatch, Help, ReceiveNotice, ReceiveHeader,
            ReceiveHeaderAgain, process_header, SuspendHeader, ResumeHeader, Lose
    <3> QED
      BY <1>2, <3>1
  <2>2. TransactionArrives(c)
    BY <2>1
  <2> DEFINE txs == current_batch[c] \cup {arrived[c] + 1}
  <2>3. t = arrived[c] + 1
    BY <1>0, <1>2, <2>2 DEF TransactionArrives, TypeOK
  <2>4. CASE seal(c, txs)
    BY <1>0, <2>2, <2>3, <2>4, KeptSealed DEF TransactionArrives
  <2>5. CASE current_batch' = [current_batch EXCEPT ![c] = txs]
    BY <1>0, <2>3, <2>5 DEF Kept, TypeOK
  <2> QED
    BY <2>2, <2>4, <2>5 DEF TransactionArrives
<1> QED
  BY <1>1, <1>2

(***************************************************************************)
(* A transaction that reached a worker is in its current batch, in a batch *)
(* on its way to the Proposer, or in a header's payload, unless the notice *)
(* to the primary was lost.  The safety side of TransactionsAreProposed.   *)
(***************************************************************************)
THEOREM NoTransactionIsDropped == Spec => []TransactionsKept
<1>1. Init => TransactionsKept
  BY DEF Init, TransactionsKept
<1>2. BatchInv /\ FetchInv /\ TransactionsKept /\ [Next]_vars => TransactionsKept'
  BY KeptStep
<1> QED
  BY <1>1, <1>2, FetchInvariant, PTL DEF Spec
=============================================================================
