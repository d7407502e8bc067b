-------------------------- MODULE HeaderSyncProofs --------------------------
(***************************************************************************)
(* Theorems about HeaderSync, for every number of lanes and slots, every   *)
(* set of messages, with and without fast sync and optimistic tips.        *)
(***************************************************************************)
EXTENDS HeaderSync, TLAPS

(***************************************************************************)
(* The inductive invariant.  Types says of the variables what the rest     *)
(* needs.  CommitsWait follows a Commit through the HeaderWaiter: a tip    *)
(* of its cut is stored, or what holds the Commit waits for the tip.       *)
(* HeightsOfSlots says how far the Committer has gone along each lane.     *)
(***************************************************************************)
Commands ==
    [type : {"SyncBatches"}, header : Headers]
    \cup [type : {"SyncParent"}, header : Headers, lower : Int]
    \cup [type : {"SyncProposals"}, message : Messages,
          missing : UNION {[D -> Int] : D \in SUBSET Headers}]

Types ==
    /\ cut \in [Slots -> [Lanes -> 0 .. MaxHeight]]
    /\ unread \subseteq Messages
    /\ last_fast_sync_heights \in [Lanes -> Int]
    /\ commands \in Seq(Commands)
    /\ waiting \subseteq [message : Messages, on : SUBSET Headers, held : BOOLEAN]
    /\ loop_messages \subseteq Messages
    /\ log \subseteq Slots
    /\ last_executed_slot \in 0 .. MaxSlot
    /\ last_executed_heights \in [Lanes -> 0 .. MaxHeight]

CommitOfCommand(c) ==
    c.type = "SyncProposals" /\ c.message.kind = "Commit"
      => Cut(c.message) \subseteq store \cup DOMAIN c.missing

CommitsWait ==
    /\ \A i \in 1 .. Len(commands) : CommitOfCommand(commands[i])
    /\ \A w \in waiting :
         w.message.kind = "Commit" => Cut(w.message) \subseteq store \cup w.on
    /\ \A m \in loop_messages : m.kind = "Commit" => Cut(m) \subseteq store

Tips(s) == {x \in Headers : x[2] = cut[s][x[1]]}

TipsOfLog == \A s \in log : Tips(s) \subseteq store

HeightsOfSlots ==
    /\ \A x \in Headers : x \in Log!Covered(cut, last_executed_slot)
                            <=> x[2] <= last_executed_heights[x[1]]
    /\ delivered = [x \in Headers |->
                      IF x \in Log!Covered(cut, last_executed_slot) THEN 1 ELSE 0]

SyncInv == Types /\ StoreIsClosed /\ CommitsWait /\ TipsOfLog /\ HeightsOfSlots
-----------------------------------------------------------------------------
LEMMA Constants ==
    /\ MaxHeight \in Nat /\ MaxSlot \in Nat
    /\ Slots \subseteq Nat
    /\ \A m \in Messages : m.kind \in {"Prepare", "Confirm", "Commit"} /\ m.slot \in Slots
    /\ \A x \in Headers : x[1] \in Lanes /\ x[2] \in 1 .. MaxHeight /\ x = <<x[1], x[2]>>
BY HeaderSyncAssumption DEF Slots, Headers

\* A command that is sent, and one that is taken, leave the others as they are.
LEMMA SendCommand ==
    ASSUME commands \in Seq(Commands), NEW c \in Commands,
           commands' = Append(commands, c),
           UNCHANGED cut, store \subseteq store',
           \A i \in 1 .. Len(commands) : CommitOfCommand(commands[i]),
           CommitOfCommand(c)
    PROVE  /\ commands' \in Seq(Commands)
           /\ \A i \in 1 .. Len(commands') : CommitOfCommand(commands[i])'
<1>1. commands' \in Seq(Commands)
  OBVIOUS
<1>2. SUFFICES ASSUME NEW i \in 1 .. Len(commands')
               PROVE  CommitOfCommand(commands[i])'
  BY <1>1
<1>3. CASE i \in 1 .. Len(commands)
  <2>1. commands'[i] = commands[i] /\ CommitOfCommand(commands[i])
    BY <1>3
  <2> QED
    BY <2>1 DEF CommitOfCommand, Cut
<1>4. CASE i = Len(commands) + 1
  <2>1. commands'[i] = c
    BY <1>4
  <2> QED
    BY <2>1 DEF CommitOfCommand, Cut
<1> QED
  BY <1>3, <1>4, <1>2

LEMMA TakeCommand ==
    ASSUME commands \in Seq(Commands), commands # <<>>,
           commands' = Tail(commands),
           UNCHANGED <<cut, store>>,
           \A i \in 1 .. Len(commands) : CommitOfCommand(commands[i])
    PROVE  /\ commands' \in Seq(Commands)
           /\ \A i \in 1 .. Len(commands') : CommitOfCommand(commands[i])'
           /\ Head(commands) \in Commands /\ CommitOfCommand(Head(commands))
<1>1. /\ commands' \in Seq(Commands)
      /\ Len(commands') = Len(commands) - 1
      /\ Head(commands) \in Commands /\ Head(commands) = commands[1] /\ Len(commands) > 0
  OBVIOUS
<1>2. ASSUME NEW i \in 1 .. Len(commands')
      PROVE  CommitOfCommand(commands[i])'
  <2>1. i + 1 \in 1 .. Len(commands) /\ commands'[i] = commands[i + 1]
    BY <1>1
  <2> QED
    BY <2>1 DEF CommitOfCommand, Cut
<1> QED
  BY <1>1, <1>2

\* When only the store grows, nothing is lost.
LEMMA SameCommands ==
    ASSUME commands \in Seq(Commands), UNCHANGED <<commands, cut>>, store \subseteq store',
           \A i \in 1 .. Len(commands) : CommitOfCommand(commands[i])
    PROVE  /\ commands' \in Seq(Commands)
           /\ \A i \in 1 .. Len(commands') : CommitOfCommand(commands[i])'
BY DEF CommitOfCommand, Cut
-----------------------------------------------------------------------------
\* What a header does: a stored header has its parent, and no Commit is touched.
LEMMA HeaderStep ==
    ASSUME SyncInv, NEW x \in Headers, process_header(x)
    PROVE  /\ store \subseteq store'
           /\ StoreIsClosed'
           /\ last_fast_sync_heights' \in [Lanes -> Int]
           /\ commands' \in Seq(Commands)
           /\ \A i \in 1 .. Len(commands') : CommitOfCommand(commands[i])'
<1> USE Constants
<1>0. /\ commands \in Seq(Commands) /\ last_fast_sync_heights \in [Lanes -> Int]
      /\ \A i \in 1 .. Len(commands) : CommitOfCommand(commands[i])
      /\ UNCHANGED cut
  BY DEF SyncInv, Types, CommitsWait, process_header
<1>1. CASE MissingPayload(x)
  <2> DEFINE c == [type |-> "SyncBatches", header |-> x]
  <2>1. c \in Commands /\ c.type = "SyncBatches" /\ commands' = Append(commands, c)
    BY <1>1 DEF MissingPayload, Commands
  <2>2. CommitOfCommand(c)
    BY <2>1 DEF CommitOfCommand
  <2>3. StoreIsClosed' /\ store' = store /\ last_fast_sync_heights' = last_fast_sync_heights
    BY <1>1 DEF MissingPayload, SyncInv, StoreIsClosed
  <2> HIDE DEF c
  <2> QED
    BY <1>0, <2>1, <2>2, <2>3, SendCommand
<1>2. CASE MissingParent(x)
  <2> DEFINE c == [type |-> "SyncParent", header |-> x,
                   lower |-> last_fast_sync_heights[x[1]]]
  <2>1. c \in Commands /\ c.type = "SyncParent" /\ commands' = Append(commands, c)
    BY <1>0, <1>2 DEF MissingParent, Commands
  <2>2. CommitOfCommand(c)
    BY <2>1 DEF CommitOfCommand
  <2>3. StoreIsClosed' /\ store' = store /\ last_fast_sync_heights' \in [Lanes -> Int]
    BY <1>0, <1>2 DEF MissingParent, SyncInv, StoreIsClosed
  <2> HIDE DEF c
  <2> QED
    BY <1>0, <2>1, <2>2, <2>3, SendCommand
<1>3. CASE StoreHeader(x)
  <2>1. commands' = commands /\ store' = store \cup {x}
        /\ last_fast_sync_heights' \in [Lanes -> Int]
    BY <1>0, <1>3 DEF StoreHeader
  <2>2. StoreIsClosed'
    <3>1. SUFFICES ASSUME NEW y \in store', NEW h \in 1 .. y[2]
                   PROVE  <<y[1], h>> \in store'
      BY DEF StoreIsClosed
    <3>2. CASE y \in store
      BY <2>1, <3>2 DEF SyncInv, StoreIsClosed
    <3>3. CASE y = x /\ h = x[2]
      BY <2>1, <3>3
    <3>4. CASE y = x /\ h < x[2]
      <4>1. Parent(x) \in store /\ Parent(x)[1] = x[1] /\ Parent(x)[2] = x[2] - 1
        BY <1>3, <3>4 DEF StoreHeader, Parent
      <4>2. h \in 1 .. Parent(x)[2]
        BY <3>4, <4>1
      <4> QED
        BY <2>1, <3>4, <4>1, <4>2 DEF SyncInv, StoreIsClosed
    <3> QED
      BY <2>1, <3>2, <3>3, <3>4
  <2> QED
    BY <1>0, <2>1, <2>2, SameCommands
<1> QED
  BY <1>1, <1>2, <1>3 DEF process_header

\* What a consensus message hands to the HeaderWaiter covers all that is missing of a Commit.
LEMMA SyncStep ==
    ASSUME SyncInv, NEW m \in Messages, SyncProposals(m), UNCHANGED <<cut, store>>
    PROVE  /\ last_fast_sync_heights' \in [Lanes -> Int]
           /\ commands' \in Seq(Commands)
           /\ \A i \in 1 .. Len(commands') : CommitOfCommand(commands[i])'
<1> USE Constants
<1>0. /\ commands \in Seq(Commands) /\ last_fast_sync_heights \in [Lanes -> Int]
      /\ \A i \in 1 .. Len(commands) : CommitOfCommand(commands[i])
      /\ cut[m.slot] \in [Lanes -> 0 .. MaxHeight]
  BY DEF SyncInv, Types, CommitsWait
<1>1. last_fast_sync_heights' \in [Lanes -> Int]
  BY <1>0 DEF SyncProposals
<1>2. CASE ToSync(m) = {}
  BY <1>0, <1>1, <1>2, SameCommands DEF SyncProposals
<1>3. CASE ToSync(m) # {}
  <2> DEFINE missing == [x \in ToSync(m) |->
                           IF FastSync THEN last_fast_sync_heights[x[1]] ELSE 1]
             c == [type |-> "SyncProposals", message |-> m, missing |-> missing]
  <2>1. commands' = Append(commands, c)
    BY <1>3 DEF SyncProposals
  <2>2. missing \in [ToSync(m) -> Int] /\ ToSync(m) \in SUBSET Headers
    BY <1>0 DEF ToSync, Missing, Cut
  <2>3. c \in Commands
    BY <2>2 DEF Commands
  <2>4. CommitOfCommand(c)
    BY DEF CommitOfCommand, ToSync, Missing, OnTips, Present
  <2> HIDE DEF c
  <2> QED
    BY <1>0, <1>1, <2>1, <2>3, <2>4, SendCommand
<1> QED
  BY <1>2, <1>3
-----------------------------------------------------------------------------
\* The rest of the invariant survives a step that leaves the Committer and the waiters alone.
LEMMA Waiters ==
    ASSUME SyncInv,
           UNCHANGED <<cut, log, last_executed_slot, last_executed_heights, delivered>>,
           waiting' \subseteq [message : Messages, on : SUBSET Headers, held : BOOLEAN],
           \A w \in waiting' : w.message.kind = "Commit"
                                 => Cut(w.message) \subseteq store \cup w.on,
           loop_messages' \subseteq Messages,
           \A m \in loop_messages' : m.kind = "Commit" => Cut(m) \subseteq store,
           unread' \subseteq Messages, store \subseteq store', StoreIsClosed',
           last_fast_sync_heights' \in [Lanes -> Int], commands' \in Seq(Commands),
           \A i \in 1 .. Len(commands') : CommitOfCommand(commands[i])'
    PROVE  SyncInv'
<1>1. Types'
  BY DEF SyncInv, Types
<1>2. CommitsWait'
  BY DEF CommitsWait, Cut
<1>3. TipsOfLog'
  BY DEF SyncInv, TipsOfLog, Tips
<1>4. HeightsOfSlots'
  BY DEF SyncInv, HeightsOfSlots, Log!Covered, Log!Headers
<1> QED
  BY <1>1, <1>2, <1>3, <1>4 DEF SyncInv

\* A slot that goes to the Committer has its tips in the store.
LEMMA ToCommitterStep ==
    ASSUME SyncInv, NEW m \in Messages, ToCommitter(m), Cut(m) \subseteq store,
           UNCHANGED <<cut, store>>
    PROVE  log' \subseteq Slots /\ TipsOfLog'
<1>1. m.slot \in Slots /\ log' \subseteq log \cup {m.slot}
  BY Constants DEF ToCommitter
<1>2. log' \subseteq Slots
  BY <1>1 DEF SyncInv, Types
<1>3. TipsOfLog'
  BY <1>1 DEF SyncInv, TipsOfLog, Tips, Cut
<1> QED
  BY <1>2, <1>3

THEOREM Initially == Init => SyncInv
<1> SUFFICES ASSUME Init PROVE SyncInv
  OBVIOUS
<1> USE Constants, HeaderSyncAssumption
<1>1. Types
  BY DEF Init, Types
<1>2. CommitsWait
  BY DEF Init, CommitsWait
<1>3. HeightsOfSlots
  <2>1. Log!Covered(cut, last_executed_slot) = {}
    BY DEF Init, Log!Covered
  <2> QED
    BY <2>1 DEF Init, HeightsOfSlots
<1> QED
  BY <1>1, <1>2, <1>3 DEF Init, SyncInv, StoreIsClosed, TipsOfLog

LEMMA MessageStep ==
    ASSUME SyncInv, NEW m \in unread, MessageArrives(m)
    PROVE  SyncInv'
<1> USE Constants
<1>0. /\ m \in Messages /\ unread' \subseteq Messages
      /\ UNCHANGED <<cut, store, waiting, loop_messages, last_executed_slot,
                     last_executed_heights, delivered>>
  BY DEF SyncInv, Types, MessageArrives, storeVars, waiterVars, loopVars
<1>1. CASE Ignored(m)
  <2>1. UNCHANGED <<commands, last_fast_sync_heights, log>>
    BY <1>1 DEF MessageArrives, coreVars
  <2> QED
    BY <1>0, <2>1, SameCommands, Waiters DEF SyncInv, Types, CommitsWait, StoreIsClosed
<1>2. CASE ~Ignored(m)
  <2>1. process_consensus_message(m)
    BY <1>2 DEF MessageArrives
  <2>2. SyncProposals(m) /\ log' \subseteq Slots /\ TipsOfLog'
    <3>1. CASE m.kind = "Prepare"
      BY <1>0, <2>1, <3>1 DEF process_consensus_message, ProcessPrepare, SyncInv,
                              Types, TipsOfLog, Tips
    <3>2. CASE m.kind = "Confirm"
      BY <1>0, <2>1, <3>2 DEF process_consensus_message, ProcessConfirm, SyncInv,
                              Types, TipsOfLog, Tips
    <3>3. CASE m.kind = "Commit"
      <4>1. ProcessCommit(m)
        BY <2>1, <3>3 DEF process_consensus_message
      <4>2. CASE Missing(m) = {} /\ Cut(m) # {}
        <5>1. Cut(m) \subseteq store
          BY <3>3, <4>2 DEF Missing, Present, OnTips
        <5> QED
          BY <1>0, <4>1, <4>2, <5>1, ToCommitterStep DEF ProcessCommit
      <4>3. CASE ~(Missing(m) = {} /\ Cut(m) # {})
        BY <1>0, <4>1, <4>3 DEF ProcessCommit, SyncInv, Types, TipsOfLog, Tips
      <4> QED
        BY <4>2, <4>3
    <3> QED
      BY <1>0, <3>1, <3>2, <3>3
  <2>3. /\ last_fast_sync_heights' \in [Lanes -> Int]
        /\ commands' \in Seq(Commands)
        /\ \A i \in 1 .. Len(commands') : CommitOfCommand(commands[i])'
    BY <1>0, <2>2, SyncStep
  <2>4. Types'
    BY <1>0, <2>2, <2>3 DEF SyncInv, Types
  <2>5. CommitsWait'
    BY <1>0, <2>3 DEF SyncInv, CommitsWait, Cut
  <2>6. StoreIsClosed' /\ HeightsOfSlots'
    BY <1>0 DEF SyncInv, StoreIsClosed, HeightsOfSlots, Log!Covered, Log!Headers
  <2> QED
    BY <2>2, <2>4, <2>5, <2>6 DEF SyncInv
<1> QED
  BY <1>1, <1>2

LEMMA LoopbackStep ==
    ASSUME SyncInv, NEW m \in loop_messages, MessageLoopsBack(m)
    PROVE  SyncInv'
<1> USE Constants
<1>0. /\ m \in Messages /\ loop_messages' = loop_messages \ {m}
      /\ UNCHANGED <<cut, store, unread, waiting, last_executed_slot,
                     last_executed_heights, delivered>>
      /\ m.kind = "Commit" => Cut(m) \subseteq store
  BY DEF SyncInv, Types, CommitsWait, MessageLoopsBack, storeVars, waiterVars, netVars
<1>1. /\ last_fast_sync_heights' \in [Lanes -> Int]
      /\ commands' \in Seq(Commands)
      /\ \A i \in 1 .. Len(commands') : CommitOfCommand(commands[i])'
      /\ log' \subseteq Slots /\ TipsOfLog'
  <2>1. CASE m.kind = "Prepare" /\ <<m.slot, m.view>> \notin voted
    <3>1. SyncProposals(m) /\ log' = log
      BY <2>1 DEF MessageLoopsBack, ProcessPrepare
    <3> QED
      BY <1>0, <3>1, SyncStep DEF SyncInv, Types, TipsOfLog, Tips
  <2>2. CASE m.kind = "Commit"
    <3>1. ToCommitter(m) /\ UNCHANGED <<commands, last_fast_sync_heights>>
      BY <2>2 DEF MessageLoopsBack
    <3> QED
      BY <1>0, <2>2, <3>1, ToCommitterStep, SameCommands DEF SyncInv, Types, CommitsWait
  <2>3. CASE m.kind # "Commit" /\ ~(m.kind = "Prepare" /\ <<m.slot, m.view>> \notin voted)
    <3>1. UNCHANGED <<commands, last_fast_sync_heights, log>>
      BY <2>3 DEF MessageLoopsBack
    <3> QED
      BY <1>0, <3>1, SameCommands DEF SyncInv, Types, CommitsWait, TipsOfLog, Tips
  <2> QED
    BY <2>1, <2>2, <2>3
<1>2. Types'
  BY <1>0, <1>1 DEF SyncInv, Types
<1>3. CommitsWait'
  BY <1>0, <1>1 DEF SyncInv, CommitsWait, Cut
<1>4. StoreIsClosed' /\ HeightsOfSlots'
  BY <1>0 DEF SyncInv, StoreIsClosed, HeightsOfSlots, Log!Covered, Log!Headers
<1> QED
  BY <1>1, <1>2, <1>3, <1>4 DEF SyncInv
-----------------------------------------------------------------------------
LEMMA CommandStep ==
    ASSUME SyncInv, HandleCommand
    PROVE  SyncInv'
<1> USE Constants
<1> DEFINE c == Head(commands)
<1>0. /\ UNCHANGED <<cut, store, unread, last_fast_sync_heights, loop_messages, log,
                     last_executed_slot, last_executed_heights, delivered>>
      /\ commands # <<>> /\ commands' = Tail(commands)
  BY DEF HandleCommand, SyncBatches, SyncParent, SyncMessage, Take, storeVars, coreVars,
         loopVars, committerVars
<1>1. /\ commands' \in Seq(Commands)
      /\ \A i \in 1 .. Len(commands') : CommitOfCommand(commands[i])'
      /\ c \in Commands /\ CommitOfCommand(c)
  BY <1>0, TakeCommand DEF SyncInv, Types, CommitsWait
<1>2. /\ waiting' \subseteq [message : Messages, on : SUBSET Headers, held : BOOLEAN]
      /\ \A w \in waiting' : w.message.kind = "Commit"
                               => Cut(w.message) \subseteq store \cup w.on
  <2>1. CASE SyncBatches \/ SyncParent
    <3>1. waiting' = waiting
      BY <2>1 DEF SyncBatches, SyncParent
    <3> QED
      BY <3>1 DEF SyncInv, Types, CommitsWait
  <2>2. CASE SyncMessage
    <3> DEFINE w == [message |-> c.message, on |-> DOMAIN c.missing, held |-> TRUE]
    <3>1. c.type = "SyncProposals" /\ waiting' = Release(c.message) \cup {w}
      BY <2>2 DEF SyncMessage, Take
    <3>2. c.message \in Messages /\ DOMAIN c.missing \in SUBSET Headers
      BY <1>1, <3>1 DEF Commands
    <3>3. c.message.kind = "Commit" => Cut(c.message) \subseteq store \cup DOMAIN c.missing
      BY <1>1, <3>1 DEF CommitOfCommand
    <3>4. \A u \in Release(c.message) :
             /\ u \in [message : Messages, on : SUBSET Headers, held : BOOLEAN]
             /\ u.message.kind = "Commit" => Cut(u.message) \subseteq store \cup u.on
      BY DEF Release, SyncInv, Types, CommitsWait
    <3>5. /\ w \in [message : Messages, on : SUBSET Headers, held : BOOLEAN]
          /\ w.message.kind = "Commit" => Cut(w.message) \subseteq store \cup w.on
      BY <3>2, <3>3
    <3> HIDE DEF w
    <3>6. \A u \in waiting' : u \in Release(c.message) \/ u = w
      BY <3>1
    <3> QED
      BY <3>4, <3>5, <3>6
  <2> QED
    BY <2>1, <2>2 DEF HandleCommand
<1>3. StoreIsClosed'
  BY <1>0 DEF SyncInv, StoreIsClosed
<1> HIDE DEF c
<1> QED
  BY <1>0, <1>1, <1>2, <1>3, Waiters DEF SyncInv, Types, CommitsWait

LEMMA ReadyStep ==
    ASSUME SyncInv, NEW w \in waiting, MessageReady(w) \/ MessageCancelled(w)
    PROVE  SyncInv'
<1> USE Constants
<1>0. /\ UNCHANGED <<cut, store, unread, commands, last_fast_sync_heights, log,
                     last_executed_slot, last_executed_heights, delivered>>
      /\ StoreIsClosed'
  BY DEF MessageReady, MessageCancelled, netVars, storeVars, coreVars, committerVars,
         SyncInv, StoreIsClosed
<1>1. \A u \in waiting \cup Release(w.message) :
         /\ u \in [message : Messages, on : SUBSET Headers, held : BOOLEAN]
         /\ u.message.kind = "Commit" => Cut(u.message) \subseteq store \cup u.on
  BY DEF Release, SyncInv, Types, CommitsWait
<1>2. waiting' \subseteq waiting \cup Release(w.message)
  BY DEF MessageReady, MessageCancelled
<1>3. /\ loop_messages' \subseteq Messages
      /\ \A m \in loop_messages' : m.kind = "Commit" => Cut(m) \subseteq store
  <2>1. CASE MessageReady(w)
    <3>1. loop_messages' = loop_messages \cup {w.message} /\ w.message \in Messages
      BY <1>1, <2>1 DEF MessageReady
    <3>2. w.message.kind = "Commit" => Cut(w.message) \subseteq store
      BY <1>1, <2>1 DEF MessageReady, Present, OnTips
    <3> QED
      BY <3>1, <3>2 DEF SyncInv, Types, CommitsWait
  <2>2. CASE MessageCancelled(w)
    BY <2>2 DEF MessageCancelled, loopVars, SyncInv, Types, CommitsWait
  <2> QED
    BY <2>1, <2>2
<1>4. /\ commands' \in Seq(Commands)
      /\ \A i \in 1 .. Len(commands') : CommitOfCommand(commands[i])'
  BY <1>0, SameCommands DEF SyncInv, Types, CommitsWait
<1>5. /\ waiting' \subseteq [message : Messages, on : SUBSET Headers, held : BOOLEAN]
      /\ \A u \in waiting' : u.message.kind = "Commit"
                               => Cut(u.message) \subseteq store \cup u.on
  BY <1>1, <1>2
<1> QED
  BY <1>0, <1>3, <1>4, <1>5, Waiters DEF SyncInv, Types

\* Everything the next slot delivers is stored, and none of it was delivered before.
LEMMA ExecuteStep ==
    ASSUME SyncInv, Execute
    PROVE  /\ SyncInv'
           /\ Log!Execute
<1> USE Constants
<1> DEFINE s == last_executed_slot + 1
<1>0. /\ s \in Slots /\ s \in 1 .. MaxSlot /\ last_executed_slot \in Nat
      /\ cut[s] \in [Lanes -> 0 .. MaxHeight]
      /\ cut \in [Slots -> [Lanes -> 0 .. MaxHeight]]
      /\ last_executed_heights \in [Lanes -> 0 .. MaxHeight]
  BY DEF SyncInv, Types, Execute, Slots
<1>1. /\ last_executed_slot' = s /\ cut' = cut
      /\ last_executed_heights' = [l \in Lanes |->
            IF cut[s][l] > last_executed_heights[l] THEN cut[s][l]
            ELSE last_executed_heights[l]]
      /\ delivered' = [x \in Headers |->
            IF x \in ToExecute(s) THEN delivered[x] + 1 ELSE delivered[x]]
  BY DEF Execute
<1>2. \A x \in Headers : x \in Log!Covered(cut, s)
          <=> x \in Log!Covered(cut, last_executed_slot) \/ x[2] <= cut[s][x[1]]
  <2>1. 1 .. s = 1 .. last_executed_slot \cup {s}
    BY <1>0
  <2> QED
    BY <2>1 DEF Log!Covered, Log!Headers, Headers
<1>3. HeightsOfSlots'
  <2>1. \A x \in Headers : x \in Log!Covered(cut, s) <=> x[2] <= last_executed_heights'[x[1]]
    <3>1. TAKE x \in Headers
    <3>2. x \in Log!Covered(cut, last_executed_slot) <=> x[2] <= last_executed_heights[x[1]]
      BY DEF SyncInv, HeightsOfSlots
    <3>3. x[1] \in Lanes /\ x[2] \in Int
      OBVIOUS
    <3>4. cut[s][x[1]] \in Int /\ last_executed_heights[x[1]] \in Int
      BY <1>0, <3>3
    <3> QED
      BY <1>1, <1>2, <3>2, <3>3, <3>4
  <2>2. \A x \in Headers : delivered'[x] = IF x \in Log!Covered(cut, s) THEN 1 ELSE 0
    <3>1. TAKE x \in Headers
    <3>2. /\ x \in Log!Covered(cut, last_executed_slot) <=> x[2] <= last_executed_heights[x[1]]
          /\ delivered[x] = IF x \in Log!Covered(cut, last_executed_slot) THEN 1 ELSE 0
      BY DEF SyncInv, HeightsOfSlots
    <3>3. x[1] \in Lanes /\ x[2] \in Int
      OBVIOUS
    <3>4. cut[s][x[1]] \in Int /\ last_executed_heights[x[1]] \in Int
      BY <1>0, <3>3
    <3>5. x \in ToExecute(s) <=> /\ x \notin Log!Covered(cut, last_executed_slot)
                                 /\ x[2] <= cut[s][x[1]]
      BY <3>2, <3>3, <3>4 DEF ToExecute
    <3> QED
      BY <1>1, <1>2, <3>2, <3>5
  <2>3. delivered' = [x \in Headers |-> IF x \in Log!Covered(cut, s) THEN 1 ELSE 0]
    BY <1>1, <2>2
  <2> QED
    BY <1>1, <2>1, <2>3 DEF HeightsOfSlots
<1>4. Log!Execute
  BY <1>0, <1>1, <1>3 DEF Log!Execute, HeightsOfSlots, Log!Headers, Headers
<1>5. Types' /\ CommitsWait' /\ StoreIsClosed' /\ TipsOfLog'
  <2>1. UNCHANGED <<cut, store, unread, waiting, commands, last_fast_sync_heights,
                    loop_messages, log>>
    BY DEF Execute, netVars, storeVars, coreVars, waiterVars, loopVars
  <2>2. last_executed_heights' \in [Lanes -> 0 .. MaxHeight]
    BY <1>0, <1>1
  <2>3. Types'
    BY <1>0, <1>1, <2>1, <2>2 DEF SyncInv, Types
  <2>4. \A i \in 1 .. Len(commands') : CommitOfCommand(commands[i])'
    BY <2>1, SameCommands DEF SyncInv, Types, CommitsWait
  <2> QED
    BY <2>1, <2>3, <2>4 DEF SyncInv, CommitsWait, Cut, StoreIsClosed, TipsOfLog, Tips
<1> QED
  BY <1>3, <1>4, <1>5 DEF SyncInv
-----------------------------------------------------------------------------
\* Every step but Execute leaves the Committer's part alone.
LEMMA Step ==
    ASSUME SyncInv, [Next]_vars
    PROVE  /\ SyncInv'
           /\ Log!Execute \/ UNCHANGED Log!vars
<1> USE Constants
<1> DEFINE Others ==
        /\ UNCHANGED <<cut, waiting, loop_messages, log, last_executed_slot,
                       last_executed_heights, delivered>>
        /\ unread' \subseteq unread
<1>1. ASSUME NEW x \in Headers, HeaderArrives(x) \/ ReplyArrives(x) \/ HeaderLoopsBack(x)
      PROVE  SyncInv' /\ UNCHANGED Log!vars
  <2>1. process_header(x)
    BY <1>1 DEF HeaderArrives, ReplyArrives, HeaderLoopsBack
  <2>2. Others
    BY <1>1, <2>1 DEF HeaderArrives, ReplyArrives, HeaderLoopsBack, process_header,
                      netVars, loopVars, waiterVars, committerVars
  <2>3. waiting' = waiting /\ loop_messages' = loop_messages
    BY <2>2
  <2> QED
    BY <2>1, <2>2, <2>3, HeaderStep, Waiters DEF SyncInv, Types, CommitsWait, Log!vars
<1>2. ASSUME \/ \E x \in Headers : BatchArrives(x)
             \/ \E w \in parked : HeaderReady(w)
             \/ Retry
             \/ UNCHANGED vars
      PROVE  SyncInv' /\ UNCHANGED Log!vars
  <2>1. Others /\ UNCHANGED <<store, commands, last_fast_sync_heights>>
    BY <1>2 DEF BatchArrives, HeaderReady, Retry, vars, netVars, storeVars, coreVars,
                loopVars, waiterVars, committerVars
  <2>2. StoreIsClosed'
    BY <2>1 DEF SyncInv, StoreIsClosed
  <2>3. /\ commands' \in Seq(Commands)
        /\ \A i \in 1 .. Len(commands') : CommitOfCommand(commands[i])'
    BY <2>1, SameCommands DEF SyncInv, Types, CommitsWait
  <2> QED
    BY <2>1, <2>2, <2>3, Waiters DEF SyncInv, Types, CommitsWait, Log!vars
<1>3. ASSUME NEW m \in unread, MessageArrives(m)
      PROVE  SyncInv' /\ UNCHANGED Log!vars
  BY <1>3, MessageStep DEF MessageArrives, Log!vars
<1>4. ASSUME NEW m \in loop_messages, MessageLoopsBack(m)
      PROVE  SyncInv' /\ UNCHANGED Log!vars
  BY <1>4, LoopbackStep DEF MessageLoopsBack, Log!vars
<1>5. ASSUME HandleCommand
      PROVE  SyncInv' /\ UNCHANGED Log!vars
  BY <1>5, CommandStep DEF HandleCommand, Log!vars, committerVars
<1>6. ASSUME NEW w \in waiting, MessageReady(w) \/ MessageCancelled(w)
      PROVE  SyncInv' /\ UNCHANGED Log!vars
  BY <1>6, ReadyStep DEF MessageReady, MessageCancelled, Log!vars, committerVars
<1>7. ASSUME Execute
      PROVE  SyncInv' /\ Log!Execute
  BY <1>7, ExecuteStep
<1> QED
  BY <1>1, <1>2, <1>3, <1>4, <1>5, <1>6, <1>7 DEF Next

THEOREM Invariance == Spec => []SyncInv
<1>1. SyncInv /\ [Next]_vars => SyncInv'
  BY Step
<1> QED
  BY <1>1, Initially, PTL DEF Spec

(***************************************************************************)
(* Whatever the order in which headers, payloads and answers arrive, a     *)
(* header is stored after its ancestors (process_header,                   *)
(* primary/src/core.rs).                                                   *)
(***************************************************************************)
THEOREM StoredAncestors == Spec => []StoreIsClosed
<1>1. SyncInv => StoreIsClosed
  BY DEF SyncInv
<1> QED
  BY <1>1, Invariance, PTL

(***************************************************************************)
(* The Committer never misses a header of the slot it executes             *)
(* (process_commit_message, primary/src/committer.rs): the tips of the     *)
(* slots in its log are stored, and a stored header has its ancestors.     *)
(***************************************************************************)
THEOREM CommitterFindsHeaders == Spec => []NextSlotIsReady
<1>1. ASSUME SyncInv PROVE NextSlotIsReady
  <2> USE Constants
  <2> DEFINE s == last_executed_slot + 1
  <2>1. SUFFICES ASSUME s \in log, NEW x \in ToExecute(s)
                 PROVE  x \in store
    BY DEF NextSlotIsReady
  <2> DEFINE tip == <<x[1], cut[s][x[1]]>>
  <2>2. x \in Headers /\ x[2] \in 1 .. cut[s][x[1]] /\ s \in Slots
    BY <1>1, <2>1 DEF ToExecute, SyncInv, Types
  <2>3. cut[s][x[1]] \in 0 .. MaxHeight
    BY <1>1, <2>2 DEF SyncInv, Types
  <2>4. tip \in Tips(s)
    BY <2>2, <2>3 DEF Tips, Headers
  <2>5. tip \in store
    BY <1>1, <2>1, <2>4 DEF SyncInv, TipsOfLog
  <2>6. <<tip[1], x[2]>> \in store
    BY <1>1, <2>2, <2>5 DEF SyncInv, StoreIsClosed
  <2> QED
    BY <2>2, <2>6
<1> QED
  BY <1>1, Invariance, PTL

(***************************************************************************)
(* The Committer executes the slots in order, and a header is output once, *)
(* by the first slot whose cut covers it (process_commit_message,          *)
(* primary/src/committer.rs).                                              *)
(***************************************************************************)
THEOREM CommitterRefinesLog == Spec => ImplementsLog
<1>1. Init => Log!Init
  <2> SUFFICES ASSUME Init PROVE Log!Init
    OBVIOUS
  <2> QED
    BY HeaderSyncAssumption DEF Init, Log!Init, Slots, Headers, Log!Headers
<1>2. SyncInv /\ [Next]_vars => [Log!Execute]_(Log!vars)
  BY Step
<1> QED
  BY <1>1, <1>2, Invariance, PTL DEF Spec, ImplementsLog, Log!Spec
-----------------------------------------------------------------------------
(***************************************************************************)
(* What becomes of a message that Core has to suspend.  The HeaderWaiter   *)
(* tells its waiters apart by the proposals of their messages in the order *)
(* of the HashMap, so a message can be forgotten because of another one    *)
(* with the same cut in the same order, its rival, and not otherwise.      *)
(* Received says that only messages which were received are in the hands   *)
(* of the HeaderWaiter.                                                    *)
(***************************************************************************)
\* What will bring the message m back, or hand it on.
InHand(m) ==
    \/ m \in loop_messages
    \/ \E w \in waiting : w.message = m /\ w.held
    \/ \E i \in 1 .. Len(commands) :
         commands[i].type = "SyncProposals" /\ commands[i].message = m

CommandsReceived ==
    \A i \in 1 .. Len(commands) :
        commands[i].type = "SyncProposals" => commands[i].message \notin unread

Received ==
    /\ CommandsReceived
    /\ \A w \in waiting : w.message \notin unread
    /\ loop_messages \cap unread = {}

\* Core sends nothing, or one command, which holds a message of M if it holds one.
Sends(M) ==
    \/ commands' = commands
    \/ \E c \in Commands : /\ commands' = Append(commands, c)
                           /\ c.type = "SyncProposals" => c.message \in M

\* A command in the channel stays there when one is sent or nothing is.
LEMMA KeptInChannel ==
    ASSUME SyncInv, NEW m, InHand(m), NEW M, Sends(M),
           m \in loop_messages => m \in loop_messages',
           \A w \in waiting : w.message = m /\ w.held
              => w \in waiting' \/ m \in loop_messages'
    PROVE  InHand(m)'
<1>0. commands \in Seq(Commands)
  BY DEF SyncInv, Types
<1>1. CASE m \in loop_messages
  BY <1>1 DEF InHand
<1>2. CASE \E w \in waiting : w.message = m /\ w.held
  BY <1>2 DEF InHand
<1>3. ASSUME NEW i \in 1 .. Len(commands),
             commands[i].type = "SyncProposals" /\ commands[i].message = m
      PROVE  InHand(m)'
  <2>1. i \in 1 .. Len(commands') /\ commands'[i] = commands[i]
    BY <1>0 DEF Sends
  <2> QED
    BY <1>3, <2>1 DEF InHand
<1> QED
  BY <1>1, <1>2, <1>3 DEF InHand

LEMMA SendReceived ==
    ASSUME SyncInv, CommandsReceived, NEW M, Sends(M),
           unread' \subseteq unread, M \cap unread' = {}
    PROVE  CommandsReceived'
<1>0. commands \in Seq(Commands)
  BY DEF SyncInv, Types
<1>1. CASE commands' = commands
  BY <1>1 DEF CommandsReceived
<1>2. CASE commands' # commands
  <2>1. PICK c \in Commands : /\ commands' = Append(commands, c)
                              /\ c.type = "SyncProposals" => c.message \in M
    BY <1>2 DEF Sends
  <2>2. SUFFICES ASSUME NEW i \in 1 .. Len(commands'), commands'[i].type = "SyncProposals"
                 PROVE  commands'[i].message \notin unread'
    BY DEF CommandsReceived
  <2>3. \/ i \in 1 .. Len(commands) /\ commands'[i] = commands[i]
        \/ commands'[i] = c
    BY <1>0, <2>1
  <2>4. CASE i \in 1 .. Len(commands) /\ commands'[i] = commands[i]
    BY <2>2, <2>4 DEF CommandsReceived
  <2>5. CASE commands'[i] = c
    BY <2>1, <2>2, <2>5
  <2> QED
    BY <2>3, <2>4, <2>5
<1> QED
  BY <1>1, <1>2

LEMMA ToSyncCommand ==
    ASSUME SyncInv, NEW m \in Messages, SyncProposals(m)
    PROVE  Sends({m})
<1>1. CASE ToSync(m) = {}
  BY <1>1 DEF SyncProposals, Sends
<1>2. CASE ToSync(m) # {}
  <2> DEFINE missing == [x \in ToSync(m) |->
                           IF FastSync THEN last_fast_sync_heights[x[1]] ELSE 1]
             c == [type |-> "SyncProposals", message |-> m, missing |-> missing]
  <2>1. missing \in [ToSync(m) -> Int] /\ ToSync(m) \in SUBSET Headers
    BY Constants DEF ToSync, Missing, Cut, SyncInv, Types
  <2>2. c \in Commands /\ c.message \in {m}
    BY <2>1 DEF Commands
  <2>3. commands' = Append(commands, c)
    BY <1>2 DEF SyncProposals
  <2> HIDE DEF c
  <2> QED
    BY <2>2, <2>3 DEF Sends
<1> QED
  BY <1>1, <1>2

\* A message that lacks something that is asked for is handed to the HeaderWaiter.
LEMMA Suspended ==
    ASSUME SyncInv, NEW m \in Messages, SyncProposals(m), ToSync(m) # {}
    PROVE  InHand(m)'
<1>1. PICK f : commands' = Append(commands,
                 [type |-> "SyncProposals", message |-> m, missing |-> f])
  BY DEF SyncProposals
<1> DEFINE c == [type |-> "SyncProposals", message |-> m, missing |-> f]
           i == Len(commands) + 1
<1>2. commands \in Seq(Commands)
  BY DEF SyncInv, Types
<1>3. i \in 1 .. Len(commands') /\ commands'[i] = c
  BY <1>1, <1>2
<1>4. c.type = "SyncProposals" /\ c.message = m
  OBVIOUS
<1> HIDE DEF c, i
<1> QED
  BY <1>3, <1>4 DEF InHand

LEMMA HeaderCommand ==
    ASSUME SyncInv, NEW x \in Headers, process_header(x)
    PROVE  Sends({})
<1>1. CASE MissingPayload(x)
  BY <1>1 DEF MissingPayload, Commands, Sends
<1>2. CASE MissingParent(x)
  <2>1. last_fast_sync_heights[x[1]] \in Int
    BY Constants DEF SyncInv, Types
  <2> DEFINE c == [type |-> "SyncParent", header |-> x,
                   lower |-> last_fast_sync_heights[x[1]]]
  <2>2. c \in Commands /\ c.type # "SyncProposals"
    BY <2>1 DEF Commands
  <2>3. commands' = Append(commands, c)
    BY <1>2 DEF MissingParent
  <2> HIDE DEF c
  <2> QED
    BY <2>2, <2>3 DEF Sends
<1>3. CASE StoreHeader(x)
  BY <1>3 DEF StoreHeader, Sends
<1> QED
  BY <1>1, <1>2, <1>3 DEF process_header
-----------------------------------------------------------------------------
\* The keys of two messages are the same only if their orders and their cuts are.
LEMMA SameKey ==
    ASSUME SyncInv, NEW m \in Messages, NEW n \in Messages, Key(m) = Key(n)
    PROVE  m.order = n.order /\ cut[m.slot] = cut[n.slot]
<1> DEFINE D == 1 .. Cardinality(Lanes)
<1>1. /\ m.order \in [D -> Lanes] /\ n.order \in [D -> Lanes]
      /\ \A l \in Lanes : \E i \in D : m.order[i] = l
  <2>1. m.order \in Orders /\ n.order \in Orders
    BY HeaderSyncAssumption
  <2> QED
    BY <2>1 DEF Orders
<1>2. cut[m.slot] \in [Lanes -> 0 .. MaxHeight] /\ cut[n.slot] \in [Lanes -> 0 .. MaxHeight]
  BY Constants DEF SyncInv, Types
<1> HIDE DEF D
<1>3. DOMAIN m.order = D /\ DOMAIN n.order = D
  BY <1>1
<1>4. ASSUME NEW i \in D
      PROVE  m.order[i] = n.order[i] /\ cut[m.slot][m.order[i]] = cut[n.slot][n.order[i]]
  <2>1. Key(m)[i] = <<m.order[i], cut[m.slot][m.order[i]]>>
    BY <1>3 DEF Key
  <2>2. Key(n)[i] = <<n.order[i], cut[n.slot][n.order[i]]>>
    BY <1>3 DEF Key
  <2>3. Key(m)[i] = Key(n)[i]
    OBVIOUS
  <2> QED
    BY <2>1, <2>2, <2>3
<1>5. m.order = n.order
  BY <1>1, <1>4
<1>6. ASSUME NEW l \in Lanes
      PROVE  cut[m.slot][l] = cut[n.slot][l]
  <2>1. PICK i \in D : m.order[i] = l
    BY <1>1
  <2> QED
    BY <1>4, <2>1
<1>7. cut[m.slot] = cut[n.slot]
  BY <1>2, <1>6
<1> QED
  BY <1>5, <1>7

LEMMA NoSharedKey ==
    ASSUME SyncInv, NEW m \in Messages, ~Rival(m),
           NEW n \in Messages \ unread, Key(n) = Key(m)
    PROVE  n = m
<1>1. n.order = m.order /\ cut[n.slot] = cut[m.slot]
  BY SameKey
<1> QED
  BY <1>1 DEF Rival

\* What no step takes back: a message that arrived, a vote, a slot in the log, a view.
LEMMA NothingTakenBack ==
    ASSUME SyncInv, [Next]_vars
    PROVE  /\ cut' = cut /\ unread' \subseteq unread /\ voted \subseteq voted'
           /\ log \subseteq log' /\ last_executed_slot <= last_executed_slot'
<1>1. last_executed_slot \in Int
  BY Constants DEF SyncInv, Types
<1>2. ASSUME NEW x \in Headers, HeaderArrives(x) \/ ReplyArrives(x) \/ HeaderLoopsBack(x)
      PROVE  UNCHANGED <<cut, unread, voted, log, last_executed_slot>>
  BY <1>2 DEF HeaderArrives, ReplyArrives, HeaderLoopsBack, process_header, netVars,
              committerVars
<1>3. ASSUME \/ \E x \in Headers : BatchArrives(x)
             \/ \E w \in parked : HeaderReady(w)
             \/ \E w \in waiting : MessageReady(w) \/ MessageCancelled(w)
             \/ HandleCommand
             \/ Retry
             \/ UNCHANGED vars
      PROVE  UNCHANGED <<cut, unread, voted, log, last_executed_slot>>
  BY <1>3 DEF BatchArrives, HeaderReady, MessageReady, MessageCancelled, HandleCommand,
              Retry, vars, netVars, coreVars, committerVars
<1>4. ASSUME NEW n \in unread, MessageArrives(n)
      PROVE  /\ cut' = cut /\ unread' \subseteq unread /\ voted \subseteq voted'
             /\ log \subseteq log' /\ last_executed_slot' = last_executed_slot
  <2>1. n.kind \in {"Prepare", "Confirm", "Commit"}
    BY Constants DEF SyncInv, Types
  <2> QED
    BY <1>4, <2>1 DEF MessageArrives, process_consensus_message, ProcessPrepare,
         ProcessConfirm, ProcessCommit, ToCommitter, coreVars
<1>5. ASSUME NEW n \in loop_messages, MessageLoopsBack(n)
      PROVE  /\ cut' = cut /\ unread' = unread /\ voted \subseteq voted'
             /\ log \subseteq log' /\ last_executed_slot' = last_executed_slot
  BY <1>5 DEF MessageLoopsBack, ProcessPrepare, ToCommitter, netVars
<1>6. ASSUME Execute
      PROVE  /\ UNCHANGED <<cut, unread, voted, log>>
             /\ last_executed_slot' = last_executed_slot + 1
  BY <1>6 DEF Execute, netVars, coreVars
<1> QED
  BY <1>1, <1>2, <1>3, <1>4, <1>5, <1>6 DEF Next

\* A message that arrives, or comes back, is all that Core can send on.
LEMMA ArrivalSends ==
    ASSUME SyncInv, NEW n \in unread, MessageArrives(n)
    PROVE  /\ UNCHANGED <<waiting, loop_messages>> /\ Sends({n})
           /\ n \in Messages /\ unread' = unread \ {n}
<1>1. n \in Messages
  BY DEF SyncInv, Types
<1>2. commands' = commands \/ SyncProposals(n)
  BY <1>1, Constants DEF MessageArrives, process_consensus_message, ProcessPrepare,
                         ProcessConfirm, ProcessCommit
<1>3. Sends({n})
  BY <1>1, <1>2, ToSyncCommand DEF Sends
<1> QED
  BY <1>1, <1>3 DEF MessageArrives, waiterVars, loopVars

LEMMA LoopbackSends ==
    ASSUME SyncInv, NEW n \in loop_messages, MessageLoopsBack(n)
    PROVE  /\ UNCHANGED <<waiting, unread>> /\ Sends({n})
           /\ n \in Messages /\ loop_messages' = loop_messages \ {n}
<1>1. n \in Messages
  BY DEF SyncInv, Types
<1>2. commands' = commands \/ SyncProposals(n)
  BY DEF MessageLoopsBack, ProcessPrepare
<1>3. Sends({n})
  BY <1>1, <1>2, ToSyncCommand DEF Sends
<1> QED
  BY <1>1, <1>3 DEF MessageLoopsBack, waiterVars, netVars

LEMMA HeaderSends ==
    ASSUME SyncInv, NEW x \in Headers,
           HeaderArrives(x) \/ ReplyArrives(x) \/ HeaderLoopsBack(x)
    PROVE  UNCHANGED <<waiting, loop_messages, unread>> /\ Sends({})
<1>1. process_header(x)
  BY DEF HeaderArrives, ReplyArrives, HeaderLoopsBack
<1>2. UNCHANGED <<waiting, loop_messages, unread>>
  BY <1>1 DEF HeaderArrives, ReplyArrives, HeaderLoopsBack, process_header, netVars,
              loopVars, waiterVars
<1> QED
  BY <1>1, <1>2, HeaderCommand

\* The steps that have nothing to do with messages.
LEMMA OtherStep ==
    ASSUME \/ \E x \in Headers : BatchArrives(x)
           \/ \E w \in parked : HeaderReady(w)
           \/ Retry
           \/ Execute
           \/ UNCHANGED vars
    PROVE  UNCHANGED <<waiting, loop_messages, commands, unread, views>>
BY DEF BatchArrives, HeaderReady, Retry, Execute, vars, loopVars, waiterVars, netVars,
       coreVars

LEMMA WaiterStep ==
    ASSUME SyncInv, Received, NEW w \in waiting, MessageReady(w) \/ MessageCancelled(w)
    PROVE  Received' /\ UNCHANGED <<commands, unread, views>>
<1>1. /\ UNCHANGED <<commands, unread, views>>
      /\ loop_messages' \subseteq loop_messages \cup {w.message}
      /\ waiting' \subseteq waiting \cup Release(w.message)
  BY DEF MessageReady, MessageCancelled, netVars, coreVars, loopVars
<1>2. \A u \in Release(w.message) : u.message \notin unread
  <2>1. TAKE u \in Release(w.message)
  <2>2. PICK v \in waiting : u = [v EXCEPT !.held = @ /\ Key(v.message) # Key(w.message)]
    BY Zenon DEF Release
  <2>3. v \in [message : Messages, on : SUBSET Headers, held : BOOLEAN]
    BY DEF SyncInv, Types
  <2> QED
    BY <2>2, <2>3 DEF Received
<1> QED
  BY <1>1, <1>2 DEF Received, CommandsReceived

LEMMA ReceivedByHeaderWaiter ==
    ASSUME SyncInv, Received, HandleCommand
    PROVE  Received' /\ UNCHANGED <<loop_messages, unread, views>>
<1>0. /\ commands \in Seq(Commands) /\ commands # <<>> /\ commands' = Tail(commands)
      /\ UNCHANGED <<loop_messages, unread, views>>
  BY DEF SyncInv, Types, HandleCommand, SyncBatches, SyncParent, SyncMessage, Take,
         loopVars, coreVars
<1>1. CommandsReceived'
  <2>1. SUFFICES ASSUME NEW i \in 1 .. Len(commands'), commands'[i].type = "SyncProposals"
                 PROVE  commands'[i].message \notin unread'
    BY DEF CommandsReceived
  <2>2. i + 1 \in 1 .. Len(commands) /\ commands'[i] = commands[i + 1]
    BY <1>0
  <2> QED
    BY <1>0, <2>1, <2>2 DEF Received, CommandsReceived
<1>2. ASSUME NEW w \in waiting'
      PROVE  w.message \notin unread
  <2>1. CASE SyncBatches \/ SyncParent
    BY <2>1 DEF SyncBatches, SyncParent, Received
  <2>2. CASE SyncMessage
    <3> DEFINE c == Head(commands)
               u == [message |-> c.message, on |-> DOMAIN c.missing, held |-> TRUE]
    <3>1. c.type = "SyncProposals" /\ waiting' = Release(c.message) \cup {u}
      BY <2>2 DEF SyncMessage, Take
    <3>2. c = commands[1] /\ 1 \in 1 .. Len(commands)
      BY <1>0
    <3>3. u.message \notin unread
      BY <3>1, <3>2 DEF Received, CommandsReceived
    <3>4. CASE w \in Release(c.message)
      <4>1. PICK v \in waiting : w = [v EXCEPT !.held = @ /\ Key(v.message) # Key(c.message)]
        BY <3>4, Zenon DEF Release
      <4>2. v \in [message : Messages, on : SUBSET Headers, held : BOOLEAN]
        BY DEF SyncInv, Types
      <4> QED
        BY <4>1, <4>2 DEF Received
    <3> HIDE DEF u
    <3> QED
      BY <3>1, <3>3, <3>4
  <2> QED
    BY <2>1, <2>2 DEF HandleCommand
<1> QED
  BY <1>0, <1>1, <1>2 DEF Received

LEMMA ReceivedStep ==
    ASSUME SyncInv, Received, [Next]_vars
    PROVE  Received'
<1>1. ASSUME NEW x \in Headers, HeaderArrives(x) \/ ReplyArrives(x) \/ HeaderLoopsBack(x)
      PROVE  Received'
  BY <1>1, HeaderSends, SendReceived DEF Received
<1>2. ASSUME NEW n \in unread, MessageArrives(n)
      PROVE  Received'
  <2>1. UNCHANGED <<waiting, loop_messages>> /\ Sends({n}) /\ unread' = unread \ {n}
    BY <1>2, ArrivalSends
  <2>2. CommandsReceived'
    BY <2>1, SendReceived DEF Received
  <2> QED
    BY <2>1, <2>2 DEF Received
<1>3. ASSUME NEW n \in loop_messages, MessageLoopsBack(n)
      PROVE  Received'
  <2>1. UNCHANGED <<waiting, unread>> /\ Sends({n}) /\ loop_messages' = loop_messages \ {n}
    BY <1>3, LoopbackSends
  <2>2. n \notin unread
    BY DEF Received
  <2>3. CommandsReceived'
    BY <2>1, <2>2, SendReceived DEF Received
  <2> QED
    BY <2>1, <2>3 DEF Received
<1>4. ASSUME NEW w \in waiting, MessageReady(w) \/ MessageCancelled(w)
      PROVE  Received'
  BY <1>4, WaiterStep
<1>5. ASSUME \/ \E x \in Headers : BatchArrives(x)
             \/ \E w \in parked : HeaderReady(w)
             \/ Retry
             \/ Execute
             \/ UNCHANGED vars
      PROVE  Received'
  <2>1. UNCHANGED <<waiting, loop_messages, commands, unread>>
    BY <1>5, OtherStep
  <2> QED
    BY <2>1 DEF Received, CommandsReceived
<1> QED
  BY <1>1, <1>2, <1>3, <1>4, <1>5, ReceivedByHeaderWaiter DEF Next

LEMMA InitReceived == Init => Received
<1> SUFFICES ASSUME Init PROVE Received
  OBVIOUS
<1>1. commands = <<>> /\ waiting = {} /\ loop_messages = {}
  BY DEF Init
<1> QED
  BY <1>1 DEF Received, CommandsReceived
-----------------------------------------------------------------------------
\* The HeaderWaiter takes a command; a message in it gets a waiter.
LEMMA KeptByHeaderWaiter ==
    ASSUME SyncInv, Received, HandleCommand,
           NEW m \in Messages, ~Rival(m), InHand(m)
    PROVE  InHand(m)'
<1>0. /\ commands \in Seq(Commands) /\ commands # <<>> /\ commands' = Tail(commands)
      /\ loop_messages' = loop_messages
  BY DEF SyncInv, Types, HandleCommand, SyncBatches, SyncParent, SyncMessage, Take,
         loopVars
<1>1. CASE m \in loop_messages
  BY <1>0, <1>1 DEF InHand
<1>2. ASSUME NEW w \in waiting, w.message = m /\ w.held
      PROVE  InHand(m)'
  <2>1. CASE SyncMessage /\ Key(Head(commands).message) = Key(m)
    <3>1. Head(commands).message \in Messages \ unread
      <4>1. Head(commands) \in Commands /\ Head(commands).type = "SyncProposals"
        BY <1>0, <2>1 DEF SyncMessage, Take
      <4>2. Head(commands) = commands[1] /\ 1 \in 1 .. Len(commands)
        BY <1>0
      <4>3. Head(commands).message \notin unread
        BY <4>1, <4>2 DEF Received, CommandsReceived
      <4> QED
        BY <4>1, <4>3 DEF Commands
    <3>2. Head(commands).message = m
      BY <2>1, <3>1, NoSharedKey
    <3> DEFINE u == [message |-> m, on |-> DOMAIN Head(commands).missing, held |-> TRUE]
    <3>3. u \in waiting' /\ u.message = m /\ u.held
      BY <2>1, <3>2 DEF SyncMessage
    <3> QED
      BY <3>3 DEF InHand
  <2>2. CASE SyncMessage /\ Key(m) # Key(Head(commands).message)
    <3>1. w \in [message : Messages, on : SUBSET Headers, held : BOOLEAN]
      BY DEF SyncInv, Types
    <3>2. [w EXCEPT !.held = w.held /\ Key(w.message) # Key(Head(commands).message)] = w
      BY <1>2, <2>2, <3>1
    <3>3. w \in Release(Head(commands).message)
      BY <3>2, Zenon DEF Release
    <3>4. w \in waiting'
      BY <2>2, <3>3 DEF SyncMessage
    <3> QED
      BY <1>2, <3>4 DEF InHand
  <2>3. CASE SyncBatches \/ SyncParent
    BY <1>2, <2>3 DEF SyncBatches, SyncParent, InHand
  <2> QED
    BY <2>1, <2>2, <2>3 DEF HandleCommand
<1>3. ASSUME NEW i \in 1 .. Len(commands),
             commands[i].type = "SyncProposals" /\ commands[i].message = m
      PROVE  InHand(m)'
  <2>1. CASE i = 1
    <3>1. Head(commands) = commands[1]
      BY <1>0
    <3>2. SyncMessage
      BY <1>3, <2>1, <3>1 DEF HandleCommand, SyncBatches, SyncParent, Take
    <3> DEFINE u == [message |-> m, on |-> DOMAIN Head(commands).missing, held |-> TRUE]
    <3>3. u \in waiting' /\ u.message = m /\ u.held
      BY <1>3, <2>1, <3>1, <3>2 DEF SyncMessage
    <3> QED
      BY <3>3 DEF InHand
  <2>2. CASE i > 1
    <3>1. i - 1 \in 1 .. Len(commands') /\ commands'[i - 1] = commands[i]
      BY <1>0, <2>2
    <3> QED
      BY <1>3, <3>1 DEF InHand
  <2> QED
    BY <2>1, <2>2
<1> QED
  BY <1>1, <1>2, <1>3 DEF InHand

\* The waiter of another message ends, and leaves this one's alone.
LEMMA KeptByWaiters ==
    ASSUME SyncInv, Received, NEW m \in Messages, ~Rival(m), InHand(m),
           NEW w \in waiting, MessageReady(w) \/ MessageCancelled(w)
    PROVE  InHand(m)'
<1>1. Sends({}) /\ loop_messages \subseteq loop_messages'
  BY DEF MessageReady, MessageCancelled, loopVars, Sends
<1>2. ASSUME NEW u \in waiting, u.message = m, u.held
      PROVE  u \in waiting' \/ m \in loop_messages'
  <2>1. /\ u \in [message : Messages, on : SUBSET Headers, held : BOOLEAN]
        /\ w \in [message : Messages, on : SUBSET Headers, held : BOOLEAN]
    BY DEF SyncInv, Types
  <2>2. CASE MessageCancelled(w)
    BY <1>2, <2>2 DEF MessageCancelled
  <2>3. CASE MessageReady(w) /\ w.message = m
    BY <2>3 DEF MessageReady
  <2>4. CASE MessageReady(w) /\ w.message # m
    <3>1. w.message \in Messages \ unread
      BY <2>1 DEF Received
    <3>2. Key(w.message) # Key(m)
      BY <2>4, <3>1, NoSharedKey
    <3>3. [u EXCEPT !.held = u.held /\ Key(u.message) # Key(w.message)] = u
      BY <1>2, <2>1, <3>2
    <3>4. u \in Release(w.message)
      BY <3>3, Zenon DEF Release
    <3>5. u # w /\ u # [w EXCEPT !.held = FALSE]
      BY <1>2, <2>1, <2>4
    <3> QED
      BY <2>4, <3>4, <3>5 DEF MessageReady
  <2> QED
    BY <2>2, <2>3, <2>4
<1> QED
  BY <1>1, <1>2, KeptInChannel

\* Only Core takes a message without a rival out of these hands, when it is brought back.
LEMMA StaysInHand ==
    ASSUME SyncInv, Received, [Next]_vars, NEW m \in Messages, ~Rival(m), InHand(m),
           ~(m \in loop_messages /\ MessageLoopsBack(m))
    PROVE  InHand(m)'
<1>1. ASSUME NEW x \in Headers, HeaderArrives(x) \/ ReplyArrives(x) \/ HeaderLoopsBack(x)
      PROVE  InHand(m)'
  BY <1>1, HeaderSends, KeptInChannel
<1>2. ASSUME \/ \E x \in Headers : BatchArrives(x)
             \/ \E w \in parked : HeaderReady(w)
             \/ Retry
             \/ Execute
             \/ UNCHANGED vars
      PROVE  InHand(m)'
  <2>1. UNCHANGED <<waiting, loop_messages, commands>>
    BY <1>2, OtherStep
  <2> QED
    BY <2>1 DEF InHand
<1>3. ASSUME NEW n \in unread, MessageArrives(n)
      PROVE  InHand(m)'
  BY <1>3, ArrivalSends, KeptInChannel
<1>4. ASSUME NEW n \in loop_messages, MessageLoopsBack(n)
      PROVE  InHand(m)'
  <2>1. UNCHANGED waiting /\ Sends({n}) /\ loop_messages' = loop_messages \ {n}
    BY <1>4, LoopbackSends
  <2>2. n # m
    BY <1>4
  <2> QED
    BY <2>1, <2>2, KeptInChannel
<1>5. CASE HandleCommand
  BY <1>5, KeptByHeaderWaiter
<1>6. ASSUME NEW w \in waiting, MessageReady(w) \/ MessageCancelled(w)
      PROVE  InHand(m)'
  BY <1>6, KeptByWaiters
<1> QED
  BY <1>1, <1>2, <1>3, <1>4, <1>5, <1>6 DEF Next

\* A message is received by MessageArrives alone.
LEMMA SameUnread ==
    ASSUME [Next]_vars, NEW m \in unread, m \notin unread'
    PROVE  MessageArrives(m)
<1>1. ASSUME NEW x \in Headers, HeaderArrives(x) \/ ReplyArrives(x) \/ HeaderLoopsBack(x)
      PROVE  unread' = unread
  BY <1>1 DEF HeaderArrives, ReplyArrives, HeaderLoopsBack, netVars
<1>2. ASSUME \/ \E x \in Headers : BatchArrives(x)
             \/ \E w \in parked : HeaderReady(w)
             \/ \E w \in waiting : MessageReady(w) \/ MessageCancelled(w)
             \/ \E n \in loop_messages : MessageLoopsBack(n)
             \/ HandleCommand
             \/ Retry
             \/ Execute
             \/ UNCHANGED vars
      PROVE  unread' = unread
  BY <1>2 DEF BatchArrives, HeaderReady, MessageReady, MessageCancelled, MessageLoopsBack,
              HandleCommand, Retry, Execute, vars, netVars
<1>3. ASSUME NEW n \in unread, MessageArrives(n)
      PROVE  unread' = unread \ {n}
  BY <1>3 DEF MessageArrives
<1> QED
  BY <1>1, <1>2, <1>3 DEF Next

KeptCommit(m) == m.slot \in log \/ m.slot <= last_executed_slot \/ InHand(m)

KeptInv ==
    \A m \in Messages \ unread :
        m.kind = "Commit" => KeptCommit(m) \/ Cut(m) = {} \/ Rival(m)

\* A Commit that arrives goes to the Committer or to the HeaderWaiter.
LEMMA CommitArrives ==
    ASSUME SyncInv, NEW m \in unread, m.kind = "Commit", Cut(m) # {}, MessageArrives(m)
    PROVE  KeptCommit(m)'
<1>0. /\ m \in Messages /\ m.slot \in Slots /\ ProcessCommit(m)
      /\ last_executed_slot' = last_executed_slot /\ last_executed_slot \in Int
  BY Constants DEF MessageArrives, Ignored, process_consensus_message, SyncInv, Types
<1>1. CASE Missing(m) = {}
  <2>1. ToCommitter(m) /\ m.slot \in Int
    BY <1>0, <1>1, Constants DEF ProcessCommit
  <2> QED
    BY <1>0, <2>1 DEF ToCommitter, KeptCommit
<1>2. CASE Missing(m) # {}
  <2>1. ToSync(m) # {} /\ SyncProposals(m)
    BY <1>0, <1>2 DEF ToSync, OnTips, ProcessCommit
  <2> QED
    BY <1>0, <2>1, Suspended DEF KeptCommit
<1> QED
  BY <1>1, <1>2

LEMMA KeptStep ==
    ASSUME SyncInv, Received, KeptInv, [Next]_vars
    PROVE  KeptInv'
<1>1. /\ cut' = cut /\ unread' \subseteq unread /\ log \subseteq log'
      /\ last_executed_slot <= last_executed_slot'
  BY NothingTakenBack
<1>2. SUFFICES ASSUME NEW m \in Messages \ unread', m.kind = "Commit",
                      ~(Cut(m) = {})', ~Rival(m)'
               PROVE  KeptCommit(m)'
  BY DEF KeptInv
<1>3. Cut(m) # {} /\ ~Rival(m)
  BY <1>1, <1>2 DEF Cut, Rival
<1>4. /\ m.slot \in Int /\ last_executed_slot \in Int /\ last_executed_slot' \in Int
  <2>1. m.slot \in Slots /\ last_executed_slot \in 0 .. MaxSlot
    BY Constants DEF SyncInv, Types
  <2>2. SyncInv'
    BY Step
  <2>3. last_executed_slot' \in 0 .. MaxSlot
    BY <2>2 DEF SyncInv, Types
  <2> QED
    BY <2>1, <2>3, Constants
<1>5. CASE m \in unread
  BY <1>2, <1>3, <1>5, SameUnread, CommitArrives
<1>6. CASE m \notin unread
  <2>1. KeptCommit(m)
    BY <1>2, <1>3, <1>6 DEF KeptInv
  <2>2. CASE m.slot \in log \/ m.slot <= last_executed_slot
    BY <1>1, <1>4, <2>2 DEF KeptCommit
  <2>3. CASE InHand(m) /\ ~(m \in loop_messages /\ MessageLoopsBack(m))
    BY <1>2, <1>3, <2>3, StaysInHand DEF KeptCommit
  <2>4. CASE MessageLoopsBack(m)
    <3>1. ToCommitter(m) /\ last_executed_slot' = last_executed_slot
      BY <1>2, <2>4 DEF MessageLoopsBack
    <3> QED
      BY <1>4, <3>1 DEF ToCommitter, KeptCommit
  <2> QED
    BY <2>1, <2>2, <2>3, <2>4 DEF KeptCommit
<1> QED
  BY <1>5, <1>6

(***************************************************************************)
(* A Commit that was received stays on its way to the Committer ("this     *)
(* commit message will be reprocessed", primary/src/core.rs), unless       *)
(* another message with the same proposals in the same order was received  *)
(* too (proposal_digest, primary/src/messages.rs), or its cut has no       *)
(* header.  That it may not stay with a rival is shown by a run.           *)
(***************************************************************************)
THEOREM CommitsKept == Spec => []CommitsAreKept
<1>1. Init => KeptInv
  BY DEF Init, KeptInv
<1>2. SyncInv /\ Received /\ KeptInv /\ [Next]_vars => KeptInv'
  BY KeptStep
<1>3. SyncInv /\ Received /\ [Next]_vars => Received'
  BY ReceivedStep
<1>4. SyncInv /\ KeptInv => CommitsAreKept
  <2>1. SUFFICES ASSUME SyncInv, NEW m \in Messages, KeptCommit(m)
                 PROVE  InOrder(m)
    BY DEF CommitsAreKept, KeptInv
  <2>2. DOMAIN commands = 1 .. Len(commands)
    BY DEF SyncInv, Types
  <2> QED
    BY <2>1, <2>2 DEF KeptCommit, InHand, InOrder, Held
<1> QED
  BY <1>1, <1>2, <1>3, <1>4, InitReceived, Invariance, PTL DEF Spec
-----------------------------------------------------------------------------
(***************************************************************************)
(* The same for a Prepare.  ViewsCameIn says that a view was entered       *)
(* because of a message of it.                                             *)
(***************************************************************************)
PassedOver(m) == \E n \in Messages \ unread : n.slot = m.slot /\ n.view > m.view

ViewsCameIn ==
    /\ views \in [Slots -> Nat]
    /\ \A s \in Slots :
         views[s] > 0 => \E n \in Messages \ unread : n.slot = s /\ n.view = views[s]

KeptPrepare(m) == <<m.slot, m.view>> \in voted \/ PassedOver(m) \/ InHand(m)

\* Fast sync with optimistic tips: all the tips that m lacks count as asked for
\* by what came before, and m is not handed to the HeaderWaiter.
LeftToOthers(m) ==
    /\ FastSync /\ OnTips(m) /\ Missing(m) # {}
    /\ \A x \in Missing(m) : x[2] <= last_fast_sync_heights[x[1]]

\* A Prepare that was received is voted for, its view has passed, or something
\* that will bring it back holds it, until it gets a rival, or Core handles it
\* under fast sync and leaves the tips that it lacks to earlier requests.
PreparesAreKept ==
    [][\A m \in Messages \ unread' :
          /\ m.kind = "Prepare"
          /\ m \in unread \/ KeptPrepare(m)
          => KeptPrepare(m)' \/ Rival(m)' \/ LeftToOthers(m)]_vars

LEMMA ViewStep ==
    ASSUME SyncInv, ViewsCameIn, [Next]_vars
    PROVE  ViewsCameIn'
<1>1. unread' \subseteq unread
  BY NothingTakenBack
<1>2. CASE views' = views
  BY <1>1, <1>2 DEF ViewsCameIn
<1>3. ASSUME NEW m \in unread, MessageArrives(m), views' # views
      PROVE  ViewsCameIn'
  <2>1. m \in Messages /\ m.slot \in Slots /\ m.view \in Nat
    BY HeaderSyncAssumption DEF SyncInv, Types
  <2>2. views' = [views EXCEPT ![m.slot] = m.view] /\ m \in Messages \ unread'
    BY <1>3, <2>1 DEF MessageArrives, coreVars
  <2> QED
    BY <1>1, <2>1, <2>2 DEF ViewsCameIn
<1>4. ASSUME NEW x \in Headers, HeaderArrives(x) \/ ReplyArrives(x) \/ HeaderLoopsBack(x)
      PROVE  views' = views
  BY <1>4 DEF HeaderArrives, ReplyArrives, HeaderLoopsBack, process_header
<1>5. ASSUME \/ \E x \in Headers : BatchArrives(x)
             \/ \E w \in parked : HeaderReady(w)
             \/ \E w \in waiting : MessageReady(w) \/ MessageCancelled(w)
             \/ \E n \in loop_messages : MessageLoopsBack(n)
             \/ HandleCommand
             \/ Retry
             \/ Execute
             \/ UNCHANGED vars
      PROVE  views' = views
  BY <1>5 DEF BatchArrives, HeaderReady, MessageReady, MessageCancelled, MessageLoopsBack,
              HandleCommand, Retry, Execute, vars, coreVars
<1> QED
  BY <1>2, <1>3, <1>4, <1>5 DEF Next

\* A Prepare that is handled is voted for, handed to the HeaderWaiter, or left to others.
LEMMA PrepareHandled ==
    ASSUME SyncInv, NEW m \in Messages, ProcessPrepare(m), m.kind = "Prepare",
           ~LeftToOthers(m)
    PROVE  KeptPrepare(m)'
<1>1. SyncProposals(m)
  BY DEF ProcessPrepare
<1>2. CASE OptimisticTips /\ Missing(m) # {}
  <2>1. ToSync(m) # {}
    <3>1. ~FastSync \/ \E x \in Missing(m) : ~(x[2] <= last_fast_sync_heights[x[1]])
      BY <1>2 DEF LeftToOthers, OnTips
    <3>2. \A x \in Missing(m) : x[2] \in Int /\ last_fast_sync_heights[x[1]] \in Int
      BY Constants DEF Missing, Cut, SyncInv, Types
    <3> QED
      BY <1>2, <3>1, <3>2 DEF ToSync
  <2> QED
    BY <1>1, <2>1, Suspended DEF KeptPrepare
<1>3. CASE ~(OptimisticTips /\ Missing(m) # {})
  BY <1>3 DEF ProcessPrepare, KeptPrepare
<1> QED
  BY <1>2, <1>3

LEMMA PrepareArrives ==
    ASSUME SyncInv, ViewsCameIn, NEW m \in unread, m.kind = "Prepare", MessageArrives(m),
           ~LeftToOthers(m)
    PROVE  KeptPrepare(m)'
<1>0. m \in Messages /\ m.slot \in Slots /\ m.view \in Nat /\ unread' \subseteq unread
  BY HeaderSyncAssumption DEF SyncInv, Types, MessageArrives
<1>1. CASE <<m.slot, m.view>> \in voted /\ Ignored(m)
  BY <1>1 DEF MessageArrives, coreVars, KeptPrepare
<1>2. CASE m.view < views[m.slot]
  <2>1. views[m.slot] \in Nat /\ views[m.slot] > 0
    BY <1>0, <1>2 DEF ViewsCameIn
  <2>2. PICK n \in Messages \ unread : n.slot = m.slot /\ n.view = views[m.slot]
    BY <1>0, <2>1 DEF ViewsCameIn
  <2>3. n \in Messages \ unread' /\ n.slot = m.slot /\ n.view > m.view
    BY <1>0, <1>2, <2>1, <2>2
  <2> QED
    BY <2>3 DEF KeptPrepare, PassedOver
<1>3. CASE ~Ignored(m)
  <2>1. ProcessPrepare(m)
    BY <1>3 DEF MessageArrives, process_consensus_message
  <2> QED
    BY <1>0, <2>1, PrepareHandled
<1> QED
  BY <1>1, <1>2, <1>3 DEF Ignored

LEMMA PreparesStep ==
    ASSUME SyncInv, Received, ViewsCameIn, [Next]_vars,
           NEW m \in Messages \ unread', m.kind = "Prepare",
           m \in unread \/ KeptPrepare(m), ~Rival(m)', ~LeftToOthers(m)
    PROVE  KeptPrepare(m)'
<1>1. ~Rival(m)
  BY NothingTakenBack DEF Rival
<1>2. CASE m \in unread
  BY <1>2, SameUnread, PrepareArrives
<1>3. CASE m \notin unread
  <2>1. CASE <<m.slot, m.view>> \in voted \/ PassedOver(m)
    BY <2>1, NothingTakenBack DEF KeptPrepare, PassedOver
  <2>2. CASE InHand(m) /\ ~(m \in loop_messages /\ MessageLoopsBack(m))
    BY <1>1, <2>2, StaysInHand DEF KeptPrepare
  <2>3. CASE MessageLoopsBack(m) /\ <<m.slot, m.view>> \notin voted
    <3>1. ProcessPrepare(m)
      BY <2>3 DEF MessageLoopsBack
    <3> QED
      BY <3>1, PrepareHandled
  <2> QED
    BY <1>3, <2>1, <2>2, <2>3 DEF KeptPrepare
<1> QED
  BY <1>2, <1>3

(***************************************************************************)
(* With and without fast sync and optimistic tips, these are the only two  *)
(* ways in which a Prepare can be dropped while its tips are fetched       *)
(* (is_prepare_ready and process_loopback, primary/src/core.rs;            *)
(* optimistic_tips_ready, primary/src/synchronizer.rs).                    *)
(***************************************************************************)
THEOREM PreparesKept == Spec => PreparesAreKept
<1>1. Init => ViewsCameIn
  BY DEF Init, ViewsCameIn
<1>2. SyncInv /\ ViewsCameIn /\ [Next]_vars => ViewsCameIn'
  BY ViewStep
<1>3. SyncInv /\ Received /\ [Next]_vars => Received'
  BY ReceivedStep
<1>4. SyncInv /\ Received /\ ViewsCameIn /\ [Next]_vars
      => [\A m \in Messages \ unread' :
             /\ m.kind = "Prepare"
             /\ m \in unread \/ KeptPrepare(m)
             => KeptPrepare(m)' \/ Rival(m)' \/ LeftToOthers(m)]_vars
  BY PreparesStep
<1> QED
  BY <1>1, <1>2, <1>3, <1>4, InitReceived, Invariance, PTL DEF Spec, PreparesAreKept
-----------------------------------------------------------------------------
(***************************************************************************)
(* Whatever is waited for is there, or something will bring it in.  A      *)
(* header is in work once it was received, until it is stored.  A request  *)
(* may be forgotten while a message still waits for the header: when the   *)
(* payload of its child arrives, the child's waiter takes the request for  *)
(* its parent with it (HeaderReady), but the child then asks again.        *)
(***************************************************************************)
InChannel(x, types) ==
    \E i \in 1 .. Len(commands) : commands[i].type \in types /\ commands[i].header = x

InWork(x) ==
    \/ x \in store \cup loop_headers
    \/ Parked(x)
    \/ InChannel(x, {"SyncBatches", "SyncParent"})

Known(x) == InWork(x) \/ x \in coming \cup replies \cup DOMAIN parent_requests

ToBeAsked(x) ==
    \E y \in batches \cap Headers :
        /\ y[2] > 1 /\ Parent(y) = x
        /\ \/ y \in loop_headers
           \/ InChannel(y, {"SyncParent"})
           \/ [header |-> y, on |-> "batches"] \in parked

HeadersKnown ==
    \A w \in parked :
        IF w.on = "batches" THEN w.header \in batches \cup batch_requests
        ELSE w.header[2] > 1 /\ Known(Parent(w.header))

MessagesKnown ==
    \A w \in waiting : \A x \in w.on : x \in Present(w.message) \/ Known(x) \/ ToBeAsked(x)

\* Nothing waits for what will not come: a payload that is neither stored nor
\* asked for, or a header that is not stored, on its way, asked for, or in work.
NothingWaitsInVain == HeadersKnown /\ MessagesKnown

\* Of a command: it is sent for what is missing, and covers all of it.
CommandKnown(c) ==
    /\ c.type = "SyncParent" => c.header \in batches /\ c.header[2] > 1
    /\ c.type = "SyncProposals" =>
           Cut(c.message) \subseteq Present(c.message) \cup DOMAIN c.missing

CommandsKnown == \A i \in 1 .. Len(commands) : CommandKnown(commands[i])

ParkedOnce ==
    /\ parked \subseteq [header : Headers, on : {"batches", "parent"}]
    /\ loop_headers \subseteq Headers
    /\ \A u, w \in parked : u.header = w.header => u = w

TipsInWork == \A x \in tips : InWork(x)

CutsWait == \A w \in waiting : Cut(w.message) \subseteq Present(w.message) \cup w.on

WaitInv ==
    ParkedOnce /\ CommandsKnown /\ TipsInWork /\ CutsWait /\ HeadersKnown /\ MessagesKnown

LEMMA PresentGrows ==
    ASSUME store \subseteq store', tips \subseteq tips'
    PROVE  \A m : Present(m) \subseteq Present(m)' /\ Present(m) \subseteq tips \cup store
BY DEF Present, OnTips

LEMMA ParentIsHeader ==
    ASSUME NEW x \in Headers
    PROVE  /\ x[2] > 1 => Parent(x) \in Headers
           /\ \A y \in Headers : Parent(y) = Parent(x) => y = x
           /\ \A y \in Headers : Parent(x) = y => x[2] > 1
<1>1. /\ x[1] \in Lanes /\ x[2] \in 1 .. MaxHeight /\ x = <<x[1], x[2]>> /\ MaxHeight \in Nat
      /\ \A y \in Headers : y[1] \in Lanes /\ y[2] \in 1 .. MaxHeight /\ y = <<y[1], y[2]>>
  BY Constants
<1>2. x[2] > 1 => Parent(x) \in Headers
  BY <1>1 DEF Parent, Headers
<1>3. ASSUME NEW y \in Headers, Parent(y) = Parent(x) PROVE y = x
  <2>1. y[1] = x[1] /\ y[2] - 1 = x[2] - 1
    BY <1>3 DEF Parent
  <2>2. y[2] = x[2]
    BY <1>1, <2>1
  <2> QED
    BY <1>1, <2>1, <2>2
<1>4. ASSUME NEW y \in Headers, Parent(x) = y PROVE x[2] > 1
  <2>1. y[2] = x[2] - 1
    BY <1>4 DEF Parent
  <2> QED
    BY <1>1, <2>1
<1> QED
  BY <1>2, <1>3, <1>4

\* What a command that is sent, or taken, leaves in the channel.
LEMMA ChannelGrows ==
    ASSUME commands \in Seq(Commands),
           commands' = commands \/ \E c \in Commands : commands' = Append(commands, c)
    PROVE  \A x, types : InChannel(x, types) => InChannel(x, types)'
<1> SUFFICES ASSUME NEW x, NEW types, NEW i \in 1 .. Len(commands),
                    commands[i].type \in types /\ commands[i].header = x
             PROVE  InChannel(x, types)'
  BY DEF InChannel
<1>1. i \in 1 .. Len(commands') /\ commands'[i] = commands[i]
  OBVIOUS
<1> QED
  BY <1>1 DEF InChannel

LEMMA ChannelGets ==
    ASSUME commands \in Seq(Commands), NEW c \in Commands, commands' = Append(commands, c),
           NEW types, c.type \in types
    PROVE  InChannel(c.header, types)'
<1> DEFINE i == Len(commands) + 1
<1>1. i \in 1 .. Len(commands') /\ commands'[i] = c
  OBVIOUS
<1> HIDE DEF i
<1> QED
  BY <1>1 DEF InChannel

LEMMA ChannelLoses ==
    ASSUME commands \in Seq(Commands), commands # <<>>, commands' = Tail(commands),
           NEW x, NEW types, InChannel(x, types)
    PROVE  \/ InChannel(x, types)'
           \/ Head(commands).type \in types /\ Head(commands).header = x
<1>1. PICK i \in 1 .. Len(commands) : commands[i].type \in types /\ commands[i].header = x
  BY DEF InChannel
<1>2. CASE i = 1
  BY <1>1, <1>2
<1>3. CASE i > 1
  <2>1. i - 1 \in 1 .. Len(commands') /\ commands'[i - 1] = commands[i]
    BY <1>3
  <2> QED
    BY <1>1, <2>1 DEF InChannel
<1> QED
  BY <1>2, <1>3

\* CommandKnown survives a step that only adds to the store.
LEMMA CommandsStayKnown ==
    ASSUME commands \in Seq(Commands), CommandsKnown, UNCHANGED cut,
           batches \subseteq batches', store \subseteq store', tips \subseteq tips',
           \/ commands' = commands
           \/ \E c \in Commands : commands' = Append(commands, c) /\ CommandKnown(c)'
           \/ commands # <<>> /\ commands' = Tail(commands)
    PROVE  CommandsKnown'
<1>1. ASSUME NEW c, CommandKnown(c) PROVE CommandKnown(c)'
  <2>1. Cut(c.message)' = Cut(c.message)
    BY DEF Cut
  <2>2. Present(c.message) \subseteq Present(c.message)'
    BY PresentGrows
  <2> QED
    BY <1>1, <2>1, <2>2 DEF CommandKnown
<1> SUFFICES ASSUME NEW i \in 1 .. Len(commands') PROVE CommandKnown(commands[i])'
  BY DEF CommandsKnown
<1>2. CASE \E j \in 1 .. Len(commands) : commands'[i] = commands[j]
  <2>1. PICK c : c = commands'[i] /\ CommandKnown(c)
    BY <1>2 DEF CommandsKnown
  <2>2. CommandKnown(c)'
    BY <1>1, <2>1
  <2> QED
    BY <2>1, <2>2 DEF CommandKnown, Cut, Present, OnTips
<1>3. CASE commands' = commands
  BY <1>2, <1>3
<1>4. ASSUME NEW c \in Commands, commands' = Append(commands, c), CommandKnown(c)'
      PROVE  CommandKnown(commands[i])'
  <2>1. CASE i = Len(commands) + 1
    <3>1. commands'[i] = c
      BY <1>4, <2>1
    <3> QED
      BY <1>4, <3>1 DEF CommandKnown, Cut, Present, OnTips
  <2>2. CASE i # Len(commands) + 1
    <3>1. i \in 1 .. Len(commands) /\ commands'[i] = commands[i]
      BY <1>4, <2>2
    <3> QED
      BY <1>2, <3>1
  <2> QED
    BY <2>1, <2>2
<1>5. CASE commands # <<>> /\ commands' = Tail(commands)
  <2>1. i + 1 \in 1 .. Len(commands) /\ commands'[i] = commands[i + 1]
    BY <1>5
  <2> QED
    BY <1>2, <2>1
<1> QED
  BY <1>3, <1>4, <1>5
-----------------------------------------------------------------------------
\* A step that leaves the HeaderWaiter alone: what leaves a channel is in work.
LEMMA QuietStep ==
    ASSUME SyncInv, WaitInv, loop_headers' \subseteq Headers,
           UNCHANGED <<cut, parked, waiting, parent_requests, batch_requests>>,
           batches \subseteq batches', store \subseteq store', tips \subseteq tips',
           \/ commands' = commands
           \/ \E c \in Commands : commands' = Append(commands, c) /\ CommandKnown(c)',
           \A x \in coming \cup replies \cup loop_headers :
              x \in coming' \cup replies' \cup loop_headers' \/ InWork(x)',
           \A x \in loop_headers :
              /\ x \in loop_headers' \/ InWork(x)'
              /\ x \in batches /\ x[2] > 1
                   => x \in loop_headers' \/ InWork(Parent(x))' \/ InChannel(x, {"SyncParent"})',
           \A x \in tips' : x \in tips \/ InWork(x)'
    PROVE  WaitInv'
<1>1. commands \in Seq(Commands)
  BY DEF SyncInv, Types
<1>2. \A x, types : InChannel(x, types) => InChannel(x, types)'
  BY <1>1, ChannelGrows
<1>3. ASSUME NEW x, InWork(x) PROVE InWork(x)'
  BY <1>2, <1>3 DEF InWork, Parked
<1>4. ASSUME NEW x, Known(x) PROVE Known(x)'
  BY <1>3, <1>4 DEF Known, InWork
<1>5. ASSUME NEW x, ToBeAsked(x) PROVE ToBeAsked(x)' \/ Known(x)'
  <2>1. PICK y \in batches \cap Headers :
            /\ y[2] > 1 /\ Parent(y) = x
            /\ \/ y \in loop_headers
               \/ InChannel(y, {"SyncParent"})
               \/ [header |-> y, on |-> "batches"] \in parked
    BY <1>5 DEF ToBeAsked
  <2>2. y \in batches' \cap Headers
    BY <2>1
  <2>3. \/ y \in loop_headers'
        \/ InChannel(y, {"SyncParent"})'
        \/ [header |-> y, on |-> "batches"] \in parked'
        \/ InWork(Parent(y))'
    BY <1>2, <2>1
  <2>4. InWork(Parent(y))' => InWork(x)'
    BY <2>1
  <2> QED
    BY <2>1, <2>2, <2>3, <2>4 DEF ToBeAsked, Known
<1>6. ParkedOnce'
  BY DEF WaitInv, ParkedOnce
<1>7. CommandsKnown'
  BY <1>1, CommandsStayKnown DEF WaitInv
<1>8. TipsInWork'
  BY <1>3 DEF WaitInv, TipsInWork
<1>9. CutsWait'
  <2>1. \A m : Present(m) \subseteq Present(m)'
    BY PresentGrows
  <2> QED
    BY <2>1 DEF WaitInv, CutsWait, Cut
<1>10. HeadersKnown'
  BY <1>4 DEF WaitInv, HeadersKnown, Parent
<1>11. MessagesKnown'
  <2>1. \A m : Present(m) \subseteq Present(m)'
    BY PresentGrows
  <2> QED
    BY <1>4, <1>5, <2>1 DEF WaitInv, MessagesKnown
<1> QED
  BY <1>6, <1>7, <1>8, <1>9, <1>10, <1>11 DEF WaitInv

\* A header that is handled is stored, or in the channel to the HeaderWaiter.
LEMMA HeaderInWork ==
    ASSUME SyncInv, NEW x \in Headers, process_header(x)
    PROVE  /\ UNCHANGED <<cut, parked, waiting, parent_requests, batch_requests, batches>>
           /\ store \subseteq store' /\ tips \subseteq tips' /\ tips' \subseteq tips \cup {x}
           /\ \/ commands' = commands
              \/ \E c \in Commands : commands' = Append(commands, c) /\ CommandKnown(c)'
           /\ InWork(x)'
           /\ x \in batches /\ x[2] > 1
                => InWork(Parent(x))' \/ InChannel(x, {"SyncParent"})'
<1>0. /\ commands \in Seq(Commands) /\ last_fast_sync_heights[x[1]] \in Int
      /\ UNCHANGED <<cut, parked, waiting, parent_requests, batch_requests, batches>>
  BY Constants DEF SyncInv, Types, process_header, waiterVars
<1>1. CASE MissingPayload(x)
  <2>1. PICK c \in Commands :
            commands' = Append(commands, c) /\ c.type = "SyncBatches" /\ c.header = x
    BY <1>1 DEF MissingPayload, Commands
  <2>2. InChannel(x, {"SyncBatches", "SyncParent"})'
    BY <1>0, <2>1, ChannelGets
  <2>3. CommandKnown(c)'
    BY <2>1 DEF CommandKnown
  <2> QED
    BY <1>0, <1>1, <2>1, <2>2, <2>3 DEF MissingPayload, InWork
<1>2. CASE MissingParent(x)
  <2>1. PICK c \in Commands :
            commands' = Append(commands, c) /\ c.type = "SyncParent" /\ c.header = x
    <3>1. [type |-> "SyncParent", header |-> x, lower |-> last_fast_sync_heights[x[1]]]
            \in Commands
      BY <1>0 DEF Commands
    <3> QED
      BY <1>2, <3>1 DEF MissingParent
  <2>2. InChannel(x, {"SyncBatches", "SyncParent"})' /\ InChannel(x, {"SyncParent"})'
    <3>1. c.type \in {"SyncBatches", "SyncParent"} /\ c.type \in {"SyncParent"}
      BY <2>1
    <3>2. InChannel(c.header, {"SyncBatches", "SyncParent"})'
      BY <1>0, <2>1, <3>1, ChannelGets
    <3>3. InChannel(c.header, {"SyncParent"})'
      BY <1>0, <2>1, <3>1, ChannelGets
    <3> QED
      BY <2>1, <3>2, <3>3
  <2>3. CommandKnown(c)'
    BY <1>0, <1>2, <2>1 DEF CommandKnown, MissingParent
  <2>4. store' = store /\ tips \subseteq tips' /\ tips' \subseteq tips \cup {x}
    BY <1>2 DEF MissingParent, WriteTip
  <2> QED
    BY <1>0, <2>1, <2>2, <2>3, <2>4 DEF InWork
<1>3. CASE StoreHeader(x)
  <2>1. /\ store' = store \cup {x} /\ commands' = commands
        /\ tips \subseteq tips' /\ tips' \subseteq tips \cup {x}
        /\ x[2] > 1 => Parent(x) \in store
    BY <1>3 DEF StoreHeader, WriteTip
  <2>2. x[2] > 1 => InWork(Parent(x))'
    BY <2>1 DEF InWork, Parent
  <2> QED
    BY <1>0, <2>1, <2>2 DEF InWork
<1> QED
  BY <1>1, <1>2, <1>3 DEF process_header

LEMMA HeaderWaits ==
    ASSUME SyncInv, WaitInv, NEW x \in Headers,
           HeaderArrives(x) \/ ReplyArrives(x) \/ HeaderLoopsBack(x)
    PROVE  WaitInv'
<1>1. process_header(x)
  BY DEF HeaderArrives, ReplyArrives, HeaderLoopsBack
<1>2. /\ coming \subseteq coming' \cup {x} /\ replies \subseteq replies' \cup {x}
      /\ loop_headers \subseteq loop_headers' \cup {x} /\ loop_headers' \subseteq loop_headers
  BY DEF HeaderArrives, ReplyArrives, HeaderLoopsBack, netVars, loopVars
<1>3. loop_headers' \subseteq Headers
  BY <1>2 DEF WaitInv, ParkedOnce
<1>4. InWork(x)' /\ (x \in batches /\ x[2] > 1
                       => InWork(Parent(x))' \/ InChannel(x, {"SyncParent"})')
  BY <1>1, HeaderInWork
<1>5. ASSUME NEW y \in coming \cup replies \cup loop_headers
      PROVE  y \in coming' \cup replies' \cup loop_headers' \/ InWork(y)'
  BY <1>2, <1>4
<1>6. ASSUME NEW y \in loop_headers
      PROVE  /\ y \in loop_headers' \/ InWork(y)'
             /\ y \in batches /\ y[2] > 1
                  => y \in loop_headers' \/ InWork(Parent(y))' \/ InChannel(y, {"SyncParent"})'
  <2>1. y \in loop_headers' \/ y = x
    BY <1>2
  <2> QED
    BY <1>4, <2>1
<1>7. \A y \in tips' : y \in tips \/ InWork(y)'
  BY <1>1, <1>4, HeaderInWork
<1>8. /\ UNCHANGED <<cut, parked, waiting, parent_requests, batch_requests, batches>>
      /\ store \subseteq store' /\ tips \subseteq tips'
      /\ \/ commands' = commands
         \/ \E c \in Commands : commands' = Append(commands, c) /\ CommandKnown(c)'
  BY <1>1, HeaderInWork
<1> QED
  BY <1>3, <1>5, <1>6, <1>7, <1>8, QuietStep

\* Without fast sync a message is suspended for all that it lacks.
LEMMA SyncKnown ==
    ASSUME SyncInv, ~FastSync, NEW m \in Messages, SyncProposals(m),
           UNCHANGED <<cut, store, tips, batches>>
    PROVE  \/ commands' = commands
           \/ \E c \in Commands : commands' = Append(commands, c) /\ CommandKnown(c)'
<1>1. CASE ToSync(m) = {}
  BY <1>1 DEF SyncProposals
<1>2. CASE ToSync(m) # {}
  <2> DEFINE missing == [x \in ToSync(m) |->
                           IF FastSync THEN last_fast_sync_heights[x[1]] ELSE 1]
  <2>1. missing \in [ToSync(m) -> Int] /\ ToSync(m) \in SUBSET Headers
    BY Constants DEF ToSync, Missing, Cut, SyncInv, Types
  <2>2. DOMAIN missing = Cut(m) \ Present(m)
    BY DEF ToSync, Missing
  <2>3. PICK c : c = [type |-> "SyncProposals", message |-> m, missing |-> missing]
    OBVIOUS
  <2>4. commands' = Append(commands, c)
    BY <1>2, <2>3 DEF SyncProposals
  <2> HIDE DEF missing
  <2>5. c \in Commands
    BY <2>1, <2>3 DEF Commands
  <2>6. c.type = "SyncProposals" /\ c.message = m /\ Cut(m) \subseteq Present(m) \cup DOMAIN c.missing
    BY <2>2, <2>3
  <2>7. CommandKnown(c)'
    <3>1. Cut(m)' = Cut(m) /\ Present(m)' = Present(m)
      BY DEF Cut, Present
    <3> QED
      BY <2>6, <3>1 DEF CommandKnown, Cut, Present, OnTips
  <2> QED
    BY <2>4, <2>5, <2>7
<1> QED
  BY <1>1, <1>2

\* The other steps of the Core, the network and the Committer.
LEMMA OthersWait ==
    ASSUME SyncInv, WaitInv, ~FastSync,
           \/ \E x \in Headers : BatchArrives(x)
           \/ \E m \in unread : MessageArrives(m)
           \/ \E m \in loop_messages : MessageLoopsBack(m)
           \/ Retry
           \/ Execute
           \/ UNCHANGED vars
    PROVE  WaitInv'
<1>1. /\ UNCHANGED <<cut, parked, waiting, parent_requests, batch_requests, coming,
                     loop_headers, store, tips>>
      /\ batches \subseteq batches' /\ replies \subseteq replies'
  <2>1. CASE \E x \in Headers : BatchArrives(x)
    BY <2>1 DEF BatchArrives, netVars, waiterVars, loopVars
  <2>2. CASE \E m \in unread : MessageArrives(m)
    BY <2>2 DEF MessageArrives, storeVars, waiterVars, loopVars
  <2>3. CASE \E m \in loop_messages : MessageLoopsBack(m)
    BY <2>3 DEF MessageLoopsBack, storeVars, waiterVars, netVars
  <2>4. CASE Retry
    BY <2>4 DEF Retry, storeVars, waiterVars, loopVars
  <2>5. CASE Execute \/ UNCHANGED vars
    BY <2>5 DEF Execute, vars, storeVars, waiterVars, loopVars, netVars
  <2> QED
    BY <2>1, <2>2, <2>3, <2>4, <2>5
<1>2. commands' = commands \/ \E c \in Commands : commands' = Append(commands, c) /\ CommandKnown(c)'
  <2>1. CASE \E m \in unread : MessageArrives(m)
    <3>1. PICK m \in Messages : MessageArrives(m)
      BY <2>1 DEF SyncInv, Types
    <3>2. commands' = commands \/ SyncProposals(m)
      BY <3>1, Constants DEF MessageArrives, process_consensus_message, ProcessPrepare,
                             ProcessConfirm, ProcessCommit
    <3>3. UNCHANGED <<cut, store, tips, batches>>
      BY <3>1 DEF MessageArrives, storeVars
    <3> QED
      BY <3>2, <3>3, SyncKnown
  <2>2. CASE \E m \in loop_messages : MessageLoopsBack(m)
    <3>1. PICK m \in Messages : MessageLoopsBack(m)
      BY <2>2 DEF SyncInv, Types
    <3>2. commands' = commands \/ SyncProposals(m)
      BY <3>1 DEF MessageLoopsBack, ProcessPrepare
    <3>3. UNCHANGED <<cut, store, tips, batches>>
      BY <3>1 DEF MessageLoopsBack, storeVars
    <3> QED
      BY <3>2, <3>3, SyncKnown
  <2>3. CASE (\E x \in Headers : BatchArrives(x)) \/ Retry \/ Execute \/ UNCHANGED vars
    BY <2>3 DEF BatchArrives, Retry, Execute, vars
  <2> QED
    BY <2>1, <2>2, <2>3
<1>3. loop_headers' \subseteq Headers
  BY <1>1 DEF WaitInv, ParkedOnce
<1> QED
  BY <1>1, <1>2, <1>3, QuietStep
-----------------------------------------------------------------------------
\* The HeaderWaiter takes a command: what was in the channel is parked.
LEMMA TakenInWork ==
    ASSUME SyncInv, WaitInv, commands # <<>>, commands' = Tail(commands),
           UNCHANGED <<store, loop_headers, coming>>, replies \subseteq replies',
           parked \subseteq parked', DOMAIN parent_requests \subseteq DOMAIN parent_requests',
           Head(commands).type \in {"SyncBatches", "SyncParent"}
              => \E w \in parked' : w.header = Head(commands).header
    PROVE  /\ \A x : InWork(x) => InWork(x)'
           /\ \A x : Known(x) => Known(x)'
<1>1. commands \in Seq(Commands)
  BY DEF SyncInv, Types
<1>2. ASSUME NEW x, InWork(x) PROVE InWork(x)'
  <2>1. CASE InChannel(x, {"SyncBatches", "SyncParent"})
    <3>1. \/ InChannel(x, {"SyncBatches", "SyncParent"})'
          \/ /\ Head(commands).type \in {"SyncBatches", "SyncParent"}
             /\ Head(commands).header = x
      BY <1>1, <2>1, ChannelLoses
    <3> QED
      BY <3>1 DEF InWork, Parked
  <2>2. CASE x \in store \cup loop_headers \/ Parked(x)
    BY <2>2 DEF InWork, Parked
  <2> QED
    BY <1>2, <2>1, <2>2 DEF InWork
<1> QED
  BY <1>2 DEF Known

\* What was to be asked for still is, or was asked for when its child's command was taken.
LEMMA TakenToBeAsked ==
    ASSUME SyncInv, commands # <<>>, commands' = Tail(commands),
           UNCHANGED <<batches, loop_headers>>, parked \subseteq parked', ParkedOnce', HeadersKnown',
           Head(commands).type = "SyncParent"
              => \E w \in parked' : w.header = Head(commands).header,
           NEW x, ToBeAsked(x)
    PROVE  ToBeAsked(x)' \/ Known(x)'
<1>1. commands \in Seq(Commands)
  BY DEF SyncInv, Types
<1>2. PICK y \in batches \cap Headers :
          /\ y[2] > 1 /\ Parent(y) = x
          /\ \/ y \in loop_headers
             \/ InChannel(y, {"SyncParent"})
             \/ [header |-> y, on |-> "batches"] \in parked
  BY DEF ToBeAsked
<1>3. CASE \/ y \in loop_headers'
           \/ InChannel(y, {"SyncParent"})'
           \/ [header |-> y, on |-> "batches"] \in parked'
  BY <1>2, <1>3 DEF ToBeAsked
<1>4. CASE Head(commands).type = "SyncParent" /\ Head(commands).header = y
  <2>1. PICK w \in parked' : w.header = y
    BY <1>4
  <2>2. w \in [header : Headers, on : {"batches", "parent"}]
    BY <2>1 DEF ParkedOnce
  <2>3. CASE w.on = "batches"
    <3>1. w = [header |-> y, on |-> "batches"]
      BY <2>1, <2>2, <2>3
    <3> QED
      BY <1>3, <2>1, <3>1
  <2>4. CASE w.on = "parent"
    <3>1. Known(Parent(w.header))'
      BY <2>1, <2>4 DEF HeadersKnown
    <3>2. Parent(w.header) = x
      BY <1>2, <2>1
    <3> QED
      BY <3>1, <3>2
  <2> QED
    BY <2>2, <2>3, <2>4
<1>5. InChannel(y, {"SyncParent"}) =>
        InChannel(y, {"SyncParent"})' \/ (Head(commands).type = "SyncParent" /\ Head(commands).header = y)
  <2>1. ASSUME InChannel(y, {"SyncParent"})
        PROVE  InChannel(y, {"SyncParent"})' \/ (Head(commands).type \in {"SyncParent"} /\ Head(commands).header = y)
    BY <1>1, <2>1, ChannelLoses
  <2> QED
    BY <2>1
<1> QED
  BY <1>2, <1>3, <1>4, <1>5

LEMMA AskKnown ==
    ASSUME NEW wanted, Ask(wanted)
    PROVE  /\ DOMAIN parent_requests' = DOMAIN parent_requests \cup DOMAIN wanted
           /\ replies \subseteq replies'
BY DEF Ask

LEMMA CommandWaits ==
    ASSUME SyncInv, WaitInv, ~FastSync, HandleCommand
    PROVE  WaitInv'
<1>a. PICK c : c = Head(commands)
  OBVIOUS
<1>0. /\ commands \in Seq(Commands) /\ commands # <<>> /\ commands' = Tail(commands)
      /\ UNCHANGED <<cut, coming, batches, store, tips, loop_headers>>
  BY DEF SyncInv, Types, HandleCommand, SyncBatches, SyncParent, SyncMessage, Take,
         storeVars, loopVars
<1>1. c \in Commands /\ CommandKnown(c)
  <2>1. c = commands[1] /\ 1 \in 1 .. Len(commands)
    BY <1>0, <1>a
  <2>2. c \in Commands
    BY <1>0, <2>1
  <2>3. CommandKnown(c)
    BY <2>1 DEF WaitInv, CommandsKnown
  <2> QED
    BY <2>2, <2>3
<1>2. /\ replies \subseteq replies' /\ parked \subseteq parked'
      /\ DOMAIN parent_requests \subseteq DOMAIN parent_requests'
      /\ batch_requests \subseteq batch_requests'
  <2>1. CASE SyncBatches
    BY <2>1 DEF SyncBatches
  <2>2. CASE SyncParent
    BY <2>2, AskKnown DEF SyncParent
  <2>3. CASE SyncMessage
    BY <2>3, AskKnown DEF SyncMessage
  <2> QED
    BY <2>1, <2>2, <2>3 DEF HandleCommand
<1>3. c.type \in {"SyncBatches", "SyncParent"} => \E w \in parked' : w.header = c.header
  <2>1. CASE SyncBatches
    <3>1. \/ Parked(c.header) /\ parked' = parked
          \/ [header |-> c.header, on |-> "batches"] \in parked'
      BY <1>a, <2>1 DEF SyncBatches
    <3> QED
      BY <3>1 DEF Parked
  <2>2. CASE SyncParent
    <3>1. \/ Parked(c.header) /\ parked' = parked
          \/ [header |-> c.header, on |-> "parent"] \in parked'
      BY <1>a, <2>2 DEF SyncParent
    <3> QED
      BY <3>1 DEF Parked
  <2>3. CASE SyncMessage
    BY <1>a, <2>3 DEF SyncMessage, Take
  <2> QED
    BY <2>1, <2>2, <2>3 DEF HandleCommand
<1>4. /\ \A x : InWork(x) => InWork(x)'
      /\ \A x : Known(x) => Known(x)'
  BY <1>0, <1>a, <1>2, <1>3, TakenInWork
<1>5. ASSUME NEW w \in parked' \ parked
      PROVE  /\ w.header \in Headers /\ ~Parked(w.header)
             /\ \/ w = [header |-> w.header, on |-> "batches"] /\ w.header \in batch_requests'
                \/ /\ w = [header |-> w.header, on |-> "parent"]
                   /\ w.header[2] > 1 /\ Parent(w.header) \in DOMAIN parent_requests'
             /\ \A u \in parked' \ parked : u = w
  <2>1. CASE SyncBatches
    <3>1. c.type = "SyncBatches" /\ c.header \in Headers
      BY <1>a, <1>1, <2>1 DEF SyncBatches, Take, Commands
    <3>2. /\ ~Parked(c.header) /\ parked' = parked \cup {[header |-> c.header, on |-> "batches"]}
          /\ c.header \in batch_requests'
      BY <1>a, <1>5, <2>1 DEF SyncBatches
    <3> QED
      BY <1>5, <3>1, <3>2
  <2>2. CASE SyncParent
    <3>1. c.type = "SyncParent" /\ c.header \in Headers /\ c.header[2] > 1
      BY <1>a, <1>1, <2>2 DEF SyncParent, Take, Commands, CommandKnown
    <3>2. /\ ~Parked(c.header) /\ parked' = parked \cup {[header |-> c.header, on |-> "parent"]}
          /\ Ask([p \in {Parent(c.header)} |-> c.lower])
      BY <1>a, <1>5, <2>2 DEF SyncParent
    <3>3. Parent(c.header) \in DOMAIN parent_requests'
      <4>1. PICK q : q = [p \in {Parent(c.header)} |-> c.lower]
        OBVIOUS
      <4>2. Parent(c.header) \in DOMAIN q
        BY <4>1
      <4>3. Ask(q)
        BY <3>2, <4>1
      <4> QED
        BY <4>2, <4>3, AskKnown
    <3> QED
      BY <1>5, <3>1, <3>2, <3>3
  <2>3. CASE SyncMessage
    BY <1>5, <2>3 DEF SyncMessage
  <2> QED
    BY <2>1, <2>2, <2>3 DEF HandleCommand
<1>6. ParkedOnce'
  <2>1. parked' \subseteq [header : Headers, on : {"batches", "parent"}]
    BY <1>5 DEF WaitInv, ParkedOnce
  <2>2. ASSUME NEW u \in parked', NEW w \in parked', u.header = w.header PROVE u = w
    BY <1>5, <2>2 DEF WaitInv, ParkedOnce, Parked
  <2> QED
    BY <1>0, <2>1, <2>2 DEF WaitInv, ParkedOnce
<1>7. CommandsKnown'
  BY <1>0, CommandsStayKnown DEF WaitInv
<1>8. TipsInWork'
  BY <1>0, <1>4 DEF WaitInv, TipsInWork
<1>9. HeadersKnown'
  <2>1. ASSUME NEW w \in parked
        PROVE  IF w.on = "batches" THEN w.header \in batches' \cup batch_requests'
               ELSE w.header[2] > 1 /\ Known(Parent(w.header))'
    BY <1>0, <1>2, <1>4 DEF WaitInv, HeadersKnown
  <2>2. ASSUME NEW w \in parked' \ parked
        PROVE  IF w.on = "batches" THEN w.header \in batches' \cup batch_requests'
               ELSE w.header[2] > 1 /\ Known(Parent(w.header))'
    <3>1. CASE w.on = "batches" /\ w.header \in batch_requests'
      BY <3>1
    <3>2. CASE w.on = "parent" /\ w.header[2] > 1 /\ Parent(w.header) \in DOMAIN parent_requests'
      <4>1. Known(Parent(w.header))'
        BY <3>2 DEF Known, Parent
      <4> QED
        BY <3>2, <4>1
    <3> QED
      BY <1>5, <3>1, <3>2
  <2> QED
    BY <2>1, <2>2 DEF HeadersKnown
<1>10. \A x : ToBeAsked(x) => ToBeAsked(x)' \/ Known(x)'
  BY <1>0, <1>a, <1>2, <1>3, <1>6, <1>9, TakenToBeAsked
<1>11. \A m : Present(m)' = Present(m) /\ Cut(m)' = Cut(m)
  BY <1>0 DEF Present, Cut
<1>12. ASSUME NEW w \in waiting'
       PROVE  \/ \E u \in waiting : u.message = w.message /\ u.on = w.on
              \/ /\ w.on \subseteq DOMAIN parent_requests'
                 /\ Cut(w.message) \subseteq Present(w.message) \cup w.on
  <2>1. CASE SyncBatches \/ SyncParent
    BY <2>1 DEF SyncBatches, SyncParent
  <2>2. CASE SyncMessage
    <3>1. CASE w \in Release(c.message)
      <4>1. PICK u \in waiting : w = [u EXCEPT !.held = u.held /\ Key(u.message) # Key(c.message)]
        BY <3>1 DEF Release
      <4>2. u \in [message : Messages, on : SUBSET Headers, held : BOOLEAN]
        BY <4>1 DEF SyncInv, Types
      <4>3. u.message = w.message /\ u.on = w.on
        BY <4>1, <4>2
      <4> QED
        BY <4>1, <4>3
    <3>2. CASE w = [message |-> c.message, on |-> DOMAIN c.missing, held |-> TRUE]
      <4>1. PICK wanted : DOMAIN wanted = DOMAIN c.missing /\ Ask(wanted)
        <5> DEFINE already == \E v \in waiting : v.held /\ Key(v.message) = Key(c.message)
                   D == {x \in DOMAIN c.missing : FastSync => x[2] > c.missing[x] /\ ~already}
        <5>1. Ask([x \in D |-> c.missing[x]])
          BY <1>a, <2>2 DEF SyncMessage
        <5>2. D = DOMAIN c.missing
          OBVIOUS
        <5> HIDE DEF D
        <5>3. DOMAIN [x \in D |-> c.missing[x]] = DOMAIN c.missing
          BY <5>2
        <5> QED
          BY <5>1, <5>3
      <4>2. DOMAIN c.missing \subseteq DOMAIN parent_requests'
        BY <4>1, AskKnown
      <4>3. Cut(c.message) \subseteq Present(c.message) \cup DOMAIN c.missing
        BY <1>a, <1>1, <2>2 DEF CommandKnown, SyncMessage, Take
      <4> QED
        BY <3>2, <4>2, <4>3
    <3> QED
      BY <1>a, <2>2, <3>1, <3>2 DEF SyncMessage
  <2> QED
    BY <2>1, <2>2 DEF HandleCommand
<1>13. CutsWait'
  BY <1>11, <1>12 DEF WaitInv, CutsWait
<1>14. MessagesKnown'
  <2>1. ASSUME NEW w \in waiting', NEW x \in w.on
        PROVE  x \in Present(w.message)' \/ Known(x)' \/ ToBeAsked(x)'
    <3>1. ASSUME NEW u \in waiting, u.message = w.message, u.on = w.on
          PROVE  x \in Present(w.message)' \/ Known(x)' \/ ToBeAsked(x)'
      <4>1. x \in Present(u.message) \/ Known(x) \/ ToBeAsked(x)
        BY <3>1 DEF WaitInv, MessagesKnown
      <4> QED
        BY <1>4, <1>10, <1>11, <3>1, <4>1
    <3>2. CASE w.on \subseteq DOMAIN parent_requests'
      BY <3>2 DEF Known
    <3> QED
      BY <1>12, <3>1, <3>2
  <2> QED
    BY <2>1 DEF MessagesKnown
<1> QED
  BY <1>6, <1>7, <1>8, <1>9, <1>13, <1>14 DEF WaitInv

\* A header's waiter ends: the header is in work, and what it took the request of is
\* stored, or asked for once the header is handled.
LEMMA HeaderReadyWaits ==
    ASSUME SyncInv, WaitInv, NEW w \in parked, HeaderReady(w)
    PROVE  WaitInv'
<1>0. /\ w \in [header : Headers, on : {"batches", "parent"}]
      /\ loop_headers \subseteq Headers
      /\ \A u, v \in parked : u.header = v.header => u = v
      /\ \A u \in parked : u.header \in Headers
  BY DEF WaitInv, ParkedOnce
<1>1. /\ UNCHANGED <<cut, coming, replies, batches, store, tips, commands, waiting, batch_requests>>
      /\ parked' = parked \ {w} /\ loop_headers' = loop_headers \cup {w.header}
      /\ DOMAIN parent_requests' = DOMAIN parent_requests \ {Parent(w.header)}
  BY DEF HeaderReady, netVars, storeVars
<1>2. \A x, types : InChannel(x, types)' = InChannel(x, types)
  BY <1>1 DEF InChannel
<1>3. ASSUME NEW x, InWork(x) PROVE InWork(x)'
  BY <1>1, <1>2, <1>3 DEF InWork, Parked
<1>4. ASSUME NEW x, Known(x), x # Parent(w.header) PROVE Known(x)'
  BY <1>1, <1>3, <1>4 DEF Known, InWork
<1>5. ASSUME NEW x, Known(x) PROVE Known(x)' \/ (x = Parent(w.header) /\ w.on = "batches")
  <2>1. CASE w.on = "parent" /\ x = Parent(w.header)
    <3>1. x \in store'
      BY <1>1, <2>1 DEF HeaderReady
    <3> QED
      BY <3>1 DEF Known, InWork
  <2> QED
    BY <1>0, <1>4, <1>5, <2>1
<1>6. ASSUME NEW x, ToBeAsked(x) PROVE ToBeAsked(x)'
  <2>1. PICK y \in batches \cap Headers :
            /\ y[2] > 1 /\ Parent(y) = x
            /\ \/ y \in loop_headers
               \/ InChannel(y, {"SyncParent"})
               \/ [header |-> y, on |-> "batches"] \in parked
    BY <1>6 DEF ToBeAsked
  <2>2. [header |-> y, on |-> "batches"] = w => y = w.header
    OBVIOUS
  <2>3. \/ y \in loop_headers'
        \/ InChannel(y, {"SyncParent"})'
        \/ [header |-> y, on |-> "batches"] \in parked'
    BY <1>1, <1>2, <2>1, <2>2
  <2> QED
    BY <1>1, <2>1, <2>3 DEF ToBeAsked
<1>7. ParkedOnce'
  BY <1>0, <1>1 DEF WaitInv, ParkedOnce
<1>8. CommandsKnown'
  BY <1>1, CommandsStayKnown DEF WaitInv, SyncInv, Types
<1>9. TipsInWork'
  BY <1>1, <1>3 DEF WaitInv, TipsInWork
<1>10. \A m : Present(m)' = Present(m) /\ Cut(m)' = Cut(m)
  BY <1>1 DEF Present, Cut
<1>11. CutsWait'
  BY <1>1, <1>10 DEF WaitInv, CutsWait
<1>12. HeadersKnown'
  <2>1. ASSUME NEW u \in parked, u # w
        PROVE  IF u.on = "batches" THEN u.header \in batches' \cup batch_requests'
               ELSE u.header[2] > 1 /\ Known(Parent(u.header))'
    <3>1. CASE u.on = "batches"
      BY <1>1, <3>1 DEF WaitInv, HeadersKnown
    <3>2. CASE u.on # "batches"
      <4>1. u.header[2] > 1 /\ Known(Parent(u.header))
        BY <3>2 DEF WaitInv, HeadersKnown
      <4>2. Parent(u.header) # Parent(w.header)
        BY <1>0, <2>1, ParentIsHeader
      <4>3. Known(Parent(u.header))'
        BY <1>4, <4>1, <4>2
      <4> QED
        BY <3>2, <4>1, <4>3
    <3> QED
      BY <3>1, <3>2
  <2> QED
    BY <1>1, <2>1 DEF HeadersKnown
<1>13. MessagesKnown'
  <2>1. ASSUME NEW u \in waiting, NEW x \in u.on
        PROVE  x \in Present(u.message)' \/ Known(x)' \/ ToBeAsked(x)'
    <3>1. x \in Headers
      BY DEF SyncInv, Types
    <3>2. x \in Present(u.message) \/ Known(x) \/ ToBeAsked(x)
      BY DEF WaitInv, MessagesKnown
    <3>3. ASSUME x = Parent(w.header), w.on = "batches"
          PROVE  ToBeAsked(x)'
      <4>1. w.header \in batches'
        BY <1>1, <3>3 DEF HeaderReady
      <4>2. w.header[2] > 1 /\ w.header \in loop_headers' /\ w.header \in Headers
        BY <1>0, <1>1, <3>1, <3>3, ParentIsHeader
      <4> QED
        BY <3>3, <4>1, <4>2 DEF ToBeAsked
    <3> QED
      BY <1>5, <1>6, <1>10, <3>2, <3>3
  <2> QED
    BY <1>1, <2>1 DEF MessagesKnown
<1> QED
  BY <1>7, <1>8, <1>9, <1>11, <1>12, <1>13 DEF WaitInv

\* A message's waiter ends: the tips whose requests it forgets are in work.
LEMMA MessageReadyWaits ==
    ASSUME SyncInv, WaitInv, NEW w \in waiting, MessageReady(w) \/ MessageCancelled(w)
    PROVE  WaitInv'
<1>0. /\ waiting \subseteq [message : Messages, on : SUBSET Headers, held : BOOLEAN]
      /\ commands \in Seq(Commands)
  BY DEF SyncInv, Types
<1>1. UNCHANGED <<cut, coming, replies, batches, store, tips, commands, parked,
                  batch_requests, loop_headers>>
  BY DEF MessageReady, MessageCancelled, netVars, storeVars, loopVars
<1>2. \A x : InWork(x)' = InWork(x)
  BY <1>1 DEF InWork, Parked, InChannel
<1>3. ASSUME NEW x, Known(x) PROVE Known(x)'
  <2>1. CASE MessageCancelled(w)
    BY <1>1, <1>2, <1>3, <2>1 DEF MessageCancelled, Known
  <2>2. CASE MessageReady(w) /\ x \in Cut(w.message)
    <3>1. x \in Present(w.message)
      BY <2>2 DEF MessageReady, WaitInv, CutsWait
    <3>2. x \in tips \/ x \in store
      BY <3>1 DEF Present
    <3>3. InWork(x)
      BY <3>2 DEF WaitInv, TipsInWork, InWork
    <3> QED
      BY <1>2, <3>3 DEF Known
  <2>3. CASE MessageReady(w) /\ x \notin Cut(w.message)
    <3>1. DOMAIN parent_requests' = DOMAIN parent_requests \ Cut(w.message)
      BY <2>3 DEF MessageReady
    <3> QED
      BY <1>1, <1>2, <1>3, <2>3, <3>1 DEF Known
  <2> QED
    BY <2>1, <2>2, <2>3
<1>4. \A x : ToBeAsked(x)' = ToBeAsked(x)
  BY <1>1 DEF ToBeAsked, InChannel
<1>5. ASSUME NEW v \in waiting' PROVE \E u \in waiting : u.message = v.message /\ u.on = v.on
  <2>1. CASE v \in waiting
    BY <2>1
  <2>2. CASE v \in Release(w.message)
    <3>1. PICK u \in waiting : v = [u EXCEPT !.held = u.held /\ Key(u.message) # Key(w.message)]
      BY <2>2 DEF Release
    <3>2. u.message = v.message /\ u.on = v.on
      BY <1>0, <3>1
    <3> QED
      BY <3>1, <3>2
  <2> QED
    BY <2>1, <2>2 DEF MessageReady, MessageCancelled
<1>6. ParkedOnce'
  BY <1>1 DEF WaitInv, ParkedOnce
<1>7. CommandsKnown'
  BY <1>0, <1>1, CommandsStayKnown DEF WaitInv
<1>8. TipsInWork'
  BY <1>1, <1>2 DEF WaitInv, TipsInWork
<1>9. \A m : Present(m)' = Present(m) /\ Cut(m)' = Cut(m)
  BY <1>1 DEF Present, Cut
<1>10. CutsWait'
  BY <1>5, <1>9 DEF WaitInv, CutsWait
<1>11. HeadersKnown'
  BY <1>1, <1>3 DEF WaitInv, HeadersKnown, Parent
<1>12. MessagesKnown'
  BY <1>3, <1>4, <1>5, <1>9 DEF WaitInv, MessagesKnown
<1> QED
  BY <1>6, <1>7, <1>8, <1>10, <1>11, <1>12 DEF WaitInv

(***************************************************************************)
(* Without fast sync, which is the default, nothing the HeaderWaiter holds *)
(* waits in vain, whatever the order in which headers, payloads, answers   *)
(* and messages come (run, primary/src/header_waiter.rs).                  *)
(***************************************************************************)
THEOREM RequestsAreKept ==
    ASSUME ~FastSync
    PROVE  Spec => []NothingWaitsInVain
<1>1. Init => WaitInv
  <2> SUFFICES ASSUME Init PROVE WaitInv
    OBVIOUS
  <2>1. parked = {} /\ waiting = {} /\ loop_headers = {} /\ tips = {} /\ commands = <<>>
    BY DEF Init
  <2> QED
    BY <2>1 DEF WaitInv, ParkedOnce, CommandsKnown, TipsInWork, CutsWait, HeadersKnown,
                MessagesKnown
<1>2. SyncInv /\ WaitInv /\ [Next]_vars => WaitInv'
  BY HeaderWaits, OthersWait, CommandWaits, HeaderReadyWaits, MessageReadyWaits DEF Next
<1>3. WaitInv => NothingWaitsInVain
  BY DEF WaitInv, NothingWaitsInVain
<1> QED
  BY <1>1, <1>2, <1>3, Invariance, PTL DEF Spec
=============================================================================
