----------------------------- MODULE InboxProofs -----------------------------
(***************************************************************************)
(* What the Inbox guarantees for every stream of messages, every size of   *)
(* the window and every limit of the queues:                               *)
(*                                                                         *)
(*   TypeCorrect          the type invariant, with the limits              *)
(*   HandledOnceAlways    no message is handed over twice                  *)
(*   ToldIsHandledAlways  the server is told of nothing that is lost       *)
(*   HeapImplements       the Inbox with the heap is an Inbox              *)
(*   HeapIsWindowAlways   the heap holds the window, the oldest id first   *)
(*                                                                         *)
(* The invariant is about what a bounded window can know (Known): an id is *)
(* handed over when it enters the window, and one that has left is older   *)
(* than all that are in it, for good.  Nothing here needs the window to be *)
(* large or the server to be conforming.                                   *)
(*                                                                         *)
(* The second part is about the heap (InboxHeap).  While a loop repairs it *)
(* one place may be out of order, and what is below that place is in order *)
(* with what is above it (Repairable).  That a heap in order has its least *)
(* id first is an induction over its places, done with a least one that    *)
(* holds less (LeastElement).                                              *)
(***************************************************************************)
EXTENDS InboxHeap, FiniteSetTheorems, SequenceTheorems, WellFoundedInduction,
        TLAPS

Finite == IsFiniteSet(receivedIDs) /\ IsFiniteSet(pendingAcks)

\* What was handed over is remembered, or older than all a full window holds,
\* and what is remembered was handed over.
Known ==
    /\ \A m \in Ids : handled[m] <= 1
    /\ \A m \in receivedIDs : handled[m] = 1
    /\ \A m \in Ids : handled[m] > 0 => m \in receivedIDs \/ Behind(m)

\* The inductive invariant.
InboxInv == TypeOK /\ Finite /\ Known /\ ToldIsHandled

-----------------------------------------------------------------------------
\* The window.

\* A full window and a fresh id: everything forgotten stays behind.
LEMMA RememberKeeps ==
    ASSUME TypeOK, Finite, NEW m \in Ids, Fresh(m), Remember(m)
    PROVE  /\ receivedIDs' \subseteq receivedIDs \cup {m} /\ m \in receivedIDs'
           /\ IsFiniteSet(receivedIDs') /\ Cardinality(receivedIDs') <= Window
           /\ \A k \in Ids : Behind(k) => Behind(k)'
           /\ \A k \in receivedIDs : k \in receivedIDs' \/ Behind(k)'
<1> USE InboxAssumption
<1>1. receivedIDs \subseteq Ids /\ IsFiniteSet(receivedIDs) /\ m \in Nat
  BY DEF TypeOK, Finite
<1>2. Cardinality(receivedIDs) \in Nat /\ Cardinality(receivedIDs) <= Window
  BY <1>1, FS_CardinalityType DEF TypeOK
<1>3. m \notin receivedIDs
  BY DEF Fresh
<1>4. /\ IsFiniteSet(receivedIDs \cup {m})
      /\ Cardinality(receivedIDs \cup {m}) = Cardinality(receivedIDs) + 1
  BY <1>1, <1>3, FS_AddElement
<1>5. CASE ~Full /\ receivedIDs' = receivedIDs \cup {m}
  <2>1. Cardinality(receivedIDs') <= Window
    BY <1>2, <1>4, <1>5 DEF Full
  <2>2. \A k : ~Behind(k)
    BY <1>5 DEF Full, Behind
  <2> QED
    BY <1>4, <1>5, <2>1, <2>2
<1>6. CASE Full /\ \E r \in receivedIDs :
               Oldest(r) /\ receivedIDs' = (receivedIDs \ {r}) \cup {m}
  <2>1. PICK r \in receivedIDs :
            Oldest(r) /\ receivedIDs' = (receivedIDs \ {r}) \cup {m}
    BY <1>6
  <2>2. receivedIDs' = (receivedIDs \cup {m}) \ {r} /\ r # m
    BY <2>1, <1>3
  <2>3. IsFiniteSet(receivedIDs') /\ Cardinality(receivedIDs') = Window
    <3>1. /\ IsFiniteSet((receivedIDs \cup {m}) \ {r})
          /\ Cardinality((receivedIDs \cup {m}) \ {r}) =
                Cardinality(receivedIDs \cup {m}) - 1
      BY <1>4, FS_RemoveElement
    <3>2. Cardinality(receivedIDs) = Window
      BY <1>2, <1>6 DEF Full
    <3> QED
      BY <1>2, <1>4, <2>2, <3>1, <3>2
  <2>4. PICK s \in receivedIDs : ~(m < s)
    BY <1>6 DEF Fresh, Outrun
  <2>5. \A k \in Ids : Behind(k) => Behind(k)'
    <3> SUFFICES ASSUME NEW k \in Ids, Behind(k), NEW x \in receivedIDs'
                 PROVE  k < x
      BY <2>3 DEF Behind
    <3>1. k < s /\ (x \in receivedIDs => k < x)
      BY DEF Behind
    <3>2. x \in receivedIDs \/ x = m
      BY <2>1
    <3> QED
      BY <3>1, <3>2, <2>4, <1>1
  <2>6. Behind(r)'
    <3> SUFFICES ASSUME NEW x \in receivedIDs' PROVE r < x
      BY <2>3 DEF Behind
    <3>1. r <= s /\ (x \in receivedIDs => r <= x)
      BY <2>1 DEF Oldest
    <3>2. x # r /\ (x \in receivedIDs \/ x = m)
      BY <2>1, <2>2
    <3> QED
      BY <3>1, <3>2, <2>2, <2>4, <1>1
  <2> QED
    BY <2>1, <2>2, <2>3, <2>5, <2>6, <1>2
<1> QED
  BY <1>5, <1>6 DEF Remember

\* Taking a message: at most once, and nothing that was known is forgotten.
LEMMA TakeKeeps ==
    ASSUME InboxInv, NEW m \in Ids, Take(m)
    PROVE  /\ Known' /\ IsFiniteSet(receivedIDs')
           /\ receivedIDs' \subseteq Ids /\ Cardinality(receivedIDs') <= Window
           /\ handled' \in [Ids -> Nat] /\ handled'[m] > 0
           /\ \A k \in Ids : handled[k] > 0 => handled'[k] > 0
           /\ \A k \in Ids : Behind(k) => Behind(k)'
           /\ \A k \in Ids : Announced(k) => Announced(k)'
<1> USE InboxAssumption
<1>1. TypeOK /\ Finite /\ Known /\ Fresh(m) /\ Remember(m)
  BY DEF InboxInv, Take
<1>2. handled \in [Ids -> Nat] /\ handled' = [handled EXCEPT ![m] = @ + 1]
  BY DEF InboxInv, TypeOK, Take
<1>3. /\ receivedIDs' \subseteq receivedIDs \cup {m} /\ m \in receivedIDs'
      /\ IsFiniteSet(receivedIDs') /\ Cardinality(receivedIDs') <= Window
      /\ \A k \in Ids : Behind(k) => Behind(k)'
      /\ \A k \in receivedIDs : k \in receivedIDs' \/ Behind(k)'
  BY <1>1, RememberKeeps
<1>4. handled[m] = 0
  <2>1. m \notin receivedIDs /\ ~Behind(m)
    BY <1>1 DEF Fresh, Outrun, Behind, Full
  <2> QED
    BY <1>1, <1>2, <2>1 DEF Known
<1>5. receivedIDs \subseteq Ids
  BY <1>1 DEF TypeOK
<1>6. /\ handled' \in [Ids -> Nat] /\ handled'[m] = 1
      /\ \A k \in Ids : k # m => handled'[k] = handled[k]
  BY <1>2, <1>4
<1>7. Known'
  <2>1. \A k \in Ids : handled'[k] <= 1
    BY <1>1, <1>6 DEF Known
  <2>2. \A k \in receivedIDs' : handled'[k] = 1
    BY <1>1, <1>3, <1>5, <1>6 DEF Known
  <2>3. ASSUME NEW k \in Ids, handled'[k] > 0
        PROVE  k \in receivedIDs' \/ Behind(k)'
    BY <1>1, <1>3, <1>6, <2>3 DEF Known
  <2> QED
    BY <2>1, <2>2, <2>3 DEF Known
<1>8. \A k \in Ids : handled[k] > 0 => handled'[k] > 0
  BY <1>6
<1>9. \A k \in Ids : Announced(k) => Announced(k)'
  BY <1>8 DEF Announced
<1> QED
  BY <1>3, <1>5, <1>6, <1>7, <1>8, <1>9

-----------------------------------------------------------------------------
\* What the server is told.

\* Reasons for a message to be in Told that no later step takes away.
Settled(k) == handled[k] > 0 \/ Behind(k) \/ Announced(k)

LEMMA ToldTyped ==
    ASSUME TypeOK PROVE Told \subseteq Ids
BY DEF TypeOK, Told

\* A step that hands nothing over and tells nothing new, and does not turn to
\* another message after the acknowledgement of the first.
LEMMA ToldFrame ==
    ASSUME InboxInv, UNCHANGED <<receivedIDs, handled>>,
           NEW more \in SUBSET Ids,
           Told' \subseteq Told \cup more,
           \A k \in more : acked' /\ todo' # <<>> /\ k = Head(todo'),
           acked /\ todo # <<>> =>
               Settled(Head(todo))
               \/ (acked' /\ todo' # <<>> /\ Head(todo') = Head(todo))
    PROVE  ToldIsHandled' /\ Known'
<1>1. ToldIsHandled /\ Known
  BY DEF InboxInv
<1>2. Known'
  BY <1>1 DEF Known, Behind
<1>3. \A k : Settled(k) => Settled(k)'
  BY DEF Settled, Behind, Announced
<1> QED
  BY <1>1, <1>2, <1>3 DEF ToldIsHandled, Settled

\* A step that hands m over, with more the ids it adds to what is told.
LEMMA ToldAfterTake ==
    ASSUME InboxInv, NEW m \in Ids, Take(m), NEW more \in SUBSET Ids,
           Told' \subseteq Told \cup more,
           \A k \in more : Settled(k)'
    PROVE  ToldIsHandled'
<1>1. \A k \in Told : k \in Ids
  BY ToldTyped DEF InboxInv
<1>2. /\ handled'[m] > 0
      /\ \A k \in Ids : handled[k] > 0 => handled'[k] > 0
      /\ \A k \in Ids : Behind(k) => Behind(k)'
      /\ \A k \in Ids : Announced(k) => Announced(k)'
  BY TakeKeeps
<1>3. m = Head(todo)
  BY DEF Take
<1>4. \A k \in Told : Settled(k)'
  BY <1>1, <1>2, <1>3 DEF InboxInv, ToldIsHandled, Settled
<1> QED
  BY <1>4 DEF ToldIsHandled, Settled

-----------------------------------------------------------------------------
\* The steps.

LEMMA InitKeeps == Init => InboxInv
<1> SUFFICES ASSUME Init PROVE InboxInv
  OBVIOUS
<1> USE InboxAssumption DEF Init
<1>1. Cardinality({}) = 0 /\ IsFiniteSet({})
  BY FS_EmptySet
<1>2. TypeOK /\ Finite
  <2>1. handled \in [Ids -> Nat]
    OBVIOUS
  <2>2. serviceMessages \in Seq(SUBSET Ids) /\ Len(serviceMessages) <= ReportLimit
    OBVIOUS
  <2>3. todo \in Seq(Ids)
    OBVIOUS
  <2>4. /\ receivedIDs \subseteq Ids /\ Cardinality(receivedIDs) <= Window
        /\ pendingAcks \subseteq Ids /\ Cardinality(pendingAcks) <= AckLimit
    BY <1>1
  <2>5. /\ batch \subseteq Ids /\ report \subseteq Ids
        /\ wire \subseteq Ids /\ heard \subseteq Ids
    OBVIOUS
  <2>6. /\ acked \in BOOLEAN /\ conn \in {"up", "broken", "down"}
        /\ writer \in {"wait", "report", "acks", "sent", "ended"}
    OBVIOUS
  <2>7. Finite
    BY <1>1 DEF Finite
  <2> QED
    BY ONLY <2>1, <2>2, <2>3, <2>4, <2>5, <2>6, <2>7 DEF TypeOK
<1>3. Known
  BY DEF Known
<1>4. Told = {}
  BY DEF Told
<1> QED
  BY <1>2, <1>3, <1>4 DEF InboxInv, ToldIsHandled

\* Steps of the writer and the connection: neither window nor reader, and the
\* queue of acknowledgements does not grow.
LEMMA QuietStep ==
    ASSUME InboxInv, UNCHANGED readerVars,
           pendingAcks' \subseteq pendingAcks,
           serviceMessages' \in Seq(SUBSET Ids),
           Len(serviceMessages') <= ReportLimit,
           writer' \in {"wait", "report", "acks", "sent", "ended"},
           conn' \in {"up", "broken", "down"},
           batch' \subseteq Ids, report' \subseteq Ids, wire' \subseteq Ids,
           heard' \subseteq Ids, Told' \subseteq Told
    PROVE  InboxInv'
<1> USE InboxAssumption
<1>1. TypeOK /\ Finite
  BY DEF InboxInv
<1>2. /\ IsFiniteSet(pendingAcks')
      /\ Cardinality(pendingAcks') <= Cardinality(pendingAcks)
      /\ Cardinality(pendingAcks') \in Nat /\ Cardinality(pendingAcks) \in Nat
  BY <1>1, FS_Subset, FS_CardinalityType DEF Finite
<1>3. TypeOK' /\ Finite'
  <2>1. Finite'
    BY <1>1, <1>2 DEF Finite, readerVars
  <2>2. /\ receivedIDs' \subseteq Ids /\ Cardinality(receivedIDs') <= Window
        /\ todo' \in Seq(Ids) /\ acked' \in BOOLEAN
        /\ handled' \in [Ids -> Nat]
    BY <1>1 DEF TypeOK, readerVars
  <2>3. pendingAcks' \subseteq Ids /\ Cardinality(pendingAcks') <= AckLimit
    BY <1>1, <1>2 DEF TypeOK
  <2> QED
    BY <2>1, <2>2, <2>3 DEF TypeOK
<1>4. ToldIsHandled' /\ Known'
  <2> DEFINE none == {}
  <2>1. none \in SUBSET Ids /\ Told' \subseteq Told \cup none
    OBVIOUS
  <2>2. \A k \in none : acked' /\ todo' # <<>> /\ k = Head(todo')
    OBVIOUS
  <2> HIDE DEF none
  <2> QED
    BY <2>1, <2>2, ToldFrame DEF readerVars
<1> QED
  BY <1>3, <1>4 DEF InboxInv

LEMMA WriteKeeps ==
    ASSUME InboxInv, Write PROVE InboxInv'
<1> USE InboxAssumption
<1>1. TypeOK /\ Told \subseteq Ids
  BY ToldTyped DEF InboxInv
<1>2. CASE TakeReport
  <2>1. /\ report' = Head(serviceMessages)
        /\ serviceMessages' = Tail(serviceMessages)
        /\ serviceMessages # <<>>
    BY <1>2 DEF TakeReport
  <2>2. /\ serviceMessages' \in Seq(SUBSET Ids) /\ report' \subseteq Ids
        /\ Len(serviceMessages') <= ReportLimit
    <3>1. /\ serviceMessages \in Seq(SUBSET Ids)
          /\ Len(serviceMessages) <= ReportLimit
      BY <1>1 DEF TypeOK
    <3>2. /\ Head(serviceMessages) \in SUBSET Ids
          /\ Tail(serviceMessages) \in Seq(SUBSET Ids)
          /\ Len(Tail(serviceMessages)) = Len(serviceMessages) - 1
      BY <2>1, <3>1
    <3>3. Len(serviceMessages) \in Nat
      BY <3>1
    <3> QED
      BY <2>1, <3>1, <3>2, <3>3
  <2>3. report' \subseteq Told
    <3>1. 1 \in 1..Len(serviceMessages) /\ report' = serviceMessages[1]
      BY <1>1, <2>1 DEF TypeOK
    <3> QED
      BY <3>1 DEF Told
  <2>4. \A i \in 1..Len(serviceMessages') : serviceMessages'[i] \subseteq Told
    <3> SUFFICES ASSUME NEW i \in 1..Len(serviceMessages')
                 PROVE  serviceMessages'[i] \subseteq Told
      OBVIOUS
    <3>1. /\ i + 1 \in 1..Len(serviceMessages)
          /\ serviceMessages'[i] = serviceMessages[i + 1]
      BY <1>1, <2>1 DEF TypeOK
    <3> QED
      BY <3>1 DEF Told
  <2>5. Told' \subseteq Told
    BY <1>2, <2>3, <2>4 DEF TakeReport, Told, serverVars
  <2> QED
    BY <1>1, <1>2, <2>2, <2>5, QuietStep DEF TakeReport, TypeOK, serverVars
<1>3. CASE Tick
  <2>1. Told' \subseteq Told
    BY <1>3 DEF Tick, Told, serverVars
  <2> QED
    BY <1>1, <1>3, <2>1, QuietStep DEF Tick, TypeOK, serverVars
<1>4. CASE SendReport
  <2>1. Told' \subseteq Told
    BY <1>4 DEF SendReport, Send, Told
  <2>2. wire' \subseteq Ids
    BY <1>1, <1>4 DEF SendReport, Send, TypeOK
  <2> QED
    BY <1>1, <1>4, <2>1, <2>2, QuietStep DEF SendReport, Send, TypeOK
<1>5. CASE SendAcks
  <2>1. Told' \subseteq Told
    BY <1>5 DEF SendAcks, Send, Told
  <2>2. wire' \subseteq Ids
    BY <1>1, <1>5 DEF SendAcks, Send, TypeOK
  <2> QED
    BY <1>1, <1>5, <2>1, <2>2, QuietStep DEF SendAcks, Send, TypeOK
<1>6. CASE DropAcks
  <2>1. Told' \subseteq Told
    BY <1>6 DEF DropAcks, Told, serverVars
  <2> QED
    BY <1>1, <1>6, <2>1, QuietStep DEF DropAcks, TypeOK, serverVars
<1>7. CASE SendFails
  <2>1. Told' \subseteq Told
    BY <1>7 DEF SendFails, Told, serverVars
  <2> QED
    BY <1>1, <1>7, <2>1, QuietStep DEF SendFails, TypeOK, serverVars
<1>8. CASE WriterStops
  <2>1. Told' \subseteq Told
    BY <1>8 DEF WriterStops, Told, serverVars
  <2> QED
    BY <1>1, <1>8, <2>1, QuietStep DEF WriterStops, TypeOK, serverVars
<1> QED
  BY <1>2, <1>3, <1>4, <1>5, <1>6, <1>7, <1>8 DEF Write

LEMMA LinkKeeps ==
    ASSUME InboxInv,
           LinkBreaks \/ ReadFails \/ Reconnect \/ \E m \in Ids : ServerHears(m)
    PROVE  InboxInv'
<1>1. TypeOK
  BY DEF InboxInv
<1>2. CASE LinkBreaks
  <2>1. Told' \subseteq Told
    BY <1>2 DEF LinkBreaks, Told, writerVars
  <2> QED
    BY <1>1, <1>2, <2>1, QuietStep DEF LinkBreaks, TypeOK, writerVars
<1>3. CASE ReadFails
  <2>1. Told' \subseteq Told
    BY <1>3 DEF ReadFails, Told, writerVars, serverVars
  <2> QED
    BY <1>1, <1>3, <2>1, QuietStep DEF ReadFails, TypeOK, writerVars, serverVars
<1>4. CASE Reconnect
  <2>1. Told' \subseteq Told
    BY <1>4 DEF Reconnect, Told
  <2> QED
    BY <1>1, <1>4, <2>1, QuietStep DEF Reconnect, TypeOK
<1>5. CASE \E m \in Ids : ServerHears(m)
  <2>1. PICK m \in Ids : ServerHears(m)
    BY <1>5
  <2>2. Told' \subseteq Told
    BY <2>1 DEF ServerHears, Told, writerVars
  <2> QED
    BY <1>1, <2>1, <2>2, QuietStep DEF ServerHears, TypeOK, writerVars
<1> QED
  BY <1>2, <1>3, <1>4, <1>5

\* A message the window refuses was handed over, or is behind it.
LEMMA NotFreshIsSettled ==
    ASSUME InboxInv, NEW m \in Ids, ~Fresh(m) PROVE Settled(m)
<1>1. m \in receivedIDs \/ Behind(m)
  BY DEF Fresh, Outrun, Full, Behind
<1>2. \A k \in receivedIDs : handled[k] = 1
  BY DEF InboxInv, Known
<1> QED
  BY <1>1, <1>2 DEF Settled

LEMMA EmptySeqTyped == <<>> \in Seq(Ids)
OBVIOUS

\* One more id in pendingAcks.
LEMMA OneMoreAck ==
    ASSUME TypeOK, Finite, NEW m \in Ids, CanQueue(m)
    PROVE  /\ IsFiniteSet(pendingAcks \cup {m})
           /\ Cardinality(pendingAcks \cup {m}) <= AckLimit
<1> USE InboxAssumption
<1>1. IsFiniteSet(pendingAcks) /\ Cardinality(pendingAcks) \in Nat
  BY FS_CardinalityType DEF Finite
<1>2. CASE m \in pendingAcks
  <2>1. pendingAcks \cup {m} = pendingAcks
    BY <1>2
  <2> QED
    BY <1>1, <2>1 DEF TypeOK
<1>3. CASE m \notin pendingAcks
  <2>1. Cardinality(pendingAcks) < AckLimit
    BY <1>3 DEF CanQueue
  <2>2. /\ IsFiniteSet(pendingAcks \cup {m})
        /\ Cardinality(pendingAcks \cup {m}) = Cardinality(pendingAcks) + 1
    BY <1>1, <1>3, FS_AddElement
  <2> QED
    BY <1>1, <2>1, <2>2
<1> QED
  BY <1>2, <1>3

\* Steps of the reader that hand nothing over.
LEMMA ReaderKeeps ==
    ASSUME InboxInv, Refuse \/ QueueAck \/ Skip \/ \E m \in Ids : Read(m)
    PROVE  InboxInv'
<1> USE InboxAssumption
<1> DEFINE none == {}
<1>1. /\ TypeOK /\ Finite
      /\ todo \in Seq(Ids) /\ (todo # <<>> => Head(todo) \in Ids)
      /\ (todo # <<>> => Tail(todo) \in Seq(Ids))
  BY DEF InboxInv, TypeOK
<1>2. none \in SUBSET Ids /\ \A k \in none : FALSE
  OBVIOUS
<1> HIDE DEF none
<1>3. CASE Refuse
  <2>0. todo' \in Seq(Ids) /\ acked' \in BOOLEAN /\ conn' \in {conn, "down"}
    BY <1>3, EmptySeqTyped DEF Refuse, GiveUp
  <2>1. TypeOK' /\ Finite'
    BY <1>1, <1>3, <2>0 DEF Refuse, TypeOK, Finite, writerVars, serverVars
  <2>2. Told' \subseteq Told \cup none /\ ~acked
    BY <1>3 DEF Refuse, Told, writerVars, serverVars
  <2>3. ToldIsHandled' /\ Known'
    BY <1>2, <1>3, <2>2, ToldFrame DEF Refuse
  <2> QED
    BY <2>1, <2>3 DEF InboxInv
<1>4. CASE QueueAck
  <2> DEFINE h == Head(todo)
  <2>1. /\ todo # <<>> /\ todo' = todo /\ acked' /\ ~acked
        /\ pendingAcks' \in {pendingAcks, pendingAcks \cup {h}}
        /\ pendingAcks' = pendingAcks \/ CanQueue(h)
    BY <1>4 DEF QueueAck, WantsAck
  <2>2. IsFiniteSet(pendingAcks') /\ Cardinality(pendingAcks') <= AckLimit
    BY <1>1, <2>1, OneMoreAck DEF TypeOK, Finite
  <2>3. TypeOK' /\ Finite'
    BY <1>1, <1>4, <2>1, <2>2
    DEF QueueAck, TypeOK, Finite, writerVars, serverVars
  <2>4. {h} \in SUBSET Ids /\ Told' \subseteq Told \cup {h}
    BY <1>1, <1>4, <2>1 DEF QueueAck, Told, writerVars, serverVars
  <2>5. UNCHANGED <<receivedIDs, handled>>
    BY <1>4 DEF QueueAck
  <2>6. ToldIsHandled' /\ Known'
    BY <2>1, <2>4, <2>5, ToldFrame
  <2> QED
    BY <2>3, <2>6 DEF InboxInv
<1>5. CASE Skip
  <2>1. todo # <<>> /\ ~Fresh(Head(todo))
    BY <1>5 DEF Skip
  <2>2. Settled(Head(todo))
    BY <1>1, <2>1, NotFreshIsSettled
  <2>3. TypeOK' /\ Finite'
    BY <1>1, <1>5 DEF Skip, TypeOK, Finite, writerVars, serverVars
  <2>4. /\ Told' \subseteq Told \cup none
        /\ UNCHANGED <<receivedIDs, handled>>
    BY <1>5 DEF Skip, Told, writerVars, serverVars
  <2>5. ToldIsHandled' /\ Known'
    BY <1>2, <2>2, <2>4, ToldFrame
  <2> QED
    BY <2>3, <2>5 DEF InboxInv
<1>6. CASE \E m \in Ids : Read(m)
  <2>1. PICK m \in Ids : Read(m)
    BY <1>6
  <2>2. todo' \in Seq(Ids)
    BY <2>1 DEF Read
  <2>3. TypeOK' /\ Finite'
    BY <1>1, <2>1, <2>2 DEF Read, TypeOK, Finite, writerVars, serverVars
  <2>4. /\ Told' \subseteq Told \cup none /\ todo = <<>>
        /\ UNCHANGED <<receivedIDs, handled>>
    BY <2>1 DEF Read, Told, writerVars, serverVars
  <2>5. ToldIsHandled' /\ Known'
    BY <1>2, <2>4, ToldFrame
  <2> QED
    BY <2>3, <2>5 DEF InboxInv
<1> QED
  BY <1>3, <1>4, <1>5, <1>6

\* Steps of the reader that hand m over, more being what they tell.
LEMMA TakingStep ==
    ASSUME InboxInv, NEW m \in Ids, Take(m),
           todo' \in Seq(Ids), acked' \in BOOLEAN, conn' \in {conn, "down"},
           pendingAcks' \subseteq Ids, IsFiniteSet(pendingAcks'),
           Cardinality(pendingAcks') <= AckLimit,
           serviceMessages' \in Seq(SUBSET Ids),
           Len(serviceMessages') <= ReportLimit,
           UNCHANGED <<writerVars, serverVars>>,
           NEW more \in SUBSET Ids, Told' \subseteq Told \cup more,
           \A k \in more : Settled(k)'
    PROVE  InboxInv'
<1>1. TypeOK
  BY DEF InboxInv
<1>2. /\ Known' /\ IsFiniteSet(receivedIDs')
      /\ receivedIDs' \subseteq Ids /\ Cardinality(receivedIDs') <= Window
      /\ handled' \in [Ids -> Nat]
  BY TakeKeeps
<1>3. TypeOK' /\ Finite'
  BY <1>1, <1>2 DEF TypeOK, Finite, writerVars, serverVars
<1>4. ToldIsHandled'
  BY ToldAfterTake
<1> QED
  BY <1>2, <1>3, <1>4 DEF InboxInv

LEMMA HandingKeeps ==
    ASSUME InboxInv,
           \/ \E m \in Ids : HandOver(m)
           \/ \E m \in Packs : Open(m)
           \/ \E m \in Requests : Answers(m)
           \/ \E m \in Hints : Hinted(m)
    PROVE  InboxInv'
<1> USE InboxAssumption
<1> DEFINE none == {}
<1>1. /\ TypeOK /\ Finite
      /\ todo \in Seq(Ids) /\ (todo # <<>> => Tail(todo) \in Seq(Ids))
      /\ IsFiniteSet(pendingAcks) /\ pendingAcks \subseteq Ids
      /\ Cardinality(pendingAcks) <= AckLimit
      /\ serviceMessages \in Seq(SUBSET Ids)
      /\ Len(serviceMessages) <= ReportLimit
      /\ conn \in {"up", "broken", "down"}
  BY DEF InboxInv, TypeOK, Finite
<1>2. none \in SUBSET Ids /\ \A k \in none : FALSE
  OBVIOUS
<1> HIDE DEF none
<1>3. ASSUME NEW m \in Ids, HandOver(m) PROVE InboxInv'
  <2>1. Take(m) /\ todo # <<>>
    BY <1>3 DEF HandOver, Take
  <2>2. Told' \subseteq Told \cup none
    BY <1>3 DEF HandOver, Told, writerVars, serverVars
  <2>3. todo' \in Seq(Ids) /\ acked' = FALSE /\ conn' \in {conn, "down"}
    BY <1>1, <1>3, <2>1, EmptySeqTyped DEF HandOver, GiveUp
  <2> QED
    BY <1>1, <1>2, <1>3, <2>1, <2>2, <2>3, TakingStep DEF HandOver
<1>4. ASSUME NEW m \in Packs, Open(m) PROVE InboxInv'
  <2>1. Take(m) /\ todo # <<>> /\ m \in Ids
    BY <1>4 DEF Open, Take
  <2>2. todo' \in Seq(Ids)
    BY <1>1, <1>4, <2>1 DEF Open
  <2>3. Told' \subseteq Told \cup none
    BY <1>4 DEF Open, Told, writerVars, serverVars
  <2> QED
    BY <1>1, <1>2, <1>4, <2>1, <2>2, <2>3, TakingStep DEF Open
<1>5. ASSUME NEW m \in Requests, Answers(m) PROVE InboxInv'
  <2>1. Take(m) /\ todo # <<>> /\ m \in Ids
    BY <1>5 DEF Answers, Take
  <2>2. Reported(m) \in SUBSET Ids
    BY <1>5 DEF Reported
  <2>3. \A k \in Reported(m) : Settled(k)'
    <3>1. Known'
      BY <2>1, TakeKeeps
    <3> QED
      BY <3>1 DEF Known, Reported, Settled
  <2>4. /\ serviceMessages' \in Seq(SUBSET Ids)
        /\ Len(serviceMessages') <= ReportLimit
        /\ todo' \in Seq(Ids) /\ acked' = FALSE /\ conn' \in {conn, "down"}
    <3>1. CASE Len(serviceMessages) < ReportLimit
      <4>1. serviceMessages' = Append(serviceMessages, Reported(m))
        BY <1>1, <1>5, <3>1 DEF Answers
      <4>2. todo' = Tail(todo) /\ acked' = FALSE /\ conn' = conn
        BY <1>1, <1>5, <3>1 DEF Answers
      <4> QED
        BY <1>1, <2>1, <2>2, <3>1, <4>1, <4>2
    <3>2. CASE Len(serviceMessages) >= ReportLimit
      <4>1. serviceMessages' = serviceMessages /\ GiveUp
        BY <1>1, <1>5, <3>2 DEF Answers
      <4> QED
        BY <1>1, <4>1, EmptySeqTyped DEF GiveUp
    <3> QED
      BY <1>5, <3>1, <3>2 DEF Answers
  <2>5. \A i \in 1..Len(serviceMessages') :
            \/ i \in 1..Len(serviceMessages)
               /\ serviceMessages'[i] = serviceMessages[i]
            \/ serviceMessages'[i] = Reported(m)
    <3> DEFINE R == Reported(m)
    <3>1. serviceMessages \in Seq(SUBSET Ids) /\ R \in SUBSET Ids
      BY <1>1, <2>2
    <3>2. \/ serviceMessages' = serviceMessages
          \/ serviceMessages' = Append(serviceMessages, R)
      BY <1>5 DEF Answers, GiveUp
    <3> HIDE DEF R
    <3>3. \A i \in 1..Len(serviceMessages') :
             \/ i \in 1..Len(serviceMessages)
                /\ serviceMessages'[i] = serviceMessages[i]
             \/ serviceMessages'[i] = R
      BY ONLY <3>1, <3>2
    <3> QED
      BY <3>3 DEF R
  <2>6. Told' \subseteq Told \cup Reported(m)
    BY <1>5, <2>5 DEF Answers, Told, writerVars, serverVars
  <2> HIDE DEF Reported
  <2> QED
    BY <1>1, <1>5, <2>1, <2>2, <2>3, <2>4, <2>6, TakingStep DEF Answers
<1>6. ASSUME NEW m \in Hints, Hinted(m) PROVE InboxInv'
  <2>1. Take(m) /\ todo # <<>> /\ m \in Ids /\ Answer[m] \in Ids
    BY <1>6 DEF Hinted, Take
  <2>2. /\ pendingAcks' \subseteq Ids /\ IsFiniteSet(pendingAcks')
        /\ Cardinality(pendingAcks') <= AckLimit
    BY <1>1, <1>6, <2>1, OneMoreAck DEF Hinted
  <2>3. todo' \in Seq(Ids) /\ acked' = FALSE /\ conn' \in {conn, "down"}
    <3>1. CASE CanQueue(Answer[m])
      <4>1. todo' = Tail(todo) /\ acked' = FALSE /\ conn' = conn
        BY <1>6, <3>1 DEF Hinted
      <4> QED
        BY <1>1, <2>1, <4>1
    <3>2. CASE ~CanQueue(Answer[m])
      <4>1. GiveUp
        BY <1>6, <3>2 DEF Hinted
      <4> QED
        BY <4>1, EmptySeqTyped DEF GiveUp
    <3> QED
      BY <3>1, <3>2
  <2>4. \A k \in {Answer[m]} : Settled(k)'
    <3>1. handled'[m] > 0
      BY <2>1, TakeKeeps
    <3> QED
      BY <1>6, <3>1 DEF Settled, Announced
  <2>5. {Answer[m]} \in SUBSET Ids /\ Told' \subseteq Told \cup {Answer[m]}
    BY <1>6, <2>1 DEF Hinted, Told, writerVars, serverVars
  <2> QED
    BY <1>1, <1>6, <2>1, <2>2, <2>3, <2>4, <2>5, TakingStep DEF Hinted
<1> QED
  BY <1>3, <1>4, <1>5, <1>6

-----------------------------------------------------------------------------
\* The theorems.

LEMMA StepKeeps == InboxInv /\ [Next]_vars => InboxInv'
<1> SUFFICES ASSUME InboxInv, [Next]_vars PROVE InboxInv'
  OBVIOUS
<1>1. CASE UNCHANGED vars
  BY <1>1 DEF InboxInv, TypeOK, Finite, Known, ToldIsHandled, Told, Behind,
              Announced, vars
<1>2. CASE Next
  BY <1>2, ReaderKeeps, HandingKeeps, WriteKeeps, LinkKeeps DEF Next, Process
<1> QED
  BY <1>1, <1>2

\* The invariant holds always.
THEOREM InvHolds == Spec => []InboxInv
<1> QED
  BY InitKeeps, StepKeeps, PTL DEF Spec

\* The types of all variables and the limits of the window and both queues, for
\* every stream and every limit.
THEOREM TypeCorrect == Spec => []TypeOK
<1>1. InboxInv => TypeOK
  BY DEF InboxInv
<1> QED
  BY <1>1, InvHolds, PTL

\* No message is handed over twice, for every stream, every order of arrival
\* and every size of the window (receivedMessageWindow.remember).
THEOREM HandledOnceAlways == Spec => []HandledOnce
<1>1. InboxInv => HandledOnce
  BY DEF InboxInv, Known, HandledOnce
<1> QED
  BY <1>1, InvHolds, PTL

\* What the server has been told was handed over, for every stream and every
\* limit: an acknowledgement never stands for a message that is lost.
THEOREM ToldIsHandledAlways == Spec => []ToldIsHandled
<1>1. InboxInv => ToldIsHandled
  BY DEF InboxInv
<1> QED
  BY <1>1, InvHolds, PTL

-----------------------------------------------------------------------------
\* The heap.

\* The places of the heap, and the places under another one.
Places == 1..Len(heap)

Below == 2..Len(heap)

Kept(i) == heap[Parent(i)] <= heap[i]

\* Each place but the one under repair is in order with its parent, going up,
\* or with its children, going down, and these with the place above it.
Repairable ==
    /\ loop = "none" => at = 0 /\ \A i \in Below : Kept(i)
    /\ loop = "up" =>
          /\ at \in Places
          /\ \A i \in Below : i # at => Kept(i)
    /\ loop = "down" =>
          /\ at \in Places
          /\ \A i \in Below : Parent(i) # at => Kept(i)
    /\ loop \in {"none", "up", "down"}
    /\ \A i \in Below : at > 1 /\ Parent(i) = at => heap[Parent(at)] <= heap[i]

\* The heap holds the ids of the map, each once.
SameIds ==
    /\ heap \in Seq(Ids)
    /\ \A i \in Places : heap[i] \in receivedIDs
    /\ \A m \in receivedIDs : \E i \in Places : heap[i] = m
    /\ \A i, j \in Places : i # j => heap[i] # heap[j]
    /\ Len(heap) = Cardinality(receivedIDs)

HeapInv == InboxInv /\ SameIds /\ Repairable

-----------------------------------------------------------------------------
\* Every set of naturals that is not empty has a least element.

Less == {p \in Nat \X Nat : p[1] < p[2]}

LEMMA LessWellFounded == IsWellFoundedOn(Less, Nat)
<1>1. OpToRel(<, Nat) = Less
  BY DEF OpToRel, Less
<1> QED
  BY <1>1, NatLessThanWellFounded, Zenon

LEMMA LeastElement ==
    ASSUME NEW T \in SUBSET Nat, T # {}
    PROVE  \E x \in T : \A y \in T : x <= y
<1>1. PICK x \in T : \A y \in T : ~ (<<y, x>> \in Less)
  BY LessWellFounded, WFMin
<1>2. ASSUME NEW y \in T PROVE x <= y
  <2> DEFINE p == <<y, x>>
  <2>1. p \in Nat \X Nat /\ p[1] = y /\ p[2] = x
    OBVIOUS
  <2>2. ~ (p \in Less)
    BY <1>1
  <2> HIDE DEF p
  <2>3. ~ (p[1] < p[2])
    BY <2>1, <2>2 DEF Less
  <2> QED
    BY <2>1, <2>3
<1> QED
  BY <1>2

LEMMA IdsInHeap ==
    ASSUME SameIds PROVE \A i \in Places : heap[i] \in Ids /\ heap[i] \in Nat
<1>1. \A i \in Places : heap[i] \in Ids
  BY DEF SameIds, Places
<1>2. Ids \subseteq Nat
  BY InboxAssumption
<1> QED
  BY <1>1, <1>2

LEMMA ParentIsAbove ==
    ASSUME NEW i \in Nat, i >= 2
    PROVE  /\ Parent(i) \in Nat /\ 1 <= Parent(i) /\ Parent(i) < i
           /\ i = 2 * Parent(i) \/ i = 2 * Parent(i) + 1
BY DEF Parent

LEMMA ParentOfChild ==
    ASSUME NEW i \in Nat PROVE Parent(2 * i) = i /\ Parent(2 * i + 1) = i
BY DEF Parent

\* Where every place is in order with its parent the first is the oldest: a
\* least place that holds an older id would have such a parent.
LEMMA FirstIsOldest ==
    ASSUME SameIds, \A i \in Below : Kept(i), heap # <<>>
    PROVE  Oldest(heap[1])
<1>1. /\ heap \in Seq(Ids) /\ Len(heap) \in Nat /\ 1 \in Places
      /\ \A i \in Places : heap[i] \in Nat
  <2>1. heap \in Seq(Ids) /\ Len(heap) \in Nat
    BY DEF SameIds
  <2>2. Len(heap) # 0
    BY <2>1
  <2>3. \A i \in Places : heap[i] \in Nat
    BY IdsInHeap
  <2> QED
    BY <2>1, <2>2, <2>3 DEF Places
<1>2. \A i \in Places : heap[1] <= heap[i]
  <2> DEFINE T == {i \in Places : heap[i] < heap[1]}
  <2>1. SUFFICES ASSUME T # {} PROVE FALSE
    BY <1>1
  <2>2. T \in SUBSET Nat
    BY <1>1 DEF Places
  <2>3. PICK x \in T : \A y \in T : x <= y
    BY <2>1, <2>2, LeastElement
  <2>4. x \in Below /\ x \in Nat /\ x >= 2
    BY <1>1 DEF Places, Below
  <2>5. Parent(x) \in Places /\ Parent(x) < x
    BY <1>1, <2>4, ParentIsAbove DEF Places, Below
  <2>6. heap[Parent(x)] <= heap[x] /\ heap[x] < heap[1]
    BY <2>4 DEF Kept
  <2>7. Parent(x) \in T
    BY <1>1, <2>4, <2>5, <2>6 DEF Places, Below
  <2>8. x <= Parent(x)
    BY <2>3, <2>7
  <2>9. Parent(x) \in Nat
    BY <2>4, ParentIsAbove
  <2> QED
    BY <2>4, <2>5, <2>8, <2>9
<1> QED
  BY <1>1, <1>2 DEF Oldest, SameIds

-----------------------------------------------------------------------------
\* A turn of a loop that exchanges two ids.
LEMMA SwapEffect ==
    ASSUME SameIds, at \in Places, NEW j \in Places, j # at, SwapTo(j),
           UNCHANGED receivedIDs
    PROVE  /\ heap'[at] = heap[j] /\ heap'[j] = heap[at]
           /\ \A i \in Places : i # at /\ i # j => heap'[i] = heap[i]
           /\ Len(heap') = Len(heap) /\ SameIds'
<1>1. /\ heap \in Seq(Ids) /\ Len(heap) \in Nat
      /\ heap' = [heap EXCEPT ![at] = heap[j], ![j] = heap[at]]
  BY DEF SameIds, SwapTo
<1>2. DOMAIN heap = Places
  BY <1>1 DEF Places
<1>3. heap[at] \in Ids /\ heap[j] \in Ids
  BY <1>1, <1>2
<1>4. heap' \in Seq(Ids) /\ Len(heap') = Len(heap) /\ Places' = Places
  BY <1>1, <1>3 DEF Places
<1>5. /\ heap'[at] = heap[j] /\ heap'[j] = heap[at]
      /\ \A i \in Places : i # at /\ i # j => heap'[i] = heap[i]
  BY <1>1, <1>2
<1>6. \A i \in Places : heap'[i] \in receivedIDs
  BY <1>5 DEF SameIds
<1>7. ASSUME NEW m \in receivedIDs PROVE \E i \in Places : heap'[i] = m
  <2>1. PICK i \in Places : heap[i] = m
    BY DEF SameIds
  <2> QED
    BY <1>5, <2>1
<1>8. ASSUME NEW i \in Places, NEW k \in Places, i # k
      PROVE  heap'[i] # heap'[k]
  BY <1>5, <1>8 DEF SameIds
<1> QED
  BY <1>4, <1>5, <1>6, <1>7, <1>8 DEF SameIds

LEMMA RiseKeeps ==
    ASSUME SameIds, Repairable, Rise, UNCHANGED receivedIDs
    PROVE  SameIds' /\ Repairable'
<1>1. /\ loop = "up" /\ at \in Places /\ Len(heap) \in Nat
      /\ \A i \in Below : i # at => Kept(i)
      /\ \A i \in Below : at > 1 /\ Parent(i) = at => heap[Parent(at)] <= heap[i]
  BY DEF Repairable, Rise, SameIds
<1>2. \A i \in Places : heap[i] \in Nat
  BY IdsInHeap
<1>3. CASE Risen /\ Ordered
  <2>1. \A i \in Below : Kept(i)
    BY <1>1, <1>3 DEF Risen, Kept, Below, Places
  <2>2. SameIds'
    BY <1>3 DEF Ordered, SameIds, Places
  <2> QED
    BY <1>3, <2>1, <2>2 DEF Ordered, Repairable, Kept, Below
<1>4. CASE ~Risen /\ SwapTo(Parent(at))
  <2> DEFINE p == Parent(at)
  <2>1. /\ at \in Below /\ p \in Places /\ p < at
        /\ heap[at] < heap[p]
    <3>1. at > 1 /\ at \in Nat /\ at >= 2
      BY <1>1, <1>4 DEF Risen, Places
    <3>2. at \in Below /\ p \in Places /\ p < at
      BY <1>1, <3>1, ParentIsAbove DEF Places, Below
    <3> QED
      BY <1>2, <1>1, <1>4, <3>2 DEF Risen
  <2>2. /\ heap'[at] = heap[p] /\ heap'[p] = heap[at] /\ at' = p
        /\ \A i \in Places : i # at /\ i # p => heap'[i] = heap[i]
        /\ Len(heap') = Len(heap) /\ SameIds' /\ loop' = "up"
    <3>1. p # at /\ SwapTo(p)
      BY <1>1, <1>4, <2>1 DEF Places
    <3> HIDE DEF p
    <3> QED
      BY <1>1, <2>1, <3>1, SwapEffect DEF SwapTo
  <2> HIDE DEF p
  <2>3. \A i \in Below : /\ i \in Places /\ Parent(i) \in Places
                         /\ Parent(i) < i /\ i \in Nat
    BY <1>1, ParentIsAbove DEF Below, Places
  <2>4. Parent(at) = p
    BY DEF p
  <2>5. ASSUME NEW i \in Below, i # p
        PROVE  heap'[Parent(i)] <= heap'[i]
    <3>1. CASE i = at
      BY <1>2, <1>1, <2>1, <2>2, <2>4, <3>1
    <3>2. CASE i # at /\ Parent(i) = at
      BY <1>1, <2>1, <2>2, <2>3, <2>4, <2>5, <3>2 DEF Below
    <3>3. CASE i # at /\ Parent(i) = p
      <4>1. heap[p] <= heap[i]
        BY <1>1, <3>3 DEF Kept
      <4> QED
        BY <1>1, <1>2, <2>1, <2>2, <2>3, <2>5, <3>3, <4>1
    <3>4. CASE i # at /\ Parent(i) # at /\ Parent(i) # p
      BY <1>1, <2>2, <2>3, <2>5, <3>4 DEF Kept
    <3> QED
      BY <3>1, <3>2, <3>3, <3>4
  <2>6. ASSUME NEW i \in Below, p > 1, Parent(i) = p
        PROVE  heap'[Parent(p)] <= heap'[i]
    <3>1. p \in Below
      BY <2>1, <2>6 DEF Below, Places
    <3>2. /\ Parent(p) \in Places /\ Parent(p) < p /\ p < at
          /\ p \in Nat /\ at \in Nat /\ Parent(p) \in Nat
      BY <1>1, <2>1, <2>3, <3>1 DEF Places
    <3>3. Parent(p) # at /\ Parent(p) # p /\ p # at
      BY <3>2
    <3>4. heap'[Parent(p)] = heap[Parent(p)] /\ heap[Parent(p)] <= heap[p]
      BY <1>1, <2>2, <3>1, <3>2, <3>3 DEF Kept
    <3>5. CASE i = at
      BY <2>2, <3>4, <3>5
    <3>6. CASE i # at
      <4>1. i # p /\ heap[p] <= heap[i] /\ heap'[i] = heap[i]
        BY <1>1, <2>2, <2>3, <2>6, <3>6 DEF Kept
      <4> QED
        BY <1>2, <2>1, <2>3, <3>2, <3>4, <4>1
    <3> QED
      BY <3>5, <3>6
  <2> QED
    BY <2>1, <2>2, <2>5, <2>6 DEF Repairable, Kept, Below, Places
<1> QED
  BY <1>3, <1>4 DEF Rise

LEMMA SinkKeeps ==
    ASSUME SameIds, Repairable, Sink, UNCHANGED receivedIDs
    PROVE  SameIds' /\ Repairable'
<1>1. /\ loop = "down" /\ at \in Places /\ Len(heap) \in Nat /\ at \in Nat
      /\ \A i \in Below : Parent(i) # at => Kept(i)
      /\ \A i \in Below : at > 1 /\ Parent(i) = at => heap[Parent(at)] <= heap[i]
  BY DEF Repairable, Sink, SameIds, Places
<1>2. \A i \in Places : heap[i] \in Nat
  BY IdsInHeap
<1>3. \A i \in Below : /\ i \in Places /\ Parent(i) \in Places
                       /\ Parent(i) < i /\ i \in Nat
                       /\ (i = 2 * Parent(i) \/ i = 2 * Parent(i) + 1)
  BY <1>1, ParentIsAbove DEF Below, Places
<1> DEFINE c == SmallerChild(at)
\* The smaller of the children there are.
<1>4. ASSUME 2 * at <= Len(heap)
      PROVE  /\ c \in Below /\ Parent(c) = at
             /\ \A i \in Below : Parent(i) = at => heap[c] <= heap[i]
  <2>1. 2 * at \in Below /\ 2 * at \in Places
    BY <1>1, <1>4 DEF Below, Places
  <2>2. CASE 2 * at + 1 <= Len(heap) /\ heap[2 * at + 1] < heap[2 * at]
    <3>1. c = 2 * at + 1 /\ c \in Below
      BY <1>1, <2>2 DEF SmallerChild, Below, Places
    <3>2. Parent(c) = at
      BY <1>1, <3>1, ParentOfChild
    <3> QED
      BY <1>2, <1>3, <2>1, <2>2, <3>1, <3>2
  <2>3. CASE ~(2 * at + 1 <= Len(heap) /\ heap[2 * at + 1] < heap[2 * at])
    <3>1. c = 2 * at
      BY <2>3 DEF SmallerChild
    <3>2. Parent(c) = at
      BY <1>1, <3>1, ParentOfChild
    <3>3. ASSUME NEW i \in Below, Parent(i) = at PROVE heap[c] <= heap[i]
      <4>1. CASE i = 2 * at
        BY <1>2, <2>1, <3>1, <4>1
      <4>2. CASE i = 2 * at + 1
        BY <1>2, <1>3, <2>1, <2>3, <3>1, <4>2 DEF Below
      <4> QED
        BY <1>3, <3>3, <4>1, <4>2
    <3> QED
      BY <2>1, <3>1, <3>2, <3>3
  <2> QED
    BY <2>2, <2>3
<1>5. CASE Sunk /\ Ordered
  <2>1. ASSUME NEW i \in Below PROVE Kept(i)
    <3>1. CASE Parent(i) # at
      BY <1>1, <3>1
    <3>2. CASE Parent(i) = at
      <4>1. 2 * at <= Len(heap)
        BY <1>1, <1>3, <3>2 DEF Below
      <4>2. heap[at] <= heap[c] /\ heap[c] <= heap[i] /\ c \in Below
        BY <1>4, <1>5, <3>2, <4>1 DEF Sunk
      <4> HIDE DEF c
      <4>3. heap[at] \in Nat /\ heap[c] \in Nat /\ heap[i] \in Nat
        BY <1>1, <1>2, <1>3, <4>2
      <4> QED
        BY <3>2, <4>2, <4>3 DEF Kept
    <3> QED
      BY <3>1, <3>2
  <2>2. SameIds'
    BY <1>5 DEF Ordered, SameIds, Places
  <2> QED
    BY <1>5, <2>1, <2>2 DEF Ordered, Repairable, Kept, Below
<1>6. CASE ~Sunk /\ SwapTo(SmallerChild(at))
  <2>1. /\ c \in Below /\ Parent(c) = at /\ c \in Places
        /\ \A i \in Below : Parent(i) = at => heap[c] <= heap[i]
    BY <1>3, <1>4, <1>6 DEF Sunk
  <2>2. ~(heap[at] <= heap[c]) /\ SwapTo(c)
    BY <1>6 DEF Sunk
  <2> HIDE DEF c
  <2>3. c # at /\ at < c /\ c \in Nat
    BY <1>1, <1>3, <2>1
  <2>4. /\ heap'[at] = heap[c] /\ heap'[c] = heap[at] /\ at' = c
        /\ \A i \in Places : i # at /\ i # c => heap'[i] = heap[i]
        /\ Len(heap') = Len(heap) /\ SameIds' /\ loop' = "down"
    BY <1>1, <2>1, <2>2, <2>3, SwapEffect DEF SwapTo
  <2>5. heap[c] < heap[at] /\ heap[c] \in Nat /\ heap[at] \in Nat
    BY <1>1, <1>2, <2>1, <2>2
  <2>6. ASSUME NEW i \in Below, Parent(i) # c
        PROVE  heap'[Parent(i)] <= heap'[i]
    <3>1. CASE i = c
      BY <2>1, <2>4, <2>5, <3>1
    <3>2. CASE i # c /\ Parent(i) = at
      <4>1. heap[c] <= heap[i] /\ i # at
        BY <1>3, <2>1, <3>2
      <4> QED
        BY <1>3, <2>4, <3>2, <4>1
    <3>3. CASE i = at
      <4>1. at > 1 /\ Parent(at) # at /\ Parent(at) \in Places
        BY <1>1, <1>3, <3>3 DEF Below
      <4>2. heap[Parent(at)] <= heap[c]
        BY <1>1, <2>1, <4>1
      <4> QED
        BY <2>4, <2>6, <3>3, <4>1, <4>2
    <3>4. CASE i # c /\ i # at /\ Parent(i) # at
      BY <1>1, <1>3, <2>4, <2>6, <3>4 DEF Kept
    <3> QED
      BY <3>1, <3>2, <3>3, <3>4
  <2>7. ASSUME NEW i \in Below, Parent(i) = c
        PROVE  heap'[Parent(c)] <= heap'[i]
    <3>1. i # c /\ i # at /\ heap[c] <= heap[i]
      BY <1>1, <1>3, <2>3, <2>7 DEF Kept
    <3> QED
      BY <1>3, <2>1, <2>4, <3>1
  <2> QED
    BY <2>1, <2>4, <2>6, <2>7 DEF Repairable, Kept, Below, Places
<1> QED
  BY <1>5, <1>6 DEF Sink

-----------------------------------------------------------------------------
\* remember: the window as Inbox has it, and the heap.

LEMMA WindowStep ==
    ASSUME InboxInv, Next
    PROVE  \/ receivedIDs' = receivedIDs
           \/ \E m \in Ids : m \notin receivedIDs /\ Remember(m)
<1>1. CASE Process
  BY <1>1, InboxAssumption
  DEF Process, Refuse, QueueAck, Skip, HandOver, Open, Answers, Hinted, Take,
      Fresh
<1>2. CASE ~Process
  BY <1>2
  DEF Next, Read, ServerHears, Write, TakeReport, Tick, SendReport, Send,
      SendAcks, DropAcks, SendFails, WriterStops, LinkBreaks, ReadFails,
      Reconnect, readerVars
<1> QED
  BY <1>1, <1>2

\* The first place of a full window that is in order goes to the new id.
LEMMA ReplaceKeeps ==
    ASSUME InboxInv, SameIds, Repairable, loop = "none",
           NEW m \in Ids, m \notin receivedIDs, Full, Remember(m), Enter(m)
    PROVE  SameIds' /\ Repairable'
<1>1. /\ heap \in Seq(Ids) /\ Len(heap) \in Nat
      /\ Len(heap) = Cardinality(receivedIDs) /\ Len(heap) = Window
      /\ Window \in Nat \ {0}
  BY InboxAssumption DEF SameIds, Full
<1>2. 1 \in Places /\ heap # <<>>
  BY <1>1 DEF Places
<1>3. heap' = [heap EXCEPT ![1] = m] /\ loop' = "down" /\ at' = 1
  BY <1>1 DEF Enter
<1>4. heap' \in Seq(Ids) /\ Len(heap') = Len(heap) /\ Places' = Places
  BY <1>1, <1>2, <1>3 DEF Places
<1>5. heap'[1] = m /\ \A i \in Places : i # 1 => heap'[i] = heap[i]
  BY <1>1, <1>2, <1>3 DEF Places
<1>6. Oldest(heap[1])
  BY <1>2, FirstIsOldest DEF Repairable
<1>7. receivedIDs \subseteq Nat /\ IsFiniteSet(receivedIDs)
  BY InboxAssumption DEF InboxInv, TypeOK, Finite
<1>8. receivedIDs' = (receivedIDs \ {heap[1]}) \cup {m}
  <2>1. PICK r \in receivedIDs :
            Oldest(r) /\ receivedIDs' = (receivedIDs \ {r}) \cup {m}
    BY DEF Remember
  <2>2. r = heap[1]
    <3> DEFINE first == heap[1]
    <3>1. first <= r /\ r <= first /\ first \in Nat /\ r \in Nat
      BY <1>6, <1>7, <2>1 DEF Oldest
    <3> HIDE DEF first
    <3>2. r = first
      BY <3>1
    <3> QED
      BY <3>2 DEF first
  <2> QED
    BY <2>1, <2>2
<1>9. Cardinality(receivedIDs') = Cardinality(receivedIDs)
  <2>1. /\ IsFiniteSet(receivedIDs \ {heap[1]})
        /\ Cardinality(receivedIDs \ {heap[1]}) = Cardinality(receivedIDs) - 1
    BY <1>6, <1>7, FS_RemoveElement DEF Oldest
  <2>2. Cardinality((receivedIDs \ {heap[1]}) \cup {m}) =
            Cardinality(receivedIDs \ {heap[1]}) + 1
    BY <2>1, FS_AddElement
  <2> QED
    BY <1>1, <1>8, <2>1, <2>2
<1>10. SameIds'
  <2>1. \A i \in Places : heap'[i] \in receivedIDs'
    BY <1>2, <1>5, <1>8 DEF SameIds
  <2>2. ASSUME NEW k \in receivedIDs' PROVE \E i \in Places : heap'[i] = k
    <3>1. CASE k = m
      BY <1>2, <1>5, <3>1
    <3>2. CASE k # m
      <4>1. k \in receivedIDs /\ k # heap[1]
        BY <1>8, <3>2
      <4>2. PICK i \in Places : heap[i] = k
        BY <4>1 DEF SameIds
      <4> QED
        BY <1>5, <4>1, <4>2
    <3> QED
      BY <3>1, <3>2
  <2>3. ASSUME NEW i \in Places, NEW k \in Places, i # k
        PROVE  heap'[i] # heap'[k]
    BY <1>5, <2>3 DEF SameIds
  <2> QED
    BY <1>1, <1>4, <1>9, <2>1, <2>2, <2>3 DEF SameIds
<1>11. Below' = Below
  BY <1>4 DEF Below
<1>12. ASSUME NEW i \in Below, Parent(i) # 1 PROVE Kept(i)'
  <2>1. i \in Places /\ Parent(i) \in Places /\ i # 1
    BY <1>1, ParentIsAbove DEF Below, Places
  <2>2. Kept(i)
    BY DEF Repairable
  <2> QED
    BY <1>5, <1>12, <2>1, <2>2 DEF Kept
<1> QED
  BY <1>2, <1>3, <1>4, <1>10, <1>11, <1>12 DEF Repairable

LEMMA AppendKeeps ==
    ASSUME InboxInv, SameIds, Repairable, loop = "none",
           NEW m \in Ids, m \notin receivedIDs, ~Full, Remember(m), Enter(m)
    PROVE  SameIds' /\ Repairable'
<1> DEFINE n == Len(heap) + 1
<1>1. /\ heap \in Seq(Ids) /\ Len(heap) \in Nat
      /\ Len(heap) = Cardinality(receivedIDs) /\ Len(heap) # Window
  BY DEF SameIds, Full
<1>2. heap' = Append(heap, m) /\ loop' = "up" /\ at' = n
  BY <1>1 DEF Enter
<1>3. /\ heap' \in Seq(Ids) /\ Len(heap') = n /\ n \in Nat
      /\ Places' = Places \cup {n} /\ n \notin Places
  BY <1>1, <1>2 DEF Places
<1>4. heap'[n] = m /\ \A i \in Places : heap'[i] = heap[i]
  BY <1>1, <1>2 DEF Places
<1>5. receivedIDs' = receivedIDs \cup {m}
  BY DEF Remember
<1>6. Cardinality(receivedIDs') = Cardinality(receivedIDs) + 1
  BY <1>5, FS_AddElement DEF InboxInv, Finite
<1>7. Below' \subseteq Below \cup {n} /\ \A i \in Below : Parent(i) # n
  BY <1>1, <1>3, ParentIsAbove DEF Below
<1> HIDE DEF n
<1>8. SameIds'
  <2>1. \A i \in Places' : heap'[i] \in receivedIDs'
    BY <1>3, <1>4, <1>5 DEF SameIds
  <2>2. ASSUME NEW k \in receivedIDs' PROVE \E i \in Places' : heap'[i] = k
    BY <1>3, <1>4, <1>5 DEF SameIds
  <2>3. ASSUME NEW i \in Places', NEW k \in Places', i # k
        PROVE  heap'[i] # heap'[k]
    BY <1>3, <1>4, <2>3 DEF SameIds
  <2> QED
    BY <1>1, <1>3, <1>6, <2>1, <2>2, <2>3 DEF SameIds, n
<1>9. ASSUME NEW i \in Below', i # n PROVE Kept(i)'
  <2>1. i \in Below /\ Kept(i)
    BY <1>7, <1>9 DEF Repairable
  <2>2. i \in Places /\ Parent(i) \in Places
    BY <1>1, <2>1, ParentIsAbove DEF Below, Places
  <2> QED
    BY <1>4, <2>1, <2>2 DEF Kept
<1>10. \A i \in Below' : Parent(i) # n
  <2>1. n >= 2 => Parent(n) # n
    BY <1>3, ParentIsAbove
  <2> QED
    BY <1>3, <1>7, <2>1 DEF Below
<1> QED
  BY <1>2, <1>3, <1>8, <1>9, <1>10 DEF Repairable

LEMMA HeapInitKeeps == HeapInit => HeapInv
<1> SUFFICES ASSUME HeapInit PROVE HeapInv
  OBVIOUS
<1>1. InboxInv /\ receivedIDs = {} /\ heap = <<>> /\ loop = "none" /\ at = 0
  BY InitKeeps DEF HeapInit, Init
<1>2. Cardinality({}) = 0
  BY FS_EmptySet
<1>3. Len(heap) = 0 /\ heap \in Seq(Ids) /\ Places = {} /\ Below = {}
  BY <1>1 DEF Places, Below
<1>4. SameIds
  BY <1>1, <1>2, <1>3 DEF SameIds
<1>5. Repairable
  BY <1>1, <1>3 DEF Repairable
<1> QED
  BY <1>1, <1>4, <1>5 DEF HeapInv

LEMMA HeapStepKeeps == HeapInv /\ [HeapNext]_<<vars, heapVars>> => HeapInv'
<1> SUFFICES ASSUME HeapInv, [HeapNext]_<<vars, heapVars>> PROVE HeapInv'
  OBVIOUS
<1>1. InboxInv /\ SameIds /\ Repairable
  BY DEF HeapInv
<1>2. InboxInv'
  BY <1>1, StepKeeps DEF HeapNext
<1>3. CASE receivedIDs' = receivedIDs /\ UNCHANGED heapVars
  <2>1. SameIds'
    BY <1>1, <1>3 DEF SameIds, Places, heapVars
  <2>2. Repairable'
    BY <1>1, <1>3 DEF Repairable, Places, Below, Kept, heapVars
  <2> QED
    BY <1>2, <2>1, <2>2 DEF HeapInv
<1>4. CASE UNCHANGED <<vars, heapVars>>
  BY <1>3, <1>4 DEF vars
<1>5. CASE (Rise \/ Sink) /\ UNCHANGED vars
  <2>1. UNCHANGED receivedIDs
    BY <1>5 DEF vars
  <2> QED
    BY <1>1, <1>2, <1>5, <2>1, RiseKeeps, SinkKeeps DEF HeapInv
<1>6. CASE loop = "none" /\ Next /\ \E m \in receivedIDs' \ receivedIDs : Enter(m)
  <2>1. PICK m \in receivedIDs' \ receivedIDs : Enter(m)
    BY <1>6
  <2>2. PICK k \in Ids : k \notin receivedIDs /\ Remember(k)
    BY <1>1, <1>6, <2>1, WindowStep
  <2>3. k = m
    BY <2>1, <2>2 DEF Remember
  <2>4. SameIds' /\ Repairable'
    BY <1>1, <1>6, <2>1, <2>2, <2>3, ReplaceKeeps, AppendKeeps
  <2> QED
    BY <1>2, <2>4 DEF HeapInv
<1> QED
  BY <1>3, <1>4, <1>5, <1>6 DEF HeapNext, FollowWindow

\* The Inbox with the heap beside its window is an Inbox: what was proved above
\* holds for it too.
THEOREM HeapImplements == HeapSpec => Spec
<1>1. HeapInit => Init
  BY DEF HeapInit
<1>2. [HeapNext]_<<vars, heapVars>> => [Next]_vars
  BY DEF HeapNext
<1> QED
  BY <1>1, <1>2, PTL DEF HeapSpec, Spec

\* The heap holds each id of the map once and remember finds the oldest of them
\* at its first place, for every size of the window and however many turns the
\* loops take (receivedMessageWindow).
THEOREM HeapIsWindowAlways == HeapSpec => []HeapIsWindow
<1>1. HeapInv => HeapIsWindow
  <2> SUFFICES ASSUME HeapInv PROVE HeapIsWindow
    OBVIOUS
  <2>1. InboxInv /\ SameIds /\ Repairable
    BY DEF HeapInv
  <2>2. {heap[i] : i \in Places} = receivedIDs
    BY <2>1 DEF SameIds
  <2>3. loop = "none" /\ heap # <<>> => Oldest(heap[1])
    BY <2>1, FirstIsOldest DEF Repairable
  <2> QED
    BY <2>1, <2>2, <2>3 DEF HeapIsWindow, SameIds, Places
<1> QED
  BY <1>1, HeapInitKeeps, HeapStepKeeps, PTL DEF HeapSpec
=============================================================================
