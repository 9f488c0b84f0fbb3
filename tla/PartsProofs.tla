----------------------------- MODULE PartsProofs -----------------------------
(***************************************************************************)
(* Proofs about the components that share no state: the connection gate,   *)
(* the albums, the extra connections, the file of the peer cache, and the  *)
(* composition of them all with the task pools (TaskPoolProofs).  For      *)
(* every set of waiters, pieces, transfers, edits, updates and calls:      *)
(*                                                                         *)
(*   GateIsSafe           the gate never panics and loses no wakeup        *)
(*   OneCollectorAlways   one collector serves the albums of a start       *)
(*   CacheIsBoundedAlways the cache of connections is bounded              *)
(*   CloseIsFinalAlways   Close saves what was promised, and is the last   *)
(*   PartsCompose         side by side each does what it does alone        *)
(***************************************************************************)
EXTENDS MCParts, TaskPoolProofs

-----------------------------------------------------------------------------
(* The connection gate.                                                    *)

LEMMA GateStart == GateInit => GateInv
<1> SUFFICES ASSUME GateInit PROVE GateInv
  OBVIOUS
<1> USE TcpStateAssumption DEF GateInit, Chans
<1>1. GateTypeOK
  <2>1. ch \in Chans /\ held \in [Waiters -> 0..MaxChan]
    OBVIOUS
  <2>2. QED
    BY <2>1 DEF GateTypeOK
<1>2. NoPanic /\ FlagsMatchChannel
  BY DEF NoPanic, FlagsMatchChannel
<1>3. OnlyLastOpen
  <2>1. \A w \in Waiters : pc[w] # "blocked"
    OBVIOUS
  <2>2. shut = {} /\ \A c \in Chans : ~ (c < ch)
    OBVIOUS
  <2>3. QED
    BY <2>1, <2>2 DEF OnlyLastOpen
<1>4. QED
  BY <1>1, <1>2, <1>3 DEF GateInv

LEMMA GateInvStep == GateInv /\ [GateNext]_gateVars => GateInv'
<1> SUFFICES ASSUME GateInv, [GateNext]_gateVars PROVE GateInv'
  OBVIOUS
<1> USE TcpStateAssumption
    DEF GateInv, GateTypeOK, NoPanic, FlagsMatchChannel, OnlyLastOpen, Chans, CloseChan, Goto
<1>1. CASE Activate
  <2>1. ch' \in Chans /\ ch' >= ch /\ ch' <= ch + 1 /\ ch' \notin shut
    BY <1>1 DEF Activate
  <2>2. shut' = shut \union {ch'} /\ gateActive' = TRUE /\ gateClosed' = FALSE /\ UNCHANGED <<pc, held>>
    BY <1>1 DEF Activate
  <2>3. GateTypeOK' /\ FlagsMatchChannel'
    BY <1>1, <2>1, <2>2 DEF Activate
  <2>4. NoPanic'
    BY <1>1, <2>1 DEF Activate
  <2>5. OnlyLastOpen'
    <3>1. ch' = ch \/ (ch' = ch + 1 /\ ch \in shut)
      BY <1>1 DEF Activate
    <3>2. QED
      BY <2>1, <2>2, <3>1
  <2>6. QED
    BY <2>3, <2>4, <2>5
<1>2. CASE Deactivate
  <2>1. ch' = ch + 1 /\ ch' \in Chans /\ ch \in shut /\ ch' \notin shut
    BY <1>2 DEF Deactivate
  <2>2. gateActive' = FALSE /\ gateClosed = FALSE /\ UNCHANGED <<gateClosed, shut, panicked, pc, held>>
    BY <1>2 DEF Deactivate
  <2>3. GateTypeOK' /\ NoPanic' /\ FlagsMatchChannel'
    BY <2>1, <2>2
  <2>4. OnlyLastOpen'
    BY <2>1, <2>2
  <2>5. QED
    BY <2>3, <2>4
<1>3. CASE Close
  <2>1. gateActive' = FALSE /\ gateClosed' = TRUE /\ UNCHANGED <<ch, pc, held>>
    BY <1>3 DEF Close
  <2>2. shut' = shut \union {ch} /\ panicked' = FALSE
    <3>1. CASE ~ gateActive /\ ~ gateClosed
      BY <1>3, <3>1 DEF Close
    <3>2. CASE gateActive \/ gateClosed
      BY <1>3, <3>2 DEF Close
    <3>3. QED
      BY <3>1, <3>2
  <2>3. GateTypeOK' /\ NoPanic' /\ FlagsMatchChannel'
    BY <2>1, <2>2
  <2>4. OnlyLastOpen'
    BY <2>1, <2>2
  <2>5. QED
    BY <2>3, <2>4
<1>4. ASSUME NEW w \in Waiters, CallWait(w) PROVE GateInv'
  BY <1>4 DEF CallWait
<1>5. ASSUME NEW w \in Waiters, Look(w) PROVE GateInv'
  BY <1>5 DEF Look
<1>6. ASSUME NEW w \in Waiters, WakeUp(w) PROVE GateInv'
  BY <1>6 DEF WakeUp
<1>7. ASSUME NEW w \in Waiters, Cancel(w) PROVE GateInv'
  BY <1>7 DEF Cancel
<1>8. CASE UNCHANGED gateVars
  BY <1>8 DEF gateVars
<1>9. QED
  BY <1>1, <1>2, <1>3, <1>4, <1>5, <1>6, <1>7, <1>8 DEF GateNext

(* GateInv holds in every reachable state. *)
THEOREM GateInvariant == GateSpec => []GateInv
  BY GateStart, GateInvStep, PTL DEF GateSpec

(* Whatever the order of connects, losses and shutdowns, the client never  *)
(* panics by closing a channel of TcpState twice.                          *)
THEOREM GateNeverPanics == GateSpec => []NoPanic
<1>1. GateInv => NoPanic
  BY DEF GateInv
<1>2. QED
  BY <1>1, GateInvariant, PTL

(* Nobody blocks in WaitForActive on a channel that no later SetActive or  *)
(* close will close.                                                       *)
THEOREM GateLosesNoWakeup == GateSpec => []NoLostWakeup
<1>1. GateInv => NoLostWakeup
  <2> SUFFICES ASSUME GateInv, NEW w \in Waiters, pc[w] = "blocked"
               PROVE  held[w] = ch \/ held[w] \in shut
    BY DEF NoLostWakeup
  <2> QED
    BY TcpStateAssumption DEF GateInv, GateTypeOK, OnlyLastOpen, Chans
<1>2. QED
  BY <1>1, GateInvariant, PTL

(* Both together, for every number of waiters and channels.                *)
THEOREM GateIsSafe == GateSpec => []GateSafe
  BY GateNeverPanics, GateLosesNoWakeup, PTL DEF GateSafe

-----------------------------------------------------------------------------
(* Albums.  At most one collector serves the channel of the current start: *)
(* as long as there is one albumRunning is set or the channel is closed,   *)
(* and a new collector is started only if neither is the case.             *)

AlbumsSmall == AlbumsTypeOK /\ IsFiniteSet(boxes)

(* Every channel was made by a restart, which follows a Terminate.         *)
ChannelsCounted ==
  /\ albumChan <= ends
  /\ albumChan \in cut => albumChan < ends
  /\ ending => albumChan < ends
  /\ ending /\ albumChan \in cut => albumChan + 1 < ends

OwnsMade == \A k \in Pieces : own[k] <= albumChan

Watched ==
  \A k \in Pieces :
    collector[k] # "none" /\ own[k] = albumChan => running \/ albumChan \in cut

AlbumsInv == AlbumsSmall /\ ChannelsCounted /\ OwnsMade /\ Watched /\ OneCollector

LEMMA AlbumsStart == AlbumsInit => AlbumsInv
<1> SUFFICES ASSUME AlbumsInit PROVE AlbumsInv
  OBVIOUS
<1> USE AlbumsAssumption DEF AlbumsInit
<1>1. IsFiniteSet(boxes)
  BY FS_EmptySet
<1>2. ready \in [Pieces -> Seq(SUBSET Pieces)]
  OBVIOUS
<1>3. AlbumsTypeOK
  <2>1. /\ group \in [Pieces -> Groups]
        /\ piece \in [Pieces -> {"new", "seen", "boxed", "ready", "handed", "lost"}]
        /\ collector \in [Pieces -> {"none", "wait", "send"}]
    OBVIOUS
  <2>2. /\ boxes \subseteq Groups /\ ripe \subseteq boxes
        /\ running \in BOOLEAN /\ ended \in BOOLEAN /\ ending \in BOOLEAN
        /\ cut \subseteq 0..albumChan
    OBVIOUS
  <2>3. albumChan \in 0..MaxEnds /\ ends \in 0..MaxEnds /\ own \in [Pieces -> 0..MaxEnds]
    OBVIOUS
  <2>4. QED
    BY <1>2, <2>1, <2>2, <2>3 DEF AlbumsTypeOK
<1>4. ChannelsCounted /\ OwnsMade /\ Watched /\ OneCollector
  BY DEF ChannelsCounted, OwnsMade, Watched, OneCollector
<1>5. QED
  BY <1>1, <1>3, <1>4 DEF AlbumsInv, AlbumsSmall

(* Move keeps the type of piece.                                           *)
LEMMA MoveTypes ==
  ASSUME AlbumsTypeOK, NEW ms, NEW state \in {"new", "seen", "boxed", "ready", "handed", "lost"},
         Move(ms, state)
  PROVE  piece' \in [Pieces -> {"new", "seen", "boxed", "ready", "handed", "lost"}]
  BY DEF AlbumsTypeOK, Move

(* What leaves the collectors and the channel alone disturbs nothing.      *)
LEMMA CrewAside ==
  ASSUME ChannelsCounted, OwnsMade, Watched, OneCollector,
         UNCHANGED <<collector, own, running, pool>>
  PROVE  ChannelsCounted' /\ OwnsMade' /\ Watched' /\ OneCollector'
  BY DEF ChannelsCounted, OwnsMade, Watched, OneCollector, pool

LEMMA HandleStep ==
  ASSUME AlbumsInv, NEW m \in Pieces, Handle(m)
  PROVE  AlbumsInv'
<1> USE AlbumsAssumption DEF AlbumsInv, AlbumsSmall
<1>1. CASE SeePiece(m) \/ JoinBox(m) \/ RefusePiece(m)
  <2>1. piece' \in [Pieces -> {"new", "seen", "boxed", "ready", "handed", "lost"}]
    BY <1>1 DEF SeePiece, JoinBox, RefusePiece, AlbumsTypeOK
  <2>2. UNCHANGED <<group, boxes, ripe, running, crew, pool>>
    BY <1>1 DEF SeePiece, JoinBox, RefusePiece
  <2>3. AlbumsTypeOK' /\ IsFiniteSet(boxes)'
    BY <2>1, <2>2 DEF AlbumsTypeOK, crew, pool
  <2>4. QED
    BY <2>2, <2>3, CrewAside DEF crew
<1>2. CASE StartBox(m)
  <2>1. /\ albumChan \notin cut /\ boxes' = boxes \union {group[m]}
        /\ running' = TRUE /\ piece' = [piece EXCEPT ![m] = "boxed"]
        /\ UNCHANGED <<group, ripe, ready, pool>>
    BY <1>2 DEF StartBox
  <2>2. IsFiniteSet(boxes')
    BY <2>1, FS_AddElement
  <2>3. CASE running
    <3>1. UNCHANGED <<collector, own>>
      BY <1>2, <2>3 DEF StartBox
    <3>2. AlbumsTypeOK'
      BY <2>1, <3>1 DEF AlbumsTypeOK, pool
    <3>3. QED
      BY <2>1, <2>2, <2>3, <3>1, <3>2, CrewAside
  <2>4. CASE ~ running
    <3>1. /\ collector' = [collector EXCEPT ![m] = "wait"]
          /\ own' = [own EXCEPT ![m] = albumChan]
      BY <1>2, <2>4 DEF StartBox
    <3>2. AlbumsTypeOK'
      BY <2>1, <3>1 DEF AlbumsTypeOK, pool
    <3>3. ChannelsCounted' /\ OwnsMade' /\ Watched'
      BY <2>1, <3>1 DEF ChannelsCounted, OwnsMade, Watched, AlbumsTypeOK, pool
    <3>4. \A k \in Pieces : ~ (collector[k] # "none" /\ own[k] = albumChan)
      BY <2>1, <2>4 DEF Watched
    <3>5. OneCollector'
      BY <2>1, <3>1, <3>4 DEF OneCollector, AlbumsTypeOK, pool
    <3>6. QED
      BY <2>2, <3>2, <3>3, <3>5
  <2>5. QED
    BY <2>3, <2>4
<1>3. QED
  BY <1>1, <1>2 DEF Handle

LEMMA CollectStep ==
  ASSUME AlbumsInv, NEW k \in Pieces, Collect(k)
  PROVE  AlbumsInv'
<1> USE AlbumsAssumption DEF AlbumsInv, AlbumsSmall
<1>u. collector[k] = "wait" /\ UNCHANGED <<group, running, own, pool>>
  BY DEF Collect
<1>1. CASE own[k] # albumChan
  <2>1. /\ collector' = [collector EXCEPT ![k] = "none"]
        /\ UNCHANGED <<boxes, ripe, ready, piece>>
    BY <1>1 DEF Collect
  <2>2. AlbumsTypeOK' /\ IsFiniteSet(boxes)'
    BY <1>u, <2>1 DEF AlbumsTypeOK, pool
  <2>3. ChannelsCounted' /\ OwnsMade' /\ Watched' /\ OneCollector'
    BY <1>u, <2>1 DEF ChannelsCounted, OwnsMade, Watched, OneCollector, AlbumsTypeOK, pool
  <2>4. QED
    BY <2>2, <2>3
<1>2. CASE own[k] = albumChan
  <2>1. /\ collector' = [collector EXCEPT ![k] = "send"]
        /\ boxes' = boxes \ ripe /\ ripe' = {}
        /\ Move(UNION {Boxed(g) : g \in ripe}, "ready")
    BY <1>2 DEF Collect
  <2>2. PICK order \in [1..Cardinality(ripe) -> ripe] :
          ready' = [ready EXCEPT ![k] = [i \in DOMAIN order |-> Boxed(order[i])]]
    BY <1>2 DEF Collect
  <2>3. IsFiniteSet(boxes') /\ IsFiniteSet(ripe)
    BY <2>1, FS_Subset, FS_Difference DEF AlbumsTypeOK
  <2>4. Cardinality(ripe) \in Nat
    BY <2>3, FS_CardinalityType
  <2>5. \A g : Boxed(g) \in SUBSET Pieces
    BY DEF Boxed
  <2>6. [i \in DOMAIN order |-> Boxed(order[i])] \in Seq(SUBSET Pieces)
    <3> DEFINE n == Cardinality(ripe)
               f == [i \in DOMAIN order |-> Boxed(order[i])]
    <3>1. n \in Nat /\ DOMAIN order = 1..n
      BY <2>4
    <3>2. f \in [1..n -> SUBSET Pieces]
      BY <3>1, <2>5
    <3>3. QED
      BY <3>1, <3>2
  <2>7. ready' \in [Pieces -> Seq(SUBSET Pieces)]
    BY <2>2, <2>6 DEF AlbumsTypeOK
  <2>8. piece' \in [Pieces -> {"new", "seen", "boxed", "ready", "handed", "lost"}]
    BY <2>1, MoveTypes
  <2>9. AlbumsTypeOK'
    BY <1>u, <2>1, <2>7, <2>8 DEF AlbumsTypeOK, pool
  <2>10. ChannelsCounted' /\ OwnsMade' /\ Watched' /\ OneCollector'
    BY <1>u, <2>1 DEF ChannelsCounted, OwnsMade, Watched, OneCollector, AlbumsTypeOK, pool
  <2>11. QED
    BY <2>3, <2>9, <2>10
<1>3. QED
  BY <1>1, <1>2

LEMMA CollectorSteps ==
  ASSUME AlbumsInv, NEW k \in Pieces, CollectorStep(k)
  PROVE  AlbumsInv'
<1> USE AlbumsAssumption DEF AlbumsInv, AlbumsSmall
<1>1. CASE CollectorStops(k)
  <2>1. /\ own[k] \in cut /\ collector' = [collector EXCEPT ![k] = "none"]
        /\ UNCHANGED <<group, own, ready, pool>>
    BY <1>1 DEF CollectorStops
  <2>2. \/ UNCHANGED <<boxes, ripe, running, piece>>
        \/ /\ own[k] = albumChan
           /\ boxes' = {} /\ ripe' = {} /\ running' = FALSE /\ Move(AllBoxed, "lost")
    BY <1>1 DEF CollectorStops
  <2>3. piece' \in [Pieces -> {"new", "seen", "boxed", "ready", "handed", "lost"}]
    BY <2>2, MoveTypes DEF AlbumsTypeOK
  <2>4. IsFiniteSet(boxes')
    BY <2>2, FS_EmptySet
  <2>5. AlbumsTypeOK'
    BY <2>1, <2>2, <2>3 DEF AlbumsTypeOK, pool
  <2>6. ChannelsCounted' /\ OwnsMade' /\ Watched' /\ OneCollector'
    BY <2>1, <2>2 DEF ChannelsCounted, OwnsMade, Watched, OneCollector, AlbumsTypeOK, pool
  <2>7. QED
    BY <2>4, <2>5, <2>6
<1>2. CASE Collect(k)
  BY <1>2, CollectStep
<1>3. CASE Dispatch(k) \/ DispatchFails(k)
  <2>1. /\ ready[k] # <<>> /\ ready' = [ready EXCEPT ![k] = Tail(@)]
        /\ UNCHANGED <<group, boxes, ripe, running, collector, own, pool>>
    BY <1>3 DEF Dispatch, DispatchFails
  <2>2. piece' \in [Pieces -> {"new", "seen", "boxed", "ready", "handed", "lost"}]
    BY <1>3, MoveTypes DEF Dispatch, DispatchFails
  <2>3. ready' \in [Pieces -> Seq(SUBSET Pieces)]
    BY <2>1 DEF AlbumsTypeOK
  <2>4. AlbumsTypeOK' /\ IsFiniteSet(boxes)'
    BY <2>1, <2>2, <2>3 DEF AlbumsTypeOK, pool
  <2>5. QED
    BY <2>1, <2>4, CrewAside
<1>4. CASE CollectorEnds(k)
  <2> DEFINE finished == own[k] # albumChan \/ boxes = {}
  <2>1. /\ collector[k] = "send"
        /\ collector' = [collector EXCEPT ![k] = IF finished THEN "none" ELSE "wait"]
        /\ running' = (running /\ ~ (finished /\ own[k] = albumChan))
        /\ UNCHANGED <<group, piece, boxes, ripe, own, ready, pool>>
    BY <1>4 DEF CollectorEnds
  <2>2. AlbumsTypeOK' /\ IsFiniteSet(boxes)'
    BY <2>1 DEF AlbumsTypeOK, pool
  <2>3. ChannelsCounted' /\ OwnsMade' /\ OneCollector'
    BY <2>1 DEF ChannelsCounted, OwnsMade, OneCollector, AlbumsTypeOK, pool
  <2>4. Watched'
    BY <2>1 DEF Watched, OneCollector, AlbumsTypeOK, pool
  <2>5. QED
    BY <2>2, <2>3, <2>4
<1>5. QED
  BY <1>1, <1>2, <1>3, <1>4 DEF CollectorStep

LEMMA AlbumsPoolStep ==
  ASSUME AlbumsInv, EndPools \/ EndAlbums \/ StartAgain
  PROVE  AlbumsInv'
<1> USE AlbumsAssumption DEF AlbumsInv, AlbumsSmall
<1>1. CASE EndPools
  <2>1. /\ ~ ending /\ ends < MaxEnds
        /\ ended' = TRUE /\ ending' = TRUE /\ ends' = ends + 1
        /\ UNCHANGED <<group, piece, boxes, ripe, running, albumChan, cut, collector, own, ready>>
    BY <1>1 DEF EndPools, crew
  <2>2. AlbumsTypeOK' /\ IsFiniteSet(boxes)'
    BY <2>1 DEF AlbumsTypeOK
  <2>3. ChannelsCounted' /\ OwnsMade' /\ Watched' /\ OneCollector'
    BY <2>1 DEF ChannelsCounted, OwnsMade, Watched, OneCollector, AlbumsTypeOK
  <2>4. QED
    BY <2>2, <2>3
<1>2. CASE EndAlbums
  <2>1. /\ ending /\ ending' = FALSE /\ cut' = cut \union {albumChan}
        /\ boxes' = {} /\ ripe' = {} /\ running' = FALSE
        /\ UNCHANGED <<group, albumChan, ended, ends, collector, own, ready>>
    BY <1>2 DEF EndAlbums, crew
  <2>2. piece' \in [Pieces -> {"new", "seen", "boxed", "ready", "handed", "lost"}]
    BY <1>2, MoveTypes DEF EndAlbums
  <2>3. AlbumsTypeOK'
    <3>1. cut' \subseteq 0..albumChan' /\ albumChan' \in 0..MaxEnds /\ ends' \in 0..MaxEnds
      BY <2>1 DEF AlbumsTypeOK
    <3>2. QED
      BY <2>1, <2>2, <3>1 DEF AlbumsTypeOK
  <2>4. IsFiniteSet(boxes')
    BY <2>1, FS_EmptySet
  <2>5. ChannelsCounted' /\ OwnsMade' /\ Watched' /\ OneCollector'
    BY <2>1 DEF ChannelsCounted, OwnsMade, Watched, OneCollector, AlbumsTypeOK
  <2>6. QED
    BY <2>3, <2>4, <2>5
<1>3. CASE StartAgain
  <2>1. /\ ~ ending /\ ended' = FALSE
        /\ UNCHANGED <<group, piece, boxes, ripe, running, collector, own, ready, cut, ending, ends>>
    BY <1>3 DEF StartAgain, crew
  <2>2. \/ albumChan' = albumChan
        \/ albumChan \in cut /\ albumChan' = albumChan + 1
    BY <1>3 DEF StartAgain
  <2>3. albumChan' \notin cut \/ albumChan' = albumChan
    BY <2>2 DEF AlbumsTypeOK
  <2>4. AlbumsTypeOK' /\ IsFiniteSet(boxes)'
    <3>1. cut' \subseteq 0..albumChan' /\ albumChan' \in 0..MaxEnds /\ ends' \in 0..MaxEnds
      BY <2>1, <2>2 DEF AlbumsTypeOK, ChannelsCounted
    <3>2. QED
      BY <2>1, <3>1 DEF AlbumsTypeOK
  <2>5. ChannelsCounted'
    BY <2>1, <2>2, <2>3 DEF AlbumsTypeOK, ChannelsCounted
  <2>6. OwnsMade' /\ Watched' /\ OneCollector'
    BY <2>1, <2>2 DEF OwnsMade, Watched, OneCollector, AlbumsTypeOK
  <2>7. QED
    BY <2>4, <2>5, <2>6
<1>4. QED
  BY <1>1, <1>2, <1>3

LEMMA AlbumsInvStep == AlbumsInv /\ [AlbumsNext]_albumVars => AlbumsInv'
<1> SUFFICES ASSUME AlbumsInv, [AlbumsNext]_albumVars PROVE AlbumsInv'
  OBVIOUS
<1>1. ASSUME NEW g \in Groups, DeadlinePasses(g) PROVE AlbumsInv'
  <2>1. /\ g \in boxes /\ ripe' = ripe \union {g}
        /\ UNCHANGED <<group, piece, boxes, running, crew, pool>>
    BY <1>1 DEF DeadlinePasses
  <2>2. AlbumsTypeOK' /\ IsFiniteSet(boxes)'
    BY <2>1 DEF AlbumsInv, AlbumsSmall, AlbumsTypeOK, crew, pool
  <2>3. QED
    BY <2>1, <2>2, CrewAside DEF AlbumsInv, AlbumsSmall, crew
<1>2. CASE UNCHANGED albumVars
  <2>1. AlbumsTypeOK' /\ IsFiniteSet(boxes)'
    BY <1>2 DEF AlbumsInv, AlbumsSmall, AlbumsTypeOK, albumVars
  <2>2. QED
    BY <1>2, <2>1, CrewAside DEF AlbumsInv, AlbumsSmall, albumVars, pool
<1>3. QED
  BY <1>1, <1>2, HandleStep, CollectorSteps, AlbumsPoolStep DEF AlbumsNext

(* AlbumsInv holds in every reachable state.                               *)
THEOREM AlbumsInvariant == AlbumsSpec => []AlbumsInv
  BY AlbumsStart, AlbumsInvStep, PTL DEF AlbumsSpec

(* However many collectors of earlier starts are still at work, the albums *)
(* of the current start are dispatched by one (handleAlbum, collectAlbums, *)
(* shutdownBackground, resetBackground of updates.go).                     *)
THEOREM OneCollectorAlways == AlbumsSpec => []OneCollector
<1>1. AlbumsInv => OneCollector
  BY DEF AlbumsInv
<1>2. QED
  BY <1>1, AlbumsInvariant, PTL

-----------------------------------------------------------------------------
(* Extra connections.  Only who holds the token of createGate makes        *)
(* connections for transfers, and it counted those in the cache before: a  *)
(* first connection is made for an empty cache, and a fill goroutine makes *)
(* as many as were missing.  What others do in between only removes some,  *)
(* beside the edits, which are counted apart.                              *)

Making == {"check", "dial?", "dialing"}

TokenHeld ==
  \A t \in Transfers : stage[t] \in {"look", "first"} \/ t \in filling => gate = t

FillStage == \A t \in filling : stage[t] \in {"work", "closing"}

JobsOwned ==
  \A t \in Transfers : \A i \in 1..Conns :
    job[t][i] \in Making => (stage[t] = "first" /\ i = 1) \/ t \in filling

(* A transfer that has not begun to work has made one connection at most.  *)
NotYetMade ==
  \A t \in Transfers : \A i \in 1..Conns :
    /\ stage[t] \in {"begin", "look"} => job[t][i] = "none"
    /\ stage[t] = "first" /\ i # 1 => job[t][i] = "none"

EditsAside ==
  \A e \in Edits :
    /\ key[e] = "plain" /\ stage[e] \in {"begin", "edit", "over"}
    /\ \A i \in 1..Conns : i # 1 => job[e][i] = "none"
    /\ stage[e] = "begin" => job[e][1] = "none"
    /\ job[e][1] # "check"
    /\ job[e][1] \in {"dialing", "done"} => makes[e][1] # 0

Dialed == \A t \in Calls : \A i \in 1..Conns : job[t][i] = "dialing" => makes[t][i] # 0

EditsDone == {e \in Edits : job[e][1] = "done"}
Extra(k) == IF k = "plain" THEN Cardinality(EditsDone) ELSE 0
Made(t) == {i \in 1..Conns : job[t][i] = "done"}

CacheCounted == \A k \in Keys : Cardinality(cache[k]) <= Conns + Extra(k)

FillCounted ==
  \A t \in Transfers :
    stage[t] = "first" \/ t \in filling =>
      Cardinality(cache[key[t]]) <= Cardinality(Made(t)) + Extra(key[t])

TokenInv ==
  TokenHeld /\ FillStage /\ JobsOwned /\ NotYetMade /\ EditsAside /\ Dialed

SendersInv == SendersTypeOK /\ TokenInv /\ CacheCounted /\ FillCounted

(* One more element.                                                       *)
LEMMA OneMore ==
  ASSUME NEW S, NEW x, IsFiniteSet(S)
  PROVE  /\ IsFiniteSet(S \union {x})
         /\ Cardinality(S) \in Nat /\ Cardinality(S \union {x}) \in Nat
         /\ Cardinality(S \union {x}) <= Cardinality(S) + 1
         /\ x \notin S => Cardinality(S \union {x}) = Cardinality(S) + 1
<1>1. IsFiniteSet(S \union {x}) /\ Cardinality(S) \in Nat /\ Cardinality(S \union {x}) \in Nat
  BY FS_AddElement, FS_CardinalityType
<1>2. CASE x \in S
  <2>1. S \union {x} = S
    BY <1>2
  <2>2. Cardinality(S \union {x}) = Cardinality(S)
    BY <2>1
  <2>3. QED
    BY <1>1, <1>2, <2>2
<1>3. CASE x \notin S
  BY <1>1, <1>3, FS_AddElement
<1>4. QED
  BY <1>1, <1>2, <1>3

(* All the sets that are counted are finite.                               *)
Countable ==
  /\ \A k \in Keys : IsFiniteSet(cache[k]) /\ Cardinality(cache[k]) \in Nat
  /\ IsFiniteSet(EditsDone) /\ Cardinality(EditsDone) \in Nat
  /\ \A k \in Keys : Extra(k) \in Nat
  /\ \A t \in Calls : /\ IsFiniteSet(Made(t)) /\ Cardinality(Made(t)) \in Nat
                      /\ Cardinality(Made(t)) <= Conns

LEMMA CountsAreNumbers == SendersTypeOK => Countable
<1> SUFFICES ASSUME SendersTypeOK PROVE Countable
  OBVIOUS
<1>1. ASSUME NEW n \in Nat, NEW S, S \subseteq 1..n
      PROVE  IsFiniteSet(S) /\ Cardinality(S) \in Nat /\ Cardinality(S) <= n
  <2>1. IsFiniteSet(1..n) /\ Cardinality(1..n) = n
    <3>1. n = 0 \/ n >= 1
      OBVIOUS
    <3>2. QED
      BY <3>1, FS_Interval
  <2>2. QED
    BY <1>1, <2>1, FS_Subset, FS_CardinalityType
<1>2. ASSUME NEW k \in Keys PROVE IsFiniteSet(cache[k]) /\ Cardinality(cache[k]) \in Nat
  <2>1. cache[k] \subseteq 1..MaxSenders /\ MaxSenders \in Nat
    BY <1>2, SendersAssumption DEF SendersTypeOK, All
  <2>2. QED
    BY <2>1, <1>1
<1>3. IsFiniteSet(EditsDone) /\ Cardinality(EditsDone) \in Nat
  <2>1. EditsDone \subseteq Edits /\ IsFiniteSet(Edits)
    BY SendersAssumption DEF EditsDone
  <2>2. QED
    BY <2>1, FS_Subset, FS_CardinalityType
<1>4. ASSUME NEW t \in Calls
      PROVE  /\ IsFiniteSet(Made(t)) /\ Cardinality(Made(t)) \in Nat
             /\ Cardinality(Made(t)) <= Conns
  <2>1. Made(t) \subseteq 1..Conns /\ Conns \in Nat
    BY SendersAssumption DEF Made
  <2>2. QED
    BY <2>1, <1>1
<1>5. \A k \in Keys : Extra(k) \in Nat
  BY <1>3 DEF Extra
<1>6. QED
  BY <1>2, <1>3, <1>4, <1>5 DEF Countable

LEMMA CountsNext == SendersTypeOK' => Countable'
  BY CountsAreNumbers, PTL

LEMMA SendersStart == SendersInit => SendersInv
<1> SUFFICES ASSUME SendersInit PROVE SendersInv
  OBVIOUS
<1> USE SendersAssumption DEF SendersInit
<1>1. SendersTypeOK
  BY DEF SendersTypeOK, Keys, Calls, All
<1>2. TokenInv
  <2>1. TokenHeld /\ FillStage
    BY DEF TokenHeld, FillStage, Calls
  <2>2. JobsOwned /\ NotYetMade /\ Dialed
    BY DEF JobsOwned, NotYetMade, Dialed, Making, Calls
  <2>3. EditsAside
    <3>1. \A e \in Edits : e \in Calls /\ e \notin MediaFirst /\ 1 \in 1..Conns
      BY DEF Calls
    <3>2. QED
      BY <3>1 DEF EditsAside
  <2>4. QED
    BY <2>1, <2>2, <2>3 DEF TokenInv
<1>3. \A k \in Keys : Cardinality(cache[k]) = 0
  BY FS_EmptySet
<1>4. CacheCounted
  BY <1>1, <1>3, CountsAreNumbers DEF CacheCounted, Countable
<1>5. FillCounted
  BY DEF FillCounted, Calls
<1>6. QED
  BY <1>1, <1>2, <1>4, <1>5 DEF SendersInv

(* A step that leaves the jobs and the roles alone and takes connections   *)
(* out of the cache at most.                                               *)
LEMMA CacheShrinks ==
  ASSUME SendersInv, SendersTypeOK',
         UNCHANGED <<gate, stage, key, filling, job, makes>>,
         \A k \in Keys : cache'[k] \subseteq cache[k]
  PROVE  SendersInv'
<1>1. TokenInv'
  BY DEF SendersInv, TokenInv, TokenHeld, FillStage, JobsOwned, NotYetMade, EditsAside, Dialed
<1>2. ASSUME NEW k \in Keys
      PROVE  /\ Cardinality(cache'[k]) \in Nat /\ Cardinality(cache[k]) \in Nat
             /\ Cardinality(cache'[k]) <= Cardinality(cache[k])
  <2>1. IsFiniteSet(cache[k]) /\ cache'[k] \subseteq cache[k]
    BY CountsAreNumbers DEF SendersInv, Countable
  <2>2. QED
    BY <2>1, FS_Subset, FS_CardinalityType
<1>3. \A k \in Keys : Extra(k)' = Extra(k) /\ Extra(k) \in Nat
  <2>1. EditsDone' = EditsDone
    BY DEF EditsDone
  <2>2. QED
    BY <2>1, CountsAreNumbers DEF Extra, SendersInv, Countable
<1>4. CacheCounted'
  BY <1>2, <1>3, SendersAssumption DEF CacheCounted, SendersInv
<1>5. FillCounted'
  <2> SUFFICES ASSUME NEW t \in Transfers, (stage[t] = "first" \/ t \in filling)'
               PROVE  (Cardinality(cache[key[t]]) <= Cardinality(Made(t)) + Extra(key[t]))'
    BY DEF FillCounted
  <2>1. Made(t)' = Made(t)
    BY DEF Made
  <2>2. key[t] \in Keys /\ t \in Calls
    BY DEF SendersInv, SendersTypeOK, Calls
  <2>3. Cardinality(cache[key[t]]) <= Cardinality(Made(t)) + Extra(key[t])
    BY DEF SendersInv, FillCounted
  <2>4. Cardinality(Made(t)) \in Nat
    BY <2>2, CountsAreNumbers DEF SendersInv, Countable
  <2>5. Cardinality(cache'[key[t]]) <= Cardinality(Made(t)) + Extra(key[t])
    BY <2>2, <2>3, <2>4, <1>2, <1>3
  <2>6. key'[t] = key[t] /\ Extra(key[t])' = Extra(key[t])
    BY <1>3, <2>2 DEF Extra, EditsDone
  <2>7. QED
    BY <2>1, <2>5, <2>6
<1>6. QED
  BY <1>1, <1>4, <1>5 DEF SendersInv

(* A step that leaves the cache alone and begins no filling.               *)
LEMMA CountsKept ==
  ASSUME SendersInv, UNCHANGED cache, EditsDone' = EditsDone,
         \A t \in Transfers :
           (stage[t] = "first" \/ t \in filling)' =>
             /\ stage[t] = "first" \/ t \in filling
             /\ key'[t] = key[t]
             /\ Made(t)' = Made(t)
  PROVE  CacheCounted' /\ FillCounted'
<1>1. \A k : Extra(k)' = Extra(k)
  BY DEF Extra
<1>2. CacheCounted'
  BY <1>1 DEF CacheCounted, SendersInv
<1>3. FillCounted'
  <2> SUFFICES ASSUME NEW t \in Transfers, (stage[t] = "first" \/ t \in filling)'
               PROVE  (Cardinality(cache[key[t]]) <= Cardinality(Made(t)) + Extra(key[t]))'
    BY DEF FillCounted
  <2>1. key'[t] = key[t] /\ Made(t)' = Made(t) /\ (stage[t] = "first" \/ t \in filling)
    OBVIOUS
  <2>2. Cardinality(cache[key[t]]) <= Cardinality(Made(t)) + Extra(key[t])
    BY <2>1 DEF SendersInv, FillCounted
  <2>3. Extra(key[t])' = Extra(key[t])
    BY <1>1, <2>1 DEF Extra
  <2>4. QED
    BY <2>1, <2>2, <2>3
<1>4. QED
  BY <1>2, <1>3

(* The transfers at the gate.                                              *)
LEMMA AtGateStep ==
  ASSUME SendersInv, NEW t \in Transfers, PassGate(t) \/ GiveUpGate(t)
  PROVE  SendersInv'
<1> USE SendersAssumption
<1>1. /\ stage[t] = "begin"
      /\ \/ gate = NoTransfer /\ gate' = t /\ stage' = [stage EXCEPT ![t] = "look"]
         \/ gate' = gate /\ stage' = [stage EXCEPT ![t] = "over"]
      /\ key' = key \/ \E k \in {key[t], "plain"} : key' = [key EXCEPT ![t] = k]
      /\ UNCHANGED <<cache, open, stale, doomed, closes, live, made, filling, job, makes>>
  BY DEF PassGate, GiveUpGate, MoveTo, store
<1>2. SendersTypeOK'
  <2>1. key' \in [Calls -> Keys] /\ \A c \in Calls : c # t => key'[c] = key[c]
    BY <1>1 DEF SendersInv, SendersTypeOK, Calls, Keys
  <2>2. QED
    BY <1>1, <2>1 DEF SendersInv, SendersTypeOK, Calls
<1>3. TokenInv'
  <2>1. /\ \A c \in Calls : c # t => stage'[c] = stage[c]
        /\ stage'[t] \in {"look", "over"}
        /\ stage'[t] = "look" => gate = NoTransfer /\ gate' = t
        /\ t \in Calls /\ t \notin Edits /\ t # NoTransfer
    BY <1>1 DEF SendersInv, SendersTypeOK, Calls
  <2>2. TokenHeld' /\ FillStage'
    <3>1. filling' = filling /\ filling \subseteq Transfers /\ t \notin filling
      BY <1>1 DEF SendersInv, SendersTypeOK, TokenInv, FillStage
    <3>2. FillStage'
      BY <2>1, <3>1 DEF SendersInv, TokenInv, FillStage, Calls
    <3>3. ASSUME NEW s \in Transfers, stage'[s] \in {"look", "first"} \/ s \in filling'
          PROVE  gate' = s
      <4>1. CASE s = t
        BY <2>1, <3>1, <3>3, <4>1
      <4>2. CASE s # t
        <5>1. gate = s
          BY <2>1, <3>1, <3>3, <4>2 DEF SendersInv, TokenInv, TokenHeld, Calls
        <5>2. QED
          BY <1>1, <5>1, SendersAssumption
      <4>3. QED
        BY <4>1, <4>2
    <3>4. QED
      BY <3>2, <3>3 DEF TokenHeld
  <2>3. JobsOwned' /\ NotYetMade' /\ Dialed'
    BY <1>1, <2>1 DEF SendersInv, TokenInv, JobsOwned, NotYetMade, Dialed, Calls
  <2>4. EditsAside'
    <3>1. \A e \in Edits : key'[e] = key[e] /\ stage'[e] = stage[e] /\ job'[e] = job[e]
      BY <1>1, <2>1 DEF SendersInv, SendersTypeOK, Calls
    <3>2. QED
      BY <1>1, <3>1 DEF SendersInv, TokenInv, EditsAside
  <2>5. QED
    BY <2>2, <2>3, <2>4 DEF TokenInv
<1>4. CacheCounted' /\ FillCounted'
  <2>1. EditsDone' = EditsDone /\ \A s \in Transfers : Made(s)' = Made(s)
    BY <1>1 DEF EditsDone, Made
  <2>2. ASSUME NEW s \in Transfers, (stage[s] = "first" \/ s \in filling)'
        PROVE  (stage[s] = "first" \/ s \in filling) /\ key'[s] = key[s]
    <3>1. s # t
      BY <1>1, <2>2 DEF SendersInv, SendersTypeOK, TokenInv, FillStage, Calls
    <3>2. QED
      BY <1>1, <2>2, <3>1 DEF SendersInv, SendersTypeOK, Calls
  <2>3. QED
    BY <1>1, <2>1, <2>2, CountsKept
<1>5. QED
  BY <1>2, <1>3, <1>4 DEF SendersInv

(* The edits.                                                              *)
LEMMA EditStep ==
  ASSUME SendersInv, NEW e \in Edits, BeginEdit(e) \/ EndEdit(e)
  PROVE  SendersInv'
<1> USE SendersAssumption
<1>1. /\ \/ /\ stage[e] = "begin" /\ stage' = [stage EXCEPT ![e] = "edit"]
            /\ job' = [job EXCEPT ![e][1] = "dial?"]
         \/ stage' = [stage EXCEPT ![e] = "over"] /\ job' = job
      /\ stale' \subseteq stale
      /\ UNCHANGED <<cache, open, doomed, closes, gate, live, made, key, filling, makes>>
  BY DEF BeginEdit, EndEdit, MoveTo, SetJob, store
<1>2. SendersTypeOK'
  <2>1. job' \in [Calls -> [1..Conns -> {"none", "check", "dial?", "dialing", "done", "failed"}]]
    <3> DEFINE J == {"none", "check", "dial?", "dialing", "done", "failed"}
    <3>1. 1 \in 1..Conns /\ e \in Calls /\ job \in [Calls -> [1..Conns -> J]]
      BY DEF SendersInv, SendersTypeOK, Calls
    <3>2. job' = job \/ job' = [job EXCEPT ![e] = [job[e] EXCEPT ![1] = "dial?"]]
      BY <1>1, <3>1
    <3>3. [job[e] EXCEPT ![1] = "dial?"] \in [1..Conns -> J]
      BY <3>1
    <3>4. QED
      BY <3>1, <3>2, <3>3
  <2>2. stage' \in [Calls -> {"begin", "look", "first", "work", "closing", "edit", "over"}]
    BY <1>1 DEF SendersInv, SendersTypeOK, Calls
  <2>3. QED
    BY <1>1, <2>1, <2>2 DEF SendersInv, SendersTypeOK
<1>3. \A t \in Transfers : stage'[t] = stage[t] /\ job'[t] = job[t]
  BY <1>1 DEF SendersInv, SendersTypeOK, Calls
<1>4. \A d \in Edits : d # e => stage'[d] = stage[d] /\ job'[d] = job[d]
  BY <1>1 DEF SendersInv, SendersTypeOK, Calls
<1>5. TokenHeld' /\ FillStage' /\ JobsOwned' /\ NotYetMade'
  <2>1. TokenHeld' /\ FillStage'
    BY <1>1, <1>3 DEF SendersInv, SendersTypeOK, TokenInv, TokenHeld, FillStage
  <2>2. JobsOwned' /\ NotYetMade'
    BY <1>1, <1>3 DEF SendersInv, TokenInv, JobsOwned, NotYetMade
  <2>3. QED
    BY <2>1, <2>2
<1>6. /\ \A i \in 1..Conns : i # 1 => job'[e][i] = job[e][i]
      /\ job'[e][1] = job[e][1] \/ (job'[e][1] = "dial?" /\ stage'[e] = "edit")
      /\ stage'[e] \in {"edit", "over"}
  BY <1>1 DEF SendersInv, SendersTypeOK, Calls
<1>7. EditsAside' /\ Dialed'
  <2>1. EditsAside'
    BY <1>1, <1>4, <1>6 DEF SendersInv, TokenInv, EditsAside
  <2>2. Dialed'
    BY <1>1, <1>3, <1>4, <1>6 DEF SendersInv, TokenInv, Dialed, Calls
  <2>3. QED
    BY <2>1, <2>2
<1>8. EditsDone' = EditsDone /\ \A s \in Transfers : Made(s)' = Made(s)
  <2>1. job'[e][1] = "done" <=> job[e][1] = "done"
    BY <1>1, <1>6 DEF SendersInv, TokenInv, EditsAside
  <2>2. QED
    BY <1>3, <1>4, <2>1 DEF EditsDone, Made
<1>9. CacheCounted' /\ FillCounted'
  BY <1>1, <1>3, <1>8, CountsKept
<1>10. QED
  BY <1>2, <1>5, <1>7, <1>9 DEF SendersInv, TokenInv

(* Fill: as many connections are in the cache as are counted as made.      *)
LEMMA FillStep ==
  ASSUME SendersInv, NEW t \in Transfers, NEW n \in 1..Conns, Fill(t, n),
         stage[t] = "look" \/ (stage[t] = "first" /\ job[t][1] = "done"),
         n < Conns => Cardinality(cache[key[t]]) <= n + Extra(key[t]),
         UNCHANGED <<live, made, key, makes, store>>
  PROVE  SendersInv'
<1> USE SendersAssumption
<1>1. stage' = [stage EXCEPT ![t] = "work"] /\ UNCHANGED <<cache, open, stale, doomed, closes, live, made, key, makes>>
  BY DEF Fill, MoveTo, store
<1>2. t \notin filling /\ gate = t
  BY DEF SendersInv, TokenInv, FillStage, TokenHeld
<1>3. \A s \in Transfers : s # t => s \notin filling /\ stage[s] \notin {"look", "first"}
  BY <1>2 DEF SendersInv, TokenInv, TokenHeld
<1>4. CASE n < Conns
  <2> DEFINE row == [i \in 1..Conns |-> IF i > n THEN "check" ELSE "done"]
  <2>1. filling' = filling \union {t} /\ job' = [job EXCEPT ![t] = row] /\ gate' = gate
    BY <1>4 DEF Fill, Missing
  <2>2. row \in [1..Conns -> {"none", "check", "dial?", "dialing", "done", "failed"}]
    OBVIOUS
  <2>3. SendersTypeOK'
    BY <1>1, <2>1, <2>2 DEF SendersInv, SendersTypeOK, Calls
  <2>4. job'[t] = row /\ \A s \in Calls : s # t => job'[s] = job[s] /\ stage'[s] = stage[s]
    BY <1>1, <2>1 DEF SendersInv, SendersTypeOK, Calls
  <2>5. stage'[t] = "work"
    BY <1>1 DEF SendersInv, SendersTypeOK, Calls
  <2>6. TokenHeld' /\ FillStage' /\ JobsOwned' /\ NotYetMade'
    <3>1. TokenHeld' /\ FillStage'
      <4>1. TokenHeld'
        BY <1>2, <1>3, <2>1, <2>4 DEF TokenHeld, Calls
      <4>2. filling = {}
        BY <1>2, <1>3 DEF SendersInv, SendersTypeOK
      <4>3. FillStage'
        BY <2>1, <2>5, <4>2 DEF FillStage
      <4>4. QED
        BY <4>1, <4>3
    <3>2. JobsOwned'
      BY <2>1, <2>4 DEF SendersInv, TokenInv, JobsOwned, Calls
    <3>3. NotYetMade'
      BY <2>4, <2>5 DEF SendersInv, TokenInv, NotYetMade, Calls
    <3>4. QED
      BY <3>1, <3>2, <3>3
  <2>7. EditsAside' /\ Dialed'
    BY <1>1, <2>4 DEF SendersInv, TokenInv, EditsAside, Dialed, Calls
  <2>8. EditsDone' = EditsDone
    BY <2>4 DEF EditsDone, Calls
  <2>9. \A k : Extra(k)' = Extra(k)
    BY <2>8 DEF Extra
  <2>10. CacheCounted'
    BY <1>1, <2>9 DEF SendersInv, CacheCounted
  <2>11. Made(t)' = 1..n
    BY <2>4 DEF Made
  <2>12. Cardinality(Made(t)') = n
    BY <2>11, FS_Interval
  <2>13. FillCounted'
    <3> SUFFICES ASSUME NEW s \in Transfers, (stage[s] = "first" \/ s \in filling)'
                 PROVE  (Cardinality(cache[key[s]]) <= Cardinality(Made(s)) + Extra(key[s]))'
      BY DEF FillCounted
    <3>1. s = t
      BY <1>3, <2>1, <2>4 DEF Calls
    <3>2. Extra(key[t])' = Extra(key[t])
      BY <1>1, <2>8 DEF Extra
    <3>3. QED
      BY <1>1, <1>4, <2>12, <3>1, <3>2
  <2>14. QED
    BY <2>3, <2>6, <2>7, <2>10, <2>13 DEF SendersInv, TokenInv
<1>5. CASE ~ (n < Conns)
  <2>1. gate' = NoTransfer /\ UNCHANGED <<filling, job>>
    BY <1>5 DEF Fill
  <2>2. SendersTypeOK'
    BY <1>1, <2>1 DEF SendersInv, SendersTypeOK, Calls
  <2>3. stage'[t] = "work" /\ \A s \in Calls : s # t => stage'[s] = stage[s]
    BY <1>1 DEF SendersInv, SendersTypeOK, Calls
  <2>4. TokenHeld' /\ FillStage' /\ NotYetMade'
    <3>1. TokenHeld' /\ FillStage'
      BY <1>2, <1>3, <2>1, <2>3 DEF SendersInv, SendersTypeOK, TokenInv, TokenHeld, FillStage, Calls
    <3>2. NotYetMade'
      BY <2>1, <2>3 DEF SendersInv, TokenInv, NotYetMade, Calls
    <3>3. QED
      BY <3>1, <3>2
  <2>5. \A i \in 1..Conns : job[t][i] \notin Making
    BY <1>2 DEF SendersInv, TokenInv, JobsOwned, Making
  <2>6. JobsOwned'
    BY <2>1, <2>3, <2>5 DEF SendersInv, TokenInv, JobsOwned, Calls
  <2>7. EditsAside' /\ Dialed'
    BY <1>1, <2>1, <2>3 DEF SendersInv, TokenInv, EditsAside, Dialed, Calls
  <2>8. CacheCounted' /\ FillCounted'
    <3>1. EditsDone' = EditsDone /\ \A s \in Transfers : Made(s)' = Made(s)
      BY <2>1 DEF EditsDone, Made
    <3>2. QED
      BY <1>1, <2>1, <2>3, <3>1, CountsKept DEF Calls
  <2>9. QED
    BY <2>2, <2>4, <2>6, <2>7, <2>8 DEF SendersInv, TokenInv
<1>6. QED
  BY <1>4, <1>5

LEMMA LookCacheStep ==
  ASSUME SendersInv, NEW t \in Transfers, LookCache(t)
  PROVE  SendersInv'
<1> USE SendersAssumption
<1> DEFINE n == Cardinality(cache[key[t]])
<1>0. t \in Calls /\ key[t] \in Keys /\ n \in Nat /\ \A k \in Keys : Extra(k) \in Nat
  BY CountsAreNumbers DEF SendersInv, SendersTypeOK, Calls, Countable
<1>1. stage[t] = "look" /\ UNCHANGED <<live, made, key, makes, store>>
  BY DEF LookCache
<1>2. CASE n > 0
  <2>1. Fill(t, IF n < Conns THEN n ELSE Conns)
    BY <1>2 DEF LookCache
  <2>2. CASE n < Conns
    <3>1. n \in 1..Conns /\ n <= n + Extra(key[t])
      BY <1>0, <1>2, <2>2
    <3>2. Fill(t, n)
      BY <2>1, <2>2
    <3>3. QED
      BY <1>1, <3>1, <3>2, FillStep
  <2>3. CASE ~ (n < Conns)
    <3>1. Fill(t, Conns) /\ Conns \in 1..Conns /\ ~ (Conns < Conns)
      BY <2>1, <2>3
    <3>2. QED
      BY <1>1, <3>1, FillStep
  <2>4. QED
    BY <2>2, <2>3
<1>3. CASE ~ (n > 0)
  <2>1. /\ stage' = [stage EXCEPT ![t] = "first"] /\ job' = [job EXCEPT ![t][1] = "check"]
        /\ UNCHANGED <<gate, filling, live, made, key, makes, cache, open, stale, doomed, closes>>
    BY <1>3 DEF LookCache, MoveTo, SetJob, store
  <2>2. n = 0
    BY <1>0, <1>3
  <2>3. job' \in [Calls -> [1..Conns -> {"none", "check", "dial?", "dialing", "done", "failed"}]]
    BY <2>1 DEF SendersInv, SendersTypeOK
  <2>4. SendersTypeOK'
    BY <2>1, <2>3 DEF SendersInv, SendersTypeOK
  <2>5. /\ stage'[t] = "first" /\ job'[t][1] = "check"
        /\ \A i \in 1..Conns : i # 1 => job'[t][i] = job[t][i]
        /\ \A s \in Calls : s # t => stage'[s] = stage[s] /\ job'[s] = job[s]
    BY <1>0, <2>1 DEF SendersInv, SendersTypeOK
  <2>6. gate = t /\ t \notin filling
    BY <1>1 DEF SendersInv, TokenInv, TokenHeld, FillStage
  <2>7. \A s \in Transfers : s # t => s \notin filling /\ stage[s] \notin {"look", "first"}
    BY <2>6 DEF SendersInv, TokenInv, TokenHeld
  <2>8. TokenHeld' /\ FillStage'
    BY <1>1, <2>1, <2>5, <2>6 DEF SendersInv, TokenInv, TokenHeld, FillStage, Calls
  <2>9. \A i \in 1..Conns : job[t][i] = "none"
    BY <1>1 DEF SendersInv, TokenInv, NotYetMade
  <2>10. JobsOwned' /\ NotYetMade'
    BY <2>1, <2>5, <2>9 DEF SendersInv, TokenInv, JobsOwned, NotYetMade, Making, Calls
  <2>11. EditsAside' /\ Dialed'
    BY <2>1, <2>5, <2>9 DEF SendersInv, TokenInv, EditsAside, Dialed, Calls
  <2>12. EditsDone' = EditsDone
    BY <2>5 DEF EditsDone, Calls
  <2>13. \A k : Extra(k)' = Extra(k)
    BY <2>12 DEF Extra
  <2>14. CacheCounted'
    BY <2>1, <2>13 DEF SendersInv, CacheCounted
  <2>15. FillCounted'
    <3> SUFFICES ASSUME NEW s \in Transfers, (stage[s] = "first" \/ s \in filling)'
                 PROVE  (Cardinality(cache[key[s]]) <= Cardinality(Made(s)) + Extra(key[s]))'
      BY DEF FillCounted
    <3>1. s = t
      BY <2>1, <2>5, <2>7 DEF Calls
    <3>2. (Cardinality(Made(t)) \in Nat)' /\ (Extra(key[t]) \in Nat)'
      BY <1>0, <2>1, <2>4, CountsNext DEF Countable
    <3>3. Cardinality(cache[key[t]])' = 0
      BY <2>1, <2>2
    <3>4. QED
      BY <3>1, <3>2, <3>3
  <2>16. QED
    BY <2>4, <2>8, <2>10, <2>11, <2>14, <2>15 DEF SendersInv, TokenInv
<1>4. QED
  BY <1>2, <1>3

LEMMA FirstIsThereStep ==
  ASSUME SendersInv, NEW t \in Transfers, FirstIsThere(t)
  PROVE  SendersInv'
<1>1. /\ stage[t] = "first" /\ job[t][1] = "done" /\ Fill(t, 1)
      /\ UNCHANGED <<live, made, key, makes, store>>
  BY DEF FirstIsThere
<1>2. Made(t) = {1}
  <2>1. \A i \in 1..Conns : i # 1 => job[t][i] = "none"
    BY <1>1 DEF SendersInv, TokenInv, NotYetMade
  <2>2. 1 \in 1..Conns
    BY SendersAssumption
  <2>3. QED
    BY <1>1, <2>1, <2>2 DEF Made
<1>3. Cardinality(cache[key[t]]) <= 1 + Extra(key[t])
  <2>1. Cardinality({1}) = 1
    BY FS_Singleton
  <2>2. QED
    BY <1>1, <1>2, <2>1 DEF SendersInv, FillCounted
<1>4. 1 \in 1..Conns
  BY SendersAssumption
<1>5. QED
  BY <1>1, <1>3, <1>4, FillStep

LEMMA FirstFailsStep ==
  ASSUME SendersInv, NEW t \in Transfers, FirstFails(t)
  PROVE  SendersInv'
<1> USE SendersAssumption
<1>1. /\ stage[t] = "first" /\ gate' = NoTransfer
      /\ key' = [key EXCEPT ![t] = "plain"]
      /\ \E s \in {"begin", "over"} : stage' = [stage EXCEPT ![t] = s]
      /\ job' = [job EXCEPT ![t][1] = "none"]
      /\ UNCHANGED <<live, made, filling, makes, cache, open, stale, doomed, closes>>
  BY DEF FirstFails, MoveTo, SetJob, store
<1>2. t \in Calls
  BY DEF Calls
<1>3. job' \in [Calls -> [1..Conns -> {"none", "check", "dial?", "dialing", "done", "failed"}]]
  BY <1>1 DEF SendersInv, SendersTypeOK
<1>4. SendersTypeOK'
  BY <1>1, <1>3 DEF SendersInv, SendersTypeOK, Keys
<1>5. /\ stage'[t] \in {"begin", "over"} /\ job'[t][1] = "none"
      /\ \A i \in 1..Conns : i # 1 => job'[t][i] = job[t][i]
      /\ \A s \in Calls : s # t => stage'[s] = stage[s] /\ job'[s] = job[s] /\ key'[s] = key[s]
  BY <1>1, <1>2 DEF SendersInv, SendersTypeOK
<1>6. gate = t /\ t \notin filling
  BY <1>1 DEF SendersInv, TokenInv, TokenHeld, FillStage
<1>7. \A s \in Transfers : s # t => s \notin filling /\ stage[s] \notin {"look", "first"}
  BY <1>6 DEF SendersInv, TokenInv, TokenHeld
<1>8. TokenHeld' /\ FillStage'
  BY <1>1, <1>5, <1>6, <1>7 DEF SendersInv, SendersTypeOK, TokenInv, TokenHeld, FillStage, Calls
<1>9. \A i \in 1..Conns : job'[t][i] = "none"
  BY <1>1, <1>5 DEF SendersInv, TokenInv, NotYetMade
<1>10. JobsOwned' /\ NotYetMade'
  BY <1>1, <1>5, <1>9 DEF SendersInv, TokenInv, JobsOwned, NotYetMade, Making, Calls
<1>11. EditsAside' /\ Dialed'
  BY <1>1, <1>5, <1>9 DEF SendersInv, TokenInv, EditsAside, Dialed, Calls
<1>12. EditsDone' = EditsDone /\ \A s \in Transfers : s # t => Made(s)' = Made(s)
  BY <1>5 DEF EditsDone, Made, Calls
<1>13. CacheCounted' /\ FillCounted'
  BY <1>1, <1>5, <1>6, <1>12, CountsKept DEF Calls
<1>14. QED
  BY <1>4, <1>8, <1>10, <1>11, <1>13 DEF SendersInv, TokenInv

(* The end of a filling or of a transfer.                                  *)
LEMMA EndStep ==
  ASSUME SendersInv, NEW t \in Transfers, FillEnds(t) \/ AwaitFill(t) \/ EndWork(t)
  PROVE  SendersInv'
<1> USE SendersAssumption
<1>1. /\ \/ /\ t \in filling /\ filling' = filling \ {t} /\ gate' = NoTransfer /\ stage' = stage
            /\ \A i \in 1..Conns : job[t][i] \in {"done", "failed"}
         \/ /\ UNCHANGED <<filling, gate>> /\ stage[t] \in {"work", "closing"}
            /\ \/ t \in filling /\ stage' = [stage EXCEPT ![t] = "closing"]
               \/ t \notin filling /\ stage' = [stage EXCEPT ![t] = "over"]
      /\ UNCHANGED <<live, made, key, job, makes, cache, open, stale, doomed, closes>>
  BY DEF FillEnds, AwaitFill, EndWork, MoveTo, store
<1>2. SendersTypeOK'
  BY <1>1 DEF SendersInv, SendersTypeOK, Calls
<1>3. TokenHeld' /\ FillStage'
  BY <1>1 DEF SendersInv, SendersTypeOK, TokenInv, TokenHeld, FillStage, Calls
<1>4. JobsOwned' /\ NotYetMade' /\ EditsAside' /\ Dialed'
  <2>1. /\ \A c \in Calls : c # t => stage'[c] = stage[c]
        /\ stage'[t] = stage[t] \/ stage'[t] \in {"closing", "over"}
        /\ stage[t] = "first" => t \notin filling /\ stage' = stage
        /\ t \in Calls /\ t \notin Edits
    BY <1>1 DEF SendersInv, SendersTypeOK, Calls, TokenInv, FillStage
  <2>2. JobsOwned'
    BY <1>1, <2>1 DEF SendersInv, TokenInv, JobsOwned, Making, Calls
  <2>3. NotYetMade' /\ Dialed'
    BY <1>1, <2>1 DEF SendersInv, TokenInv, NotYetMade, Dialed, Calls
  <2>4. EditsAside'
    BY <1>1, <2>1 DEF SendersInv, TokenInv, EditsAside, Calls
  <2>5. QED
    BY <2>2, <2>3, <2>4
<1>5. EditsDone' = EditsDone /\ \A s \in Transfers : Made(s)' = Made(s)
  BY <1>1 DEF EditsDone, Made
<1>6. CacheCounted' /\ FillCounted'
  BY <1>1, <1>5, CountsKept DEF SendersInv, SendersTypeOK, Calls
<1>7. QED
  BY <1>2, <1>3, <1>4, <1>6 DEF SendersInv, TokenInv

(* The making of a connection: the job is in the hands of who may make it. *)
LEMMA JobMoves ==
  ASSUME SendersInv, NEW t \in Calls, NEW i \in 1..Conns, job[t][i] \in Making,
         NEW s \in {"dial?", "dialing", "done", "failed"},
         job' = [job EXCEPT ![t][i] = s],
         UNCHANGED <<gate, stage, key, filling>>,
         makes' \in [Calls -> [1..Conns -> 0..MaxSenders]],
         \A c \in Calls, j \in 1..Conns : makes[c][j] # 0 => makes'[c][j] # 0,
         s \in {"dialing", "done"} => makes'[t][i] # 0
  PROVE  /\ job' \in [Calls -> [1..Conns -> {"none", "check", "dial?", "dialing", "done", "failed"}]]
         /\ TokenInv'
<1> USE SendersAssumption
<1>1. job' \in [Calls -> [1..Conns -> {"none", "check", "dial?", "dialing", "done", "failed"}]]
  BY DEF SendersInv, SendersTypeOK
<1>2. job'[t][i] = s /\ \A j \in 1..Conns : j # i => job'[t][j] = job[t][j]
  BY DEF SendersInv, SendersTypeOK
<1>3. \A c \in Calls : c # t => job'[c] = job[c]
  BY DEF SendersInv, SendersTypeOK
<1>4. TokenHeld' /\ FillStage'
  BY DEF SendersInv, TokenInv, TokenHeld, FillStage
<1>5. JobsOwned' /\ NotYetMade'
  BY <1>2, <1>3 DEF SendersInv, TokenInv, JobsOwned, NotYetMade, FillStage, Making, Calls
<1>6. EditsAside'
  <2> SUFFICES ASSUME NEW e \in Edits
               PROVE  /\ key[e] = "plain" /\ stage[e] \in {"begin", "edit", "over"}
                      /\ \A j \in 1..Conns : j # 1 => job'[e][j] = "none"
                      /\ stage[e] = "begin" => job'[e][1] = "none"
                      /\ job'[e][1] # "check"
                      /\ job'[e][1] \in {"dialing", "done"} => makes'[e][1] # 0
    BY DEF EditsAside
  <2>1. CASE e = t
    <3>1. i = 1 /\ stage[e] # "begin"
      BY <2>1 DEF SendersInv, TokenInv, EditsAside, Making
    <3>2. QED
      BY <1>2, <2>1, <3>1 DEF SendersInv, TokenInv, EditsAside, Making
  <2>2. CASE e # t
    <3>1. job'[e] = job[e]
      BY <1>3, <2>2 DEF Calls
    <3>2. makes[e][1] # 0 => makes'[e][1] # 0
      BY DEF Calls
    <3>3. QED
      BY <3>1, <3>2 DEF SendersInv, TokenInv, EditsAside
  <2>3. QED
    BY <2>1, <2>2
<1>7. Dialed'
  <2> SUFFICES ASSUME NEW c \in Calls, NEW j \in 1..Conns, job'[c][j] = "dialing"
               PROVE  makes'[c][j] # 0
    BY DEF Dialed
  <2>1. (c = t /\ j = i) \/ job'[c][j] = job[c][j]
    BY <1>2, <1>3
  <2>2. QED
    BY <1>2, <2>1 DEF SendersInv, TokenInv, Dialed
<1>8. QED
  BY <1>1, <1>4, <1>5, <1>6, <1>7 DEF TokenInv

LEMMA MakingStep ==
  ASSUME SendersInv, NEW t \in Calls, NEW i \in 1..Conns,
         CheckOpen(t, i) \/ Dial(t, i) \/ DialFails(t, i)
  PROVE  SendersInv'
<1> USE SendersAssumption
<1>1. /\ job[t][i] \in Making
      /\ \E s \in {"dial?", "dialing", "failed"} :
           /\ job' = [job EXCEPT ![t][i] = s]
           /\ \/ s = "dialing" /\ makes' = [makes EXCEPT ![t][i] = made + 1] /\ made' = made + 1
                 /\ made < MaxSenders /\ live' = live \union {made + 1}
              \/ s # "dialing" /\ live' \subseteq live /\ UNCHANGED <<made, makes>>
      /\ UNCHANGED <<gate, stage, key, filling, cache, open, stale, doomed, closes>>
  BY DEF CheckOpen, Dial, DialFails, Making, SetJob, store
<1>2. PICK s \in {"dial?", "dialing", "failed"} :
        /\ job' = [job EXCEPT ![t][i] = s]
        /\ \/ s = "dialing" /\ makes' = [makes EXCEPT ![t][i] = made + 1] /\ made' = made + 1
              /\ made < MaxSenders /\ live' = live \union {made + 1}
           \/ s # "dialing" /\ live' \subseteq live /\ UNCHANGED <<made, makes>>
  BY <1>1
<1>3. made' \in 0..MaxSenders /\ live' \subseteq All
  <2>1. made \in 0..MaxSenders /\ live \subseteq All
    BY DEF SendersInv, SendersTypeOK
  <2>2. CASE made' = made + 1 /\ made < MaxSenders /\ live' = live \union {made + 1}
    BY <2>1, <2>2 DEF All
  <2>3. CASE made' = made /\ live' \subseteq live
    BY <2>1, <2>3
  <2>4. QED
    BY <1>2, <2>2, <2>3
<1>4. /\ makes' \in [Calls -> [1..Conns -> 0..MaxSenders]]
      /\ \A c \in Calls, j \in 1..Conns : makes[c][j] # 0 => makes'[c][j] # 0
      /\ s = "dialing" => makes'[t][i] # 0
  <2>1. CASE s = "dialing"
    <3>1. made + 1 \in 0..MaxSenders /\ made + 1 # 0
      BY <1>2, <2>1 DEF SendersInv, SendersTypeOK
    <3>2. makes' = [makes EXCEPT ![t][i] = made + 1]
      BY <1>2, <2>1
    <3>3. makes' \in [Calls -> [1..Conns -> 0..MaxSenders]] /\ makes'[t][i] = made + 1
      BY <3>1, <3>2 DEF SendersInv, SendersTypeOK
    <3>4. \A c \in Calls, j \in 1..Conns : makes'[c][j] = makes[c][j] \/ makes'[c][j] = made + 1
      BY <3>2 DEF SendersInv, SendersTypeOK
    <3>5. QED
      BY <3>1, <3>3, <3>4
  <2>2. CASE s # "dialing"
    BY <1>2, <2>2 DEF SendersInv, SendersTypeOK
  <2>3. QED
    BY <2>1, <2>2
<1>5. /\ job' \in [Calls -> [1..Conns -> {"none", "check", "dial?", "dialing", "done", "failed"}]]
      /\ TokenInv'
  BY <1>1, <1>2, <1>4, JobMoves
<1>6. SendersTypeOK'
  BY <1>1, <1>3, <1>4, <1>5 DEF SendersInv, SendersTypeOK
<1>7. \A c \in Calls, j \in 1..Conns : job'[c][j] = "done" <=> job[c][j] = "done"
  BY <1>1, <1>2 DEF SendersInv, SendersTypeOK, Making
<1>8. EditsDone' = EditsDone /\ \A c \in Transfers : Made(c)' = Made(c)
  <2>1. 1 \in 1..Conns
    OBVIOUS
  <2>2. QED
    BY <1>7, <2>1 DEF EditsDone, Made, Calls
<1>9. CacheCounted' /\ FillCounted'
  BY <1>1, <1>8, CountsKept
<1>10. QED
  BY <1>5, <1>6, <1>9 DEF SendersInv

LEMMA AddSenderStep ==
  ASSUME SendersInv, NEW t \in Calls, NEW i \in 1..Conns, AddSender(t, i)
  PROVE  SendersInv'
<1> USE SendersAssumption
<1> DEFINE k == key[t]  x == makes[t][i]
<1>1. /\ job[t][i] = "dialing" /\ job' = [job EXCEPT ![t][i] = "done"]
      /\ \/ cache' = [cache EXCEPT ![k] = @ \union {x}] /\ live' = live
         \/ cache' = cache /\ live' \subseteq live
      /\ UNCHANGED <<open, stale, doomed, closes, gate, made, stage, key, filling, makes>>
  BY DEF AddSender, SetJob
<1>2. k \in Keys /\ x \in All /\ x # 0
  <2>1. x # 0 /\ x \in 0..MaxSenders
    BY <1>1 DEF SendersInv, SendersTypeOK, TokenInv, Dialed
  <2>2. QED
    BY <2>1 DEF SendersInv, SendersTypeOK, All
<1>3. /\ job' \in [Calls -> [1..Conns -> {"none", "check", "dial?", "dialing", "done", "failed"}]]
      /\ TokenInv'
  <2>1. makes' \in [Calls -> [1..Conns -> 0..MaxSenders]]
    BY <1>1 DEF SendersInv, SendersTypeOK
  <2>2. QED
    BY <1>1, <1>2, <2>1, JobMoves DEF Making
<1>4. SendersTypeOK'
  <2>1. cache' \in [Keys -> SUBSET All]
    <3>1. cache \in [Keys -> SUBSET All] /\ {x} \subseteq All
      BY <1>2 DEF SendersInv, SendersTypeOK
    <3>2. QED
      BY <1>1, <1>2, <3>1
  <2>2. QED
    BY <1>1, <1>3, <2>1 DEF SendersInv, SendersTypeOK
<1>5. /\ \A c \in Calls, j \in 1..Conns : job'[c][j] = "done" <=> job[c][j] = "done" \/ (c = t /\ j = i)
      /\ 1 \in 1..Conns
  BY <1>1 DEF SendersInv, SendersTypeOK
<1>6. t \in Edits => i = 1 /\ k = "plain" /\ t \notin EditsDone /\ EditsDone' = EditsDone \union {t}
  <2> HAVE t \in Edits
  <2>1. i = 1 /\ k = "plain"
    BY <1>1 DEF SendersInv, TokenInv, EditsAside
  <2>2. QED
    BY <1>1, <1>5, <2>1 DEF EditsDone, Calls
<1>7. t \in Transfers => EditsDone' = EditsDone /\ Made(t)' = Made(t) \union {i} /\ i \notin Made(t)
  <2> HAVE t \in Transfers
  <2>1. \A e \in Edits : e # t /\ e \in Calls
    BY DEF Calls
  <2>2. QED
    BY <1>1, <1>5, <2>1 DEF EditsDone, Made
<1>8. \A c \in Transfers : c # t => Made(c)' = Made(c)
  BY <1>5 DEF Made, Calls
<1>9. \A q \in Keys : /\ Cardinality(cache[q]) \in Nat /\ Cardinality(cache'[q]) \in Nat
                      /\ Cardinality(cache'[q]) <= Cardinality(cache[q]) + (IF q = k THEN 1 ELSE 0)
  <2> TAKE q \in Keys
  <2>1. IsFiniteSet(cache[q]) /\ Cardinality(cache[q]) \in Nat
    BY CountsAreNumbers DEF SendersInv, Countable
  <2>2. CASE q = k /\ cache'[q] = cache[q] \union {x}
    BY <2>1, <2>2, OneMore
  <2>3. CASE cache'[q] = cache[q]
    BY <2>1, <2>3
  <2>4. cache'[q] = cache[q] \/ (q = k /\ cache'[q] = cache[q] \union {x})
    BY <1>1, <1>2 DEF SendersInv, SendersTypeOK
  <2>5. QED
    BY <2>2, <2>3, <2>4
<1>10. IsFiniteSet(EditsDone) /\ Cardinality(EditsDone) \in Nat
  BY CountsAreNumbers DEF SendersInv, Countable
<1>11. CASE t \in Edits
  <2>1. Cardinality(EditsDone') = Cardinality(EditsDone) + 1
    BY <1>6, <1>10, <1>11, OneMore
  <2>2. \A q \in Keys : Extra(q)' = Extra(q) + (IF q = k THEN 1 ELSE 0) /\ Extra(q) \in Nat
    BY <1>6, <1>10, <1>11, <2>1 DEF Extra, Keys
  <2>3. CacheCounted'
    BY <1>9, <2>2 DEF SendersInv, CacheCounted
  <2>4. FillCounted'
    <3> SUFFICES ASSUME NEW c \in Transfers, (stage[c] = "first" \/ c \in filling)'
                 PROVE  (Cardinality(cache[key[c]]) <= Cardinality(Made(c)) + Extra(key[c]))'
      BY DEF FillCounted
    <3>1. Cardinality(cache[key[c]]) <= Cardinality(Made(c)) + Extra(key[c])
      BY <1>1 DEF SendersInv, FillCounted
    <3>2. Made(c)' = Made(c) /\ key[c] \in Keys /\ Cardinality(Made(c)) \in Nat
      BY <1>8, <1>11, CountsAreNumbers DEF SendersInv, SendersTypeOK, Calls, Countable
    <3>3. Extra(key[c])' = Extra(key[c]) + (IF key[c] = k THEN 1 ELSE 0) /\ Extra(key[c]) \in Nat
      BY <1>1, <1>6, <1>10, <1>11, <2>1, <3>2 DEF Extra, Keys
    <3>4. Cardinality(cache[key[c]])' = Cardinality(cache'[key[c]])
      BY <1>1
    <3>5. QED
      BY <1>9, <3>1, <3>2, <3>3, <3>4
  <2>5. QED
    BY <1>3, <1>4, <2>3, <2>4 DEF SendersInv
<1>12. CASE t \in Transfers
  <2>1. stage[t] = "first" \/ t \in filling
    BY <1>1, <1>12 DEF SendersInv, TokenInv, JobsOwned, Making
  <2>2. gate = t
    BY <1>12, <2>1 DEF SendersInv, TokenInv, TokenHeld
  <2>3. \A q \in Keys : Extra(q)' = Extra(q) /\ Extra(q) \in Nat
    BY <1>7, <1>10, <1>12 DEF Extra
  <2>4. IsFiniteSet(Made(t)) /\ Cardinality(Made(t)) \in Nat
    BY CountsAreNumbers DEF SendersInv, Countable
  <2>5. Cardinality(Made(t)') = Cardinality(Made(t)) + 1
    BY <1>7, <1>12, <2>4, OneMore
  <2>6. Cardinality(Made(t)') <= Conns
    <3>1. (Cardinality(Made(t)) <= Conns)'
      BY <1>4, CountsNext DEF Countable
    <3>2. QED
      BY <3>1
  <2>7. Cardinality(cache'[k]) <= Cardinality(Made(t)') + Extra(k)
    <3>1. Cardinality(cache[k]) <= Cardinality(Made(t)) + Extra(k)
      BY <1>12, <2>1 DEF SendersInv, FillCounted
    <3>2. QED
      BY <1>2, <1>9, <2>3, <2>4, <2>5, <3>1
  <2>8. CacheCounted'
    <3> SUFFICES ASSUME NEW q \in Keys
                 PROVE  Cardinality(cache'[q]) <= Conns + Extra(q)'
      BY DEF CacheCounted
    <3>1. Extra(q)' = Extra(q) /\ Extra(q) \in Nat
      BY <2>3
    <3>2. CASE q = k
      BY <1>2, <1>9, <2>3, <2>4, <2>5, <2>6, <2>7, <3>1, <3>2
    <3>3. CASE q # k
      BY <1>9, <3>1, <3>3 DEF SendersInv, CacheCounted
    <3>4. QED
      BY <3>2, <3>3
  <2>9. FillCounted'
    <3> SUFFICES ASSUME NEW c \in Transfers, (stage[c] = "first" \/ c \in filling)'
                 PROVE  (Cardinality(cache[key[c]]) <= Cardinality(Made(c)) + Extra(key[c]))'
      BY DEF FillCounted
    <3>1. c = t
      BY <1>1, <2>2 DEF SendersInv, TokenInv, TokenHeld
    <3>2. Extra(key[t])' = Extra(k) /\ Cardinality(cache[key[t]])' = Cardinality(cache'[k])
      BY <1>1, <1>7, <1>12 DEF Extra
    <3>3. QED
      BY <2>7, <3>1, <3>2
  <2>10. QED
    BY <1>3, <1>4, <2>8, <2>9 DEF SendersInv
<1>13. QED
  BY <1>11, <1>12 DEF Calls

(* The cleanup, Close and what else concerns the cache alone.              *)
LEMMA StoreStep ==
  ASSUME SendersInv,
         \/ \E s \in All : Neglect(s) \/ UseAgain(s) \/ Terminate(s)
         \/ CleanUp \/ CloseSenders \/ EnsureRunning
  PROVE  SendersInv'
<1> USE SendersAssumption DEF SendersInv
<1>1. ASSUME NEW s \in All, Neglect(s) \/ UseAgain(s) \/ Terminate(s) PROVE SendersInv'
  <2>1. /\ stale' \subseteq All /\ doomed' \subseteq doomed /\ live' \subseteq live
        /\ UNCHANGED <<cache, open, closes, gate, made, stage, key, filling, job, makes>>
    BY <1>1 DEF Neglect, UseAgain, Terminate, SendersTypeOK
  <2>2. SendersTypeOK'
    BY <2>1 DEF SendersTypeOK
  <2>3. QED
    BY <2>1, <2>2, CacheShrinks
<1>2. CASE CleanUp
  <2>1. /\ cache' = [k \in Keys |-> cache[k] \ stale] /\ doomed' = doomed \union stale /\ stale' = {}
        /\ UNCHANGED <<open, closes, gate, live, made, stage, key, filling, job, makes>>
    BY <1>2 DEF CleanUp
  <2>2. SendersTypeOK'
    BY <2>1 DEF SendersTypeOK
  <2>3. QED
    BY <2>1, <2>2, CacheShrinks
<1>3. CASE CloseSenders
  <2>1. /\ open' = FALSE /\ closes < MaxCloses /\ closes' = closes + 1
        /\ doomed' = doomed \union cache["media"] \union cache["plain"]
        /\ cache' = [k \in Keys |-> {}] /\ stale' = {}
        /\ UNCHANGED <<gate, live, made, stage, key, filling, job, makes>>
    BY <1>3 DEF CloseSenders
  <2>2. closes' \in 0..MaxCloses /\ doomed' \subseteq All /\ cache' \in [Keys -> SUBSET All]
    <3>1. closes' \in 0..MaxCloses
      BY <2>1 DEF SendersTypeOK
    <3>2. doomed' \subseteq All /\ cache' \in [Keys -> SUBSET All]
      BY <2>1 DEF SendersTypeOK, Keys
    <3>3. QED
      BY <3>1, <3>2
  <2>a. SendersTypeOK'
    BY <2>1, <2>2 DEF SendersTypeOK
  <2>3. QED
    BY <2>1, <2>a, CacheShrinks
<1>4. CASE EnsureRunning
  <2>1. /\ open' = TRUE
        /\ UNCHANGED <<cache, stale, doomed, closes, gate, live, made, stage, key, filling, job, makes>>
    BY <1>4 DEF EnsureRunning
  <2>2. SendersTypeOK'
    BY <2>1 DEF SendersTypeOK
  <2>3. QED
    BY <2>1, <2>2, CacheShrinks
<1>5. QED
  BY <1>1, <1>2, <1>3, <1>4

LEMMA SendersInvStep == SendersInv /\ [SendersNext]_senderVars => SendersInv'
<1> SUFFICES ASSUME SendersInv, [SendersNext]_senderVars PROVE SendersInv'
  OBVIOUS
<1>1. ASSUME NEW t \in Transfers, PassGate(t) \/ GiveUpGate(t) \/ Setup(t) \/ EndWork(t)
      PROVE  SendersInv'
  BY <1>1, AtGateStep, LookCacheStep, FirstIsThereStep, FirstFailsStep, EndStep DEF Setup
<1>2. ASSUME NEW t \in Calls, NEW i \in 1..Conns, Make(t, i) PROVE SendersInv'
  BY <1>2, MakingStep, AddSenderStep DEF Make
<1>3. CASE UNCHANGED senderVars
  <2>1. SendersTypeOK'
    BY <1>3 DEF SendersInv, SendersTypeOK, senderVars
  <2>2. QED
    BY <1>3, <2>1, CacheShrinks DEF senderVars
<1>4. QED
  BY <1>1, <1>2, <1>3, EditStep, StoreStep DEF SendersNext

(* SendersInv holds in every reachable state.                              *)
THEOREM SendersInvariant == SendersSpec => []SendersInv
  BY SendersStart, SendersInvStep, PTL DEF SendersSpec

(* However many transfers begin at once, and whatever the cleanup and a    *)
(* stop do meanwhile, the cache holds no more connections to an address    *)
(* than one transfer works with, beside those that edits have added        *)
(* (initializeTransferWorkers of media.go).                                *)
THEOREM CacheIsBoundedAlways == SendersSpec => []CacheIsBounded
<1>1. SendersInv => CacheIsBounded
  <2> SUFFICES ASSUME SendersInv PROVE CacheIsBounded
    OBVIOUS
  <2> DEFINE B == {t \in Edits : makes[t][1] # 0}
  <2>1. Cardinality(cache["media"]) <= Conns /\ Cardinality(cache["plain"]) <= Conns + Cardinality(EditsDone)
    <3>1. Extra("media") = 0 /\ Extra("plain") = Cardinality(EditsDone)
      BY DEF Extra
    <3>2. Cardinality(cache["media"]) \in Nat
      BY CountsAreNumbers DEF SendersInv, Keys, Countable
    <3>3. QED
      BY <3>1, <3>2, SendersAssumption DEF SendersInv, CacheCounted, Keys
  <2>2. EditsDone \subseteq B
    BY DEF SendersInv, TokenInv, EditsAside, EditsDone
  <2>3. IsFiniteSet(B)
    BY FS_Subset, SendersAssumption
  <2>4. Cardinality(EditsDone) <= Cardinality(B) /\ Cardinality(EditsDone) \in Nat /\ Cardinality(B) \in Nat
    BY <2>2, <2>3, FS_Subset, FS_CardinalityType
  <2>5. Cardinality(cache["plain"]) \in Nat
    BY CountsAreNumbers DEF SendersInv, Keys, Countable
  <2>6. Cardinality(cache["plain"]) <= Conns + Cardinality(B)
    BY <2>1, <2>4, <2>5, SendersAssumption
  <2>7. QED
    BY <2>1, <2>6 DEF CacheIsBounded
<1>2. QED
  BY <1>1, SendersInvariant, PTL

-----------------------------------------------------------------------------
(* The file of the peer cache.  Whoever holds writeMu is at a step that    *)
(* needs it.  A peer that was promised and is not in the file is announced *)
(* by one of the two flags: a write clears writePending only after it has  *)
(* written what was promised when it took its snapshot, and who promises   *)
(* during the write sets the other flag, since the lock is taken.          *)

Locked == {"plan", "clear", "enter", "look", "look again", "seal", "check", "snap", "put", "good", "bad"}
Writing == {"check", "snap", "put", "good", "bad"}
Looking == {"look", "look again"}

Roles ==
  /\ \A u \in Updaters : at[u] \in {"idle", "quiet", "store", "flag", "try", "plan", "ask", "done"}
  /\ at[Helper] \in {"idle", "clear", "plan"}
  /\ \A h \in Savers : at[h] \in {"idle", "enter", "done"} \union Writing
  /\ \A h \in Closers : at[h] \in {"idle", "enter", "seal", "done"} \union Writing \union Looking
  /\ at[Alarm] \in {"idle"} \union Writing

MutexHeld == \A h \in Holders : at[h] \in Locked => mutex = h

Stored ==
  due \subseteq promised /\ promised \subseteq known /\ asked \subseteq known

(* An armed timer announces a write, or what it was armed for is not owed  *)
(* any more; who writes has stopped it.                                    *)
TimerTells == timer # "none" => pending \/ (asked = {} /\ promised = {})
TimerStopped ==
  \A h \in Writers : at[h] \in Writing \/ at[h] \in Looking => timer = "none"

(* Once the cache is closed only the Close that closed it writes.          *)
SealedIsOver == sealed # "open" => over
OthersQuiet == \A h \in Writers : over /\ at[h] \in Writing => h \in Closers
CloserAlone ==
  \A h \in Closers :
    /\ at[h] \in Writing \/ at[h] \in Looking => over /\ sealed = "open"
    /\ at[h] = "seal" => over

Announced ==
  ~ over => promised \subseteq file \/ pending \/ requested \/ at[Helper] = "plan"
SnapshotGood ==
  \A h \in Writers :
    /\ at[h] = "put" => promised \subseteq shot \/ requested
    /\ at[h] = "good" => promised \subseteq file \/ requested

DueKept ==
  \A h \in Closers :
    /\ at[h] = "look" => due \subseteq file \/ pending \/ requested
    /\ at[h] = "look again" => due \subseteq file \/ requested
    /\ at[h] = "put" => due \subseteq shot
    /\ at[h] = "good" => due \subseteq file
    /\ at[h] = "seal" /\ sealed = "open" => due \subseteq file

CacheInv ==
  /\ CacheTypeOK /\ Roles /\ MutexHeld /\ Stored /\ TimerTells /\ TimerStopped
  /\ SealedIsOver /\ OthersQuiet /\ CloserAlone
  /\ Announced /\ SnapshotGood /\ DueKept /\ CloseKeepsAll

LEMMA CacheStart == CacheInit => CacheInv
<1> SUFFICES ASSUME CacheInit PROVE CacheInv
  OBVIOUS
<1> USE CacheFileAssumption DEF CacheInit
<1>1. CacheTypeOK
  <2>1. late = 0 /\ strays = 0 /\ breaks = 0 /\ MaxBreaks \in Nat
    OBVIOUS
  <2>2. late \in Nat /\ strays \in Nat /\ breaks \in 0..MaxBreaks
    BY <2>1
  <2>3. at \in [Holders -> {"idle", "quiet", "store", "flag", "try", "plan", "ask", "clear",
                         "enter", "look", "look again", "seal", "check", "snap", "put",
                         "good", "bad", "done"}]
    OBVIOUS
  <2>4. QED
    BY <2>2, <2>3 DEF CacheTypeOK
<1>2. \A h \in Holders : at[h] \in {"idle", "done"}
  OBVIOUS
<1>a. at[Helper] = "idle" /\ at[Alarm] = "idle"
  BY DEF Holders, Writers
<1>3. Roles /\ MutexHeld /\ Stored /\ TimerTells /\ TimerStopped
  BY <1>2, <1>a DEF Roles, MutexHeld, Stored, TimerTells, TimerStopped, Holders, Writers, Locked, Writing, Looking
<1>4. /\ SealedIsOver /\ OthersQuiet /\ CloserAlone
      /\ Announced /\ SnapshotGood /\ DueKept /\ CloseKeepsAll
  BY <1>2 DEF SealedIsOver, OthersQuiet, CloserAlone, Announced, SnapshotGood, DueKept, CloseKeepsAll, Holders, Writers, Writing, Looking
<1>5. QED
  BY <1>1, <1>3, <1>4 DEF CacheInv

(* The kinds of holders are disjoint.                                      *)
LEMMA HoldersApart ==
  /\ \A u \in Updaters : u \in Holders /\ u # Helper /\ u # Alarm /\ u \notin Savers /\ u \notin Closers
                         /\ u \notin Writers /\ u # NoOne
  /\ \A h \in Savers : h \in Holders /\ h \in Writers /\ h # Helper /\ h # Alarm /\ h \notin Closers /\ h # NoOne
  /\ \A h \in Closers : h \in Holders /\ h \in Writers /\ h # Helper /\ h # Alarm /\ h # NoOne
  /\ Helper \in Holders /\ Alarm \in Holders /\ Alarm \in Writers /\ Helper # Alarm
  /\ Helper \notin Writers /\ Helper # NoOne /\ Alarm # NoOne
  /\ \A h \in Writers : h \in Holders /\ (h \in Savers \/ h \in Closers \/ h = Alarm)
  /\ \A h \in Holders : h \in Updaters \/ h \in Writers \/ h = Helper
  BY CacheFileAssumption DEF Holders, Writers

LEMMA ReadFlagsKeeps ==
  ASSUME CacheInv, NEW u \in Updaters, ReadFlags(u)
  PROVE  CacheInv'
<1> USE CacheFileAssumption, HoldersApart
<1>1. /\ at[u] \in {"idle"}
      /\ at'[u] \in {"quiet", "store"}
      /\ at' = [at EXCEPT ![u] = at'[u]]
      /\ UNCHANGED <<known, file, shot, pending, requested, timer, strays, late, mutex, recent, off, over, sealed, asked, promised, due, breaks>>
  BY DEF CacheInv, CacheTypeOK, ReadFlags, Go, LeaveCache, Return, Schedule, StopTimer, peers, flags, timers, calls, modes, past
<1>2. \A o \in Holders : o # u => at'[o] = at[o]
  BY <1>1 DEF CacheInv, CacheTypeOK
<1>3. CacheTypeOK'
  <2>1. strays \in Nat /\ late \in Nat /\ breaks \in 0..MaxBreaks /\ MaxBreaks \in Nat
    BY DEF CacheInv, CacheTypeOK
  <2>2. /\ strays' = strays \/ strays' = strays + 1 \/ (strays > 0 /\ strays' = strays - 1)
        /\ late' = late \/ late' = late + 1 \/ (late > 0 /\ late' = late - 1)
        /\ breaks' = breaks \/ (breaks < MaxBreaks /\ breaks' = breaks + 1)
    BY <1>1
  <2>3. strays' \in Nat /\ late' \in Nat /\ breaks' \in 0..MaxBreaks
    BY <2>1, <2>2
  <2>4. at' \in [Holders -> {"idle", "quiet", "store", "flag", "try", "plan", "ask", "clear", "enter", "look", "look again", "seal", "check", "snap", "put", "good", "bad", "done"}]
    BY <1>1 DEF CacheInv, CacheTypeOK
  <2>5. QED
    BY <1>1, <2>3, <2>4 DEF CacheInv, CacheTypeOK
<1>4. Roles'
  BY <1>1, <1>2 DEF CacheInv, Roles, Writing, Looking
<1>5. MutexHeld'
  BY <1>1, <1>2 DEF CacheInv, MutexHeld, Locked
<1>6. Stored'
  BY <1>1, <1>2 DEF CacheInv, CacheTypeOK, Stored
<1>7. TimerTells'
  BY <1>1, <1>2 DEF CacheInv, TimerTells, TimerStopped, Writing, Looking
<1>8. TimerStopped'
  BY <1>1, <1>2 DEF CacheInv, TimerStopped, Writing, Looking
<1>9. SealedIsOver'
  BY <1>1, <1>2 DEF CacheInv, SealedIsOver, CloserAlone, Writing
<1>10. OthersQuiet'
  BY <1>1, <1>2 DEF CacheInv, OthersQuiet, Writing
<1>11. CloserAlone'
  BY <1>1, <1>2 DEF CacheInv, SealedIsOver, CloserAlone, Writing, Looking
<1>12. Announced'
  BY <1>1, <1>2 DEF CacheInv, Announced, SnapshotGood, TimerTells, OthersQuiet, CloserAlone, Writing
<1>13. SnapshotGood'
  BY <1>1, <1>2 DEF CacheInv, Stored, SnapshotGood, Writing
<1>14. DueKept'
  BY <1>1, <1>2 DEF CacheInv, Stored, Announced, SealedIsOver, CloserAlone, DueKept, Writing, Looking
<1>15. CloseKeepsAll'
  BY <1>1, <1>2 DEF CacheInv, SealedIsOver, OthersQuiet, CloserAlone, DueKept, CloseKeepsAll, Writing
<1>16. QED
  BY <1>3, <1>4, <1>5, <1>6, <1>7, <1>8, <1>9, <1>10, <1>11, <1>12, <1>13, <1>14, <1>15 DEF CacheInv

LEMMA StorePeerKeeps ==
  ASSUME CacheInv, NEW u \in Updaters, StorePeer(u)
  PROVE  CacheInv'
<1> USE CacheFileAssumption, HoldersApart
<1>1. /\ at[u] \in {"quiet", "store"}
      /\ at'[u] \in {"done", "flag"}
      /\ at' = [at EXCEPT ![u] = at'[u]]
      /\ known' \subseteq known \union {u}
      /\ asked' = asked \intersect known' /\ promised' = promised \intersect known'
      /\ due' = due \intersect known'
      /\ UNCHANGED <<file, shot, pending, requested, timer, strays, late, mutex, recent, off, over, sealed, breaks>>
  <2>1. PICK S \in SUBSET (known \union {u}) : Keep(S)
    BY DEF StorePeer
  <2>2. /\ known' \subseteq known \union {u}
        /\ asked' = asked \intersect known' /\ promised' = promised \intersect known'
        /\ due' = due \intersect known'
    BY <2>1 DEF Keep
  <2>3. /\ UNCHANGED <<file, shot, pending, requested, timer, strays, late, mutex, recent, off, over, sealed, breaks>>
        /\ at[u] \in {"quiet", "store"} /\ (Go(u, "done") \/ Go(u, "flag"))
    BY DEF StorePeer, flags, timers, modes
  <2>4. at' = [at EXCEPT ![u] = at'[u]] /\ at'[u] \in {"done", "flag"}
    BY <2>3 DEF Go, CacheInv, CacheTypeOK
  <2> QED
    BY <2>2, <2>3, <2>4
<1>2. \A o \in Holders : o # u => at'[o] = at[o]
  BY <1>1 DEF CacheInv, CacheTypeOK
<1>3. CacheTypeOK'
  <2>1. strays \in Nat /\ late \in Nat /\ breaks \in 0..MaxBreaks /\ MaxBreaks \in Nat
    BY DEF CacheInv, CacheTypeOK
  <2>2. /\ strays' = strays \/ strays' = strays + 1 \/ (strays > 0 /\ strays' = strays - 1)
        /\ late' = late \/ late' = late + 1 \/ (late > 0 /\ late' = late - 1)
        /\ breaks' = breaks \/ (breaks < MaxBreaks /\ breaks' = breaks + 1)
    BY <1>1
  <2>3. strays' \in Nat /\ late' \in Nat /\ breaks' \in 0..MaxBreaks
    BY <2>1, <2>2
  <2>4. at' \in [Holders -> {"idle", "quiet", "store", "flag", "try", "plan", "ask", "clear", "enter", "look", "look again", "seal", "check", "snap", "put", "good", "bad", "done"}]
    BY <1>1 DEF CacheInv, CacheTypeOK
  <2>5. known' \subseteq Updaters /\ asked' \subseteq Updaters /\ promised' \subseteq Updaters /\ due' \subseteq Updaters
    BY <1>1 DEF CacheInv, CacheTypeOK
  <2>6. UNCHANGED <<file, shot, pending, requested, timer, mutex, recent, off, over, sealed>>
    BY <1>1
  <2>7. QED
    BY <2>3, <2>4, <2>5, <2>6 DEF CacheInv, CacheTypeOK
<1>4. Roles'
  BY <1>1, <1>2 DEF CacheInv, Roles, Writing, Looking
<1>5. MutexHeld'
  BY <1>1, <1>2 DEF CacheInv, MutexHeld, Locked
<1>6. Stored'
  BY <1>1, <1>2 DEF CacheInv, CacheTypeOK, Stored
<1>7. TimerTells'
  BY <1>1, <1>2 DEF CacheInv, TimerTells, TimerStopped, Writing, Looking
<1>8. TimerStopped'
  BY <1>1, <1>2 DEF CacheInv, TimerStopped, Writing, Looking
<1>9. SealedIsOver'
  BY <1>1, <1>2 DEF CacheInv, SealedIsOver, CloserAlone, Writing
<1>10. OthersQuiet'
  BY <1>1, <1>2 DEF CacheInv, OthersQuiet, Writing
<1>11. CloserAlone'
  BY <1>1, <1>2 DEF CacheInv, SealedIsOver, CloserAlone, Writing, Looking
<1>12. Announced'
  BY <1>1, <1>2 DEF CacheInv, Announced, SnapshotGood, TimerTells, OthersQuiet, CloserAlone, Writing
<1>13. SnapshotGood'
  BY <1>1, <1>2 DEF CacheInv, Stored, SnapshotGood, Writing
<1>14. DueKept'
  BY <1>1, <1>2 DEF CacheInv, Stored, Announced, SealedIsOver, CloserAlone, DueKept, Writing, Looking
<1>15. CloseKeepsAll'
  BY <1>1, <1>2 DEF CacheInv, SealedIsOver, OthersQuiet, CloserAlone, DueKept, CloseKeepsAll, Writing
<1>16. QED
  BY <1>3, <1>4, <1>5, <1>6, <1>7, <1>8, <1>9, <1>10, <1>11, <1>12, <1>13, <1>14, <1>15 DEF CacheInv

LEMMA SetPendingKeeps ==
  ASSUME CacheInv, NEW u \in Updaters, SetPending(u)
  PROVE  CacheInv'
<1> USE CacheFileAssumption, HoldersApart
<1>1. /\ at[u] \in {"flag"}
      /\ at'[u] \in {"try"}
      /\ at' = [at EXCEPT ![u] = at'[u]]
      /\ pending' = TRUE
      /\ asked' = asked \union ({u} \intersect known)
      /\ UNCHANGED <<known, file, shot, requested, timer, strays, late, mutex, recent, off, over, sealed, promised, due, breaks>>
  BY DEF CacheInv, CacheTypeOK, SetPending, Go, LeaveCache, Return, Schedule, StopTimer, peers, flags, timers, calls, modes, past
<1>2. \A o \in Holders : o # u => at'[o] = at[o]
  BY <1>1 DEF CacheInv, CacheTypeOK
<1>3. CacheTypeOK'
  <2>1. strays \in Nat /\ late \in Nat /\ breaks \in 0..MaxBreaks /\ MaxBreaks \in Nat
    BY DEF CacheInv, CacheTypeOK
  <2>2. /\ strays' = strays \/ strays' = strays + 1 \/ (strays > 0 /\ strays' = strays - 1)
        /\ late' = late \/ late' = late + 1 \/ (late > 0 /\ late' = late - 1)
        /\ breaks' = breaks \/ (breaks < MaxBreaks /\ breaks' = breaks + 1)
    BY <1>1
  <2>3. strays' \in Nat /\ late' \in Nat /\ breaks' \in 0..MaxBreaks
    BY <2>1, <2>2
  <2>4. at' \in [Holders -> {"idle", "quiet", "store", "flag", "try", "plan", "ask", "clear", "enter", "look", "look again", "seal", "check", "snap", "put", "good", "bad", "done"}]
    BY <1>1 DEF CacheInv, CacheTypeOK
  <2>5. QED
    BY <1>1, <2>3, <2>4 DEF CacheInv, CacheTypeOK
<1>4. Roles'
  BY <1>1, <1>2 DEF CacheInv, Roles, Writing, Looking
<1>5. MutexHeld'
  BY <1>1, <1>2 DEF CacheInv, MutexHeld, Locked
<1>6. Stored'
  BY <1>1, <1>2 DEF CacheInv, CacheTypeOK, Stored
<1>7. TimerTells'
  BY <1>1, <1>2 DEF CacheInv, TimerTells, TimerStopped, Writing, Looking
<1>8. TimerStopped'
  BY <1>1, <1>2 DEF CacheInv, TimerStopped, Writing, Looking
<1>9. SealedIsOver'
  BY <1>1, <1>2 DEF CacheInv, SealedIsOver, CloserAlone, Writing
<1>10. OthersQuiet'
  BY <1>1, <1>2 DEF CacheInv, OthersQuiet, Writing
<1>11. CloserAlone'
  BY <1>1, <1>2 DEF CacheInv, SealedIsOver, CloserAlone, Writing, Looking
<1>12. Announced'
  BY <1>1, <1>2 DEF CacheInv, Announced, SnapshotGood, TimerTells, OthersQuiet, CloserAlone, Writing
<1>13. SnapshotGood'
  BY <1>1, <1>2 DEF CacheInv, Stored, SnapshotGood, Writing
<1>14. DueKept'
  BY <1>1, <1>2 DEF CacheInv, Stored, Announced, SealedIsOver, CloserAlone, DueKept, Writing, Looking
<1>15. CloseKeepsAll'
  BY <1>1, <1>2 DEF CacheInv, SealedIsOver, OthersQuiet, CloserAlone, DueKept, CloseKeepsAll, Writing
<1>16. QED
  BY <1>3, <1>4, <1>5, <1>6, <1>7, <1>8, <1>9, <1>10, <1>11, <1>12, <1>13, <1>14, <1>15 DEF CacheInv

LEMMA TryLockKeeps ==
  ASSUME CacheInv, NEW u \in Updaters, TryLock(u)
  PROVE  CacheInv'
<1> USE CacheFileAssumption, HoldersApart
<1>1. /\ at[u] \in {"try"}
      /\ at'[u] \in {"plan", "ask"}
      /\ at' = [at EXCEPT ![u] = at'[u]]
      /\ \/ mutex = NoOne /\ mutex' = u /\ at'[u] = "plan"
         \/ mutex' = mutex /\ at'[u] = "ask"
      /\ UNCHANGED <<known, file, shot, pending, requested, timer, strays, late, recent, off, over, sealed, asked, promised, due, breaks>>
  BY DEF CacheInv, CacheTypeOK, TryLock, Go, LeaveCache, Return, Schedule, StopTimer, peers, flags, timers, calls, modes, past
<1>2. \A o \in Holders : o # u => at'[o] = at[o]
  BY <1>1 DEF CacheInv, CacheTypeOK
<1>3. CacheTypeOK'
  <2>1. strays \in Nat /\ late \in Nat /\ breaks \in 0..MaxBreaks /\ MaxBreaks \in Nat
    BY DEF CacheInv, CacheTypeOK
  <2>2. /\ strays' = strays \/ strays' = strays + 1 \/ (strays > 0 /\ strays' = strays - 1)
        /\ late' = late \/ late' = late + 1 \/ (late > 0 /\ late' = late - 1)
        /\ breaks' = breaks \/ (breaks < MaxBreaks /\ breaks' = breaks + 1)
    BY <1>1
  <2>3. strays' \in Nat /\ late' \in Nat /\ breaks' \in 0..MaxBreaks
    BY <2>1, <2>2
  <2>4. at' \in [Holders -> {"idle", "quiet", "store", "flag", "try", "plan", "ask", "clear", "enter", "look", "look again", "seal", "check", "snap", "put", "good", "bad", "done"}]
    BY <1>1 DEF CacheInv, CacheTypeOK
  <2>5. mutex' \in Holders \union {NoOne}
    BY <1>1 DEF CacheInv, CacheTypeOK
  <2>6. UNCHANGED <<known, file, shot, asked, promised, due, pending, requested, recent, off, over, timer, sealed>>
    BY <1>1
  <2>7. QED
    BY <2>3, <2>4, <2>5, <2>6 DEF CacheInv, CacheTypeOK
<1>4. Roles'
  BY <1>1, <1>2 DEF CacheInv, Roles, Writing, Looking
<1>5. MutexHeld'
  BY <1>1, <1>2 DEF CacheInv, MutexHeld, Locked
<1>6. Stored'
  BY <1>1, <1>2 DEF CacheInv, CacheTypeOK, Stored
<1>7. TimerTells'
  BY <1>1, <1>2 DEF CacheInv, TimerTells, TimerStopped, Writing, Looking
<1>8. TimerStopped'
  BY <1>1, <1>2 DEF CacheInv, TimerStopped, Writing, Looking
<1>9. SealedIsOver'
  BY <1>1, <1>2 DEF CacheInv, SealedIsOver, CloserAlone, Writing
<1>10. OthersQuiet'
  BY <1>1, <1>2 DEF CacheInv, OthersQuiet, Writing
<1>11. CloserAlone'
  BY <1>1, <1>2 DEF CacheInv, SealedIsOver, CloserAlone, Writing, Looking
<1>12. Announced'
  BY <1>1, <1>2 DEF CacheInv, Announced, SnapshotGood, TimerTells, OthersQuiet, CloserAlone, Writing
<1>13. SnapshotGood'
  BY <1>1, <1>2 DEF CacheInv, Stored, SnapshotGood, Writing
<1>14. DueKept'
  BY <1>1, <1>2 DEF CacheInv, Stored, Announced, SealedIsOver, CloserAlone, DueKept, Writing, Looking
<1>15. CloseKeepsAll'
  BY <1>1, <1>2 DEF CacheInv, SealedIsOver, OthersQuiet, CloserAlone, DueKept, CloseKeepsAll, Writing
<1>16. QED
  BY <1>3, <1>4, <1>5, <1>6, <1>7, <1>8, <1>9, <1>10, <1>11, <1>12, <1>13, <1>14, <1>15 DEF CacheInv

LEMMA PlanWriteKeeps ==
  ASSUME CacheInv, NEW u \in Updaters, PlanWrite(u)
  PROVE  CacheInv'
<1> USE CacheFileAssumption, HoldersApart
<1>1. /\ at[u] \in {"plan"}
      /\ at'[u] \in {"done"}
      /\ at' = [at EXCEPT ![u] = at'[u]]
      /\ mutex' = NoOne
      /\ promised' = promised \union ({u} \intersect asked)
      /\ \/ timer # "none" /\ UNCHANGED <<timer, pending>>
         \/ over /\ UNCHANGED <<timer, pending>>
         \/ ~ over /\ timer' = "armed" /\ pending' = TRUE
      /\ UNCHANGED <<known, file, shot, requested, strays, late, recent, off, over, sealed, asked, due, breaks>>
  BY DEF CacheInv, CacheTypeOK, PlanWrite, Go, LeaveCache, Return, Schedule, StopTimer, peers, flags, timers, calls, modes, past
<1>2. \A o \in Holders : o # u => at'[o] = at[o]
  BY <1>1 DEF CacheInv, CacheTypeOK
<1>b. \A o \in Holders : o # u => at[o] \notin Locked
  BY <1>1 DEF CacheInv, MutexHeld, Locked
<1>c. \A o \in Holders : o # u => at[o] \notin Writing /\ at[o] \notin Looking /\ at[o] # "seal" /\ at[o] # "plan"
  BY <1>b DEF Locked, Writing, Looking
<1>3. CacheTypeOK'
  <2>1. strays \in Nat /\ late \in Nat /\ breaks \in 0..MaxBreaks /\ MaxBreaks \in Nat
    BY DEF CacheInv, CacheTypeOK
  <2>2. /\ strays' = strays \/ strays' = strays + 1 \/ (strays > 0 /\ strays' = strays - 1)
        /\ late' = late \/ late' = late + 1 \/ (late > 0 /\ late' = late - 1)
        /\ breaks' = breaks \/ (breaks < MaxBreaks /\ breaks' = breaks + 1)
    BY <1>1
  <2>3. strays' \in Nat /\ late' \in Nat /\ breaks' \in 0..MaxBreaks
    BY <2>1, <2>2
  <2>4. at' \in [Holders -> {"idle", "quiet", "store", "flag", "try", "plan", "ask", "clear", "enter", "look", "look again", "seal", "check", "snap", "put", "good", "bad", "done"}]
    BY <1>1 DEF CacheInv, CacheTypeOK
  <2>5. QED
    BY <1>1, <2>3, <2>4 DEF CacheInv, CacheTypeOK
<1>4. Roles'
  BY <1>1, <1>2, <1>c DEF CacheInv, Roles, Writing, Looking
<1>5. MutexHeld'
  BY <1>1, <1>2, <1>c DEF CacheInv, MutexHeld, Locked
<1>6. Stored'
  BY <1>1 DEF CacheInv, Stored
<1>7. TimerTells'
  <2>1. CASE UNCHANGED <<timer, pending>>
    BY <1>1, <2>1 DEF CacheInv, TimerTells
  <2>2. CASE timer' = "none" \/ pending' = TRUE
    BY <2>2 DEF TimerTells
  <2>3. QED
    BY <1>1, <2>1, <2>2
<1>8. TimerStopped'
  BY <1>1, <1>2, <1>c DEF CacheInv, TimerStopped, Writing, Looking
<1>9. SealedIsOver'
  BY <1>1, <1>2, <1>c DEF CacheInv, SealedIsOver, CloserAlone, Writing
<1>10. OthersQuiet'
  BY <1>1, <1>2, <1>c DEF CacheInv, OthersQuiet, Writing
<1>11. CloserAlone'
  BY <1>1, <1>2, <1>c DEF CacheInv, SealedIsOver, CloserAlone, Writing, Looking
<1>12. Announced'
  BY <1>1, <1>2, <1>c DEF CacheInv, Announced, SnapshotGood, TimerTells, OthersQuiet, CloserAlone, Writing
<1>13. SnapshotGood'
  BY <1>1, <1>2, <1>c DEF CacheInv, Stored, SnapshotGood, Writing
<1>14. DueKept'
  BY <1>1, <1>2, <1>c DEF CacheInv, Stored, Announced, SealedIsOver, CloserAlone, DueKept, Writing, Looking
<1>15. CloseKeepsAll'
  BY <1>1, <1>2, <1>c DEF CacheInv, SealedIsOver, OthersQuiet, CloserAlone, DueKept, CloseKeepsAll, Writing
<1>16. QED
  BY <1>3, <1>4, <1>5, <1>6, <1>7, <1>8, <1>9, <1>10, <1>11, <1>12, <1>13, <1>14, <1>15 DEF CacheInv

LEMMA AskHelperKeeps ==
  ASSUME CacheInv, NEW u \in Updaters, AskHelper(u)
  PROVE  CacheInv'
<1> USE CacheFileAssumption, HoldersApart
<1>1. /\ at[u] \in {"ask"}
      /\ at'[u] \in {"done"}
      /\ at' = [at EXCEPT ![u] = at'[u]]
      /\ requested' = TRUE
      /\ promised' = promised \union ({u} \intersect asked)
      /\ UNCHANGED <<known, file, shot, pending, timer, strays, late, mutex, recent, off, over, sealed, asked, due, breaks>>
  BY DEF CacheInv, CacheTypeOK, AskHelper, Go, LeaveCache, Return, Schedule, StopTimer, peers, flags, timers, calls, modes, past
<1>2. \A o \in Holders : o # u => at'[o] = at[o]
  BY <1>1 DEF CacheInv, CacheTypeOK
<1>3. CacheTypeOK'
  <2>1. strays \in Nat /\ late \in Nat /\ breaks \in 0..MaxBreaks /\ MaxBreaks \in Nat
    BY DEF CacheInv, CacheTypeOK
  <2>2. /\ strays' = strays \/ strays' = strays + 1 \/ (strays > 0 /\ strays' = strays - 1)
        /\ late' = late \/ late' = late + 1 \/ (late > 0 /\ late' = late - 1)
        /\ breaks' = breaks \/ (breaks < MaxBreaks /\ breaks' = breaks + 1)
    BY <1>1
  <2>3. strays' \in Nat /\ late' \in Nat /\ breaks' \in 0..MaxBreaks
    BY <2>1, <2>2
  <2>4. at' \in [Holders -> {"idle", "quiet", "store", "flag", "try", "plan", "ask", "clear", "enter", "look", "look again", "seal", "check", "snap", "put", "good", "bad", "done"}]
    BY <1>1 DEF CacheInv, CacheTypeOK
  <2>5. QED
    BY <1>1, <2>3, <2>4 DEF CacheInv, CacheTypeOK
<1>4. Roles'
  BY <1>1, <1>2 DEF CacheInv, Roles, Writing, Looking
<1>5. MutexHeld'
  BY <1>1, <1>2 DEF CacheInv, MutexHeld, Locked
<1>6. Stored'
  BY <1>1, <1>2 DEF CacheInv, CacheTypeOK, Stored
<1>7. TimerTells'
  BY <1>1, <1>2 DEF CacheInv, TimerTells, TimerStopped, Writing, Looking
<1>8. TimerStopped'
  BY <1>1, <1>2 DEF CacheInv, TimerStopped, Writing, Looking
<1>9. SealedIsOver'
  BY <1>1, <1>2 DEF CacheInv, SealedIsOver, CloserAlone, Writing
<1>10. OthersQuiet'
  BY <1>1, <1>2 DEF CacheInv, OthersQuiet, Writing
<1>11. CloserAlone'
  BY <1>1, <1>2 DEF CacheInv, SealedIsOver, CloserAlone, Writing, Looking
<1>12. Announced'
  BY <1>1, <1>2 DEF CacheInv, Announced, SnapshotGood, TimerTells, OthersQuiet, CloserAlone, Writing
<1>13. SnapshotGood'
  BY <1>1, <1>2 DEF CacheInv, Stored, SnapshotGood, Writing
<1>14. DueKept'
  BY <1>1, <1>2 DEF CacheInv, Stored, Announced, SealedIsOver, CloserAlone, DueKept, Writing, Looking
<1>15. CloseKeepsAll'
  BY <1>1, <1>2 DEF CacheInv, SealedIsOver, OthersQuiet, CloserAlone, DueKept, CloseKeepsAll, Writing
<1>16. QED
  BY <1>3, <1>4, <1>5, <1>6, <1>7, <1>8, <1>9, <1>10, <1>11, <1>12, <1>13, <1>14, <1>15 DEF CacheInv

LEMMA HelperLocksKeeps ==
  ASSUME CacheInv, HelperLocks
  PROVE  CacheInv'
<1> USE CacheFileAssumption, HoldersApart
<1>1. /\ at[Helper] \in {"idle"}
      /\ at'[Helper] \in {"clear"}
      /\ at' = [at EXCEPT ![Helper] = at'[Helper]]
      /\ mutex = NoOne
      /\ mutex' = Helper
      /\ UNCHANGED <<known, file, shot, pending, requested, timer, strays, late, recent, off, over, sealed, asked, promised, due, breaks>>
  BY DEF CacheInv, CacheTypeOK, HelperLocks, Go, LeaveCache, Return, Schedule, StopTimer, peers, flags, timers, calls, modes, past
<1>2. \A o \in Holders : o # Helper => at'[o] = at[o]
  BY <1>1 DEF CacheInv, CacheTypeOK
<1>b. \A o \in Holders : at[o] \notin Locked
  BY <1>1 DEF CacheInv, MutexHeld, Locked
<1>c. \A o \in Holders : at[o] \notin Writing /\ at[o] \notin Looking /\ at[o] # "seal" /\ at[o] # "plan"
  BY <1>b DEF Locked, Writing, Looking
<1>3. CacheTypeOK'
  <2>1. strays \in Nat /\ late \in Nat /\ breaks \in 0..MaxBreaks /\ MaxBreaks \in Nat
    BY DEF CacheInv, CacheTypeOK
  <2>2. /\ strays' = strays \/ strays' = strays + 1 \/ (strays > 0 /\ strays' = strays - 1)
        /\ late' = late \/ late' = late + 1 \/ (late > 0 /\ late' = late - 1)
        /\ breaks' = breaks \/ (breaks < MaxBreaks /\ breaks' = breaks + 1)
    BY <1>1
  <2>3. strays' \in Nat /\ late' \in Nat /\ breaks' \in 0..MaxBreaks
    BY <2>1, <2>2
  <2>4. at' \in [Holders -> {"idle", "quiet", "store", "flag", "try", "plan", "ask", "clear", "enter", "look", "look again", "seal", "check", "snap", "put", "good", "bad", "done"}]
    BY <1>1 DEF CacheInv, CacheTypeOK
  <2>5. QED
    BY <1>1, <2>3, <2>4 DEF CacheInv, CacheTypeOK
<1>4. Roles'
  BY <1>1, <1>2, <1>c DEF CacheInv, Roles, Writing, Looking
<1>5. MutexHeld'
  BY <1>1, <1>2, <1>c DEF CacheInv, MutexHeld, Locked
<1>6. Stored'
  BY <1>1, <1>2, <1>c DEF CacheInv, CacheTypeOK, Stored
<1>7. TimerTells'
  BY <1>1, <1>2, <1>c DEF CacheInv, TimerTells, TimerStopped, Writing, Looking
<1>8. TimerStopped'
  BY <1>1, <1>2, <1>c DEF CacheInv, TimerStopped, Writing, Looking
<1>9. SealedIsOver'
  BY <1>1, <1>2, <1>c DEF CacheInv, SealedIsOver, CloserAlone, Writing
<1>10. OthersQuiet'
  BY <1>1, <1>2, <1>c DEF CacheInv, OthersQuiet, Writing
<1>11. CloserAlone'
  BY <1>1, <1>2, <1>c DEF CacheInv, SealedIsOver, CloserAlone, Writing, Looking
<1>12. Announced'
  BY <1>1, <1>2, <1>c DEF CacheInv, Announced, SnapshotGood, TimerTells, OthersQuiet, CloserAlone, Writing
<1>13. SnapshotGood'
  BY <1>1, <1>2, <1>c DEF CacheInv, Stored, SnapshotGood, Writing
<1>14. DueKept'
  BY <1>1, <1>2, <1>c DEF CacheInv, Stored, Announced, SealedIsOver, CloserAlone, DueKept, Writing, Looking
<1>15. CloseKeepsAll'
  BY <1>1, <1>2, <1>c DEF CacheInv, SealedIsOver, OthersQuiet, CloserAlone, DueKept, CloseKeepsAll, Writing
<1>16. QED
  BY <1>3, <1>4, <1>5, <1>6, <1>7, <1>8, <1>9, <1>10, <1>11, <1>12, <1>13, <1>14, <1>15 DEF CacheInv

LEMMA HelperClearsKeeps ==
  ASSUME CacheInv, HelperClears
  PROVE  CacheInv'
<1> USE CacheFileAssumption, HoldersApart
<1>1. /\ at[Helper] \in {"clear"}
      /\ at'[Helper] \in {"plan"}
      /\ at' = [at EXCEPT ![Helper] = at'[Helper]]
      /\ requested' = FALSE
      /\ UNCHANGED <<known, file, shot, pending, timer, strays, late, mutex, recent, off, over, sealed, asked, promised, due, breaks>>
  BY DEF CacheInv, CacheTypeOK, HelperClears, Go, LeaveCache, Return, Schedule, StopTimer, peers, flags, timers, calls, modes, past
<1>2. \A o \in Holders : o # Helper => at'[o] = at[o]
  BY <1>1 DEF CacheInv, CacheTypeOK
<1>b. \A o \in Holders : o # Helper => at[o] \notin Locked
  BY <1>1 DEF CacheInv, MutexHeld, Locked
<1>c. \A o \in Holders : o # Helper => at[o] \notin Writing /\ at[o] \notin Looking /\ at[o] # "seal" /\ at[o] # "plan"
  BY <1>b DEF Locked, Writing, Looking
<1>3. CacheTypeOK'
  <2>1. strays \in Nat /\ late \in Nat /\ breaks \in 0..MaxBreaks /\ MaxBreaks \in Nat
    BY DEF CacheInv, CacheTypeOK
  <2>2. /\ strays' = strays \/ strays' = strays + 1 \/ (strays > 0 /\ strays' = strays - 1)
        /\ late' = late \/ late' = late + 1 \/ (late > 0 /\ late' = late - 1)
        /\ breaks' = breaks \/ (breaks < MaxBreaks /\ breaks' = breaks + 1)
    BY <1>1
  <2>3. strays' \in Nat /\ late' \in Nat /\ breaks' \in 0..MaxBreaks
    BY <2>1, <2>2
  <2>4. at' \in [Holders -> {"idle", "quiet", "store", "flag", "try", "plan", "ask", "clear", "enter", "look", "look again", "seal", "check", "snap", "put", "good", "bad", "done"}]
    BY <1>1 DEF CacheInv, CacheTypeOK
  <2>5. QED
    BY <1>1, <2>3, <2>4 DEF CacheInv, CacheTypeOK
<1>4. Roles'
  BY <1>1, <1>2, <1>c DEF CacheInv, Roles, Writing, Looking
<1>5. MutexHeld'
  BY <1>1, <1>2, <1>c DEF CacheInv, MutexHeld, Locked
<1>6. Stored'
  BY <1>1, <1>2, <1>c DEF CacheInv, CacheTypeOK, Stored
<1>7. TimerTells'
  BY <1>1, <1>2, <1>c DEF CacheInv, TimerTells, TimerStopped, Writing, Looking
<1>8. TimerStopped'
  BY <1>1, <1>2, <1>c DEF CacheInv, TimerStopped, Writing, Looking
<1>9. SealedIsOver'
  BY <1>1, <1>2, <1>c DEF CacheInv, SealedIsOver, CloserAlone, Writing
<1>10. OthersQuiet'
  BY <1>1, <1>2, <1>c DEF CacheInv, OthersQuiet, Writing
<1>11. CloserAlone'
  BY <1>1, <1>2, <1>c DEF CacheInv, SealedIsOver, CloserAlone, Writing, Looking
<1>12. Announced'
  BY <1>1, <1>2, <1>c DEF CacheInv, Announced, SnapshotGood, TimerTells, OthersQuiet, CloserAlone, Writing
<1>13. SnapshotGood'
  BY <1>1, <1>2, <1>c DEF CacheInv, Stored, SnapshotGood, Writing
<1>14. DueKept'
  BY <1>1, <1>2, <1>c DEF CacheInv, Stored, Announced, SealedIsOver, CloserAlone, DueKept, Writing, Looking
<1>15. CloseKeepsAll'
  BY <1>1, <1>2, <1>c DEF CacheInv, SealedIsOver, OthersQuiet, CloserAlone, DueKept, CloseKeepsAll, Writing
<1>16. QED
  BY <1>3, <1>4, <1>5, <1>6, <1>7, <1>8, <1>9, <1>10, <1>11, <1>12, <1>13, <1>14, <1>15 DEF CacheInv

LEMMA HelperPlansKeeps ==
  ASSUME CacheInv, HelperPlans
  PROVE  CacheInv'
<1> USE CacheFileAssumption, HoldersApart
<1>1. /\ at[Helper] \in {"plan"}
      /\ at'[Helper] \in {"idle"}
      /\ at' = [at EXCEPT ![Helper] = at'[Helper]]
      /\ mutex' = NoOne
      /\ \/ timer # "none" /\ UNCHANGED <<timer, pending>>
         \/ over /\ UNCHANGED <<timer, pending>>
         \/ ~ over /\ timer' = "armed" /\ pending' = TRUE
      /\ UNCHANGED <<known, file, shot, requested, strays, late, recent, off, over, sealed, asked, promised, due, breaks>>
  BY DEF CacheInv, CacheTypeOK, HelperPlans, Go, LeaveCache, Return, Schedule, StopTimer, peers, flags, timers, calls, modes, past
<1>2. \A o \in Holders : o # Helper => at'[o] = at[o]
  BY <1>1 DEF CacheInv, CacheTypeOK
<1>b. \A o \in Holders : o # Helper => at[o] \notin Locked
  BY <1>1 DEF CacheInv, MutexHeld, Locked
<1>c. \A o \in Holders : o # Helper => at[o] \notin Writing /\ at[o] \notin Looking /\ at[o] # "seal" /\ at[o] # "plan"
  BY <1>b DEF Locked, Writing, Looking
<1>3. CacheTypeOK'
  <2>1. strays \in Nat /\ late \in Nat /\ breaks \in 0..MaxBreaks /\ MaxBreaks \in Nat
    BY DEF CacheInv, CacheTypeOK
  <2>2. /\ strays' = strays \/ strays' = strays + 1 \/ (strays > 0 /\ strays' = strays - 1)
        /\ late' = late \/ late' = late + 1 \/ (late > 0 /\ late' = late - 1)
        /\ breaks' = breaks \/ (breaks < MaxBreaks /\ breaks' = breaks + 1)
    BY <1>1
  <2>3. strays' \in Nat /\ late' \in Nat /\ breaks' \in 0..MaxBreaks
    BY <2>1, <2>2
  <2>4. at' \in [Holders -> {"idle", "quiet", "store", "flag", "try", "plan", "ask", "clear", "enter", "look", "look again", "seal", "check", "snap", "put", "good", "bad", "done"}]
    BY <1>1 DEF CacheInv, CacheTypeOK
  <2>5. QED
    BY <1>1, <2>3, <2>4 DEF CacheInv, CacheTypeOK
<1>4. Roles'
  BY <1>1, <1>2, <1>c DEF CacheInv, Roles, Writing, Looking
<1>5. MutexHeld'
  BY <1>1, <1>2, <1>c DEF CacheInv, MutexHeld, Locked
<1>6. Stored'
  BY <1>1, <1>2, <1>c DEF CacheInv, CacheTypeOK, Stored
<1>7. TimerTells'
  <2>1. CASE UNCHANGED <<timer, pending>>
    BY <1>1, <2>1 DEF CacheInv, TimerTells
  <2>2. CASE timer' = "none" \/ pending' = TRUE
    BY <2>2 DEF TimerTells
  <2>3. QED
    BY <1>1, <2>1, <2>2
<1>8. TimerStopped'
  BY <1>1, <1>2, <1>c DEF CacheInv, TimerStopped, Writing, Looking
<1>9. SealedIsOver'
  BY <1>1, <1>2, <1>c DEF CacheInv, SealedIsOver, CloserAlone, Writing
<1>10. OthersQuiet'
  BY <1>1, <1>2, <1>c DEF CacheInv, OthersQuiet, Writing
<1>11. CloserAlone'
  BY <1>1, <1>2, <1>c DEF CacheInv, SealedIsOver, CloserAlone, Writing, Looking
<1>12. Announced'
  BY <1>1, <1>2, <1>c DEF CacheInv, Announced, SnapshotGood, TimerTells, OthersQuiet, CloserAlone, Writing
<1>13. SnapshotGood'
  BY <1>1, <1>2, <1>c DEF CacheInv, Stored, SnapshotGood, Writing
<1>14. DueKept'
  BY <1>1, <1>2, <1>c DEF CacheInv, Stored, Announced, SealedIsOver, CloserAlone, DueKept, Writing, Looking
<1>15. CloseKeepsAll'
  BY <1>1, <1>2, <1>c DEF CacheInv, SealedIsOver, OthersQuiet, CloserAlone, DueKept, CloseKeepsAll, Writing
<1>16. QED
  BY <1>3, <1>4, <1>5, <1>6, <1>7, <1>8, <1>9, <1>10, <1>11, <1>12, <1>13, <1>14, <1>15 DEF CacheInv

LEMMA FireKeeps ==
  ASSUME CacheInv, Fire
  PROVE  CacheInv'
<1> USE CacheFileAssumption, HoldersApart
<1>1. /\ timer # "none" /\ timer' = "fired"
      /\ late' = late + 1
      /\ UNCHANGED <<known, file, shot, pending, requested, strays, mutex, at, recent, off, over, sealed, asked, promised, due, breaks>>
  BY DEF CacheInv, CacheTypeOK, Fire, Go, LeaveCache, Return, Schedule, StopTimer, peers, flags, timers, calls, modes, past
<1>2. \A o \in Holders : at'[o] = at[o]
  BY <1>1 DEF CacheInv, CacheTypeOK
<1>3. CacheTypeOK'
  <2>1. strays \in Nat /\ late \in Nat /\ breaks \in 0..MaxBreaks /\ MaxBreaks \in Nat
    BY DEF CacheInv, CacheTypeOK
  <2>2. /\ strays' = strays \/ strays' = strays + 1 \/ (strays > 0 /\ strays' = strays - 1)
        /\ late' = late \/ late' = late + 1 \/ (late > 0 /\ late' = late - 1)
        /\ breaks' = breaks \/ (breaks < MaxBreaks /\ breaks' = breaks + 1)
    BY <1>1
  <2>3. strays' \in Nat /\ late' \in Nat /\ breaks' \in 0..MaxBreaks
    BY <2>1, <2>2
  <2>4. at' \in [Holders -> {"idle", "quiet", "store", "flag", "try", "plan", "ask", "clear", "enter", "look", "look again", "seal", "check", "snap", "put", "good", "bad", "done"}]
    BY <1>1 DEF CacheInv, CacheTypeOK
  <2>5. QED
    BY <1>1, <2>3, <2>4 DEF CacheInv, CacheTypeOK
<1>4. Roles'
  BY <1>1, <1>2 DEF CacheInv, Roles, Writing, Looking
<1>5. MutexHeld'
  BY <1>1, <1>2 DEF CacheInv, MutexHeld, Locked
<1>6. Stored'
  BY <1>1, <1>2 DEF CacheInv, CacheTypeOK, Stored
<1>7. TimerTells'
  BY <1>1, <1>2 DEF CacheInv, TimerTells, TimerStopped, Writing, Looking
<1>8. TimerStopped'
  BY <1>1, <1>2 DEF CacheInv, TimerStopped, Writing, Looking
<1>9. SealedIsOver'
  BY <1>1, <1>2 DEF CacheInv, SealedIsOver, CloserAlone, Writing
<1>10. OthersQuiet'
  BY <1>1, <1>2 DEF CacheInv, OthersQuiet, Writing
<1>11. CloserAlone'
  BY <1>1, <1>2 DEF CacheInv, SealedIsOver, CloserAlone, Writing, Looking
<1>12. Announced'
  BY <1>1, <1>2 DEF CacheInv, Announced, SnapshotGood, TimerTells, OthersQuiet, CloserAlone, Writing
<1>13. SnapshotGood'
  BY <1>1, <1>2 DEF CacheInv, Stored, SnapshotGood, Writing
<1>14. DueKept'
  BY <1>1, <1>2 DEF CacheInv, Stored, Announced, SealedIsOver, CloserAlone, DueKept, Writing, Looking
<1>15. CloseKeepsAll'
  BY <1>1, <1>2 DEF CacheInv, SealedIsOver, OthersQuiet, CloserAlone, DueKept, CloseKeepsAll, Writing
<1>16. QED
  BY <1>3, <1>4, <1>5, <1>6, <1>7, <1>8, <1>9, <1>10, <1>11, <1>12, <1>13, <1>14, <1>15 DEF CacheInv

LEMMA FireStrayKeeps ==
  ASSUME CacheInv, FireStray
  PROVE  CacheInv'
<1> USE CacheFileAssumption, HoldersApart
<1>1. /\ strays > 0 /\ strays' = strays - 1
      /\ late' = late + 1
      /\ UNCHANGED <<known, file, shot, pending, requested, timer, mutex, at, recent, off, over, sealed, asked, promised, due, breaks>>
  BY DEF CacheInv, CacheTypeOK, FireStray, Go, LeaveCache, Return, Schedule, StopTimer, peers, flags, timers, calls, modes, past
<1>2. \A o \in Holders : at'[o] = at[o]
  BY <1>1 DEF CacheInv, CacheTypeOK
<1>3. CacheTypeOK'
  <2>1. strays \in Nat /\ late \in Nat /\ breaks \in 0..MaxBreaks /\ MaxBreaks \in Nat
    BY DEF CacheInv, CacheTypeOK
  <2>2. /\ strays' = strays \/ strays' = strays + 1 \/ (strays > 0 /\ strays' = strays - 1)
        /\ late' = late \/ late' = late + 1 \/ (late > 0 /\ late' = late - 1)
        /\ breaks' = breaks \/ (breaks < MaxBreaks /\ breaks' = breaks + 1)
    BY <1>1
  <2>3. strays' \in Nat /\ late' \in Nat /\ breaks' \in 0..MaxBreaks
    BY <2>1, <2>2
  <2>4. at' \in [Holders -> {"idle", "quiet", "store", "flag", "try", "plan", "ask", "clear", "enter", "look", "look again", "seal", "check", "snap", "put", "good", "bad", "done"}]
    BY <1>1 DEF CacheInv, CacheTypeOK
  <2>5. QED
    BY <1>1, <2>3, <2>4 DEF CacheInv, CacheTypeOK
<1>4. Roles'
  BY <1>1, <1>2 DEF CacheInv, Roles, Writing, Looking
<1>5. MutexHeld'
  BY <1>1, <1>2 DEF CacheInv, MutexHeld, Locked
<1>6. Stored'
  BY <1>1, <1>2 DEF CacheInv, CacheTypeOK, Stored
<1>7. TimerTells'
  BY <1>1, <1>2 DEF CacheInv, TimerTells, TimerStopped, Writing, Looking
<1>8. TimerStopped'
  BY <1>1, <1>2 DEF CacheInv, TimerStopped, Writing, Looking
<1>9. SealedIsOver'
  BY <1>1, <1>2 DEF CacheInv, SealedIsOver, CloserAlone, Writing
<1>10. OthersQuiet'
  BY <1>1, <1>2 DEF CacheInv, OthersQuiet, Writing
<1>11. CloserAlone'
  BY <1>1, <1>2 DEF CacheInv, SealedIsOver, CloserAlone, Writing, Looking
<1>12. Announced'
  BY <1>1, <1>2 DEF CacheInv, Announced, SnapshotGood, TimerTells, OthersQuiet, CloserAlone, Writing
<1>13. SnapshotGood'
  BY <1>1, <1>2 DEF CacheInv, Stored, SnapshotGood, Writing
<1>14. DueKept'
  BY <1>1, <1>2 DEF CacheInv, Stored, Announced, SealedIsOver, CloserAlone, DueKept, Writing, Looking
<1>15. CloseKeepsAll'
  BY <1>1, <1>2 DEF CacheInv, SealedIsOver, OthersQuiet, CloserAlone, DueKept, CloseKeepsAll, Writing
<1>16. QED
  BY <1>3, <1>4, <1>5, <1>6, <1>7, <1>8, <1>9, <1>10, <1>11, <1>12, <1>13, <1>14, <1>15 DEF CacheInv

LEMMA AlarmRingsKeeps ==
  ASSUME CacheInv, AlarmRings
  PROVE  CacheInv'
<1> USE CacheFileAssumption, HoldersApart
<1>1. /\ late > 0 /\ late' = late - 1
      /\ mutex = NoOne
      /\ timer' = "none"
      /\ strays' = strays \/ strays' = strays + 1
      /\ \/ over /\ at' = at /\ mutex' = mutex
         \/ ~ over /\ at' = [at EXCEPT ![Alarm] = "check"] /\ mutex' = Alarm
      /\ UNCHANGED <<known, file, shot, pending, requested, recent, off, over, sealed, asked, promised, due, breaks>>
  BY DEF CacheInv, CacheTypeOK, AlarmRings, Go, LeaveCache, Return, Schedule, StopTimer, peers, flags, timers, calls, modes, past
<1>2. \A o \in Holders : o # Alarm => at'[o] = at[o]
  BY <1>1 DEF CacheInv, CacheTypeOK
<1>a. at'[Alarm] = at[Alarm] \/ (~ over /\ at'[Alarm] = "check" /\ mutex' = Alarm)
  BY <1>1 DEF CacheInv, CacheTypeOK
<1>b. \A o \in Holders : at[o] \notin Locked
  BY <1>1 DEF CacheInv, MutexHeld, Locked
<1>c. \A o \in Holders : at[o] \notin Writing /\ at[o] \notin Looking /\ at[o] # "seal" /\ at[o] # "plan"
  BY <1>b DEF Locked, Writing, Looking
<1>3. CacheTypeOK'
  <2>1. strays \in Nat /\ late \in Nat /\ breaks \in 0..MaxBreaks /\ MaxBreaks \in Nat
    BY DEF CacheInv, CacheTypeOK
  <2>2. /\ strays' = strays \/ strays' = strays + 1 \/ (strays > 0 /\ strays' = strays - 1)
        /\ late' = late \/ late' = late + 1 \/ (late > 0 /\ late' = late - 1)
        /\ breaks' = breaks \/ (breaks < MaxBreaks /\ breaks' = breaks + 1)
    BY <1>1
  <2>3. strays' \in Nat /\ late' \in Nat /\ breaks' \in 0..MaxBreaks
    BY <2>1, <2>2
  <2>4. at' \in [Holders -> {"idle", "quiet", "store", "flag", "try", "plan", "ask", "clear", "enter", "look", "look again", "seal", "check", "snap", "put", "good", "bad", "done"}]
    BY <1>1 DEF CacheInv, CacheTypeOK
  <2>5. QED
    BY <1>1, <2>3, <2>4 DEF CacheInv, CacheTypeOK
<1>4. Roles'
  BY <1>1, <1>2, <1>a, <1>c DEF CacheInv, Roles, Writing, Looking
<1>5. MutexHeld'
  BY <1>1, <1>2, <1>a, <1>c DEF CacheInv, MutexHeld, Locked
<1>6. Stored'
  BY <1>1, <1>2, <1>a, <1>c DEF CacheInv, CacheTypeOK, Stored
<1>7. TimerTells'
  BY <1>1, <1>2, <1>a, <1>c DEF CacheInv, TimerTells, TimerStopped, Writing, Looking
<1>8. TimerStopped'
  BY <1>1, <1>2, <1>a, <1>c DEF CacheInv, TimerStopped, Writing, Looking
<1>9. SealedIsOver'
  BY <1>1, <1>2, <1>a, <1>c DEF CacheInv, SealedIsOver, CloserAlone, Writing
<1>10. OthersQuiet'
  BY <1>1, <1>2, <1>a, <1>c DEF CacheInv, OthersQuiet, Writing
<1>11. CloserAlone'
  BY <1>1, <1>2, <1>a, <1>c DEF CacheInv, SealedIsOver, CloserAlone, Writing, Looking
<1>12. Announced'
  BY <1>1, <1>2, <1>a, <1>c DEF CacheInv, Announced, SnapshotGood, TimerTells, OthersQuiet, CloserAlone, Writing
<1>13. SnapshotGood'
  BY <1>1, <1>2, <1>a, <1>c DEF CacheInv, Stored, SnapshotGood, Writing
<1>14. DueKept'
  BY <1>1, <1>2, <1>a, <1>c DEF CacheInv, Stored, Announced, SealedIsOver, CloserAlone, DueKept, Writing, Looking
<1>15. CloseKeepsAll'
  BY <1>1, <1>2, <1>a, <1>c DEF CacheInv, SealedIsOver, OthersQuiet, CloserAlone, DueKept, CloseKeepsAll, Writing
<1>16. QED
  BY <1>3, <1>4, <1>5, <1>6, <1>7, <1>8, <1>9, <1>10, <1>11, <1>12, <1>13, <1>14, <1>15 DEF CacheInv

LEMMA TimePassesKeeps ==
  ASSUME CacheInv, TimePasses
  PROVE  CacheInv'
<1> USE CacheFileAssumption, HoldersApart
<1>1. /\ recent' = FALSE
      /\ UNCHANGED <<known, file, shot, pending, requested, timer, strays, late, mutex, at, off, over, sealed, asked, promised, due, breaks>>
  BY DEF CacheInv, CacheTypeOK, TimePasses, Go, LeaveCache, Return, Schedule, StopTimer, peers, flags, timers, calls, modes, past
<1>2. \A o \in Holders : at'[o] = at[o]
  BY <1>1 DEF CacheInv, CacheTypeOK
<1>3. CacheTypeOK'
  <2>1. strays \in Nat /\ late \in Nat /\ breaks \in 0..MaxBreaks /\ MaxBreaks \in Nat
    BY DEF CacheInv, CacheTypeOK
  <2>2. /\ strays' = strays \/ strays' = strays + 1 \/ (strays > 0 /\ strays' = strays - 1)
        /\ late' = late \/ late' = late + 1 \/ (late > 0 /\ late' = late - 1)
        /\ breaks' = breaks \/ (breaks < MaxBreaks /\ breaks' = breaks + 1)
    BY <1>1
  <2>3. strays' \in Nat /\ late' \in Nat /\ breaks' \in 0..MaxBreaks
    BY <2>1, <2>2
  <2>4. at' \in [Holders -> {"idle", "quiet", "store", "flag", "try", "plan", "ask", "clear", "enter", "look", "look again", "seal", "check", "snap", "put", "good", "bad", "done"}]
    BY <1>1 DEF CacheInv, CacheTypeOK
  <2>5. QED
    BY <1>1, <2>3, <2>4 DEF CacheInv, CacheTypeOK
<1>4. Roles'
  BY <1>1, <1>2 DEF CacheInv, Roles, Writing, Looking
<1>5. MutexHeld'
  BY <1>1, <1>2 DEF CacheInv, MutexHeld, Locked
<1>6. Stored'
  BY <1>1, <1>2 DEF CacheInv, CacheTypeOK, Stored
<1>7. TimerTells'
  BY <1>1, <1>2 DEF CacheInv, TimerTells, TimerStopped, Writing, Looking
<1>8. TimerStopped'
  BY <1>1, <1>2 DEF CacheInv, TimerStopped, Writing, Looking
<1>9. SealedIsOver'
  BY <1>1, <1>2 DEF CacheInv, SealedIsOver, CloserAlone, Writing
<1>10. OthersQuiet'
  BY <1>1, <1>2 DEF CacheInv, OthersQuiet, Writing
<1>11. CloserAlone'
  BY <1>1, <1>2 DEF CacheInv, SealedIsOver, CloserAlone, Writing, Looking
<1>12. Announced'
  BY <1>1, <1>2 DEF CacheInv, Announced, SnapshotGood, TimerTells, OthersQuiet, CloserAlone, Writing
<1>13. SnapshotGood'
  BY <1>1, <1>2 DEF CacheInv, Stored, SnapshotGood, Writing
<1>14. DueKept'
  BY <1>1, <1>2 DEF CacheInv, Stored, Announced, SealedIsOver, CloserAlone, DueKept, Writing, Looking
<1>15. CloseKeepsAll'
  BY <1>1, <1>2 DEF CacheInv, SealedIsOver, OthersQuiet, CloserAlone, DueKept, CloseKeepsAll, Writing
<1>16. QED
  BY <1>3, <1>4, <1>5, <1>6, <1>7, <1>8, <1>9, <1>10, <1>11, <1>12, <1>13, <1>14, <1>15 DEF CacheInv

LEMMA SwitchKeeps ==
  ASSUME CacheInv, Switch
  PROVE  CacheInv'
<1> USE CacheFileAssumption, HoldersApart
<1>1. /\ off' = ~ off
      /\ UNCHANGED <<known, file, shot, pending, requested, timer, strays, late, mutex, at, recent, over, sealed, asked, promised, due, breaks>>
  BY DEF CacheInv, CacheTypeOK, Switch, Go, LeaveCache, Return, Schedule, StopTimer, peers, flags, timers, calls, modes, past
<1>2. \A o \in Holders : at'[o] = at[o]
  BY <1>1 DEF CacheInv, CacheTypeOK
<1>3. CacheTypeOK'
  <2>1. strays \in Nat /\ late \in Nat /\ breaks \in 0..MaxBreaks /\ MaxBreaks \in Nat
    BY DEF CacheInv, CacheTypeOK
  <2>2. /\ strays' = strays \/ strays' = strays + 1 \/ (strays > 0 /\ strays' = strays - 1)
        /\ late' = late \/ late' = late + 1 \/ (late > 0 /\ late' = late - 1)
        /\ breaks' = breaks \/ (breaks < MaxBreaks /\ breaks' = breaks + 1)
    BY <1>1
  <2>3. strays' \in Nat /\ late' \in Nat /\ breaks' \in 0..MaxBreaks
    BY <2>1, <2>2
  <2>4. at' \in [Holders -> {"idle", "quiet", "store", "flag", "try", "plan", "ask", "clear", "enter", "look", "look again", "seal", "check", "snap", "put", "good", "bad", "done"}]
    BY <1>1 DEF CacheInv, CacheTypeOK
  <2>5. QED
    BY <1>1, <2>3, <2>4 DEF CacheInv, CacheTypeOK
<1>4. Roles'
  BY <1>1, <1>2 DEF CacheInv, Roles, Writing, Looking
<1>5. MutexHeld'
  BY <1>1, <1>2 DEF CacheInv, MutexHeld, Locked
<1>6. Stored'
  BY <1>1, <1>2 DEF CacheInv, CacheTypeOK, Stored
<1>7. TimerTells'
  BY <1>1, <1>2 DEF CacheInv, TimerTells, TimerStopped, Writing, Looking
<1>8. TimerStopped'
  BY <1>1, <1>2 DEF CacheInv, TimerStopped, Writing, Looking
<1>9. SealedIsOver'
  BY <1>1, <1>2 DEF CacheInv, SealedIsOver, CloserAlone, Writing
<1>10. OthersQuiet'
  BY <1>1, <1>2 DEF CacheInv, OthersQuiet, Writing
<1>11. CloserAlone'
  BY <1>1, <1>2 DEF CacheInv, SealedIsOver, CloserAlone, Writing, Looking
<1>12. Announced'
  BY <1>1, <1>2 DEF CacheInv, Announced, SnapshotGood, TimerTells, OthersQuiet, CloserAlone, Writing
<1>13. SnapshotGood'
  BY <1>1, <1>2 DEF CacheInv, Stored, SnapshotGood, Writing
<1>14. DueKept'
  BY <1>1, <1>2 DEF CacheInv, Stored, Announced, SealedIsOver, CloserAlone, DueKept, Writing, Looking
<1>15. CloseKeepsAll'
  BY <1>1, <1>2 DEF CacheInv, SealedIsOver, OthersQuiet, CloserAlone, DueKept, CloseKeepsAll, Writing
<1>16. QED
  BY <1>3, <1>4, <1>5, <1>6, <1>7, <1>8, <1>9, <1>10, <1>11, <1>12, <1>13, <1>14, <1>15 DEF CacheInv

LEMMA ForgetKeeps ==
  ASSUME CacheInv, Forget
  PROVE  CacheInv'
<1> USE CacheFileAssumption, HoldersApart
<1>1. /\ known' = {} /\ asked' = {} /\ promised' = {} /\ due' = {}
      /\ UNCHANGED <<file, shot, pending, requested, timer, strays, late, mutex, at, recent, off, over, sealed, breaks>>
  BY DEF CacheInv, CacheTypeOK, Forget, Keep, Go, LeaveCache, Return, Schedule, StopTimer, peers, flags, timers, calls, modes, past
<1>2. \A o \in Holders : at'[o] = at[o]
  BY <1>1 DEF CacheInv, CacheTypeOK
<1>3. CacheTypeOK'
  <2>1. strays \in Nat /\ late \in Nat /\ breaks \in 0..MaxBreaks /\ MaxBreaks \in Nat
    BY DEF CacheInv, CacheTypeOK
  <2>2. /\ strays' = strays \/ strays' = strays + 1 \/ (strays > 0 /\ strays' = strays - 1)
        /\ late' = late \/ late' = late + 1 \/ (late > 0 /\ late' = late - 1)
        /\ breaks' = breaks \/ (breaks < MaxBreaks /\ breaks' = breaks + 1)
    BY <1>1
  <2>3. strays' \in Nat /\ late' \in Nat /\ breaks' \in 0..MaxBreaks
    BY <2>1, <2>2
  <2>4. at' \in [Holders -> {"idle", "quiet", "store", "flag", "try", "plan", "ask", "clear", "enter", "look", "look again", "seal", "check", "snap", "put", "good", "bad", "done"}]
    BY <1>1 DEF CacheInv, CacheTypeOK
  <2>5. QED
    BY <1>1, <2>3, <2>4 DEF CacheInv, CacheTypeOK
<1>4. Roles'
  BY <1>1, <1>2 DEF CacheInv, Roles, Writing, Looking
<1>5. MutexHeld'
  BY <1>1, <1>2 DEF CacheInv, MutexHeld, Locked
<1>6. Stored'
  BY <1>1, <1>2 DEF CacheInv, CacheTypeOK, Stored
<1>7. TimerTells'
  BY <1>1, <1>2 DEF CacheInv, TimerTells, TimerStopped, Writing, Looking
<1>8. TimerStopped'
  BY <1>1, <1>2 DEF CacheInv, TimerStopped, Writing, Looking
<1>9. SealedIsOver'
  BY <1>1, <1>2 DEF CacheInv, SealedIsOver, CloserAlone, Writing
<1>10. OthersQuiet'
  BY <1>1, <1>2 DEF CacheInv, OthersQuiet, Writing
<1>11. CloserAlone'
  BY <1>1, <1>2 DEF CacheInv, SealedIsOver, CloserAlone, Writing, Looking
<1>12. Announced'
  BY <1>1, <1>2 DEF CacheInv, Announced, SnapshotGood, TimerTells, OthersQuiet, CloserAlone, Writing
<1>13. SnapshotGood'
  BY <1>1, <1>2 DEF CacheInv, Stored, SnapshotGood, Writing
<1>14. DueKept'
  BY <1>1, <1>2 DEF CacheInv, Stored, Announced, SealedIsOver, CloserAlone, DueKept, Writing, Looking
<1>15. CloseKeepsAll'
  BY <1>1, <1>2 DEF CacheInv, SealedIsOver, OthersQuiet, CloserAlone, DueKept, CloseKeepsAll, Writing
<1>16. QED
  BY <1>3, <1>4, <1>5, <1>6, <1>7, <1>8, <1>9, <1>10, <1>11, <1>12, <1>13, <1>14, <1>15 DEF CacheInv

LEMMA LockKeeps ==
  ASSUME CacheInv, NEW h \in Savers \union Closers, Lock(h)
  PROVE  CacheInv'
<1> USE CacheFileAssumption, HoldersApart
<1>1. /\ at[h] \in {"idle"}
      /\ at'[h] \in {"enter"}
      /\ at' = [at EXCEPT ![h] = at'[h]]
      /\ mutex = NoOne
      /\ mutex' = h
      /\ \/ h \in Closers /\ ~ over /\ due' = promised
         \/ due' = due
      /\ UNCHANGED <<known, file, shot, pending, requested, timer, strays, late, recent, off, over, sealed, asked, promised, breaks>>
  BY DEF CacheInv, CacheTypeOK, Lock, Go, LeaveCache, Return, Schedule, StopTimer, peers, flags, timers, calls, modes, past
<1>2. \A o \in Holders : o # h => at'[o] = at[o]
  BY <1>1 DEF CacheInv, CacheTypeOK
<1>b. \A o \in Holders : at[o] \notin Locked
  BY <1>1 DEF CacheInv, MutexHeld, Locked
<1>c. \A o \in Holders : at[o] \notin Writing /\ at[o] \notin Looking /\ at[o] # "seal" /\ at[o] # "plan"
  BY <1>b DEF Locked, Writing, Looking
<1>3. CacheTypeOK'
  <2>1. strays \in Nat /\ late \in Nat /\ breaks \in 0..MaxBreaks /\ MaxBreaks \in Nat
    BY DEF CacheInv, CacheTypeOK
  <2>2. /\ strays' = strays \/ strays' = strays + 1 \/ (strays > 0 /\ strays' = strays - 1)
        /\ late' = late \/ late' = late + 1 \/ (late > 0 /\ late' = late - 1)
        /\ breaks' = breaks \/ (breaks < MaxBreaks /\ breaks' = breaks + 1)
    BY <1>1
  <2>3. strays' \in Nat /\ late' \in Nat /\ breaks' \in 0..MaxBreaks
    BY <2>1, <2>2
  <2>4. at' \in [Holders -> {"idle", "quiet", "store", "flag", "try", "plan", "ask", "clear", "enter", "look", "look again", "seal", "check", "snap", "put", "good", "bad", "done"}]
    BY <1>1 DEF CacheInv, CacheTypeOK
  <2>5. QED
    BY <1>1, <2>3, <2>4 DEF CacheInv, CacheTypeOK
<1>4. Roles'
  BY <1>1, <1>2, <1>c DEF CacheInv, Roles, Writing, Looking
<1>5. MutexHeld'
  BY <1>1, <1>2, <1>c DEF CacheInv, MutexHeld, Locked
<1>6. Stored'
  BY <1>1, <1>2, <1>c DEF CacheInv, CacheTypeOK, Stored
<1>7. TimerTells'
  BY <1>1, <1>2, <1>c DEF CacheInv, TimerTells, TimerStopped, Writing, Looking
<1>8. TimerStopped'
  BY <1>1, <1>2, <1>c DEF CacheInv, TimerStopped, Writing, Looking
<1>9. SealedIsOver'
  BY <1>1, <1>2, <1>c DEF CacheInv, SealedIsOver, CloserAlone, Writing
<1>10. OthersQuiet'
  BY <1>1, <1>2, <1>c DEF CacheInv, OthersQuiet, Writing
<1>11. CloserAlone'
  BY <1>1, <1>2, <1>c DEF CacheInv, SealedIsOver, CloserAlone, Writing, Looking
<1>12. Announced'
  BY <1>1, <1>2, <1>c DEF CacheInv, Announced, SnapshotGood, TimerTells, OthersQuiet, CloserAlone, Writing
<1>13. SnapshotGood'
  BY <1>1, <1>2, <1>c DEF CacheInv, Stored, SnapshotGood, Writing
<1>14. DueKept'
  BY <1>1, <1>2, <1>c DEF CacheInv, Stored, Announced, SealedIsOver, CloserAlone, DueKept, Writing, Looking
<1>15. CloseKeepsAll'
  BY <1>1, <1>2, <1>c DEF CacheInv, SealedIsOver, OthersQuiet, CloserAlone, DueKept, CloseKeepsAll, Writing
<1>16. QED
  BY <1>3, <1>4, <1>5, <1>6, <1>7, <1>8, <1>9, <1>10, <1>11, <1>12, <1>13, <1>14, <1>15 DEF CacheInv

LEMMA SaveKeeps ==
  ASSUME CacheInv, NEW h \in Savers, Save(h)
  PROVE  CacheInv'
<1> USE CacheFileAssumption, HoldersApart
<1>1. /\ at[h] \in {"enter"}
      /\ at'[h] \in {"check", "done"}
      /\ at' = [at EXCEPT ![h] = at'[h]]
      /\ \/ over /\ at'[h] = "done" /\ mutex' = NoOne /\ UNCHANGED <<pending, timer, asked, promised, due>>
         \/ /\ ~ over /\ at'[h] = "done" /\ mutex' = NoOne /\ pending' = FALSE /\ timer' = timer
            /\ asked' = {} /\ promised' = {} /\ due' = {}
         \/ /\ ~ over /\ at'[h] = "done" /\ mutex' = NoOne
            /\ \/ timer # "none" /\ UNCHANGED <<timer, pending>>
               \/ timer' = "armed" /\ pending' = TRUE
            /\ UNCHANGED <<asked, promised, due>>
         \/ /\ ~ over /\ at'[h] = "check" /\ timer' = "none"
            /\ UNCHANGED <<pending, mutex, asked, promised, due>>
      /\ UNCHANGED <<known, file, shot, requested, strays, late, recent, off, over, sealed, breaks>>
  BY DEF CacheInv, CacheTypeOK, Save, Withdraw, Go, LeaveCache, Return, Schedule, StopTimer, peers, flags, timers, calls, modes, past
<1>2. \A o \in Holders : o # h => at'[o] = at[o]
  BY <1>1 DEF CacheInv, CacheTypeOK
<1>b. \A o \in Holders : o # h => at[o] \notin Locked
  BY <1>1 DEF CacheInv, MutexHeld, Locked
<1>c. \A o \in Holders : o # h => at[o] \notin Writing /\ at[o] \notin Looking /\ at[o] # "seal" /\ at[o] # "plan"
  BY <1>b DEF Locked, Writing, Looking
<1>3. CacheTypeOK'
  <2>1. strays \in Nat /\ late \in Nat /\ breaks \in 0..MaxBreaks /\ MaxBreaks \in Nat
    BY DEF CacheInv, CacheTypeOK
  <2>2. /\ strays' = strays \/ strays' = strays + 1 \/ (strays > 0 /\ strays' = strays - 1)
        /\ late' = late \/ late' = late + 1 \/ (late > 0 /\ late' = late - 1)
        /\ breaks' = breaks \/ (breaks < MaxBreaks /\ breaks' = breaks + 1)
    BY <1>1
  <2>3. strays' \in Nat /\ late' \in Nat /\ breaks' \in 0..MaxBreaks
    BY <2>1, <2>2
  <2>4. at' \in [Holders -> {"idle", "quiet", "store", "flag", "try", "plan", "ask", "clear", "enter", "look", "look again", "seal", "check", "snap", "put", "good", "bad", "done"}]
    BY <1>1 DEF CacheInv, CacheTypeOK
  <2>5. QED
    BY <1>1, <2>3, <2>4 DEF CacheInv, CacheTypeOK
<1>4. Roles'
  BY <1>1, <1>2, <1>c DEF CacheInv, Roles, Writing, Looking
<1>5. MutexHeld'
  BY <1>1, <1>2, <1>c DEF CacheInv, MutexHeld, Locked
<1>6. Stored'
  BY <1>1, <1>2, <1>c DEF CacheInv, CacheTypeOK, Stored
<1>7. TimerTells'
  <2>1. CASE UNCHANGED <<timer, pending, asked, promised>>
    BY <2>1 DEF CacheInv, TimerTells
  <2>2. CASE timer' = "none" \/ pending' = TRUE
    BY <2>2 DEF TimerTells
  <2>3. CASE asked' = {} /\ promised' = {}
    BY <2>3 DEF TimerTells
  <2>4. QED
    BY <1>1, <2>1, <2>2, <2>3
<1>8. TimerStopped'
  BY <1>1, <1>2, <1>c DEF CacheInv, TimerStopped, Writing, Looking
<1>9. SealedIsOver'
  BY <1>1, <1>2, <1>c DEF CacheInv, SealedIsOver, CloserAlone, Writing
<1>10. OthersQuiet'
  BY <1>1, <1>2, <1>c DEF CacheInv, OthersQuiet, Writing
<1>11. CloserAlone'
  BY <1>1, <1>2, <1>c DEF CacheInv, SealedIsOver, CloserAlone, Writing, Looking
<1>12. Announced'
  BY <1>1, <1>2, <1>c DEF CacheInv, Announced, SnapshotGood, TimerTells, OthersQuiet, CloserAlone, Writing
<1>13. SnapshotGood'
  BY <1>1, <1>2, <1>c DEF CacheInv, Stored, SnapshotGood, Writing
<1>14. DueKept'
  BY <1>1, <1>2, <1>c DEF CacheInv, Stored, Announced, SealedIsOver, CloserAlone, DueKept, Writing, Looking
<1>15. CloseKeepsAll'
  BY <1>1, <1>2, <1>c DEF CacheInv, SealedIsOver, OthersQuiet, CloserAlone, DueKept, CloseKeepsAll, Writing
<1>16. QED
  BY <1>3, <1>4, <1>5, <1>6, <1>7, <1>8, <1>9, <1>10, <1>11, <1>12, <1>13, <1>14, <1>15 DEF CacheInv

LEMMA BeginCloseKeeps ==
  ASSUME CacheInv, NEW h \in Closers, BeginClose(h)
  PROVE  CacheInv'
<1> USE CacheFileAssumption, HoldersApart
<1>1. /\ at[h] \in {"enter"}
      /\ at'[h] \in {"done", "look"}
      /\ at' = [at EXCEPT ![h] = at'[h]]
      /\ \/ over /\ at'[h] = "done" /\ mutex' = NoOne /\ UNCHANGED <<timer, over>>
         \/ ~ over /\ over' = TRUE /\ at'[h] = "look" /\ timer' = "none" /\ mutex' = mutex
      /\ UNCHANGED <<known, file, shot, pending, requested, strays, late, recent, off, sealed, asked, promised, due, breaks>>
  BY DEF CacheInv, CacheTypeOK, BeginClose, Go, LeaveCache, Return, Schedule, StopTimer, peers, flags, timers, calls, modes, past
<1>2. \A o \in Holders : o # h => at'[o] = at[o]
  BY <1>1 DEF CacheInv, CacheTypeOK
<1>b. \A o \in Holders : o # h => at[o] \notin Locked
  BY <1>1 DEF CacheInv, MutexHeld, Locked
<1>c. \A o \in Holders : o # h => at[o] \notin Writing /\ at[o] \notin Looking /\ at[o] # "seal" /\ at[o] # "plan"
  BY <1>b DEF Locked, Writing, Looking
<1>3. CacheTypeOK'
  <2>1. strays \in Nat /\ late \in Nat /\ breaks \in 0..MaxBreaks /\ MaxBreaks \in Nat
    BY DEF CacheInv, CacheTypeOK
  <2>2. /\ strays' = strays \/ strays' = strays + 1 \/ (strays > 0 /\ strays' = strays - 1)
        /\ late' = late \/ late' = late + 1 \/ (late > 0 /\ late' = late - 1)
        /\ breaks' = breaks \/ (breaks < MaxBreaks /\ breaks' = breaks + 1)
    BY <1>1
  <2>3. strays' \in Nat /\ late' \in Nat /\ breaks' \in 0..MaxBreaks
    BY <2>1, <2>2
  <2>4. at' \in [Holders -> {"idle", "quiet", "store", "flag", "try", "plan", "ask", "clear", "enter", "look", "look again", "seal", "check", "snap", "put", "good", "bad", "done"}]
    BY <1>1 DEF CacheInv, CacheTypeOK
  <2>5. QED
    BY <1>1, <2>3, <2>4 DEF CacheInv, CacheTypeOK
<1>4. Roles'
  BY <1>1, <1>2, <1>c DEF CacheInv, Roles, Writing, Looking
<1>5. MutexHeld'
  BY <1>1, <1>2, <1>c DEF CacheInv, MutexHeld, Locked
<1>6. Stored'
  BY <1>1, <1>2, <1>c DEF CacheInv, CacheTypeOK, Stored
<1>7. TimerTells'
  BY <1>1, <1>2, <1>c DEF CacheInv, TimerTells, TimerStopped, Writing, Looking
<1>8. TimerStopped'
  BY <1>1, <1>2, <1>c DEF CacheInv, TimerStopped, Writing, Looking
<1>9. SealedIsOver'
  BY <1>1, <1>2, <1>c DEF CacheInv, SealedIsOver, CloserAlone, Writing
<1>10. OthersQuiet'
  BY <1>1, <1>2, <1>c DEF CacheInv, OthersQuiet, Writing
<1>11. CloserAlone'
  BY <1>1, <1>2, <1>c DEF CacheInv, SealedIsOver, CloserAlone, Writing, Looking
<1>12. Announced'
  BY <1>1, <1>2, <1>c DEF CacheInv, Announced, SnapshotGood, TimerTells, OthersQuiet, CloserAlone, Writing
<1>13. SnapshotGood'
  BY <1>1, <1>2, <1>c DEF CacheInv, Stored, SnapshotGood, Writing
<1>14. DueKept'
  BY <1>1, <1>2, <1>c DEF CacheInv, Stored, Announced, SealedIsOver, CloserAlone, DueKept, Writing, Looking
<1>15. CloseKeepsAll'
  BY <1>1, <1>2, <1>c DEF CacheInv, SealedIsOver, OthersQuiet, CloserAlone, DueKept, CloseKeepsAll, Writing
<1>16. QED
  BY <1>3, <1>4, <1>5, <1>6, <1>7, <1>8, <1>9, <1>10, <1>11, <1>12, <1>13, <1>14, <1>15 DEF CacheInv

LEMMA LookPendingKeeps ==
  ASSUME CacheInv, NEW h \in Closers, LookPending(h)
  PROVE  CacheInv'
<1> USE CacheFileAssumption, HoldersApart
<1>1. /\ at[h] \in {"look"}
      /\ at'[h] \in {"check", "look again"}
      /\ at' = [at EXCEPT ![h] = at'[h]]
      /\ ~ pending \/ at'[h] = "check"
      /\ UNCHANGED <<known, file, shot, pending, requested, timer, strays, late, mutex, recent, off, over, sealed, asked, promised, due, breaks>>
  BY DEF CacheInv, CacheTypeOK, LookPending, Go, LeaveCache, Return, Schedule, StopTimer, peers, flags, timers, calls, modes, past
<1>2. \A o \in Holders : o # h => at'[o] = at[o]
  BY <1>1 DEF CacheInv, CacheTypeOK
<1>b. \A o \in Holders : o # h => at[o] \notin Locked
  BY <1>1 DEF CacheInv, MutexHeld, Locked
<1>c. \A o \in Holders : o # h => at[o] \notin Writing /\ at[o] \notin Looking /\ at[o] # "seal" /\ at[o] # "plan"
  BY <1>b DEF Locked, Writing, Looking
<1>3. CacheTypeOK'
  <2>1. strays \in Nat /\ late \in Nat /\ breaks \in 0..MaxBreaks /\ MaxBreaks \in Nat
    BY DEF CacheInv, CacheTypeOK
  <2>2. /\ strays' = strays \/ strays' = strays + 1 \/ (strays > 0 /\ strays' = strays - 1)
        /\ late' = late \/ late' = late + 1 \/ (late > 0 /\ late' = late - 1)
        /\ breaks' = breaks \/ (breaks < MaxBreaks /\ breaks' = breaks + 1)
    BY <1>1
  <2>3. strays' \in Nat /\ late' \in Nat /\ breaks' \in 0..MaxBreaks
    BY <2>1, <2>2
  <2>4. at' \in [Holders -> {"idle", "quiet", "store", "flag", "try", "plan", "ask", "clear", "enter", "look", "look again", "seal", "check", "snap", "put", "good", "bad", "done"}]
    BY <1>1 DEF CacheInv, CacheTypeOK
  <2>5. QED
    BY <1>1, <2>3, <2>4 DEF CacheInv, CacheTypeOK
<1>4. Roles'
  BY <1>1, <1>2, <1>c DEF CacheInv, Roles, Writing, Looking
<1>5. MutexHeld'
  BY <1>1, <1>2, <1>c DEF CacheInv, MutexHeld, Locked
<1>6. Stored'
  BY <1>1, <1>2, <1>c DEF CacheInv, CacheTypeOK, Stored
<1>7. TimerTells'
  BY <1>1, <1>2, <1>c DEF CacheInv, TimerTells, TimerStopped, Writing, Looking
<1>8. TimerStopped'
  BY <1>1, <1>2, <1>c DEF CacheInv, TimerStopped, Writing, Looking
<1>9. SealedIsOver'
  BY <1>1, <1>2, <1>c DEF CacheInv, SealedIsOver, CloserAlone, Writing
<1>10. OthersQuiet'
  BY <1>1, <1>2, <1>c DEF CacheInv, OthersQuiet, Writing
<1>11. CloserAlone'
  BY <1>1, <1>2, <1>c DEF CacheInv, SealedIsOver, CloserAlone, Writing, Looking
<1>12. Announced'
  BY <1>1, <1>2, <1>c DEF CacheInv, Announced, SnapshotGood, TimerTells, OthersQuiet, CloserAlone, Writing
<1>13. SnapshotGood'
  BY <1>1, <1>2, <1>c DEF CacheInv, Stored, SnapshotGood, Writing
<1>14. DueKept'
  BY <1>1, <1>2, <1>c DEF CacheInv, Stored, Announced, SealedIsOver, CloserAlone, DueKept, Writing, Looking
<1>15. CloseKeepsAll'
  BY <1>1, <1>2, <1>c DEF CacheInv, SealedIsOver, OthersQuiet, CloserAlone, DueKept, CloseKeepsAll, Writing
<1>16. QED
  BY <1>3, <1>4, <1>5, <1>6, <1>7, <1>8, <1>9, <1>10, <1>11, <1>12, <1>13, <1>14, <1>15 DEF CacheInv

LEMMA LookRequestedKeeps ==
  ASSUME CacheInv, NEW h \in Closers, LookRequested(h)
  PROVE  CacheInv'
<1> USE CacheFileAssumption, HoldersApart
<1>1. /\ at[h] \in {"look again"}
      /\ at'[h] \in {"check", "seal"}
      /\ at' = [at EXCEPT ![h] = at'[h]]
      /\ ~ requested \/ at'[h] = "check"
      /\ UNCHANGED <<known, file, shot, pending, requested, timer, strays, late, mutex, recent, off, over, sealed, asked, promised, due, breaks>>
  BY DEF CacheInv, CacheTypeOK, LookRequested, Go, LeaveCache, Return, Schedule, StopTimer, peers, flags, timers, calls, modes, past
<1>2. \A o \in Holders : o # h => at'[o] = at[o]
  BY <1>1 DEF CacheInv, CacheTypeOK
<1>b. \A o \in Holders : o # h => at[o] \notin Locked
  BY <1>1 DEF CacheInv, MutexHeld, Locked
<1>c. \A o \in Holders : o # h => at[o] \notin Writing /\ at[o] \notin Looking /\ at[o] # "seal" /\ at[o] # "plan"
  BY <1>b DEF Locked, Writing, Looking
<1>3. CacheTypeOK'
  <2>1. strays \in Nat /\ late \in Nat /\ breaks \in 0..MaxBreaks /\ MaxBreaks \in Nat
    BY DEF CacheInv, CacheTypeOK
  <2>2. /\ strays' = strays \/ strays' = strays + 1 \/ (strays > 0 /\ strays' = strays - 1)
        /\ late' = late \/ late' = late + 1 \/ (late > 0 /\ late' = late - 1)
        /\ breaks' = breaks \/ (breaks < MaxBreaks /\ breaks' = breaks + 1)
    BY <1>1
  <2>3. strays' \in Nat /\ late' \in Nat /\ breaks' \in 0..MaxBreaks
    BY <2>1, <2>2
  <2>4. at' \in [Holders -> {"idle", "quiet", "store", "flag", "try", "plan", "ask", "clear", "enter", "look", "look again", "seal", "check", "snap", "put", "good", "bad", "done"}]
    BY <1>1 DEF CacheInv, CacheTypeOK
  <2>5. QED
    BY <1>1, <2>3, <2>4 DEF CacheInv, CacheTypeOK
<1>4. Roles'
  BY <1>1, <1>2, <1>c DEF CacheInv, Roles, Writing, Looking
<1>5. MutexHeld'
  BY <1>1, <1>2, <1>c DEF CacheInv, MutexHeld, Locked
<1>6. Stored'
  BY <1>1, <1>2, <1>c DEF CacheInv, CacheTypeOK, Stored
<1>7. TimerTells'
  BY <1>1, <1>2, <1>c DEF CacheInv, TimerTells, TimerStopped, Writing, Looking
<1>8. TimerStopped'
  BY <1>1, <1>2, <1>c DEF CacheInv, TimerStopped, Writing, Looking
<1>9. SealedIsOver'
  BY <1>1, <1>2, <1>c DEF CacheInv, SealedIsOver, CloserAlone, Writing
<1>10. OthersQuiet'
  BY <1>1, <1>2, <1>c DEF CacheInv, OthersQuiet, Writing
<1>11. CloserAlone'
  BY <1>1, <1>2, <1>c DEF CacheInv, SealedIsOver, CloserAlone, Writing, Looking
<1>12. Announced'
  BY <1>1, <1>2, <1>c DEF CacheInv, Announced, SnapshotGood, TimerTells, OthersQuiet, CloserAlone, Writing
<1>13. SnapshotGood'
  BY <1>1, <1>2, <1>c DEF CacheInv, Stored, SnapshotGood, Writing
<1>14. DueKept'
  BY <1>1, <1>2, <1>c DEF CacheInv, Stored, Announced, SealedIsOver, CloserAlone, DueKept, Writing, Looking
<1>15. CloseKeepsAll'
  BY <1>1, <1>2, <1>c DEF CacheInv, SealedIsOver, OthersQuiet, CloserAlone, DueKept, CloseKeepsAll, Writing
<1>16. QED
  BY <1>3, <1>4, <1>5, <1>6, <1>7, <1>8, <1>9, <1>10, <1>11, <1>12, <1>13, <1>14, <1>15 DEF CacheInv

LEMMA SealKeeps ==
  ASSUME CacheInv, NEW h \in Closers, Seal(h)
  PROVE  CacheInv'
<1> USE CacheFileAssumption, HoldersApart
<1>1. /\ at[h] \in {"seal"}
      /\ at'[h] \in {"done"}
      /\ at' = [at EXCEPT ![h] = at'[h]]
      /\ mutex' = NoOne
      /\ \/ sealed = "lost" /\ sealed' = "lost"
         \/ sealed # "lost" /\ sealed' = "kept"
      /\ UNCHANGED <<known, file, shot, pending, requested, timer, strays, late, recent, off, over, asked, promised, due, breaks>>
  BY DEF CacheInv, CacheTypeOK, Seal, Go, LeaveCache, Return, Schedule, StopTimer, peers, flags, timers, calls, modes, past
<1>2. \A o \in Holders : o # h => at'[o] = at[o]
  BY <1>1 DEF CacheInv, CacheTypeOK
<1>b. \A o \in Holders : o # h => at[o] \notin Locked
  BY <1>1 DEF CacheInv, MutexHeld, Locked
<1>c. \A o \in Holders : o # h => at[o] \notin Writing /\ at[o] \notin Looking /\ at[o] # "seal" /\ at[o] # "plan"
  BY <1>b DEF Locked, Writing, Looking
<1>3. CacheTypeOK'
  <2>1. strays \in Nat /\ late \in Nat /\ breaks \in 0..MaxBreaks /\ MaxBreaks \in Nat
    BY DEF CacheInv, CacheTypeOK
  <2>2. /\ strays' = strays \/ strays' = strays + 1 \/ (strays > 0 /\ strays' = strays - 1)
        /\ late' = late \/ late' = late + 1 \/ (late > 0 /\ late' = late - 1)
        /\ breaks' = breaks \/ (breaks < MaxBreaks /\ breaks' = breaks + 1)
    BY <1>1
  <2>3. strays' \in Nat /\ late' \in Nat /\ breaks' \in 0..MaxBreaks
    BY <2>1, <2>2
  <2>4. at' \in [Holders -> {"idle", "quiet", "store", "flag", "try", "plan", "ask", "clear", "enter", "look", "look again", "seal", "check", "snap", "put", "good", "bad", "done"}]
    BY <1>1 DEF CacheInv, CacheTypeOK
  <2>5. QED
    BY <1>1, <2>3, <2>4 DEF CacheInv, CacheTypeOK
<1>4. Roles'
  BY <1>1, <1>2, <1>c DEF CacheInv, Roles, Writing, Looking
<1>5. MutexHeld'
  BY <1>1, <1>2, <1>c DEF CacheInv, MutexHeld, Locked
<1>6. Stored'
  BY <1>1, <1>2, <1>c DEF CacheInv, CacheTypeOK, Stored
<1>7. TimerTells'
  BY <1>1, <1>2, <1>c DEF CacheInv, TimerTells, TimerStopped, Writing, Looking
<1>8. TimerStopped'
  BY <1>1, <1>2, <1>c DEF CacheInv, TimerStopped, Writing, Looking
<1>9. SealedIsOver'
  BY <1>1, <1>2, <1>c DEF CacheInv, SealedIsOver, CloserAlone, Writing
<1>10. OthersQuiet'
  BY <1>1, <1>2, <1>c DEF CacheInv, OthersQuiet, Writing
<1>11. CloserAlone'
  BY <1>1, <1>2, <1>c DEF CacheInv, SealedIsOver, CloserAlone, Writing, Looking
<1>12. Announced'
  BY <1>1, <1>2, <1>c DEF CacheInv, Announced, SnapshotGood, TimerTells, OthersQuiet, CloserAlone, Writing
<1>13. SnapshotGood'
  BY <1>1, <1>2, <1>c DEF CacheInv, Stored, SnapshotGood, Writing
<1>14. DueKept'
  BY <1>1, <1>2, <1>c DEF CacheInv, Stored, Announced, SealedIsOver, CloserAlone, DueKept, Writing, Looking
<1>15. CloseKeepsAll'
  <2> SUFFICES ASSUME sealed' = "kept"
               PROVE  due \subseteq file
    BY <1>1 DEF CloseKeepsAll
  <2>1. sealed \in {"open", "kept"} /\ at[h] = "seal"
    BY <1>1 DEF CacheInv, CacheTypeOK
  <2>2. QED
    BY <2>1 DEF CacheInv, DueKept, CloseKeepsAll
<1>16. QED
  BY <1>3, <1>4, <1>5, <1>6, <1>7, <1>8, <1>9, <1>10, <1>11, <1>12, <1>13, <1>14, <1>15 DEF CacheInv

LEMMA CheckOffKeeps ==
  ASSUME CacheInv, NEW h \in Writers, CheckOff(h)
  PROVE  CacheInv'
<1> USE CacheFileAssumption, HoldersApart
<1>1. /\ at[h] \in {"check"}
      /\ at'[h] \in {"snap", "seal", "idle", "done"}
      /\ at' = [at EXCEPT ![h] = at'[h]]
      /\ \/ ~ off /\ at'[h] = "snap" /\ UNCHANGED <<pending, mutex, asked, promised, due>>
         \/ /\ off /\ pending' = FALSE /\ asked' = {} /\ promised' = {} /\ due' = {}
            /\ \/ h \in Closers /\ at'[h] = "seal" /\ mutex' = mutex
               \/ h \notin Closers /\ at'[h] \in {"idle", "done"} /\ mutex' = NoOne /\ (at'[h] = "idle" <=> h = Alarm)
      /\ UNCHANGED <<known, file, shot, requested, timer, strays, late, recent, off, over, sealed, breaks>>
  BY DEF CacheInv, CacheTypeOK, CheckOff, Withdraw, Go, LeaveCache, Return, Schedule, StopTimer, peers, flags, timers, calls, modes, past
<1>2. \A o \in Holders : o # h => at'[o] = at[o]
  BY <1>1 DEF CacheInv, CacheTypeOK
<1>b. \A o \in Holders : o # h => at[o] \notin Locked
  BY <1>1 DEF CacheInv, MutexHeld, Locked
<1>c. \A o \in Holders : o # h => at[o] \notin Writing /\ at[o] \notin Looking /\ at[o] # "seal" /\ at[o] # "plan"
  BY <1>b DEF Locked, Writing, Looking
<1>3. CacheTypeOK'
  <2>1. strays \in Nat /\ late \in Nat /\ breaks \in 0..MaxBreaks /\ MaxBreaks \in Nat
    BY DEF CacheInv, CacheTypeOK
  <2>2. /\ strays' = strays \/ strays' = strays + 1 \/ (strays > 0 /\ strays' = strays - 1)
        /\ late' = late \/ late' = late + 1 \/ (late > 0 /\ late' = late - 1)
        /\ breaks' = breaks \/ (breaks < MaxBreaks /\ breaks' = breaks + 1)
    BY <1>1
  <2>3. strays' \in Nat /\ late' \in Nat /\ breaks' \in 0..MaxBreaks
    BY <2>1, <2>2
  <2>4. at' \in [Holders -> {"idle", "quiet", "store", "flag", "try", "plan", "ask", "clear", "enter", "look", "look again", "seal", "check", "snap", "put", "good", "bad", "done"}]
    BY <1>1 DEF CacheInv, CacheTypeOK
  <2>5. QED
    BY <1>1, <2>3, <2>4 DEF CacheInv, CacheTypeOK
<1>4. Roles'
  BY <1>1, <1>2, <1>c DEF CacheInv, Roles, Writing, Looking
<1>5. MutexHeld'
  BY <1>1, <1>2, <1>c DEF CacheInv, MutexHeld, Locked
<1>6. Stored'
  BY <1>1, <1>2, <1>c DEF CacheInv, CacheTypeOK, Stored
<1>7. TimerTells'
  BY <1>1, <1>2, <1>c DEF CacheInv, TimerTells, TimerStopped, Writing, Looking
<1>8. TimerStopped'
  BY <1>1, <1>2, <1>c DEF CacheInv, TimerStopped, Writing, Looking
<1>9. SealedIsOver'
  BY <1>1, <1>2, <1>c DEF CacheInv, SealedIsOver, CloserAlone, Writing
<1>10. OthersQuiet'
  BY <1>1, <1>2, <1>c DEF CacheInv, OthersQuiet, Writing
<1>11. CloserAlone'
  BY <1>1, <1>2, <1>c DEF CacheInv, SealedIsOver, CloserAlone, Writing, Looking
<1>12. Announced'
  BY <1>1, <1>2, <1>c DEF CacheInv, Announced, SnapshotGood, TimerTells, OthersQuiet, CloserAlone, Writing
<1>13. SnapshotGood'
  BY <1>1, <1>2, <1>c DEF CacheInv, Stored, SnapshotGood, Writing
<1>14. DueKept'
  BY <1>1, <1>2, <1>c DEF CacheInv, Stored, Announced, SealedIsOver, CloserAlone, DueKept, Writing, Looking
<1>15. CloseKeepsAll'
  BY <1>1, <1>2, <1>c DEF CacheInv, SealedIsOver, OthersQuiet, CloserAlone, DueKept, CloseKeepsAll, Writing
<1>16. QED
  BY <1>3, <1>4, <1>5, <1>6, <1>7, <1>8, <1>9, <1>10, <1>11, <1>12, <1>13, <1>14, <1>15 DEF CacheInv

LEMMA SnapshotKeeps ==
  ASSUME CacheInv, NEW h \in Writers, Snapshot(h)
  PROVE  CacheInv'
<1> USE CacheFileAssumption, HoldersApart
<1>1. /\ at[h] \in {"snap"}
      /\ at'[h] \in {"put"}
      /\ at' = [at EXCEPT ![h] = at'[h]]
      /\ shot' = known
      /\ UNCHANGED <<known, file, pending, requested, timer, strays, late, mutex, recent, off, over, sealed, asked, promised, due, breaks>>
  BY DEF CacheInv, CacheTypeOK, Snapshot, Go, LeaveCache, Return, Schedule, StopTimer, peers, flags, timers, calls, modes, past
<1>2. \A o \in Holders : o # h => at'[o] = at[o]
  BY <1>1 DEF CacheInv, CacheTypeOK
<1>b. \A o \in Holders : o # h => at[o] \notin Locked
  BY <1>1 DEF CacheInv, MutexHeld, Locked
<1>c. \A o \in Holders : o # h => at[o] \notin Writing /\ at[o] \notin Looking /\ at[o] # "seal" /\ at[o] # "plan"
  BY <1>b DEF Locked, Writing, Looking
<1>3. CacheTypeOK'
  <2>1. strays \in Nat /\ late \in Nat /\ breaks \in 0..MaxBreaks /\ MaxBreaks \in Nat
    BY DEF CacheInv, CacheTypeOK
  <2>2. /\ strays' = strays \/ strays' = strays + 1 \/ (strays > 0 /\ strays' = strays - 1)
        /\ late' = late \/ late' = late + 1 \/ (late > 0 /\ late' = late - 1)
        /\ breaks' = breaks \/ (breaks < MaxBreaks /\ breaks' = breaks + 1)
    BY <1>1
  <2>3. strays' \in Nat /\ late' \in Nat /\ breaks' \in 0..MaxBreaks
    BY <2>1, <2>2
  <2>4. at' \in [Holders -> {"idle", "quiet", "store", "flag", "try", "plan", "ask", "clear", "enter", "look", "look again", "seal", "check", "snap", "put", "good", "bad", "done"}]
    BY <1>1 DEF CacheInv, CacheTypeOK
  <2>5. QED
    BY <1>1, <2>3, <2>4 DEF CacheInv, CacheTypeOK
<1>4. Roles'
  BY <1>1, <1>2, <1>c DEF CacheInv, Roles, Writing, Looking
<1>5. MutexHeld'
  BY <1>1, <1>2, <1>c DEF CacheInv, MutexHeld, Locked
<1>6. Stored'
  BY <1>1, <1>2, <1>c DEF CacheInv, CacheTypeOK, Stored
<1>7. TimerTells'
  BY <1>1, <1>2, <1>c DEF CacheInv, TimerTells, TimerStopped, Writing, Looking
<1>8. TimerStopped'
  BY <1>1, <1>2, <1>c DEF CacheInv, TimerStopped, Writing, Looking
<1>9. SealedIsOver'
  BY <1>1, <1>2, <1>c DEF CacheInv, SealedIsOver, CloserAlone, Writing
<1>10. OthersQuiet'
  BY <1>1, <1>2, <1>c DEF CacheInv, OthersQuiet, Writing
<1>11. CloserAlone'
  BY <1>1, <1>2, <1>c DEF CacheInv, SealedIsOver, CloserAlone, Writing, Looking
<1>12. Announced'
  BY <1>1, <1>2, <1>c DEF CacheInv, Announced, SnapshotGood, TimerTells, OthersQuiet, CloserAlone, Writing
<1>13. SnapshotGood'
  BY <1>1, <1>2, <1>c DEF CacheInv, Stored, SnapshotGood, Writing
<1>14. DueKept'
  BY <1>1, <1>2, <1>c DEF CacheInv, Stored, Announced, SealedIsOver, CloserAlone, DueKept, Writing, Looking
<1>15. CloseKeepsAll'
  BY <1>1, <1>2, <1>c DEF CacheInv, SealedIsOver, OthersQuiet, CloserAlone, DueKept, CloseKeepsAll, Writing
<1>16. QED
  BY <1>3, <1>4, <1>5, <1>6, <1>7, <1>8, <1>9, <1>10, <1>11, <1>12, <1>13, <1>14, <1>15 DEF CacheInv

LEMMA PutFileKeeps ==
  ASSUME CacheInv, NEW h \in Writers, PutFile(h)
  PROVE  CacheInv'
<1> USE CacheFileAssumption, HoldersApart
<1>1. /\ at[h] \in {"put"}
      /\ at'[h] \in {"good", "bad"}
      /\ at' = [at EXCEPT ![h] = at'[h]]
      /\ \/ file' = shot /\ recent' = TRUE /\ at'[h] = "good" /\ breaks' = breaks
         \/ at'[h] = "bad" /\ breaks < MaxBreaks /\ breaks' = breaks + 1 /\ UNCHANGED <<file, recent>>
      /\ UNCHANGED <<known, shot, pending, requested, timer, strays, late, mutex, off, over, sealed, asked, promised, due>>
  BY DEF CacheInv, CacheTypeOK, PutFile, Go, LeaveCache, Return, Schedule, StopTimer, peers, flags, timers, calls, modes, past
<1>2. \A o \in Holders : o # h => at'[o] = at[o]
  BY <1>1 DEF CacheInv, CacheTypeOK
<1>b. \A o \in Holders : o # h => at[o] \notin Locked
  BY <1>1 DEF CacheInv, MutexHeld, Locked
<1>c. \A o \in Holders : o # h => at[o] \notin Writing /\ at[o] \notin Looking /\ at[o] # "seal" /\ at[o] # "plan"
  BY <1>b DEF Locked, Writing, Looking
<1>3. CacheTypeOK'
  <2>1. strays \in Nat /\ late \in Nat /\ breaks \in 0..MaxBreaks /\ MaxBreaks \in Nat
    BY DEF CacheInv, CacheTypeOK
  <2>2. /\ strays' = strays \/ strays' = strays + 1 \/ (strays > 0 /\ strays' = strays - 1)
        /\ late' = late \/ late' = late + 1 \/ (late > 0 /\ late' = late - 1)
        /\ breaks' = breaks \/ (breaks < MaxBreaks /\ breaks' = breaks + 1)
    BY <1>1
  <2>3. strays' \in Nat /\ late' \in Nat /\ breaks' \in 0..MaxBreaks
    BY <2>1, <2>2
  <2>4. at' \in [Holders -> {"idle", "quiet", "store", "flag", "try", "plan", "ask", "clear", "enter", "look", "look again", "seal", "check", "snap", "put", "good", "bad", "done"}]
    BY <1>1 DEF CacheInv, CacheTypeOK
  <2>5. QED
    BY <1>1, <2>3, <2>4 DEF CacheInv, CacheTypeOK
<1>4. Roles'
  BY <1>1, <1>2, <1>c DEF CacheInv, Roles, Writing, Looking
<1>5. MutexHeld'
  BY <1>1, <1>2, <1>c DEF CacheInv, MutexHeld, Locked
<1>6. Stored'
  BY <1>1, <1>2, <1>c DEF CacheInv, CacheTypeOK, Stored
<1>7. TimerTells'
  BY <1>1, <1>2, <1>c DEF CacheInv, TimerTells, TimerStopped, Writing, Looking
<1>8. TimerStopped'
  BY <1>1, <1>2, <1>c DEF CacheInv, TimerStopped, Writing, Looking
<1>9. SealedIsOver'
  BY <1>1, <1>2, <1>c DEF CacheInv, SealedIsOver, CloserAlone, Writing
<1>10. OthersQuiet'
  BY <1>1, <1>2, <1>c DEF CacheInv, OthersQuiet, Writing
<1>11. CloserAlone'
  BY <1>1, <1>2, <1>c DEF CacheInv, SealedIsOver, CloserAlone, Writing, Looking
<1>12. Announced'
  BY <1>1, <1>2, <1>c DEF CacheInv, Announced, SnapshotGood, TimerTells, OthersQuiet, CloserAlone, Writing
<1>13. SnapshotGood'
  BY <1>1, <1>2, <1>c DEF CacheInv, Stored, SnapshotGood, Writing
<1>14. DueKept'
  BY <1>1, <1>2, <1>c DEF CacheInv, Stored, Announced, SealedIsOver, CloserAlone, DueKept, Writing, Looking
<1>15. CloseKeepsAll'
  BY <1>1, <1>2, <1>c DEF CacheInv, SealedIsOver, OthersQuiet, CloserAlone, DueKept, CloseKeepsAll, Writing
<1>16. QED
  BY <1>3, <1>4, <1>5, <1>6, <1>7, <1>8, <1>9, <1>10, <1>11, <1>12, <1>13, <1>14, <1>15 DEF CacheInv

LEMMA SucceedKeeps ==
  ASSUME CacheInv, NEW h \in Writers, Succeed(h)
  PROVE  CacheInv'
<1> USE CacheFileAssumption, HoldersApart
<1>1. /\ at[h] \in {"good"}
      /\ at'[h] \in {"seal", "idle", "done"}
      /\ at' = [at EXCEPT ![h] = at'[h]]
      /\ pending' = FALSE
      /\ \/ h \in Closers /\ at'[h] = "seal" /\ mutex' = mutex
         \/ h \notin Closers /\ at'[h] \in {"idle", "done"} /\ mutex' = NoOne /\ (at'[h] = "idle" <=> h = Alarm)
      /\ UNCHANGED <<known, file, shot, requested, timer, strays, late, recent, off, over, sealed, asked, promised, due, breaks>>
  BY DEF CacheInv, CacheTypeOK, Succeed, Go, LeaveCache, Return, Schedule, StopTimer, peers, flags, timers, calls, modes, past
<1>2. \A o \in Holders : o # h => at'[o] = at[o]
  BY <1>1 DEF CacheInv, CacheTypeOK
<1>b. \A o \in Holders : o # h => at[o] \notin Locked
  BY <1>1 DEF CacheInv, MutexHeld, Locked
<1>c. \A o \in Holders : o # h => at[o] \notin Writing /\ at[o] \notin Looking /\ at[o] # "seal" /\ at[o] # "plan"
  BY <1>b DEF Locked, Writing, Looking
<1>3. CacheTypeOK'
  <2>1. strays \in Nat /\ late \in Nat /\ breaks \in 0..MaxBreaks /\ MaxBreaks \in Nat
    BY DEF CacheInv, CacheTypeOK
  <2>2. /\ strays' = strays \/ strays' = strays + 1 \/ (strays > 0 /\ strays' = strays - 1)
        /\ late' = late \/ late' = late + 1 \/ (late > 0 /\ late' = late - 1)
        /\ breaks' = breaks \/ (breaks < MaxBreaks /\ breaks' = breaks + 1)
    BY <1>1
  <2>3. strays' \in Nat /\ late' \in Nat /\ breaks' \in 0..MaxBreaks
    BY <2>1, <2>2
  <2>4. at' \in [Holders -> {"idle", "quiet", "store", "flag", "try", "plan", "ask", "clear", "enter", "look", "look again", "seal", "check", "snap", "put", "good", "bad", "done"}]
    BY <1>1 DEF CacheInv, CacheTypeOK
  <2>5. QED
    BY <1>1, <2>3, <2>4 DEF CacheInv, CacheTypeOK
<1>4. Roles'
  BY <1>1, <1>2, <1>c DEF CacheInv, Roles, Writing, Looking
<1>5. MutexHeld'
  BY <1>1, <1>2, <1>c DEF CacheInv, MutexHeld, Locked
<1>6. Stored'
  BY <1>1, <1>2, <1>c DEF CacheInv, CacheTypeOK, Stored
<1>7. TimerTells'
  BY <1>1, <1>2, <1>c DEF CacheInv, TimerTells, TimerStopped, Writing, Looking
<1>8. TimerStopped'
  BY <1>1, <1>2, <1>c DEF CacheInv, TimerStopped, Writing, Looking
<1>9. SealedIsOver'
  BY <1>1, <1>2, <1>c DEF CacheInv, SealedIsOver, CloserAlone, Writing
<1>10. OthersQuiet'
  BY <1>1, <1>2, <1>c DEF CacheInv, OthersQuiet, Writing
<1>11. CloserAlone'
  BY <1>1, <1>2, <1>c DEF CacheInv, SealedIsOver, CloserAlone, Writing, Looking
<1>12. Announced'
  BY <1>1, <1>2, <1>c DEF CacheInv, Announced, SnapshotGood, TimerTells, OthersQuiet, CloserAlone, Writing
<1>13. SnapshotGood'
  BY <1>1, <1>2, <1>c DEF CacheInv, Stored, SnapshotGood, Writing
<1>14. DueKept'
  BY <1>1, <1>2, <1>c DEF CacheInv, Stored, Announced, SealedIsOver, CloserAlone, DueKept, Writing, Looking
<1>15. CloseKeepsAll'
  BY <1>1, <1>2, <1>c DEF CacheInv, SealedIsOver, OthersQuiet, CloserAlone, DueKept, CloseKeepsAll, Writing
<1>16. QED
  BY <1>3, <1>4, <1>5, <1>6, <1>7, <1>8, <1>9, <1>10, <1>11, <1>12, <1>13, <1>14, <1>15 DEF CacheInv

LEMMA FailWriteKeeps ==
  ASSUME CacheInv, NEW h \in Writers, FailWrite(h)
  PROVE  CacheInv'
<1> USE CacheFileAssumption, HoldersApart
<1>1. /\ at[h] \in {"bad"}
      /\ at'[h] \in {"seal", "idle", "done"}
      /\ at' = [at EXCEPT ![h] = at'[h]]
      /\ pending' = TRUE
      /\ timer' \in {timer, "armed"}
      /\ over => timer' = timer
      /\ \/ h \in Closers /\ sealed' = "lost"
         \/ h \notin Closers /\ sealed' = sealed
      /\ \/ h \in Closers /\ at'[h] = "seal" /\ mutex' = mutex
         \/ h \notin Closers /\ at'[h] \in {"idle", "done"} /\ mutex' = NoOne /\ (at'[h] = "idle" <=> h = Alarm)
      /\ UNCHANGED <<known, file, shot, requested, strays, late, recent, off, over, asked, promised, due, breaks>>
  BY DEF CacheInv, CacheTypeOK, FailWrite, Go, LeaveCache, Return, Schedule, StopTimer, peers, flags, timers, calls, modes, past
<1>2. \A o \in Holders : o # h => at'[o] = at[o]
  BY <1>1 DEF CacheInv, CacheTypeOK
<1>b. \A o \in Holders : o # h => at[o] \notin Locked
  BY <1>1 DEF CacheInv, MutexHeld, Locked
<1>c. \A o \in Holders : o # h => at[o] \notin Writing /\ at[o] \notin Looking /\ at[o] # "seal" /\ at[o] # "plan"
  BY <1>b DEF Locked, Writing, Looking
<1>3. CacheTypeOK'
  <2>1. strays \in Nat /\ late \in Nat /\ breaks \in 0..MaxBreaks /\ MaxBreaks \in Nat
    BY DEF CacheInv, CacheTypeOK
  <2>2. /\ strays' = strays \/ strays' = strays + 1 \/ (strays > 0 /\ strays' = strays - 1)
        /\ late' = late \/ late' = late + 1 \/ (late > 0 /\ late' = late - 1)
        /\ breaks' = breaks \/ (breaks < MaxBreaks /\ breaks' = breaks + 1)
    BY <1>1
  <2>3. strays' \in Nat /\ late' \in Nat /\ breaks' \in 0..MaxBreaks
    BY <2>1, <2>2
  <2>4. at' \in [Holders -> {"idle", "quiet", "store", "flag", "try", "plan", "ask", "clear", "enter", "look", "look again", "seal", "check", "snap", "put", "good", "bad", "done"}]
    BY <1>1 DEF CacheInv, CacheTypeOK
  <2>5. QED
    BY <1>1, <2>3, <2>4 DEF CacheInv, CacheTypeOK
<1>4. Roles'
  BY <1>1, <1>2, <1>c DEF CacheInv, Roles, Writing, Looking
<1>5. MutexHeld'
  BY <1>1, <1>2, <1>c DEF CacheInv, MutexHeld, Locked
<1>6. Stored'
  BY <1>1, <1>2, <1>c DEF CacheInv, CacheTypeOK, Stored
<1>7. TimerTells'
  BY <1>1, <1>2, <1>c DEF CacheInv, TimerTells, TimerStopped, Writing, Looking
<1>8. TimerStopped'
  BY <1>1, <1>2, <1>c DEF CacheInv, TimerStopped, Writing, Looking
<1>9. SealedIsOver'
  BY <1>1, <1>2, <1>c DEF CacheInv, SealedIsOver, CloserAlone, Writing
<1>10. OthersQuiet'
  BY <1>1, <1>2, <1>c DEF CacheInv, OthersQuiet, Writing
<1>11. CloserAlone'
  BY <1>1, <1>2, <1>c DEF CacheInv, SealedIsOver, CloserAlone, Writing, Looking
<1>12. Announced'
  BY <1>1, <1>2, <1>c DEF CacheInv, Announced, SnapshotGood, TimerTells, OthersQuiet, CloserAlone, Writing
<1>13. SnapshotGood'
  BY <1>1, <1>2, <1>c DEF CacheInv, Stored, SnapshotGood, Writing
<1>14. DueKept'
  BY <1>1, <1>2, <1>c DEF CacheInv, Stored, Announced, SealedIsOver, CloserAlone, DueKept, Writing, Looking
<1>15. CloseKeepsAll'
  BY <1>1, <1>2, <1>c DEF CacheInv, SealedIsOver, OthersQuiet, CloserAlone, DueKept, CloseKeepsAll, Writing
<1>16. QED
  BY <1>3, <1>4, <1>5, <1>6, <1>7, <1>8, <1>9, <1>10, <1>11, <1>12, <1>13, <1>14, <1>15 DEF CacheInv

LEMMA CacheInvStep == CacheInv /\ [CacheNext]_cacheVars => CacheInv'
<1> SUFFICES ASSUME CacheInv, [CacheNext]_cacheVars PROVE CacheInv'
  OBVIOUS
<1>1. ASSUME NEW u \in Updaters, Update(u) PROVE CacheInv'
  BY <1>1, ReadFlagsKeeps, StorePeerKeeps, SetPendingKeeps, TryLockKeeps, PlanWriteKeeps, AskHelperKeeps
     DEF Update
<1>2. CASE Help \/ Timers \/ TimePasses \/ Switch \/ Forget
  BY <1>2, HelperLocksKeeps, HelperClearsKeeps, HelperPlansKeeps, FireKeeps, FireStrayKeeps,
     AlarmRingsKeeps, TimePassesKeeps, SwitchKeeps, ForgetKeeps DEF Help, Timers
<1>3. CASE HolderStep
  <2>1. ASSUME NEW h \in Closers, Finish(h) PROVE CacheInv'
    BY <2>1, BeginCloseKeeps, LookPendingKeeps, LookRequestedKeeps, SealKeeps DEF Finish
  <2>2. ASSUME NEW h \in Writers, Write(h) PROVE CacheInv'
    BY <2>2, CheckOffKeeps, SnapshotKeeps, PutFileKeeps, SucceedKeeps, FailWriteKeeps DEF Write
  <2>3. QED
    BY <1>3, <2>1, <2>2, PlanWriteKeeps, SaveKeeps DEF HolderStep
<1>4. CASE UNCHANGED cacheVars
  <2>1. UNCHANGED <<known, file, shot, pending, requested, timer, strays, late, mutex, at, recent, off,
                    over, sealed, asked, promised, due, breaks>>
    BY <1>4 DEF cacheVars, peers, flags, timers, calls, modes, past
  <2>2. CacheTypeOK'
    <3>1. breaks' \in 0..MaxBreaks /\ late' \in Nat /\ strays' \in Nat
      BY <2>1 DEF CacheInv, CacheTypeOK
    <3>2. QED
      BY <2>1, <3>1 DEF CacheInv, CacheTypeOK
  <2>a. Roles' /\ MutexHeld'
    BY <2>1 DEF CacheInv, Roles, MutexHeld
  <2>3. Stored' /\ TimerTells' /\ TimerStopped' /\ SealedIsOver' /\ OthersQuiet' /\ CloserAlone'
    BY <2>1 DEF CacheInv, Stored, TimerTells, TimerStopped, SealedIsOver, OthersQuiet, CloserAlone
  <2>4. Announced' /\ SnapshotGood' /\ DueKept' /\ CloseKeepsAll'
    BY <2>1 DEF CacheInv, Announced, SnapshotGood, DueKept, CloseKeepsAll
  <2>5. QED
    BY <2>2, <2>a, <2>3, <2>4 DEF CacheInv
<1>5. QED
  BY <1>1, <1>2, <1>3, <1>4, LockKeeps DEF CacheNext

(* CacheInv holds in every reachable state.                                *)
THEOREM CacheInvariant == CacheSpec => []CacheInv
  BY CacheStart, CacheInvStep, PTL DEF CacheSpec

(* Only PutFile changes the storage, and never after Close has closed it.  *)
LEMMA WritesEnd == CacheInv /\ [CacheNext]_cacheVars => [sealed # "open" => UNCHANGED file]_cacheVars
<1> SUFFICES ASSUME CacheInv, CacheNext, sealed # "open"
             PROVE  file' = file
  BY DEF cacheVars, peers
<1>1. ASSUME NEW u \in Updaters, Update(u) PROVE file' = file
  BY <1>1 DEF Update, ReadFlags, StorePeer, Keep, SetPending, TryLock, PlanWrite, AskHelper, peers
<1>2. CASE Help \/ Timers \/ TimePasses \/ Switch \/ Forget
  BY <1>2 DEF Help, Timers, HelperLocks, HelperClears, HelperPlans, Fire, FireStray, AlarmRings, TimePasses,
              Switch, Forget, Keep, peers
<1>3. ASSUME NEW h \in Savers \union Closers, Lock(h) \/ Save(h) \/ Finish(h) PROVE file' = file
  BY <1>3 DEF Lock, Save, Finish, BeginClose, LookPending, LookRequested, Seal, peers
<1>4. ASSUME NEW h \in Writers, Write(h) PROVE file' = file
  <2>1. CASE PutFile(h)
    BY <2>1 DEF PutFile, CacheInv, SealedIsOver, OthersQuiet, CloserAlone, Writing
  <2>2. CASE ~ PutFile(h)
    BY <1>4, <2>2 DEF Write, CheckOff, Snapshot, Succeed, FailWrite, peers
  <2>3. QED
    BY <2>1, <2>2
<1>5. CASE HolderStep
  <2>1. \A u \in Updaters : PlanWrite(u) => file' = file
    BY <1>1 DEF Update
  <2>2. QED
    BY <1>3, <1>4, <1>5, <2>1 DEF HolderStep
<1>6. QED
  BY <1>1, <1>2, <1>3, <1>5 DEF CacheNext

(* What Close leaves in the storage is all there is to keep: a Close that  *)
(* reports no error has written every peer that was promised when it took  *)
(* writeMu, and nothing is written after it, by whichever timer, goroutine *)
(* or call (cache.go: requestWrite, writeFileLocked, Close).               *)
THEOREM CloseIsFinalAlways == CacheSpec => CloseIsFinal
<1>1. CacheInv => CloseKeepsAll
  BY DEF CacheInv
<1>2. QED
  BY <1>1, WritesEnd, CacheInvariant, PTL DEF CacheSpec, CloseIsFinal, NoWriteAfterClose

-----------------------------------------------------------------------------
(* All components side by side: a step of one leaves the others as they    *)
(* are.                                                                    *)

LEMMA PartsStep ==
  ASSUME [PartsNext]_partVars
  PROVE  /\ [Next]_vars /\ [GateNext]_gateVars /\ [CacheNext]_cacheVars
         /\ [AlbumsNext]_albumVars /\ [SendersNext]_senderVars
<1>1. CASE PartsNext
  BY <1>1 DEF PartsNext, PoolStep, GateStep, CacheStep, AlbumStep, SenderStep
<1>2. CASE UNCHANGED partVars
  BY <1>2 DEF partVars
<1>3. QED
  BY <1>1, <1>2

(* Side by side each component does what it does alone: what is proved of  *)
(* one, and the fairness it assumes, holds of the composition.             *)
THEOREM PartsCompose ==
  PartsSpec => Spec /\ GateSpec /\ CacheSpec /\ AlbumsSpec /\ SendersSpec
<1>1. PartsInit => Init /\ GateInit /\ CacheInit /\ AlbumsInit /\ SendersInit
  BY DEF PartsInit
<1>2. QED
  BY <1>1, PartsStep, PTL DEF PartsSpec, Spec, GateSpec, CacheSpec, AlbumsSpec, SendersSpec

(* Every variable of the five components keeps its type.                   *)
THEOREM PartsTypes == PartsSpec => []PartsTypeOK
<1>1. PoolInv => TypeOK
  BY PoolTypes
<1>2. GateInv /\ CacheInv /\ AlbumsInv /\ SendersInv
        => GateTypeOK /\ CacheTypeOK /\ AlbumsTypeOK /\ SendersTypeOK
  BY DEF GateInv, CacheInv, AlbumsInv, AlbumsSmall, SendersInv
<1>3. PoolInv /\ GateInv /\ CacheInv /\ AlbumsInv /\ SendersInv => PartsTypeOK
  BY <1>1, <1>2 DEF PartsTypeOK
<1>4. QED
  BY <1>3, PartsCompose, InvHolds, GateInvariant, CacheInvariant, AlbumsInvariant, SendersInvariant, PTL

(* No order of calls, stops and restarts breaks a pool, the gate, the      *)
(* albums or the cache of connections, and no callback starts while a pool *)
(* is closed.                                                              *)
THEOREM PartsAreSafe ==
  PartsSpec => [](PoolSafe /\ GateSafe /\ OneCollector /\ CacheIsBounded) /\ QuietWhileClosed
  BY PartsCompose, PoolIsSafe, GateIsSafe, OneCollectorAlways, CacheIsBoundedAlways, QuietKept, PTL
=============================================================================
