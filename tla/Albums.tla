------------------------------- MODULE Albums -------------------------------
(***************************************************************************)
(* Albums of telegram/updates.go: handleAlbum, which puts the messages of  *)
(* a media group into one albumBox, and collectAlbums, the goroutine that  *)
(* dispatches the boxes whose deadline has passed.  The flag albumRunning  *)
(* says that there is a collector; Terminate (shutdownBackground) closes   *)
(* the channel albumStop, empties the boxes and resets the flag, and a new *)
(* start (resetBackground) makes a new channel, possibly while the old     *)
(* collector still waits for room in the pool of callbacks.                *)
(*                                                                         *)
(* A collector is named by the message that started it.  The pool is that  *)
(* of TaskPool: it takes a callback some time, or refuses it once the      *)
(* channel of the caller is closed or the client is stopped.               *)
(***************************************************************************)
EXTENDS Naturals, FiniteSets, Sequences

CONSTANTS
  Pieces,       \* messages that are part of an album
  Groups,       \* the GroupedID values
  BoxLimit,     \* albums kept at once; 1024 in the code
  PieceLimit,   \* messages kept of one album; 10 in the code
  MaxEnds       \* bound: how many times the client is terminated

ASSUME AlbumsAssumption ==
  BoxLimit \in Nat \ {0} /\ PieceLimit \in Nat \ {0} /\ MaxEnds \in Nat

VARIABLES
  group,      \* [Pieces -> the group of the message]
  piece,      \* [Pieces -> new, seen, boxed, ready, handed, lost]
  boxes,      \* dispatcher.activeAlbums: the groups with a box
  ripe,       \* the boxes whose deadline has passed
  running,    \* dispatcher.albumRunning
  albumChan,  \* dispatcher.albumStop: the channels are numbered
  cut,        \* the channels that are closed
  collector,  \* [Pieces -> none, wait, send: the collector the piece started]
  own,        \* [Pieces -> the channel that collector was given]
  ready,      \* [Pieces -> the albums, sets of pieces, it has to dispatch]
  ended,      \* dispatcher.stopped
  ending,     \* a Terminate is between its two sections
  ends

albumVars == <<group, piece, boxes, ripe, running, albumChan, cut, collector, own,
               ready, ended, ending, ends>>
pool == <<albumChan, cut, ended, ending, ends>>
crew == <<collector, own, ready>>

AlbumsInit ==
  /\ group \in [Pieces -> Groups]
  /\ piece = [m \in Pieces |-> "new"]
  /\ boxes = {} /\ ripe = {}
  /\ running = FALSE
  /\ albumChan = 0 /\ cut = {}
  /\ collector = [m \in Pieces |-> "none"]
  /\ own = [m \in Pieces |-> 0]
  /\ ready = [m \in Pieces |-> <<>>]
  /\ ended = FALSE /\ ending = FALSE /\ ends = 0

\* the contents of the box of group g
Boxed(g) == {m \in Pieces : group[m] = g /\ piece[m] = "boxed"}
AllBoxed == UNION {Boxed(g) : g \in boxes}

\* all pieces of a set go to one state
Move(ms, state) == piece' = [m \in Pieces |-> IF m \in ms THEN state ELSE piece[m]]

-----------------------------------------------------------------------------
(* handleAlbum.                                                            *)

\* the look at dispatcher.stopped, under stopMu
SeePiece(m) ==
  /\ piece[m] = "new"
  /\ piece' = [piece EXCEPT ![m] = IF ended THEN "lost" ELSE "seen"]
  /\ UNCHANGED <<group, boxes, ripe, running, crew, pool>>

\* the box exists: append, up to the number of messages an album may have
JoinBox(m) ==
  /\ piece[m] = "seen" /\ albumChan \notin cut
  /\ group[m] \in boxes
  /\ piece' = [piece EXCEPT ![m] = IF Cardinality(Boxed(group[m])) < PieceLimit
                                   THEN "boxed" ELSE "lost"]
  /\ UNCHANGED <<group, boxes, ripe, running, crew, pool>>

\* a new box; the collector is started if there is none
StartBox(m) ==
  /\ piece[m] = "seen" /\ albumChan \notin cut
  /\ group[m] \notin boxes /\ Cardinality(boxes) < BoxLimit
  /\ boxes' = boxes \union {group[m]}
  /\ piece' = [piece EXCEPT ![m] = "boxed"]
  /\ running' = TRUE
  /\ IF running THEN UNCHANGED <<collector, own>>
     ELSE /\ collector' = [collector EXCEPT ![m] = "wait"]
          /\ own' = [own EXCEPT ![m] = albumChan]
  /\ UNCHANGED <<group, ripe, ready, pool>>

\* the channel is closed, or there are too many albums
RefusePiece(m) ==
  /\ piece[m] = "seen"
  /\ albumChan \in cut \/ (group[m] \notin boxes /\ Cardinality(boxes) >= BoxLimit)
  /\ piece' = [piece EXCEPT ![m] = "lost"]
  /\ UNCHANGED <<group, boxes, ripe, running, crew, pool>>

DeadlinePasses(g) ==
  /\ g \in boxes \ ripe
  /\ ripe' = ripe \union {g}
  /\ UNCHANGED <<group, piece, boxes, running, crew, pool>>

-----------------------------------------------------------------------------
(* collectAlbums.  When both the ticker and the channel are ready, select  *)
(* takes either.                                                           *)

\* the branch of the closed channel
CollectorStops(k) ==
  /\ collector[k] = "wait" /\ own[k] \in cut
  /\ collector' = [collector EXCEPT ![k] = "none"]
  /\ IF own[k] = albumChan
     THEN boxes' = {} /\ ripe' = {} /\ running' = FALSE /\ Move(AllBoxed, "lost")
     ELSE UNCHANGED <<boxes, ripe, running, piece>>
  /\ UNCHANGED <<group, own, ready, pool>>

\* a tick: the ripe boxes are taken out in the order of the map's iteration
Collect(k) ==
  /\ collector[k] = "wait"
  /\ IF own[k] # albumChan
     THEN /\ collector' = [collector EXCEPT ![k] = "none"]
          /\ UNCHANGED <<boxes, ripe, ready, piece>>
     ELSE /\ collector' = [collector EXCEPT ![k] = "send"]
          /\ \E order \in [1..Cardinality(ripe) -> ripe] :
               /\ \A i, j \in DOMAIN order : order[i] = order[j] => i = j
               /\ ready' = [ready EXCEPT ![k] = [i \in DOMAIN order |-> Boxed(order[i])]]
          /\ boxes' = boxes \ ripe
          /\ ripe' = {}
          /\ Move(UNION {Boxed(g) : g \in ripe}, "ready")
  /\ UNCHANGED <<group, running, own, pool>>

\* albumBox.dispatch: the pool takes the callbacks of the album
Dispatch(k) ==
  /\ collector[k] = "send" /\ ready[k] # <<>>
  /\ own[k] \notin cut /\ ~ ended
  /\ Move(Head(ready[k]), "handed")
  /\ ready' = [ready EXCEPT ![k] = Tail(@)]
  /\ UNCHANGED <<group, boxes, ripe, running, collector, own, pool>>

\* the channel is closed or the pool refuses
DispatchFails(k) ==
  /\ collector[k] = "send" /\ ready[k] # <<>>
  /\ own[k] \in cut \/ ended
  /\ Move(Head(ready[k]), "lost")
  /\ ready' = [ready EXCEPT ![k] = Tail(@)]
  /\ UNCHANGED <<group, boxes, ripe, running, collector, own, pool>>

\* Seeded fault: a collector that was replaced resets the flag of the new one.
CollectorEndsAnyway(k) ==
  /\ collector[k] = "send" /\ ready[k] = <<>>
  /\ LET done == own[k] # albumChan \/ boxes = {}
     IN /\ collector' = [collector EXCEPT ![k] = IF done THEN "none" ELSE "wait"]
        /\ running' = (running /\ ~ done)
  /\ UNCHANGED <<group, piece, boxes, ripe, own, ready, pool>>

CollectorEnds(k) ==
  /\ collector[k] = "send" /\ ready[k] = <<>>
  /\ LET done == own[k] # albumChan \/ boxes = {}
     IN /\ collector' = [collector EXCEPT ![k] = IF done THEN "none" ELSE "wait"]
        /\ running' = (running /\ ~ (done /\ own[k] = albumChan))
  /\ UNCHANGED <<group, piece, boxes, ripe, own, ready, pool>>

-----------------------------------------------------------------------------
(* Terminate and the next start, which backgroundMu keeps apart.           *)

\* shutdownBackground(true), the section under stopMu
EndPools ==
  /\ ~ ending /\ ends < MaxEnds
  /\ ended' = TRUE /\ ending' = TRUE /\ ends' = ends + 1
  /\ UNCHANGED <<group, piece, boxes, ripe, running, albumChan, cut, crew>>

\* Seeded fault: albumRunning is left as it is.
EndAlbumsHalf ==
  /\ ending
  /\ ending' = FALSE
  /\ cut' = cut \union {albumChan}
  /\ Move(AllBoxed, "lost")
  /\ boxes' = {} /\ ripe' = {}
  /\ UNCHANGED <<group, running, albumChan, ended, ends, crew>>

\* the section under the dispatcher's lock
EndAlbums ==
  /\ ending
  /\ ending' = FALSE
  /\ cut' = cut \union {albumChan}
  /\ Move(AllBoxed, "lost")
  /\ boxes' = {} /\ ripe' = {} /\ running' = FALSE
  /\ UNCHANGED <<group, albumChan, ended, ends, crew>>

\* resetBackground
StartAgain ==
  /\ ~ ending /\ ended
  /\ ended' = FALSE
  /\ albumChan' = IF albumChan \in cut THEN albumChan + 1 ELSE albumChan
  /\ UNCHANGED <<group, piece, boxes, ripe, running, crew, cut, ending, ends>>

-----------------------------------------------------------------------------
Handle(m) == SeePiece(m) \/ JoinBox(m) \/ StartBox(m) \/ RefusePiece(m)
CollectorStep(k) == CollectorStops(k) \/ Collect(k) \/ Dispatch(k) \/ DispatchFails(k) \/ CollectorEnds(k)

AlbumsNext ==
  \/ \E m \in Pieces : Handle(m) \/ CollectorStep(m)
  \/ \E g \in Groups : DeadlinePasses(g)
  \/ EndPools \/ EndAlbums \/ StartAgain

(* Deadlines pass and a collector goes on; a Terminate that has begun ends. *)
AlbumsFairness ==
  /\ WF_albumVars(\E g \in Groups : DeadlinePasses(g))
  /\ WF_albumVars(\E k \in Pieces : CollectorStep(k))
  /\ WF_albumVars(EndAlbums)

AlbumsSpec == AlbumsInit /\ [][AlbumsNext]_albumVars /\ AlbumsFairness

-----------------------------------------------------------------------------
AlbumsTypeOK ==
  /\ group \in [Pieces -> Groups]
  /\ piece \in [Pieces -> {"new", "seen", "boxed", "ready", "handed", "lost"}]
  /\ boxes \subseteq Groups /\ ripe \subseteq boxes
  /\ running \in BOOLEAN /\ ended \in BOOLEAN /\ ending \in BOOLEAN
  /\ albumChan \in 0..MaxEnds /\ cut \subseteq 0..albumChan /\ ends \in 0..MaxEnds
  /\ collector \in [Pieces -> {"none", "wait", "send"}]
  /\ own \in [Pieces -> 0..MaxEnds]
  /\ ready \in [Pieces -> Seq(SUBSET Pieces)]

(* albumRunning tells the truth about the current start: at most one       *)
(* collector serves its channel, however many collectors of earlier starts *)
(* are still at work, so albums are not dispatched by two of them side by  *)
(* side (updates.go: handleAlbum, collectAlbums, shutdownBackground).      *)
OneCollector ==
  \A j, k \in Pieces :
    (collector[j] # "none" /\ collector[k] # "none" /\ own[j] = albumChan /\ own[k] = albumChan) => j = k

(* A message that was put into a box leaves it: its album is handed to the *)
(* pool or given up by a Terminate.  It never waits in a box that no       *)
(* collector looks at, whatever Terminate, the next start and the old      *)
(* collector do in between.                                                *)
Held(m) == piece[m] \in {"boxed", "ready"}
PieceLeaves == []<>(\A m \in Pieces : ~ Held(m))
=============================================================================
