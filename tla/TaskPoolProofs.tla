--------------------------- MODULE TaskPoolProofs ---------------------------
(***************************************************************************)
(* What the task pools guarantee for every set of tasks, limit, capacity   *)
(* and number of stops:                                                    *)
(*                                                                         *)
(*   TypeCorrect      the type invariant                                   *)
(*   LimitKept        never more than limit callbacks execute              *)
(*   QueueCovered     what is queued has a goroutine to take it            *)
(*   ParkedForCause   a caller is parked only with cause                   *)
(*   OrderKept        with limit 1, execution in the order of acceptance   *)
(*   QuietKept        no callback starts between Terminate and a connect   *)
(*                                                                         *)
(* The invariant PoolInv says that the code's two counters count what they *)
(* should (Counted), that the queue lists exactly the queued tasks         *)
(* (Listed), that a closed pool is empty, and how the stop channels are    *)
(* numbered (Numbered).                                                    *)
(***************************************************************************)
EXTENDS TaskPool, FiniteSetTheorems, TLAPS

-----------------------------------------------------------------------------
\* The inductive invariant.

Shapes ==
    /\ queue \in Seq(Tasks) /\ Len(queue) <= capacity
    /\ limit \in Limits /\ capacity \in Capacities
    /\ active \in Nat /\ workers \in Nat /\ leaving \in Nat
    /\ closed \in BOOLEAN /\ stopped \in BOOLEAN
    /\ generation \in 0..MaxStops
    /\ halting \in BOOLEAN /\ albumStop \in BOOLEAN /\ epoch \in Nat
    /\ st \in [Tasks -> States]
    /\ gen \in [Tasks -> 0..MaxStops]
    /\ turn \in Nat /\ acc \in [Tasks -> Nat]

Counted ==
    /\ active = Cardinality(Running)
    /\ workers = active + leaving
    /\ workers <= limit

Listed ==
    /\ closed => queue = <<>>
    /\ \A i \in 1..Len(queue) : st[queue[i]] = "queued"
    /\ \A i \in 1..Len(queue) : \A j \in 1..Len(queue) :
          queue[i] = queue[j] => i = j

Numbered ==
    /\ epoch <= generation
    /\ albumStop \/ halting => epoch < generation
    /\ halting => closed
    /\ chan \in [Tasks -> 0..epoch]

Stamped == \A t \in Tasks : acc[t] <= turn

PoolInv ==
    /\ Shapes
    /\ Counted
    /\ Listed
    /\ Numbered
    /\ Stamped
    /\ Covered
    /\ WaitsForCause
    /\ InOrder

-----------------------------------------------------------------------------
\* Lemmas on the operators of the model.

\* Waking changes nothing but parked into woken.
LEMMA WakeKeeps ==
    ASSUME NEW s \in [Tasks -> States]
    PROVE  /\ Wake(s) \in [Tasks -> States]
           /\ \A t \in Tasks : Wake(s)[t] # "parked"
           /\ \A t \in Tasks : s[t] \notin {"parked", "woken"} =>
                 Wake(s)[t] = s[t]
           /\ \A t \in Tasks : s[t] \in {"parked", "woken"} =>
                 Wake(s)[t] = "woken"
BY DEF Wake, States

\* The executing tasks are finitely many.
LEMMA RunningFinite == IsFiniteSet(Running) /\ Cardinality(Running) \in Nat
BY PoolAssumption, FS_Subset, FS_CardinalityType DEF Running

\* One task more, or one task less, executes.
LEMMA RunningChanges ==
    ASSUME NEW t
    PROVE  /\ t \notin Running =>
                 Cardinality(Running \union {t}) = Cardinality(Running) + 1
           /\ t \in Running =>
                 /\ Cardinality(Running \ {t}) = Cardinality(Running) - 1
                 /\ Cardinality(Running) > 0
<1>1. IsFiniteSet(Running) /\ Cardinality(Running) \in Nat
  BY RunningFinite
<1>2. Cardinality(Running \union {t}) =
         IF t \in Running THEN Cardinality(Running) ELSE Cardinality(Running) + 1
  BY <1>1, FS_AddElement
<1>3. Cardinality(Running \ {t}) =
         IF t \in Running THEN Cardinality(Running) - 1 ELSE Cardinality(Running)
  BY <1>1, FS_RemoveElement
<1>4. t \in Running => Cardinality(Running) # 0
  BY <1>1, FS_EmptySet
<1>5. QED
  BY <1>1, <1>2, <1>3, <1>4

\* A goroutine that is counted can be uncounted.
LEMMA CountsGoroutines ==
    ASSUME NEW a \in Nat, NEW l \in Nat, NEW w, w = a + l + 1
    PROVE  w \in Nat /\ a + 1 \in Nat /\ a \in Nat /\ w - 1 \in Nat
OBVIOUS

\* One taken from a queue that k goroutines cover leaves one that l cover.
LEMMA OneLess ==
    ASSUME NEW k \in Nat, NEW l \in Nat, NEW n \in Nat, k <= l + 1, n <= k
    PROVE  n - 1 <= l
OBVIOUS

-----------------------------------------------------------------------------
\* What groups of actions have in common.

\* A step that touches neither the queue nor the goroutines.
LEMMA Aside ==
    ASSUME PoolInv,
           UNCHANGED <<queue, active, workers, sizeVars, leaving, histVars>>,
           closed' => closed,
           \A t \in Tasks : (st[t] = "running") <=> (st'[t] = "running"),
           \A t \in Tasks : st[t] = "queued" => st'[t] = "queued"
    PROVE  Counted' /\ Listed' /\ Stamped' /\ Covered' /\ InOrder'
<1>1. Running' = Running
  BY DEF Running
<1>2. Counted'
  BY <1>1 DEF PoolInv, Counted, sizeVars
<1>3. Listed'
  BY DEF PoolInv, Listed, Shapes
<1>4. Stamped' /\ Covered'
  BY DEF PoolInv, Stamped, Covered, sizeVars, histVars
<1>5. InOrder'
  BY <1>1 DEF PoolInv, InOrder, sizeVars, histVars
<1>6. QED
  BY <1>2, <1>3, <1>4, <1>5

\* A step after which nobody is parked.
LEMMA AllAwake ==
    ASSUME NEW s \in [Tasks -> States], st' = Wake(s)
    PROVE  WaitsForCause'
BY WakeKeeps DEF WaitsForCause

\* A step that neither parks anybody nor changes what parked callers look at.
LEMMA StillParked ==
    ASSUME PoolInv,
           UNCHANGED <<poolVars, gen, albumStop, epoch>>,
           \A t \in Tasks : st'[t] = "parked" =>
              st[t] = "parked" /\ chan'[t] = chan[t]
    PROVE  WaitsForCause'
BY DEF PoolInv, WaitsForCause, poolVars, sizeVars, CanStart, HasRoom, StopClosed

\* The head of the queue gets a goroutine.  In s the queue's tasks are where
\* they are in st, and only an executing task may have ended.
LEMMA HeadStarts ==
    ASSUME PoolInv, queue # <<>>,
           NEW s \in [Tasks -> States],
           \A t \in Tasks : s[t] = st[t] \/ (st[t] = "running" /\ s[t] = "ended"),
           ~closed, closed' = closed,
           queue' = Tail(queue),
           st' = Wake([s EXCEPT ![Head(queue)] = "running"]),
           UNCHANGED <<limit, histVars>>
    PROVE  /\ st' \in [Tasks -> States]
           /\ queue' \in Seq(Tasks) /\ Len(queue') = Len(queue) - 1
           /\ Head(queue) \in Tasks /\ st[Head(queue)] = "queued"
           /\ Running' = {t \in Tasks : s[t] = "running"} \union {Head(queue)}
           /\ Listed' /\ Stamped' /\ InOrder' /\ WaitsForCause'
<1> DEFINE h == Head(queue)
           n == [s EXCEPT ![h] = "running"]
<1>1. /\ queue \in Seq(Tasks) /\ Len(queue) \in Nat /\ Len(queue) > 0
      /\ h \in Tasks /\ h = queue[1]
      /\ st \in [Tasks -> States]
  BY DEF PoolInv, Shapes
<1>2. /\ queue' \in Seq(Tasks) /\ Len(queue') = Len(queue) - 1
      /\ \A i \in 1..Len(queue') : queue'[i] = queue[i + 1] /\ i + 1 \in 1..Len(queue)
  BY <1>1
<1>3. st[h] = "queued" /\ s[h] = "queued"
  <2>1. 1 \in 1..Len(queue)
    BY <1>1
  <2>2. st[h] = "queued"
    BY <2>1, <1>1 DEF PoolInv, Listed
  <2>3. QED
    BY <2>2, <1>1
<1>4. n \in [Tasks -> States] /\ \A t \in Tasks : t # h => n[t] = s[t]
  BY <1>1 DEF States
<1>4a. n[h] = "running"
  BY <1>1
<1>5. /\ st' \in [Tasks -> States]
      /\ \A t \in Tasks : st'[t] # "parked"
      /\ \A t \in Tasks : (st'[t] = "running") <=> (n[t] = "running")
      /\ \A t \in Tasks : n[t] = "queued" => st'[t] = "queued"
  <2> HIDE DEF n
  <2>1. st' = Wake(n)
    BY DEF n
  <2>2. /\ Wake(n) \in [Tasks -> States]
        /\ \A t \in Tasks : Wake(n)[t] # "parked"
        /\ \A t \in Tasks : n[t] \notin {"parked", "woken"} => Wake(n)[t] = n[t]
        /\ \A t \in Tasks : n[t] \in {"parked", "woken"} => Wake(n)[t] = "woken"
    BY <1>4, WakeKeeps
  <2>3. \A t \in Tasks : (st'[t] = "running") <=> (n[t] = "running")
    BY <2>1, <2>2
  <2>4. \A t \in Tasks : n[t] = "queued" => st'[t] = "queued"
    BY <2>1, <2>2
  <2>5. QED
    BY <2>1, <2>2, <2>3, <2>4
<1>6. Running' = {t \in Tasks : s[t] = "running"} \union {h}
  <2> HIDE DEF n, h
  <2>1. \A t \in Tasks : (st'[t] = "running") <=> (s[t] = "running" \/ t = h)
    <3>1. TAKE t \in Tasks
    <3>2. (st'[t] = "running") <=> (n[t] = "running")
      BY ONLY <1>5, t \in Tasks
    <3>3. CASE t = h
      BY <3>2, <3>3, <1>4a
    <3>4. CASE t # h
      BY <3>2, <3>4, <1>4
    <3>5. QED
      BY <3>3, <3>4
  <2>2. h \in Tasks
    BY <1>1
  <2>3. QED
    BY ONLY <2>1, <2>2 DEF Running
<1>7. Listed'
  <2>1. \A i \in 1..Len(queue') : st'[queue'[i]] = "queued"
    <3>1. TAKE i \in 1..Len(queue')
    <3>2. queue'[i] = queue[i + 1] /\ i + 1 \in 1..Len(queue) /\ i + 1 # 1
      BY <1>2
    <3>3. queue[i + 1] \in Tasks /\ st[queue[i + 1]] = "queued"
      BY <3>2, <1>1 DEF PoolInv, Listed
    <3>4. queue[i + 1] # h
      BY <3>2, <1>1 DEF PoolInv, Listed
    <3>5. n[queue[i + 1]] = "queued"
      BY <3>3, <3>4, <1>4
    <3>6. QED
      BY <3>2, <3>3, <3>5, <1>5
  <2>2. \A i \in 1..Len(queue') : \A j \in 1..Len(queue') :
           queue'[i] = queue'[j] => i = j
    BY <1>1, <1>2 DEF PoolInv, Listed
  <2>3. ~closed'
    OBVIOUS
  <2>4. QED
    BY <2>1, <2>2, <2>3 DEF Listed
<1>8. Stamped'
  BY DEF PoolInv, Stamped, histVars
<1>9. InOrder'
  <2>1. SUFFICES ASSUME limit = 1
        PROVE /\ \A i \in 1..Len(queue') : \A t \in Running' : acc[t] < acc[queue'[i]]
              /\ \A i \in 1..Len(queue') : \A j \in 1..Len(queue') :
                    i < j => acc[queue'[i]] < acc[queue'[j]]
    BY DEF InOrder, histVars
  <2>2. /\ \A i \in 1..Len(queue) : \A t \in Running : acc[t] < acc[queue[i]]
        /\ \A i \in 1..Len(queue) : \A j \in 1..Len(queue) :
              i < j => acc[queue[i]] < acc[queue[j]]
    BY <2>1 DEF PoolInv, InOrder
  <2>3. \A t \in Running' : t \in Running \/ t = h
    BY <1>6 DEF Running
  <2>4. \A i \in 1..Len(queue') : acc[h] < acc[queue'[i]]
    <3>1. TAKE i \in 1..Len(queue')
    <3>2. queue'[i] = queue[i + 1] /\ i + 1 \in 1..Len(queue) /\ 1 < i + 1
      BY <1>2
    <3>3. 1 \in 1..Len(queue)
      BY <1>1
    <3>4. QED
      BY <3>2, <3>3, <2>2, <1>1
  <2>5. \A i \in 1..Len(queue') : \A t \in Running' : acc[t] < acc[queue'[i]]
    BY <2>2, <2>3, <2>4, <1>2
  <2>6. \A i \in 1..Len(queue') : \A j \in 1..Len(queue') :
           i < j => acc[queue'[i]] < acc[queue'[j]]
    BY <2>2, <1>2
  <2>7. QED
    BY <2>5, <2>6
<1>10. WaitsForCause'
  BY <1>5 DEF WaitsForCause
<1>11. QED
  BY <1>1, <1>2, <1>3, <1>5, <1>6, <1>7, <1>8, <1>9, <1>10

-----------------------------------------------------------------------------
\* The actions, one lemma each.

LEMMA CallStep ==
    ASSUME PoolInv, NEW t \in Tasks, Call(t)
    PROVE  PoolInv'
<1>1. Shapes'
  BY DEF PoolInv, Shapes, States, poolVars, sizeVars, lifeVars, histVars, Call
<1>2. Counted' /\ Listed' /\ Stamped' /\ Covered' /\ InOrder'
  <2>1. /\ \A u \in Tasks : (st[u] = "running") <=> (st'[u] = "running")
        /\ \A u \in Tasks : st[u] = "queued" => st'[u] = "queued"
    BY DEF PoolInv, Shapes, States, Call
  <2>2. UNCHANGED <<queue, active, workers, sizeVars, leaving, histVars>>
    BY DEF Call, poolVars
  <2>3. closed' => closed
    BY DEF Call, poolVars
  <2>4. QED
    BY <2>1, <2>2, <2>3, Aside
<1>3. Numbered'
  BY DEF PoolInv, Shapes, Numbered, poolVars, lifeVars, Call
<1>4. WaitsForCause'
  <2>1. \A u \in Tasks : st'[u] = "parked" =>
           st[u] = "parked" /\ chan'[u] = chan[u]
    BY DEF PoolInv, Shapes, Numbered, Call
  <2>2. UNCHANGED <<poolVars, gen, albumStop, epoch>>
    BY DEF Call, lifeVars
  <2>3. QED
    BY <2>1, <2>2, StillParked
<1>5. QED
  BY <1>1, <1>2, <1>3, <1>4 DEF PoolInv

LEMMA RefuseStep ==
    ASSUME PoolInv, NEW t \in Tasks, Refuse(t)
    PROVE  PoolInv'
<1>1. Shapes'
  BY DEF PoolInv, Shapes, States, poolVars, sizeVars, lifeVars, histVars, Refuse
<1>2. Counted' /\ Listed' /\ Stamped' /\ Covered' /\ InOrder'
  <2>1. /\ \A u \in Tasks : (st[u] = "running") <=> (st'[u] = "running")
        /\ \A u \in Tasks : st[u] = "queued" => st'[u] = "queued"
    BY DEF PoolInv, Shapes, States, Refuse, Looks
  <2>2. UNCHANGED <<queue, active, workers, sizeVars, leaving, histVars>>
    BY DEF Refuse, poolVars
  <2>3. closed' => closed
    BY DEF Refuse, poolVars
  <2>4. QED
    BY <2>1, <2>2, <2>3, Aside
<1>3. Numbered'
  BY DEF PoolInv, Shapes, Numbered, poolVars, lifeVars, Refuse
<1>4. WaitsForCause'
  <2>1. \A u \in Tasks : st'[u] = "parked" =>
           st[u] = "parked" /\ chan'[u] = chan[u]
    BY DEF PoolInv, Shapes, Numbered, Refuse
  <2>2. UNCHANGED <<poolVars, gen, albumStop, epoch>>
    BY DEF Refuse, lifeVars
  <2>3. QED
    BY <2>1, <2>2, StillParked
<1>5. QED
  BY <1>1, <1>2, <1>3, <1>4 DEF PoolInv

LEMMA DropStep ==
    ASSUME PoolInv, NEW t \in Tasks, Drop(t)
    PROVE  PoolInv'
<1>1. Shapes'
  BY DEF PoolInv, Shapes, States, poolVars, sizeVars, lifeVars, histVars, Drop
<1>2. Counted' /\ Listed' /\ Stamped' /\ Covered' /\ InOrder'
  <2>1. /\ \A u \in Tasks : (st[u] = "running") <=> (st'[u] = "running")
        /\ \A u \in Tasks : st[u] = "queued" => st'[u] = "queued"
    BY DEF PoolInv, Shapes, States, Drop, Looks
  <2>2. UNCHANGED <<queue, active, workers, sizeVars, leaving, histVars>>
    BY DEF Drop, poolVars
  <2>3. closed' => closed
    BY DEF Drop, poolVars
  <2>4. QED
    BY <2>1, <2>2, <2>3, Aside
<1>3. Numbered'
  BY DEF PoolInv, Shapes, Numbered, poolVars, lifeVars, Drop
<1>4. WaitsForCause'
  <2>1. \A u \in Tasks : st'[u] = "parked" =>
           st[u] = "parked" /\ chan'[u] = chan[u]
    BY DEF PoolInv, Shapes, Numbered, Drop
  <2>2. UNCHANGED <<poolVars, gen, albumStop, epoch>>
    BY DEF Drop, lifeVars
  <2>3. QED
    BY <2>1, <2>2, StillParked
<1>5. QED
  BY <1>1, <1>2, <1>3, <1>4 DEF PoolInv

LEMMA ParkStep ==
    ASSUME PoolInv, NEW t \in Tasks, Park(t)
    PROVE  PoolInv'
<1>1. Shapes'
  BY DEF PoolInv, Shapes, States, poolVars, sizeVars, lifeVars, histVars, Park, BeganIn
<1>2. Counted' /\ Listed' /\ Stamped' /\ Covered' /\ InOrder'
  <2>1. /\ \A u \in Tasks : (st[u] = "running") <=> (st'[u] = "running")
        /\ \A u \in Tasks : st[u] = "queued" => st'[u] = "queued"
    BY DEF PoolInv, Shapes, States, Park, Looks
  <2>2. UNCHANGED <<queue, active, workers, sizeVars, leaving, histVars>>
    BY DEF Park, poolVars
  <2>3. closed' => closed
    BY DEF Park, poolVars
  <2>4. QED
    BY <2>1, <2>2, <2>3, Aside
<1>3. Numbered'
  BY DEF PoolInv, Shapes, Numbered, poolVars, lifeVars, Park
<1>4. WaitsForCause'
  <2>1. /\ ~CanStart /\ ~HasRoom /\ ~closed
        /\ BeganIn(t) = generation /\ ~StopClosed(t)
    BY DEF Park, Refused
  <2>2. \A u \in Tasks : st'[u] = "parked" =>
           \/ st[u] = "parked" /\ gen'[u] = gen[u]
           \/ u = t /\ gen'[u] = generation
    BY <2>1 DEF PoolInv, Shapes, Park
  <2>3. \A u \in Tasks : st[u] = "parked" =>
           gen[u] = generation /\ ~StopClosed(u)
    BY DEF PoolInv, WaitsForCause
  <2>4. (~CanStart)' /\ (~HasRoom)' /\ ~closed' /\ generation' = generation
    BY <2>1 DEF Park, CanStart, HasRoom, poolVars, sizeVars
  <2>5. \A u \in Tasks : StopClosed(u)' <=> StopClosed(u)
    BY DEF Park, lifeVars, StopClosed
  <2>6. \A u \in Tasks : st'[u] = "parked" =>
           gen'[u] = generation /\ ~StopClosed(u)
    BY <2>1, <2>2, <2>3
  <2>7. QED
    BY <2>4, <2>5, <2>6 DEF WaitsForCause
<1>5. QED
  BY <1>1, <1>2, <1>3, <1>4 DEF PoolInv

LEMMA CloseAlbumStopStep ==
    ASSUME PoolInv, CloseAlbumStop
    PROVE  PoolInv'
<1>1. Shapes'
  BY DEF PoolInv, Shapes, States, poolVars, sizeVars, lifeVars, histVars, CloseAlbumStop
<1>2. Counted' /\ Listed' /\ Stamped' /\ Covered' /\ InOrder'
  <2>1. /\ \A u \in Tasks : (st[u] = "running") <=> (st'[u] = "running")
        /\ \A u \in Tasks : st[u] = "queued" => st'[u] = "queued"
    BY DEF PoolInv, Shapes, States, CloseAlbumStop
  <2>2. UNCHANGED <<queue, active, workers, sizeVars, leaving, histVars>>
    BY DEF CloseAlbumStop, poolVars
  <2>3. closed' => closed
    BY DEF CloseAlbumStop, poolVars
  <2>4. QED
    BY <2>1, <2>2, <2>3, Aside
<1>3. Numbered'
  BY DEF PoolInv, Shapes, Numbered, poolVars, lifeVars, CloseAlbumStop
<1>4. WaitsForCause'
  <2>1. closed /\ st' = st
    BY DEF PoolInv, Numbered, CloseAlbumStop
  <2>2. \A u \in Tasks : st'[u] # "parked"
    BY <2>1 DEF PoolInv, WaitsForCause
  <2>3. QED
    BY <2>2 DEF WaitsForCause
<1>5. QED
  BY <1>1, <1>2, <1>3, <1>4 DEF PoolInv

LEMMA QuiesceStep ==
    ASSUME PoolInv, Quiesce
    PROVE  PoolInv'
<1>0. st \in [Tasks -> States] /\ st' = Wake(st)
  BY DEF PoolInv, Shapes, Quiesce
<1>1. Shapes'
  <2>1. st' \in [Tasks -> States]
    BY <1>0, WakeKeeps
  <2>2. QED
    BY <2>1
    DEF PoolInv, Shapes, poolVars, sizeVars, lifeVars, histVars, Quiesce
<1>2. Counted' /\ Listed' /\ Stamped' /\ Covered' /\ InOrder'
  <2>1. /\ \A u \in Tasks : (st[u] = "running") <=> (st'[u] = "running")
        /\ \A u \in Tasks : st[u] = "queued" => st'[u] = "queued"
    BY <1>0, WakeKeeps DEF States
  <2>2. UNCHANGED <<queue, active, workers, sizeVars, leaving, histVars>>
    BY DEF Quiesce, poolVars
  <2>3. closed' => closed
    BY DEF Quiesce, poolVars
  <2>4. QED
    BY <2>1, <2>2, <2>3, Aside
<1>3. Numbered'
  BY DEF PoolInv, Shapes, Numbered, poolVars, lifeVars, Quiesce
<1>4. WaitsForCause'
  BY <1>0, AllAwake
<1>5. QED
  BY <1>1, <1>2, <1>3, <1>4 DEF PoolInv

LEMMA RestartStep ==
    ASSUME PoolInv, Restart
    PROVE  PoolInv'
<1>0. st \in [Tasks -> States] /\ st' = Wake(st)
  BY DEF PoolInv, Shapes, Restart
<1>1. Shapes'
  <2>1. st' \in [Tasks -> States]
    BY <1>0, WakeKeeps
  <2>2. epoch' \in Nat
    BY DEF PoolInv, Shapes, Restart
  <2>3. QED
    BY <2>1, <2>2 DEF PoolInv, Shapes, sizeVars, histVars, Restart
<1>2. Counted' /\ Listed' /\ Stamped' /\ Covered' /\ InOrder'
  <2>1. /\ \A u \in Tasks : (st[u] = "running") <=> (st'[u] = "running")
        /\ \A u \in Tasks : st[u] = "queued" => st'[u] = "queued"
    BY <1>0, WakeKeeps DEF States
  <2>2. UNCHANGED <<queue, active, workers, sizeVars, leaving, histVars>>
    BY DEF Restart, poolVars
  <2>3. closed' => closed
    BY DEF Restart, poolVars
  <2>4. QED
    BY <2>1, <2>2, <2>3, Aside
<1>3. Numbered'
  BY DEF PoolInv, Shapes, Numbered, poolVars, lifeVars, Restart
<1>4. WaitsForCause'
  BY <1>0, AllAwake
<1>5. QED
  BY <1>1, <1>2, <1>3, <1>4 DEF PoolInv

LEMMA HaltPoolStep ==
    ASSUME PoolInv, HaltPool
    PROVE  PoolInv'
<1> DEFINE s == [t \in Tasks |-> IF st[t] = "queued" THEN "discarded" ELSE st[t]]
<1>1. s \in [Tasks -> States] /\ st' = Wake(s)
  BY DEF PoolInv, Shapes, States, HaltPool
<1>2. st' \in [Tasks -> States] /\ Running' = Running
  <2>1. \A t \in Tasks : (s[t] = "running") <=> (st[t] = "running")
    OBVIOUS
  <2> HIDE DEF s
  <2>2. \A t \in Tasks : (st'[t] = "running") <=> (s[t] = "running")
    BY <1>1, WakeKeeps DEF States
  <2>3. QED
    BY <1>1, <2>1, <2>2, WakeKeeps DEF Running
<1>3. Shapes'
  BY <1>2, PoolAssumption DEF PoolInv, Shapes, HaltPool, sizeVars, histVars
<1>4. Counted' /\ Stamped'
  BY <1>2 DEF PoolInv, Counted, Stamped, HaltPool, sizeVars, histVars
<1>5. queue' = <<>> /\ Len(queue') = 0
  BY DEF HaltPool
<1>6. Listed' /\ InOrder'
  BY <1>5 DEF Listed, InOrder
<1>7. Covered'
  BY <1>5 DEF PoolInv, Shapes, Covered, HaltPool
<1>8. Numbered'
  BY PoolAssumption DEF PoolInv, Shapes, Numbered, HaltPool
<1>9. WaitsForCause'
  <2> HIDE DEF s
  <2>1. QED
    BY <1>1, AllAwake
<1>10. QED
  BY <1>3, <1>4, <1>6, <1>7, <1>8, <1>9 DEF PoolInv

\* With limit 1 a goroutine is started only when there is none and nothing
\* is queued, so the new callback overtakes nobody.
LEMMA StartStep ==
    ASSUME PoolInv, NEW t \in Tasks, Start(t)
    PROVE  PoolInv'
<1>1. /\ st' = [st EXCEPT ![t] = "running"] /\ st[t] \in {"called", "woken"}
      /\ workers < limit /\ active + Len(queue) >= workers
      /\ workers' = workers + 1 /\ active' = active + 1
      /\ turn' = turn + 1 /\ acc' = [acc EXCEPT ![t] = turn + 1]
      /\ UNCHANGED <<queue, closed, limit, capacity, leaving, gen, chan>>
  BY DEF Start, CanStart, Looks, Accept, sizeVars
<1>2. Shapes'
  BY <1>1 DEF PoolInv, Shapes, States, Start, lifeVars
<1>3. t \notin Running /\ Running' = Running \union {t}
  BY <1>1 DEF PoolInv, Shapes, Running
<1>4. Counted'
  <2>1. Cardinality(Running') = Cardinality(Running) + 1
    BY <1>3, RunningChanges
  <2>2. QED
    <3>1. workers + 1 <= limit
      BY <1>1, PoolAssumption DEF PoolInv, Shapes
    <3>2. active + 1 = Cardinality(Running')
      BY <2>1 DEF PoolInv, Counted
    <3>3. workers + 1 = (active + 1) + leaving
      BY DEF PoolInv, Shapes, Counted
    <3>4. QED
      BY <1>1, <3>1, <3>2, <3>3 DEF Counted
<1>5. Listed'
  <2>1. \A i \in 1..Len(queue) : queue[i] \in Tasks /\ st[queue[i]] = "queued"
    BY DEF PoolInv, Shapes, Listed
  <2>2. \A i \in 1..Len(queue) : st'[queue[i]] = "queued"
    BY <1>1, <2>1 DEF PoolInv, Shapes
  <2>3. QED
    BY <1>1, <2>2 DEF PoolInv, Listed
<1>6. Numbered'
  BY <1>1 DEF PoolInv, Numbered, Start, lifeVars
<1>7. Stamped'
  BY <1>1 DEF PoolInv, Shapes, Stamped
<1>8. Covered'
  BY <1>1 DEF PoolInv, Shapes, Covered
<1>9. WaitsForCause'
  <2>1. CanStart
    BY DEF Start
  <2>2. \A u \in Tasks : st[u] # "parked"
    BY <2>1 DEF PoolInv, WaitsForCause
  <2>3. \A u \in Tasks : st'[u] # "parked"
    BY <1>1, <2>2 DEF PoolInv, Shapes
  <2>4. QED
    BY <2>3 DEF WaitsForCause
<1>10. InOrder'
  <2>1. limit = 1 => Len(queue') = 0
    <3>1. /\ active \in Nat /\ leaving \in Nat /\ Len(queue) \in Nat
          /\ workers = active + leaving
          /\ Len(queue) <= leaving
      BY <1>1 DEF PoolInv, Shapes, Counted, Covered
    <3>2. limit = 1 => leaving = 0
      BY <1>1, <3>1
    <3>3. QED
      BY <1>1, <3>1, <3>2
  <2>2. QED
    BY <1>1, <2>1 DEF InOrder
<1>11. QED
  BY <1>2, <1>4, <1>5, <1>6, <1>7, <1>8, <1>9, <1>10 DEF PoolInv

LEMMA EnqueueStep ==
    ASSUME PoolInv, NEW t \in Tasks, Enqueue(t)
    PROVE  PoolInv'
<1>1. /\ st' = [st EXCEPT ![t] = "queued"] /\ st[t] \in {"called", "woken"}
      /\ ~closed /\ ~CanStart /\ HasRoom
      /\ queue' = Append(queue, t)
      /\ turn' = turn + 1 /\ acc' = [acc EXCEPT ![t] = turn + 1]
      /\ UNCHANGED <<active, workers, closed, limit, capacity, leaving, gen, chan>>
  BY DEF Enqueue, Looks, Accept, sizeVars, Refused
<1>2. /\ queue' \in Seq(Tasks) /\ Len(queue') = Len(queue) + 1
      /\ \A i \in 1..Len(queue) : queue'[i] = queue[i] /\ queue[i] \in Tasks
      /\ queue'[Len(queue) + 1] = t
  BY <1>1 DEF PoolInv, Shapes
<1>3. Shapes'
  <2>1. /\ st' \in [Tasks -> States]
        /\ turn' \in Nat /\ acc' \in [Tasks -> Nat]
    BY <1>1 DEF PoolInv, Shapes, States
  <2>2. queue' \in Seq(Tasks) /\ Len(queue') <= capacity'
    BY <1>1, <1>2, PoolAssumption DEF PoolInv, Shapes, HasRoom
  <2>3. QED
    BY <1>1, <2>1, <2>2 DEF PoolInv, Shapes, Enqueue, lifeVars
<1>4. Running' = Running /\ t \notin Running
  BY <1>1 DEF PoolInv, Shapes, Running
<1>5. Counted'
  BY <1>1, <1>4 DEF PoolInv, Counted
<1>6. \A i \in 1..Len(queue) : st[queue[i]] = "queued" /\ queue[i] # t
  BY <1>1, <1>2 DEF PoolInv, Listed
<1>7. \A i \in 1..Len(queue') : i \in 1..Len(queue) \/ i = Len(queue) + 1
  BY <1>2 DEF PoolInv, Shapes
<1>8. Listed'
  <2>1. ~closed'
    BY <1>1
  <2>2. \A i \in 1..Len(queue') : st'[queue'[i]] = "queued"
    <3>1. st \in [Tasks -> States]
      BY DEF PoolInv, Shapes
    <3>2. st'[t] = "queued" /\ \A u \in Tasks : u # t => st'[u] = st[u]
      BY <1>1, <3>1
    <3>3. \A i \in 1..Len(queue) : st'[queue'[i]] = "queued"
      BY <1>2, <1>6, <3>2
    <3>4. QED
      BY <1>2, <1>7, <3>2, <3>3
  <2>3. \A i \in 1..Len(queue') : \A j \in 1..Len(queue') :
           queue'[i] = queue'[j] => i = j
    <3>1. \A i \in 1..Len(queue) : \A j \in 1..Len(queue) :
             queue[i] = queue[j] => i = j
      BY DEF PoolInv, Listed
    <3>2. \A i \in 1..Len(queue) : queue'[i] = queue[i] /\ queue'[i] # t
      BY <1>2, <1>6
    <3>3. QED
      BY <1>2, <1>7, <3>1, <3>2
  <2>4. QED
    BY <2>1, <2>2, <2>3 DEF Listed
<1>9. Numbered'
  BY <1>1 DEF PoolInv, Numbered, Enqueue, lifeVars
<1>10. Stamped'
  BY <1>1 DEF PoolInv, Shapes, Stamped
<1>11. Covered'
  BY <1>1, <1>2 DEF PoolInv, Shapes, Counted, Covered, CanStart
<1>12. WaitsForCause'
  <2>1. \A u \in Tasks : st[u] # "parked"
    BY <1>1 DEF PoolInv, WaitsForCause
  <2>2. \A u \in Tasks : st'[u] # "parked"
    BY <1>1, <2>1 DEF PoolInv, Shapes
  <2>3. QED
    BY <2>2 DEF WaitsForCause
<1>13. InOrder'
  <2>1. SUFFICES ASSUME limit = 1
        PROVE /\ \A i \in 1..Len(queue') : \A u \in Running' :
                    acc'[u] < acc'[queue'[i]]
              /\ \A i \in 1..Len(queue') : \A j \in 1..Len(queue') :
                    i < j => acc'[queue'[i]] < acc'[queue'[j]]
    BY <1>1 DEF InOrder
  <2>2. /\ \A i \in 1..Len(queue) : \A u \in Running : acc[u] < acc[queue[i]]
        /\ \A i \in 1..Len(queue) : \A j \in 1..Len(queue) :
              i < j => acc[queue[i]] < acc[queue[j]]
    BY <2>1 DEF PoolInv, InOrder
  <2>3. /\ acc'[t] = turn + 1
        /\ \A u \in Tasks : u # t => acc'[u] = acc[u] /\ acc[u] < turn + 1
    BY <1>1 DEF PoolInv, Shapes, Stamped
  <2>4. \A i \in 1..Len(queue) : acc'[queue'[i]] = acc[queue[i]] /\ acc[queue[i]] < turn + 1
    BY <1>2, <1>6, <2>3
  <2>5. \A u \in Running' : u \in Running /\ acc'[u] = acc[u] /\ acc[u] < turn + 1
    BY <1>4, <2>3 DEF Running
  <2>6. \A i \in 1..Len(queue') : \A u \in Running' : acc'[u] < acc'[queue'[i]]
    BY <1>2, <1>7, <2>2, <2>3, <2>4, <2>5
  <2>7. ASSUME NEW i \in 1..Len(queue'), NEW j \in 1..Len(queue'), i < j
        PROVE  acc'[queue'[i]] < acc'[queue'[j]]
    <3>1. i \in 1..Len(queue)
      BY <2>7, <1>2, <1>7 DEF PoolInv, Shapes
    <3>2. CASE j \in 1..Len(queue)
      BY <2>7, <3>1, <3>2, <2>2, <2>4
    <3>3. CASE j = Len(queue) + 1
      BY <3>1, <3>3, <1>2, <2>3, <2>4
    <3>4. QED
      BY <1>7, <3>2, <3>3
  <2>8. QED
    BY <2>6, <2>7
<1>14. QED
  BY <1>3, <1>5, <1>8, <1>9, <1>10, <1>11, <1>12, <1>13 DEF PoolInv

LEMMA TakeNextStep ==
    ASSUME PoolInv, NEW t \in Tasks, TakeNext(t)
    PROVE  PoolInv'
<1> DEFINE h == Head(queue)
           s == [st EXCEPT ![t] = "ended"]
<1>1. /\ st[t] = "running" /\ ~closed /\ queue # <<>> /\ queue' = Tail(queue)
      /\ st \in [Tasks -> States] /\ t \in Running
      /\ UNCHANGED <<closed, limit, capacity, active, workers, leaving, gen, histVars>>
  BY DEF TakeNext, sizeVars, PoolInv, Shapes, Running
<1>2. /\ s \in [Tasks -> States]
      /\ \A u \in Tasks : s[u] = st[u] \/ (st[u] = "running" /\ s[u] = "ended")
      /\ {u \in Tasks : s[u] = "running"} = Running \ {t}
  BY <1>1 DEF States, Running
<1>3. st' = Wake([s EXCEPT ![h] = "running"])
  BY DEF TakeNext
<1>4. /\ st' \in [Tasks -> States]
      /\ queue' \in Seq(Tasks) /\ Len(queue') = Len(queue) - 1
      /\ h \in Tasks /\ st[h] = "queued"
      /\ Running' = {u \in Tasks : s[u] = "running"} \union {h}
      /\ Listed' /\ Stamped' /\ InOrder' /\ WaitsForCause'
  <2> HIDE DEF s
  <2>1. QED
    BY <1>1, <1>2, <1>3, HeadStarts
<1>5. Shapes'
  <2>1. Len(queue') <= capacity
    BY <1>1, <1>4, PoolAssumption DEF PoolInv, Shapes
  <2>2. QED
    BY <1>1, <1>4, <2>1 DEF PoolInv, Shapes, TakeNext, lifeVars, histVars
<1>6. Counted'
  <2>1. Running' = (Running \ {t}) \union {h} /\ h \notin Running
    BY <1>2, <1>4 DEF Running
  <2>2. IsFiniteSet(Running \ {t}) /\ Cardinality(Running \ {t}) = Cardinality(Running) - 1
    BY <1>1, RunningFinite, RunningChanges, FS_RemoveElement
  <2>3. Cardinality(Running') = Cardinality(Running \ {t}) + 1
    BY <2>1, <2>2, FS_AddElement
  <2>4. Cardinality(Running') = Cardinality(Running)
    BY <2>2, <2>3, RunningFinite
  <2>5. QED
    BY <1>1, <2>4 DEF PoolInv, Counted
<1>7. Covered'
  BY <1>1, <1>4 DEF PoolInv, Shapes, Covered
<1>8. Numbered'
  BY DEF PoolInv, Numbered, TakeNext, lifeVars
<1>9. QED
  BY <1>4, <1>5, <1>6, <1>7, <1>8 DEF PoolInv

LEMMA RetireStep ==
    ASSUME PoolInv, NEW t \in Tasks, Retire(t)
    PROVE  PoolInv'
<1>1. /\ st[t] = "running" /\ st' = [st EXCEPT ![t] = "ended"]
      /\ st \in [Tasks -> States] /\ t \in Running
      /\ active' = active - 1 /\ leaving' = leaving + 1
      /\ UNCHANGED <<queue, workers, closed, generation, limit, capacity, gen,
                     turn, acc>>
  BY DEF Retire, sizeVars, histVars, PoolInv, Shapes, Running
<1>2. Running' = Running \ {t}
  BY <1>1 DEF Running
<1>3. Cardinality(Running') = Cardinality(Running) - 1 /\ Cardinality(Running) > 0
  BY <1>1, <1>2, RunningChanges
<1>4. Shapes'
  <2>1. active' \in Nat
    BY <1>1, <1>3, RunningFinite DEF PoolInv, Counted
  <2>2. st' \in [Tasks -> States]
    BY <1>1 DEF States
  <2>3. QED
    BY <1>1, <2>1, <2>2 DEF PoolInv, Shapes, Retire, lifeVars
<1>5. Counted'
  BY <1>1, <1>3 DEF PoolInv, Shapes, Counted
<1>6. Listed'
  <2>1. \A i \in 1..Len(queue) : queue[i] \in Tasks /\ st[queue[i]] = "queued"
    BY DEF PoolInv, Shapes, Listed
  <2>2. \A i \in 1..Len(queue) : st'[queue[i]] = "queued"
    BY <1>1, <2>1
  <2>3. QED
    BY <1>1, <2>2 DEF PoolInv, Listed
<1>7. Numbered'
  BY DEF PoolInv, Numbered, Retire, lifeVars
<1>8. Stamped' /\ InOrder'
  BY <1>1, <1>2 DEF PoolInv, Stamped, InOrder
<1>9. Covered'
  BY <1>1 DEF PoolInv, Shapes, Covered
<1>10. WaitsForCause'
  <2>1. \A u \in Tasks : st'[u] = "parked" => st[u] = "parked"
    BY <1>1
  <2>2. ~CanStart /\ ~HasRoom => (~CanStart)' /\ (~HasRoom)'
    BY <1>1, PoolAssumption DEF PoolInv, Shapes, CanStart, HasRoom
  <2>3. \A u \in Tasks : StopClosed(u)' <=> StopClosed(u)
    BY DEF Retire, lifeVars, StopClosed
  <2>4. QED
    BY <1>1, <2>1, <2>2, <2>3 DEF PoolInv, WaitsForCause
<1>11. QED
  BY <1>4, <1>5, <1>6, <1>7, <1>8, <1>9, <1>10 DEF PoolInv

\* The deferred function of a goroutine that workers still counts: a others
\* execute a callback, and leaving' others have theirs to run.
LEMMA DepartStep ==
    ASSUME PoolInv, NEW s \in [Tasks -> States], NEW a \in Nat,
           \A t \in Tasks : s[t] = st[t] \/ (st[t] = "running" /\ s[t] = "ended"),
           a = Cardinality({t \in Tasks : s[t] = "running"}),
           leaving' \in Nat, leaving <= leaving' + 1,
           workers = a + leaving' + 1,
           Depart(s, a),
           UNCHANGED <<closed, generation, sizeVars, gen, chan, lifeVars, histVars>>
    PROVE  PoolInv'
<1> DEFINE R == {t \in Tasks : s[t] = "running"}
           h == Head(queue)
<1>1. /\ UNCHANGED <<closed, generation, limit, capacity, gen, chan, stopped,
                     halting, albumStop, epoch, turn, acc>>
      /\ queue \in Seq(Tasks) /\ Len(queue) \in Nat /\ Len(queue) <= capacity
      /\ limit \in Nat /\ capacity \in Nat
      /\ workers \in Nat /\ workers <= limit
  BY PoolAssumption DEF sizeVars, lifeVars, histVars, PoolInv, Shapes, Counted
<1>1a. /\ limit' \in Limits /\ capacity' \in Capacities /\ leaving' \in Nat
       /\ closed' \in BOOLEAN /\ stopped' \in BOOLEAN
       /\ generation' \in 0..MaxStops
       /\ halting' \in BOOLEAN /\ albumStop' \in BOOLEAN /\ epoch' \in Nat
       /\ gen' \in [Tasks -> 0..MaxStops]
       /\ turn' \in Nat /\ acc' \in [Tasks -> Nat]
  BY <1>1 DEF PoolInv, Shapes
<1>1b. /\ workers \in Nat /\ a + 1 \in Nat /\ a \in Nat
       /\ workers - 1 \in Nat
  BY CountsGoroutines
<1>2. IsFiniteSet(R)
  BY PoolAssumption, FS_Subset
<1>3. Numbered' /\ Stamped'
  BY <1>1 DEF PoolInv, Numbered, Stamped
<1>4. CASE ~closed /\ queue # <<>>
  <2>1. /\ queue' = Tail(queue) /\ workers' = workers /\ active' = a + 1
        /\ st' = Wake([s EXCEPT ![h] = "running"])
    BY <1>4 DEF Depart
  <2>2. /\ st' \in [Tasks -> States]
        /\ queue' \in Seq(Tasks) /\ Len(queue') = Len(queue) - 1
        /\ h \in Tasks /\ st[h] = "queued"
        /\ Running' = R \union {h}
        /\ Listed' /\ InOrder' /\ WaitsForCause'
    <3>1. UNCHANGED <<limit, histVars>>
      BY <1>1
    <3>2. QED
      BY <1>1, <1>4, <2>1, <3>1, HeadStarts
  <2>3. Shapes'
    <3>1. Len(queue') <= capacity'
      BY <1>1, <2>2
    <3>2. active' \in Nat /\ workers' \in Nat
      BY ONLY <1>1b, <2>1
    <3>3. QED
      BY ONLY <1>1a, <2>2, <3>1, <3>2 DEF Shapes
  <2>4. Counted'
    <3>1. h \notin R
      BY <2>2
    <3>2. Cardinality(Running') = a + 1
      BY <1>2, <2>2, <3>1, FS_AddElement
    <3>3. workers' = active' + leaving'
      BY <2>1
    <3>4. QED
      BY <1>1, <2>1, <3>2, <3>3 DEF Counted
  <2>5. Covered'
    <3>1. workers < limit => Len(queue) <= leaving
      BY DEF PoolInv, Covered
    <3>2. leaving \in Nat
      BY DEF PoolInv, Shapes
    <3>3. workers' = workers /\ limit' = limit
      BY <1>1, <2>1
    <3>4. leaving' \in Nat /\ leaving <= leaving' + 1 /\ Len(queue) \in Nat
      BY <1>1
    <3>5. Len(queue) <= leaving => Len(queue) - 1 <= leaving'
      BY ONLY <3>2, <3>4, OneLess
    <3>6. QED
      BY ONLY <2>2, <3>1, <3>3, <3>4, <3>5 DEF Covered
  <2>6. QED
    BY <1>3, <2>2, <2>3, <2>4, <2>5 DEF PoolInv
<1>5. CASE closed \/ queue = <<>>
  <2>1. /\ queue' = queue /\ queue = <<>> /\ Len(queue) = 0
        /\ workers' = workers - 1 /\ active' = a
        /\ st' = Wake(s)
    BY <1>5 DEF Depart, PoolInv, Listed
  <2>2. st' \in [Tasks -> States] /\ Running' = R
    <3>1. /\ Wake(s) \in [Tasks -> States]
          /\ \A t \in Tasks : s[t] \notin {"parked", "woken"} => Wake(s)[t] = s[t]
          /\ \A t \in Tasks : s[t] \in {"parked", "woken"} => Wake(s)[t] = "woken"
      BY WakeKeeps
    <3>2. \A t \in Tasks : (st'[t] = "running") <=> (s[t] = "running")
      BY <2>1, <3>1
    <3>3. Running' = {t \in Tasks : s[t] = "running"}
      BY ONLY <3>2 DEF Running
    <3>4. QED
      BY <2>1, <3>1, <3>3
  <2>3. Shapes'
    <3>1. active' \in Nat /\ workers' \in Nat
      BY ONLY <1>1b, <2>1
    <3>2. queue' \in Seq(Tasks) /\ Len(queue') <= capacity'
      BY <1>1, <2>1
    <3>3. QED
      BY ONLY <1>1a, <2>2, <3>1, <3>2 DEF Shapes
  <2>4. Counted'
    <3>1. /\ active' = Cardinality(Running')
          /\ workers' = active' + leaving'
      BY <2>1, <2>2
    <3>2. workers' <= limit'
      BY <1>1, <2>1
    <3>3. QED
      BY ONLY <3>1, <3>2 DEF Counted
  <2>5. Listed' /\ InOrder' /\ Covered'
    BY <1>1, <2>1 DEF Listed, InOrder, Covered
  <2>6. WaitsForCause'
    BY <2>1, AllAwake
  <2>7. QED
    BY <1>3, <2>2, <2>3, <2>4, <2>5, <2>6 DEF PoolInv
<1>6. QED
  BY <1>4, <1>5

LEMMA LeaveStep ==
    ASSUME PoolInv, Leave
    PROVE  PoolInv'
<1>1. /\ st \in [Tasks -> States] /\ active \in Nat /\ leaving \in Nat
      /\ active = Cardinality({t \in Tasks : st[t] = "running"})
      /\ workers = active + leaving
  BY DEF PoolInv, Shapes, Counted, Running
<1>2. /\ leaving' \in Nat /\ leaving <= leaving' + 1
      /\ workers = active + leaving' + 1
  BY <1>1 DEF Leave
<1>3. QED
  BY <1>1, <1>2, DepartStep DEF Leave

LEMMA EndEarlyStep ==
    ASSUME PoolInv, NEW t \in Tasks, EndEarly(t)
    PROVE  PoolInv'
<1> DEFINE s == [st EXCEPT ![t] = "ended"]
<1>1. /\ st \in [Tasks -> States] /\ active \in Nat /\ leaving \in Nat
      /\ active = Cardinality(Running)
      /\ workers = active + leaving
      /\ t \in Running /\ st[t] = "running" /\ leaving' = leaving
  BY DEF PoolInv, Shapes, Counted, Running, EndEarly
<1>2. /\ s \in [Tasks -> States]
      /\ \A u \in Tasks : s[u] = st[u] \/ (st[u] = "running" /\ s[u] = "ended")
      /\ {u \in Tasks : s[u] = "running"} = Running \ {t}
  BY <1>1 DEF States, Running
<1>3. active - 1 \in Nat /\ active - 1 = Cardinality(Running \ {t})
  <2>1. Cardinality(Running \ {t}) = Cardinality(Running) - 1 /\ Cardinality(Running) > 0
    BY <1>1, RunningChanges
  <2>2. QED
    BY <1>1, <2>1
<1>4. workers = (active - 1) + leaving' + 1 /\ leaving <= leaving' + 1
  BY <1>1
<1>5. Depart(s, active - 1)
  BY DEF EndEarly
<1>6. UNCHANGED <<closed, generation, sizeVars, gen, chan, lifeVars, histVars>>
  BY DEF EndEarly
<1> HIDE DEF s
<1>7. QED
  BY <1>1, <1>2, <1>3, <1>4, <1>5, <1>6, DepartStep

-----------------------------------------------------------------------------
\* The invariant holds throughout.

LEMMA InitInv == Init => PoolInv
<1> SUFFICES ASSUME Init PROVE PoolInv
  OBVIOUS
<1>1. Running = {} /\ Cardinality(Running) = 0
  BY FS_EmptySet DEF Init, Running
<1>2. queue = <<>> /\ Len(queue) = 0
  BY DEF Init
<1>3. limit \in Nat /\ capacity \in Nat
  BY PoolAssumption DEF Init
<1>4. Shapes
  <2>1. queue \in Seq(Tasks) /\ Len(queue) <= capacity
    BY <1>2, <1>3
  <2>2. 0 \in 0..MaxStops
    BY PoolAssumption
  <2>3. QED
    BY <2>1, <2>2 DEF Init, Shapes, States
<1>5. Counted
  BY <1>1, <1>3 DEF Init, Counted
<1>6. Listed /\ InOrder /\ Covered
  BY <1>2 DEF Init, Listed, InOrder, Covered
<1>7. Numbered
  BY DEF Init, Numbered
<1>8. Stamped /\ WaitsForCause
  BY DEF Init, Stamped, WaitsForCause
<1>9. QED
  BY <1>4, <1>5, <1>6, <1>7, <1>8 DEF PoolInv

LEMMA StutterInv ==
    ASSUME PoolInv, UNCHANGED vars
    PROVE  PoolInv'
<1>1. /\ UNCHANGED <<queue, active, workers, closed, generation, limit, capacity>>
      /\ UNCHANGED <<st, leaving, gen, chan, stopped, halting, albumStop, epoch>>
      /\ UNCHANGED <<turn, acc>>
  BY DEF vars, poolVars, sizeVars, lifeVars, histVars
<1>2. Running' = Running
  BY <1>1 DEF Running
<1>3. Shapes' /\ Counted' /\ Listed' /\ Numbered' /\ Stamped'
  BY <1>1, <1>2 DEF PoolInv, Shapes, Counted, Listed, Numbered, Stamped
<1>4. Covered' /\ WaitsForCause' /\ InOrder'
  BY <1>1, <1>2
  DEF PoolInv, Covered, WaitsForCause, InOrder, CanStart, HasRoom, StopClosed
<1>5. QED
  BY <1>3, <1>4 DEF PoolInv

LEMMA NextInv ==
    ASSUME PoolInv, [Next]_vars
    PROVE  PoolInv'
<1>1. CASE UNCHANGED vars
  BY <1>1, StutterInv
<1>2. ASSUME NEW t \in Tasks,
             Call(t) \/ Submit(t) \/ TakeNext(t) \/ Retire(t) \/ EndEarly(t)
      PROVE  PoolInv'
  <2>1. CASE Call(t)
    BY <2>1, CallStep
  <2>2. CASE Refuse(t)
    BY <2>2, RefuseStep
  <2>3. CASE Start(t)
    BY <2>3, StartStep
  <2>4. CASE Enqueue(t)
    BY <2>4, EnqueueStep
  <2>5. CASE Drop(t)
    BY <2>5, DropStep
  <2>6. CASE Park(t)
    BY <2>6, ParkStep
  <2>7. CASE TakeNext(t)
    BY <2>7, TakeNextStep
  <2>8. CASE Retire(t)
    BY <2>8, RetireStep
  <2>9. CASE EndEarly(t)
    BY <2>9, EndEarlyStep
  <2>10. QED
    BY <1>2, <2>1, <2>2, <2>3, <2>4, <2>5, <2>6, <2>7, <2>8, <2>9
    DEF Submit
<1>3. CASE Leave
  BY <1>3, LeaveStep
<1>4. CASE HaltPool
  BY <1>4, HaltPoolStep
<1>5. CASE CloseAlbumStop
  BY <1>5, CloseAlbumStopStep
<1>6. CASE Quiesce
  BY <1>6, QuiesceStep
<1>7. CASE Restart
  BY <1>7, RestartStep
<1>8. QED
  BY <1>1, <1>2, <1>3, <1>4, <1>5, <1>6, <1>7 DEF Next

\* The pool's counters count its goroutines, its queue lists what is queued,
\* and what follows from that holds in every reachable state.
THEOREM InvHolds == Spec => []PoolInv
<1>1. QED
  BY InitInv, NextInv, PTL DEF Spec

-----------------------------------------------------------------------------
\* The theorems.

LEMMA PoolTypes ==
    ASSUME PoolInv
    PROVE  TypeOK
<1>1. Shapes /\ Counted /\ Numbered
  BY DEF PoolInv
<1>2. limit \in Nat
  BY <1>1, PoolAssumption DEF Shapes
<1>3. active \in 0..limit /\ workers \in 0..limit /\ leaving \in 0..limit
  BY <1>1, <1>2 DEF Shapes, Counted
<1>4. epoch \in 0..MaxStops
  BY <1>1, PoolAssumption DEF Shapes, Numbered
<1>5. chan \in [Tasks -> 0..MaxStops]
  <2>1. 0..epoch \subseteq 0..MaxStops
    BY <1>4, PoolAssumption
  <2>2. QED
    BY <1>1, <2>1 DEF Numbered
<1>6. QED
  BY <1>1, <1>3, <1>4, <1>5 DEF Shapes, TypeOK

\* The queue stays within UpdateQueueSize, the counters within the limit.
THEOREM TypeCorrect == Spec => []TypeOK
  BY PoolTypes, InvHolds, PTL

\* Never more than limit callbacks execute, across every stop and restart.
THEOREM LimitKept == Spec => []WithinLimit
<1>1. PoolInv => WithinLimit
  <2> SUFFICES ASSUME PoolInv PROVE WithinLimit
    OBVIOUS
  <2>1. /\ limit \in Nat /\ leaving \in Nat /\ active \in Nat
        /\ active = Cardinality(Running) /\ workers = active + leaving
        /\ workers <= limit
    BY PoolAssumption DEF PoolInv, Shapes, Counted
  <2>2. QED
    BY <2>1 DEF WithinLimit
<1>2. QED
  BY <1>1, InvHolds, PTL

\* A callback waits only while every goroutine exists or one is about to take it.
THEOREM QueueCovered == Spec => []Covered
<1>1. PoolInv => Covered
  BY DEF PoolInv
<1>2. QED
  BY <1>1, InvHolds, PTL

\* A caller is parked in submit only while it would have to park again.
THEOREM ParkedForCause == Spec => []WaitsForCause
<1>1. PoolInv => WaitsForCause
  BY DEF PoolInv
<1>2. QED
  BY <1>1, InvHolds, PTL

\* The pool of secret updates executes them in the order of acceptance.
THEOREM OrderKept == Spec => []InOrder
<1>1. PoolInv => InOrder
  BY DEF PoolInv
<1>2. QED
  BY <1>1, InvHolds, PTL

\* No callback starts between Terminate and the next connect.
THEOREM QuietKept == Spec => QuietWhileClosed
<1>1. ASSUME PoolInv, [Next]_vars, closed, closed'
      PROVE  Running' \subseteq Running
  <2> SUFFICES ASSUME NEW t \in Tasks, st[t] # "running"
               PROVE  st'[t] # "running"
    BY DEF Running
  <2>2. st \in [Tasks -> States]
    BY <1>1 DEF PoolInv, Shapes
  <2>3. ASSUME NEW s \in [Tasks -> States], st' = Wake(s), s[t] # "running"
        PROVE  st'[t] # "running"
    <3>1. /\ s[t] \notin {"parked", "woken"} => Wake(s)[t] = s[t]
          /\ s[t] \in {"parked", "woken"} => Wake(s)[t] = "woken"
      BY <2>3, WakeKeeps
    <3>2. QED
      BY <2>3, <3>1
  <2>4. CASE UNCHANGED vars
    BY <2>4 DEF vars
  <2>5. ASSUME NEW u \in Tasks, Call(u) \/ Submit(u)
        PROVE  st'[t] # "running"
    BY <1>1, <2>2, <2>5
    DEF Call, Submit, Refuse, Start, Enqueue, Drop, Park, Refused
  <2>6. ASSUME NEW u \in Tasks, TakeNext(u) \/ Retire(u)
        PROVE  st'[t] # "running"
    BY <1>1, <2>2, <2>6 DEF TakeNext, Retire
  <2>7. CASE Leave
    BY <1>1, <2>2, <2>3, <2>7 DEF Leave, Depart
  <2>8. ASSUME NEW u \in Tasks, EndEarly(u)
        PROVE  st'[t] # "running"
    <3> DEFINE s == [st EXCEPT ![u] = "ended"]
    <3>1. s \in [Tasks -> States] /\ s[t] # "running"
      BY <2>2 DEF States
    <3>2. st' = Wake(s)
      BY <1>1, <2>8 DEF EndEarly, Depart
    <3> HIDE DEF s
    <3>3. QED
      BY <2>3, <3>1, <3>2
  <2>9. CASE HaltPool
    <3> DEFINE s == [v \in Tasks |->
                        IF st[v] = "queued" THEN "discarded" ELSE st[v]]
    <3>1. s \in [Tasks -> States] /\ s[t] # "running"
      BY <2>2 DEF States
    <3>2. st' = Wake(s)
      BY <2>9 DEF HaltPool
    <3> HIDE DEF s
    <3>3. QED
      BY <2>3, <3>1, <3>2
  <2>10. CASE CloseAlbumStop
    BY <2>10 DEF CloseAlbumStop
  <2>11. CASE Quiesce
    BY <2>2, <2>3, <2>11 DEF Quiesce
  <2>12. CASE Restart
    BY <1>1, <2>12 DEF Restart
  <2>13. QED
    BY <1>1, <2>4, <2>5, <2>6, <2>7, <2>8, <2>9, <2>10, <2>11, <2>12 DEF Next
<1>2. PoolInv /\ [Next]_vars => [closed /\ closed' => Running' \subseteq Running]_vars
  BY <1>1
<1>3. QED
  BY <1>2, InvHolds, PTL DEF Spec, QuietWhileClosed

(* Nobody is stranded: in the queue or parked at its door.                 *)
THEOREM NobodyIsStranded == Spec => []NobodyStranded
  BY QueueCovered, ParkedForCause, PTL DEF NobodyStranded

(* The pool keeps its limit and its order and strands nobody.              *)
THEOREM PoolIsSafe == Spec => []PoolSafe
  BY LimitKept, NobodyIsStranded, OrderKept, PTL DEF PoolSafe

=============================================================================
