------------------------------ MODULE TaskPool ------------------------------
(***************************************************************************)
(* The update task pools of telegram/updates.go: updateTaskPool, its       *)
(* submission path submitUpdateTask, and the part of the client life cycle *)
(* (shutdownBackground, resetBackground) that stops and restarts it.  The  *)
(* dispatcher owns three pools, which differ only in their limit: handler  *)
(* callbacks (64, or UpdateWorkers), preparations (4) and secret updates   *)
(* (1, because secret messages must keep their order).                     *)
(*                                                                         *)
(* Every step under p.mu is one action.  The code keeps two counters,      *)
(* active and workers, beside the goroutines they count: the goroutines    *)
(* executing a callback are the tasks whose st is "running", and those     *)
(* between their last look at the queue and their deferred function are    *)
(* counted by leaving.  (A goroutine that was started and has yet to reach *)
(* its callback executes it: nothing can stop it any more.)  A leaving     *)
(* goroutine is still in workers but no longer in active; the design of    *)
(* the pool is about that window.                                          *)
(*                                                                         *)
(* A pool created lazily by submitUpdateTask is taken to exist from the    *)
(* start: a missing pool and an idle one answer every call alike.          *)
(***************************************************************************)
EXTENDS Integers, Sequences, FiniteSets

CONSTANTS
    Tasks,      \* the callbacks handed to the pool, each once
    Patient,    \* those of the album collector, which wait for room
    Limits,     \* the worker limits of the pools that are checked
    Capacities, \* the values of UpdateQueueSize
    MaxStops    \* bound: how many times the client is terminated

ASSUME PoolAssumption ==
    /\ IsFiniteSet(Tasks)
    /\ Patient \subseteq Tasks
    /\ Limits \subseteq Nat \ {0}
    /\ Capacities \subseteq Nat \ {0}
    /\ MaxStops \in Nat

VARIABLES
    \* the pool
    queue,      \* accepted callbacks that no goroutine has taken
    active,     \* the code's count of goroutines executing a callback
    workers,    \* the code's count of goroutines
    closed,     \* set by a stop that discards, cleared by restart
    generation, \* the number of such stops
    limit,      \* these two are fixed when the pool is created
    capacity,
    \* its goroutines and callers
    st,         \* where each task is
    leaving,    \* goroutines whose deferred function has yet to run
    gen,        \* the generation a waiting caller began in
    chan,       \* the album stop channel a patient caller holds
    \* the client life cycle
    stopped,    \* d.stopped
    halting,    \* a shutdownBackground that discards is under way
    albumStop,  \* the current d.albumStop channel is closed
    epoch,      \* how many of these channels were replaced
    \* history, read by no action
    turn,       \* how many tasks were accepted
    acc         \* the turn in which a task was accepted, 0 before

sizeVars == <<limit, capacity>>
poolVars == <<queue, active, workers, closed, generation, sizeVars>>
lifeVars == <<stopped, halting, albumStop, epoch>>
histVars == <<turn, acc>>
vars == <<poolVars, st, leaving, gen, chan, lifeVars, histVars>>

States == {"new", "called", "parked", "woken", "queued", "running",
           "refused", "dropped", "discarded", "ended"}

Init ==
    /\ queue = <<>> /\ active = 0 /\ workers = 0
    /\ closed = FALSE /\ generation = 0
    /\ limit \in Limits /\ capacity \in Capacities
    /\ st = [t \in Tasks |-> "new"]
    /\ leaving = 0
    /\ gen = [t \in Tasks |-> 0] /\ chan = [t \in Tasks |-> 0]
    /\ stopped = FALSE /\ halting = FALSE /\ albumStop = FALSE /\ epoch = 0
    /\ turn = 0 /\ acc = [t \in Tasks |-> 0]

Running == {t \in Tasks : st[t] = "running"}

\* Closing p.space: every caller parked on it goes on.
Wake(s) == [t \in Tasks |-> IF s[t] = "parked" THEN "woken" ELSE s[t]]

-----------------------------------------------------------------------------
\* Submission.

\* submitUpdateTask up to the release of d.stopMu.  A collector may still hold
\* a channel that a later restart has replaced.
Call(t) ==
    /\ st[t] = "new"
    /\ st' = [st EXCEPT ![t] = IF stopped THEN "refused" ELSE "called"]
    /\ \E k \in 0..epoch : chan' = [chan EXCEPT ![t] = k]
    /\ UNCHANGED <<poolVars, leaving, gen, lifeVars, histVars>>

\* A caller holds p.mu at the head of the loop of submit: for the first time,
\* or again after it waited.
Looks(t) == st[t] \in {"called", "woken"}

BeganIn(t) == IF st[t] = "called" THEN generation ELSE gen[t]

StopClosed(t) == t \in Patient /\ (chan[t] < epoch \/ albumStop)

\* Fault: submit trusts the check its caller made under d.stopMu.
RefusedByChannel(t) == StopClosed(t) \/ BeganIn(t) # generation

Refused(t) == StopClosed(t) \/ closed \/ BeganIn(t) # generation

\* A goroutine is started when the running and waiting callbacks would
\* occupy every goroutine there is.
CanStart == workers < limit /\ active + Len(queue) >= workers

HasRoom == Len(queue) < capacity

Accept(t) ==
    /\ turn' = turn + 1
    /\ acc' = [acc EXCEPT ![t] = turn + 1]

Refuse(t) ==
    /\ Looks(t) /\ Refused(t)
    /\ st' = [st EXCEPT ![t] = "refused"]
    /\ UNCHANGED <<poolVars, leaving, gen, chan, lifeVars, histVars>>

Start(t) ==
    /\ Looks(t) /\ ~Refused(t) /\ CanStart
    /\ workers' = workers + 1 /\ active' = active + 1
    /\ st' = [st EXCEPT ![t] = "running"]
    /\ Accept(t)
    /\ UNCHANGED <<queue, closed, generation, sizeVars, leaving, gen, chan,
                   lifeVars>>

Enqueue(t) ==
    /\ Looks(t) /\ ~Refused(t) /\ ~CanStart /\ HasRoom
    /\ queue' = Append(queue, t)
    /\ st' = [st EXCEPT ![t] = "queued"]
    /\ Accept(t)
    /\ UNCHANGED <<active, workers, closed, generation, sizeVars, leaving, gen,
                   chan, lifeVars>>

\* A caller without a stop channel does not wait.
Drop(t) ==
    /\ Looks(t) /\ ~Refused(t) /\ ~CanStart /\ ~HasRoom
    /\ t \notin Patient
    /\ st' = [st EXCEPT ![t] = "dropped"]
    /\ UNCHANGED <<poolVars, leaving, gen, chan, lifeVars, histVars>>

\* The caller waits for p.space to be closed or for its stop channel.  It never
\* sees the latter: shutdownBackground stops the pools, which closes p.space,
\* before it closes the channel, and WaitsForCause says that nobody is left.
Park(t) ==
    /\ Looks(t) /\ ~Refused(t) /\ ~CanStart /\ ~HasRoom
    /\ t \in Patient
    /\ st' = [st EXCEPT ![t] = "parked"]
    /\ gen' = [gen EXCEPT ![t] = BeganIn(t)]
    /\ UNCHANGED <<poolVars, leaving, chan, lifeVars, histVars>>

Submit(t) == Refuse(t) \/ Start(t) \/ Enqueue(t) \/ Drop(t) \/ Park(t)

-----------------------------------------------------------------------------
\* The goroutines (run).

\* A callback returned and the goroutine takes the next one.
TakeNext(t) ==
    /\ st[t] = "running" /\ ~closed /\ queue # <<>>
    /\ queue' = Tail(queue)
    /\ st' = Wake([st EXCEPT ![t] = "ended", ![Head(queue)] = "running"])
    /\ UNCHANGED <<active, workers, closed, generation, sizeVars, leaving, gen,
                   chan, lifeVars, histVars>>

\* A callback returned, there is none to take, and the goroutine gives up the
\* lock with its deferred function still to run.
Retire(t) ==
    /\ st[t] = "running" /\ (closed \/ queue = <<>>)
    /\ active' = active - 1
    /\ leaving' = leaving + 1
    /\ st' = [st EXCEPT ![t] = "ended"]
    /\ UNCHANGED <<queue, workers, closed, generation, sizeVars, gen, chan,
                   lifeVars, histVars>>

\* Fault: a goroutine that leaves only uncounts itself.
DepartOnly(s, a) ==
    /\ queue' = queue
    /\ workers' = workers - 1
    /\ active' = a
    /\ st' = Wake(s)

\* The deferred function, with s and a the tasks and the active count it
\* leaves behind: what was queued meanwhile gets a goroutine.
Depart(s, a) ==
    \/ /\ ~closed /\ queue # <<>>
       /\ queue' = Tail(queue)
       /\ workers' = workers
       /\ active' = a + 1
       /\ st' = Wake([s EXCEPT ![Head(queue)] = "running"])
    \/ /\ closed \/ queue = <<>>
       /\ queue' = queue
       /\ workers' = workers - 1
       /\ active' = a
       /\ st' = Wake(s)

Leave ==
    /\ leaving > 0
    /\ leaving' = leaving - 1
    /\ Depart(st, active)
    /\ UNCHANGED <<closed, generation, sizeVars, gen, chan, lifeVars,
                   histVars>>

\* A callback that ends its goroutine (runtime.Goexit; a panic is recovered)
\* reaches the deferred function with active still TRUE.
EndEarly(t) ==
    /\ st[t] = "running"
    /\ Depart([st EXCEPT ![t] = "ended"], active - 1)
    /\ UNCHANGED <<closed, generation, sizeVars, leaving, gen, chan, lifeVars,
                   histVars>>

-----------------------------------------------------------------------------
\* The client life cycle.  shutdownBackground and resetBackground exclude one
\* another through backgroundMu.

\* Terminate: d.stopped and the pools, under d.stopMu ...
HaltPool ==
    /\ ~halting /\ generation < MaxStops
    /\ stopped' = TRUE /\ halting' = TRUE
    /\ closed' = TRUE
    /\ generation' = generation + 1
    /\ queue' = <<>>
    /\ st' = Wake([t \in Tasks |->
                      IF st[t] = "queued" THEN "discarded" ELSE st[t]])
    /\ UNCHANGED <<active, workers, sizeVars, leaving, gen, chan, albumStop,
                   epoch, histVars>>

\* ... and later d.albumStop, under the dispatcher's lock.
CloseAlbumStop ==
    /\ halting
    /\ halting' = FALSE /\ albumStop' = TRUE
    /\ UNCHANGED <<poolVars, st, leaving, gen, chan, stopped, epoch, histVars>>

\* Disconnect and Stop do not discard: the pool stays open.
Quiesce ==
    /\ ~halting
    /\ st' = Wake(st)
    /\ UNCHANGED <<poolVars, leaving, gen, chan, lifeVars, histVars>>

\* Fault: restart begins with fresh counters.
RestartFresh ==
    /\ ~halting
    /\ stopped' = FALSE /\ albumStop' = FALSE
    /\ epoch' = IF albumStop THEN epoch + 1 ELSE epoch
    /\ closed' = FALSE /\ workers' = 0 /\ active' = 0
    /\ st' = Wake(st)
    /\ UNCHANGED <<queue, generation, sizeVars, leaving, gen, chan, halting,
                   histVars>>

\* resetBackground: the counters keep counting what still runs.
Restart ==
    /\ ~halting
    /\ stopped' = FALSE /\ albumStop' = FALSE
    /\ epoch' = IF albumStop THEN epoch + 1 ELSE epoch
    /\ closed' = FALSE
    /\ st' = Wake(st)
    /\ UNCHANGED <<queue, active, workers, generation, sizeVars, leaving, gen,
                   chan, halting, histVars>>

-----------------------------------------------------------------------------
Next ==
    \/ \E t \in Tasks :
          \/ Call(t) \/ Submit(t)
          \/ TakeNext(t) \/ Retire(t) \/ EndEarly(t)
    \/ Leave
    \/ HaltPool \/ CloseAlbumStop \/ Quiesce \/ Restart

Spec == Init /\ [][Next]_vars

\* The scheduler runs every runnable goroutine, and every callback returns.
\* (A task is either at submit or executed, so one condition covers both.)
\* Nobody has to call, stop or restart anything.
Fairness ==
    /\ \A t \in Tasks : WF_vars(Submit(t) \/ TakeNext(t) \/ Retire(t) \/ EndEarly(t))
    /\ WF_vars(Leave)
    /\ WF_vars(CloseAlbumStop)

FairSpec == Spec /\ Fairness

-----------------------------------------------------------------------------
\* Properties.

\* The queue never exceeds UpdateQueueSize, and the counters the code keeps
\* stay within the limit they enforce.
TypeOK ==
    /\ queue \in Seq(Tasks) /\ Len(queue) <= capacity
    /\ limit \in Limits /\ capacity \in Capacities
    /\ active \in 0..limit /\ workers \in 0..limit /\ leaving \in 0..limit
    /\ closed \in BOOLEAN /\ stopped \in BOOLEAN
    /\ generation \in 0..MaxStops
    /\ halting \in BOOLEAN /\ albumStop \in BOOLEAN /\ epoch \in 0..MaxStops
    /\ st \in [Tasks -> States]
    /\ gen \in [Tasks -> 0..MaxStops] /\ chan \in [Tasks -> 0..MaxStops]
    /\ turn \in Nat /\ acc \in [Tasks -> Nat]

\* "Restart preserves the count of callbacks still running, so reconnecting
\* cannot bypass the concurrency limit" (updates.go:4499): never more than
\* limit callbacks execute, whatever stops and restarts happen around them.
WithinLimit == Cardinality(Running) <= limit

\* A callback waits in the queue only while every goroutine the limit allows
\* exists, or while a goroutine in its exit window is there to take it: a task
\* appended after a goroutine's last look at the queue is never stranded.
Covered == workers < limit => Len(queue) <= leaving

\* A waiting caller misses no freed room: whoever is parked in submit would
\* park again if it looked now.
WaitsForCause ==
    \A t \in Tasks : st[t] = "parked" =>
        /\ ~CanStart /\ ~HasRoom /\ ~closed
        /\ gen[t] = generation /\ ~StopClosed(t)

\* In the pool of secret updates (limit 1) callbacks are executed in the order
\* in which they were accepted: the one executing was accepted before all that
\* are queued, and these are queued in the order of acceptance.  This is what
\* "encrypted messages must keep their wire order" (updates.go:3288) needs.
InOrder ==
    limit = 1 =>
        /\ \A i \in 1..Len(queue) : \A t \in Running : acc[t] < acc[queue[i]]
        /\ \A i \in 1..Len(queue) : \A j \in 1..Len(queue) :
              i < j => acc[queue[i]] < acc[queue[j]]

\* Between Terminate and the next connect no callback starts: not one handed
\* over by a goroutine on its way out, and not one whose caller had passed the
\* check of d.stopped before it.
QuietWhileClosed == [][closed /\ closed' => Running' \subseteq Running]_vars

\* A queued callback is executed, unless Terminate discards it.  (Each is
\* queued at most once, so there comes a time when none is.)
QueuedLeaves == []<>(\A t \in Tasks : st[t] # "queued")

\* A parked caller gets to look again.  (It may lose the race for the room
\* and park once more: nothing orders the callers that a wake-up releases.)
ParkedLooks == \A t \in Patient : []<>(st[t] # "parked")

\* Nobody is left in the queue or at its door: in no state does a callback or
\* a caller wait for nothing.
NobodyStranded == Covered /\ WaitsForCause

\* Together: across every Terminate and restart the pool executes no more
\* than it may, in order where order counts, and strands nobody.
PoolSafe == WithinLimit /\ NobodyStranded /\ InOrder

\* None of those who wait does so for ever.
MovesOn == QueuedLeaves /\ ParkedLooks

=============================================================================
