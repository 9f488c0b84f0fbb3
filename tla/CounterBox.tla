----------------------------- MODULE CounterBox -----------------------------
(***************************************************************************)
(* One counter box of telegram/updates.go with everything that moves it:   *)
(* the reader goroutine, which delivers updates as they arrive; the        *)
(* recovery jobs, which fetch the difference from the server in a worker   *)
(* pool; the monitor, which looks for gaps once a second; and the          *)
(* shutdown and restart of the client's background work.                   *)
(*                                                                         *)
(* The box keeps the position the client has reached.  An update that      *)
(* begins there is applied, one that begins later is buffered and starts a *)
(* recovery.  The box is locked while it decides, and unlocked while an    *)
(* update is applied, so the reader and a recovery can overtake each other *)
(* between two steps of either: apply and the flush of the buffer that     *)
(* follows it are actions of their own.                                    *)
(*                                                                         *)
(* The box modelled is the one for pts with updates.getDifference; the     *)
(* boxes for qts, seq and channels run the same code.  Data that only      *)
(* matter to the handlers are left out: an update is its number.           *)
(***************************************************************************)
EXTENDS UpdateFeed, Sequences, FiniteSetsExt

CONSTANTS
  Reader,      \* the goroutine that reads the connection
  Slots,       \* room for recovery jobs, queued or running, in the pool
  NoSlot,      \* no job
  Messages,    \* updates that a difference lists as new messages
  Edits,       \* other updates with an identity of their own
  MaxPerKey,   \* updates buffered per position, 64 in the code
  MaxPending,  \* updates buffered in all, 1024 in the code
  MaxFaults,   \* bound: requests that fail and callbacks a full queue turns away
  MaxStops     \* bound: shutdowns

ASSUME CounterBoxAssumption ==
  /\ Reader \notin Slots /\ NoSlot \notin Slots
  /\ Messages \subseteq Positive
  /\ Edits \subseteq Updates
  /\ MaxPerKey \in Nat \ {0} /\ MaxPending \in Nat \ {0}
  /\ MaxFaults \in Nat /\ MaxStops \in Nat

Threads == Slots \union {Reader}
Start(u) == End[u] - Cnt[u]
Keys == {End[u] : u \in Updates}

(* dispatchUpdate knows these by an identity in its cache and drops the    *)
(* second copy: messages, edits, and whatever has pts_count 0.             *)
Identified == Messages \union Edits \union {u \in Updates : Cnt[u] = 0}

VARIABLES
  published,   \* updates 1..published exist on the server
  pending,     \* counterBox.pending: [Keys -> sequence of buffered updates]
  recovering,  \* counterBox.recovering
  cooling,     \* the debounce time since counterBox.lastGapAt is not over
  fresh,       \* the job whose attempt is counterBox.gapAttempt
  mode,        \* [Threads -> where it is in process, forceSet or flushLocked]
  todo,        \* [Threads -> the update it is about to apply, 0: none]
  job,         \* [Slots -> a recovery job, see Job]
  busy,        \* UpdateDispatcher.recoveringDifference
  phase,       \* shutdownBackground and resetBackground of the client
  refusing,    \* UpdateDispatcher.stopped
  faults,      \* such requests and callbacks so far
  stops        \* shutdowns so far

boxVars == <<pending, recovering, cooling, fresh>>
threadVars == <<mode, todo>>
jobVars == <<job, busy>>
phaseVars == <<phase, refusing, faults, stops>>
vars == <<feedVars, boxVars, threadVars, jobVars, phaseVars, published>>

(* st     where the job is: a "none" slot is free                          *)
(* gap    scheduled by the box; otherwise by updatesTooLong or the monitor *)
(* from   the position the next request asks for                           *)
(* goal   the position after the answer                                    *)
(* left   the updates of the answer not looked at yet                      *)
(* last   the answer is complete                                           *)
(* cut    the stop channel the job has taken is closed                     *)
Job == [st : {"none", "queued", "claim", "ask", "asked", "handing", "set", "state", "release", "finish"},
        gap : BOOLEAN, from : Nat, goal : Nat, left : SUBSET Updates, last : BOOLEAN, cut : BOOLEAN]

FreeSlot == [st |-> "none", gap |-> FALSE, from |-> 0, goal |-> 0, left |-> {}, last |-> FALSE, cut |-> FALSE]

Init ==
  /\ FeedInit
  /\ published = 0
  /\ pending = [k \in Keys |-> <<>>]
  /\ recovering = FALSE /\ cooling = FALSE /\ fresh = NoSlot
  /\ mode = [t \in Threads |-> "idle"]
  /\ todo = [t \in Threads |-> 0]
  /\ job = [s \in Slots |-> FreeSlot]
  /\ busy = FALSE
  /\ phase = "up" /\ refusing = FALSE
  /\ faults = 0 /\ stops = 0

Empty == \A k \in Keys : pending[k] = <<>>
Queued == {u \in Updates : \E i \in DOMAIN pending[End[u]] : pending[End[u]][i] = u}

-----------------------------------------------------------------------------
(* What goes wrong of itself is counted, what a shutdown explains is not. *)
Fault(explained) ==
  \/ explained /\ UNCHANGED faults
  \/ ~ explained /\ faults < MaxFaults /\ faults' = faults + 1

(* Handing an update to the handlers: dispatchUpdate.  An identity goes    *)
(* into its cache first, so a second copy is dropped whatever became of    *)
(* the first.  submitUpdateTask then queues the callback, or turns it away *)
(* when the dispatcher is stopped or the queue is full: it is lost.        *)
Dispatch(u) ==
  \/ /\ u \in Identified /\ Dispatched(u)
     /\ UNCHANGED <<handled, lost, faults>>
  \/ /\ ~ (u \in Identified /\ Dispatched(u))
     /\ ~ refusing
     /\ handled' = [handled EXCEPT ![u] = IF @ < 2 THEN @ + 1 ELSE 2]
     /\ UNCHANGED <<lost, faults>>
  \/ /\ ~ (u \in Identified /\ Dispatched(u))
     /\ lost' = lost \union {u}
     /\ Fault(refusing)
     /\ UNCHANGED handled

(* triggerGapLocked.  submitUpdateTask turns the job away when the         *)
(* dispatcher is stopped or the queue is full.                             *)
TriggerGap ==
  IF recovering \/ cooling THEN UNCHANGED <<recovering, cooling, fresh, job>>
  ELSE /\ cooling' = TRUE
       /\ \/ \E s \in Slots :
               /\ ~ refusing /\ job[s].st = "none"
               /\ job' = [job EXCEPT ![s] = [FreeSlot EXCEPT !.st = "queued", !.gap = TRUE]]
               /\ recovering' = TRUE /\ fresh' = s
          \/ /\ refusing \/ \A s \in Slots : job[s].st # "none"
             /\ recovering' = FALSE /\ fresh' = NoSlot
             /\ UNCHANGED job

-----------------------------------------------------------------------------
(* process: the reader delivers updates in any order, late or repeatedly.  *)
(* What is behind current is dropped, which changes nothing.               *)
Arrives(u) == mode[Reader] = "idle" /\ u <= published

(* The first update that is seen may be one that counts nothing: then the  *)
(* box begins just before it, because the message at that position may     *)
(* still be on its way.                                                    *)
Opens(u) == current = 0 /\ Cnt[u] = 0
Here(u) == IF Opens(u) THEN (IF End[u] > 1 THEN End[u] - 1 ELSE 1) ELSE current
GiveUpTo(p) == {v \in Positive : current < End[v] /\ End[v] <= p}

OpenAt(u) ==
  /\ current' = Here(u)
  /\ waived' = IF Opens(u) THEN waived \union GiveUpTo(Here(u)) ELSE waived

(* current moves to the end of u; u is applied unlocked, then the buffer is flushed *)
Pass(t, u) ==
  /\ current' = End[u]
  /\ waived' = IF current = 0 THEN waived \union (GiveUpTo(End[u]) \ {u}) ELSE waived
  /\ todo' = [todo EXCEPT ![t] = u]
  /\ mode' = [mode EXCEPT ![t] = "apply"]

ReceiveNext(u) ==
  /\ Arrives(u)
  /\ Cnt[u] > 0
  /\ current = 0 \/ Start(u) = current
  /\ Pass(Reader, u)
  /\ UNCHANGED <<handled, lost, boxVars, jobVars, phaseVars, published>>

ReceiveUncounted(u) ==
  /\ Arrives(u)
  /\ Cnt[u] = 0
  /\ End[u] = Here(u)
  /\ OpenAt(u)
  /\ todo' = [todo EXCEPT ![Reader] = u]
  /\ mode' = [mode EXCEPT ![Reader] = "applyOnly"]
  /\ UNCHANGED <<handled, lost, boxVars, jobVars, phaseVars, published>>

RefusedLate(u) ==        \* seeded fault: the limit is off by one
  \/ Len(pending[End[u]]) > MaxPerKey
  \/ Cnt[u] > 0 /\ \E i \in DOMAIN pending[End[u]] : Cnt[pending[End[u]][i]] > 0

(* No room at this position, or the positive update there is buffered already. *)
Refused(u) ==
  \/ Len(pending[End[u]]) >= MaxPerKey
  \/ Cnt[u] > 0 /\ \E i \in DOMAIN pending[End[u]] : Cnt[pending[End[u]][i]] > 0

Total == MapThenSumSet(LAMBDA k : Len(pending[k]), Keys)

(* A full buffer is emptied first: recovery starts from current anyway. *)
Buffer(u) ==
  LET room == IF Total >= MaxPending THEN [k \in Keys |-> <<>>] ELSE pending
  IN  pending' = [room EXCEPT ![End[u]] = IF Cnt[u] > 0 THEN <<u>> \o @ ELSE Append(@, u)]

ReceiveEarly(u) ==
  /\ Arrives(u)
  /\ Here(u) # 0 /\ Start(u) > Here(u)
  /\ ~ Refused(u)
  /\ OpenAt(u)
  /\ Buffer(u)
  /\ TriggerGap
  /\ UNCHANGED <<handled, lost, threadVars, busy, phaseVars, published>>

ApplyWhileUp(t) ==       \* seeded fault: a shutdown drops what a thread has in hand
  /\ mode[t] \in {"apply", "applyOnly"}
  /\ IF phase = "up" THEN Dispatch(todo[t]) ELSE UNCHANGED <<handled, lost, faults>>
  /\ todo' = [todo EXCEPT ![t] = 0]
  /\ mode' = [mode EXCEPT ![t] = IF @ = "apply" THEN "flush" ELSE "idle"]
  /\ UNCHANGED <<current, waived, boxVars, jobVars, phase, refusing, stops, published>>

(* The unlocked part of process and of flushLocked. *)
Apply(t) ==
  /\ mode[t] \in {"apply", "applyOnly"}
  /\ Dispatch(todo[t])
  /\ todo' = [todo EXCEPT ![t] = 0]
  /\ mode' = [mode EXCEPT ![t] = IF @ = "apply" THEN "flush" ELSE "idle"]
  /\ UNCHANGED <<current, waived, boxVars, jobVars, phase, refusing, stops, published>>

-----------------------------------------------------------------------------
(* flushLocked: one round walks over the map in an order Go leaves open.   *)
(* It drops the stale heads it meets and stops at the first head that      *)
(* begins at current; that one is applied and the next round begins.  A    *)
(* round without such a head ends the flush.                               *)
Heads == {k \in Keys : pending[k] # <<>>}
ReadyKeys == {k \in Heads : Start(Head(pending[k])) = current}
StaleKeys == {k \in Heads : Start(Head(pending[k])) < current}
DropHeads(K) == [k \in Keys |-> IF k \in K THEN Tail(pending[k]) ELSE pending[k]]

FlushNext(t) ==
  /\ mode[t] = "flush"
  /\ \E k \in ReadyKeys, met \in SUBSET StaleKeys :
       /\ current' = k
       /\ pending' = DropHeads(met \union {k})
       /\ todo' = [todo EXCEPT ![t] = Head(pending[k])]
       /\ mode' = [mode EXCEPT ![t] = "apply"]
  /\ UNCHANGED <<handled, lost, waived, recovering, cooling, fresh, jobVars, phaseVars, published>>

FlushEnd(t) ==
  /\ mode[t] = "flush"
  /\ ReadyKeys = {}
  /\ pending' = DropHeads(StaleKeys)
  /\ mode' = [mode EXCEPT ![t] = "idle"]
  /\ UNCHANGED <<feedVars, recovering, cooling, fresh, todo, jobVars, phaseVars, published>>

-----------------------------------------------------------------------------
(* A recovery job: the work of triggerGapLocked around FetchDifference.    *)
Goto(s, st) == job' = [job EXCEPT ![s].st = st]
At(s, st) == job[s].st = st /\ mode[s] = "idle"
Top == IF published = 0 THEN Start(1) ELSE End[published]

(* updatesTooLong, or no update for 15 minutes. *)
RequestDifference ==
  /\ ~ refusing
  /\ \E s \in Slots :
       /\ job[s].st = "none"
       /\ job' = [job EXCEPT ![s] = [FreeSlot EXCEPT !.st = "queued"]]
  /\ UNCHANGED <<feedVars, boxVars, threadVars, busy, phaseVars, published>>

(* A worker takes the job.  An attempt that was invalidated ends at once,  *)
(* and so does one whose gap has closed in the meantime.                   *)
StartJob(s) ==
  /\ At(s, "queued")
  /\ IF job[s].gap /\ (fresh # s \/ Empty)
     THEN /\ recovering' = (recovering /\ fresh # s)
          /\ fresh' = IF fresh = s THEN NoSlot ELSE fresh
          /\ job' = [job EXCEPT ![s] = FreeSlot]
     ELSE /\ job' = [job EXCEPT ![s] = [@ EXCEPT !.st = "claim", !.from = current]]
          /\ UNCHANGED <<recovering, fresh>>
  /\ UNCHANGED <<feedVars, pending, cooling, threadVars, busy, phaseVars, published>>

(* One difference at a time: recoveringDifference. *)
Claim(s) ==
  /\ At(s, "claim")
  /\ IF busy THEN Goto(s, "finish") /\ UNCHANGED busy
     ELSE /\ job' = [job EXCEPT ![s] = [@ EXCEPT !.st = "ask", !.cut = (phase # "up")]]
          /\ busy' = TRUE
  /\ UNCHANGED <<feedVars, boxVars, threadVars, phaseVars, published>>

Ask(s) ==
  /\ At(s, "ask")
  /\ Goto(s, IF job[s].cut THEN "release" ELSE "asked")
  /\ UNCHANGED <<feedVars, boxVars, threadVars, busy, phaseVars, published>>

(* A timeout, a lost connection, or a server that refuses position 0. *)
AskFails(s) ==
  /\ At(s, "asked") \/ At(s, "state")
  /\ Fault(job[s].from = 0 \/ phase # "up")
  /\ Goto(s, "release")
  /\ UNCHANGED <<feedVars, boxVars, threadVars, busy, phase, refusing, stops, published>>

AnswerEmpty(s) ==
  /\ At(s, "asked")
  /\ job[s].from >= Top
  /\ Goto(s, "release")
  /\ UNCHANGED <<feedVars, boxVars, threadVars, busy, phaseVars, published>>

(* The whole difference, or a slice of it.  The server may or may not list *)
(* the updates that count nothing.                                         *)
Difference(a, b, uncounted) ==
  {u \in 1..published : /\ a < End[u] /\ End[u] <= b
                        /\ Cnt[u] > 0 \/ uncounted}

AnswerDifference(s) ==
  /\ At(s, "asked")
  /\ job[s].from > 0
  /\ \E v \in 1..published, complete, uncounted \in BOOLEAN :
       /\ End[v] > job[s].from
       /\ complete => End[v] = Top
       /\ job' = [job EXCEPT ![s] = [@ EXCEPT !.st = "handing", !.goal = End[v], !.last = complete,
                                              !.left = Difference(job[s].from, End[v], uncounted)]]
  /\ UNCHANGED <<feedVars, boxVars, threadVars, busy, phaseVars, published>>

First(u, S) == u \in S /\ \A v \in S : u <= v

(* New messages do not pass the box: they go to dispatchUpdate, in order. *)
HandMessage(s, u) ==
  /\ At(s, "handing")
  /\ First(u, job[s].left \cap Messages)
  /\ Dispatch(u)
  /\ job' = [job EXCEPT ![s].left = @ \ {u}]
  /\ UNCHANGED <<current, waived, boxVars, threadVars, busy, phase, refusing, stops, published>>

HandsOver(s, u) ==
  /\ At(s, "handing")
  /\ job[s].left \cap Messages = {}
  /\ First(u, job[s].left)
  /\ job' = [job EXCEPT ![s].left = @ \ {u}]

(* The other updates go through process with recovered = true, which       *)
(* accepts a gap: what lies in it is part of the same difference.          *)
Recover(s, u) ==
  /\ HandsOver(s, u)
  /\ End[u] > current
  /\ Pass(s, u)
  /\ UNCHANGED <<handled, lost, boxVars, busy, phaseVars, published>>

RecoverUncounted(s, u) ==
  /\ HandsOver(s, u)
  /\ End[u] = current /\ Cnt[u] = 0
  /\ todo' = [todo EXCEPT ![s] = u]
  /\ mode' = [mode EXCEPT ![s] = "applyOnly"]
  /\ UNCHANGED <<feedVars, boxVars, busy, phaseVars, published>>

RecoverAgain(s, u) ==    \* seeded fault: a recovered update is applied although it is behind
  /\ HandsOver(s, u)
  /\ End[u] < current \/ (End[u] = current /\ Cnt[u] > 0)
  /\ todo' = [todo EXCEPT ![s] = u]
  /\ mode' = [mode EXCEPT ![s] = "applyOnly"]
  /\ UNCHANGED <<feedVars, boxVars, busy, phaseVars, published>>

RecoverKnown(s, u) ==
  /\ HandsOver(s, u)
  /\ End[u] < current \/ (End[u] = current /\ Cnt[u] > 0)
  /\ UNCHANGED <<feedVars, boxVars, threadVars, busy, phaseVars, published>>

ForceSetBack(s, p) ==    \* seeded fault: takes the checkpoint as it is
  /\ current' = p
  /\ pending' = [k \in Keys |-> IF k <= p THEN <<>> ELSE pending[k]]
  /\ mode' = [mode EXCEPT ![s] = "flush"]

(* forceSet: never back; what is buffered up to p is dropped, the rest flushed. *)
ForceSet(s, p) ==
  IF p < current THEN UNCHANGED <<current, pending, mode>>
  ELSE /\ current' = p
       /\ pending' = [k \in Keys |-> IF k <= p THEN <<>> ELSE pending[k]]
       /\ mode' = [mode EXCEPT ![s] = "flush"]

SetGoal(s) ==
  /\ At(s, "handing")
  /\ job[s].left = {}
  /\ ForceSet(s, job[s].goal)
  /\ Goto(s, "set")
  /\ UNCHANGED <<handled, lost, waived, recovering, cooling, fresh, todo, busy, phaseVars, published>>

AfterSet(s) ==
  /\ At(s, "set")
  /\ IF job[s].last THEN Goto(s, "release")
     ELSE job' = [job EXCEPT ![s] = [@ EXCEPT !.st = "ask", !.from = job[s].goal]]
  /\ UNCHANGED <<feedVars, boxVars, threadVars, busy, phaseVars, published>>

(* The difference is too long: the client goes on from the position the    *)
(* server names, and then from the one in its answer to updates.getState.  *)
JumpTo(s, p) ==
  /\ ForceSet(s, p)
  /\ waived' = waived \union GiveUpTo(p)
  /\ UNCHANGED <<handled, lost, recovering, cooling, fresh, todo, busy, phaseVars, published>>

AnswerTooLong(s) ==
  /\ At(s, "asked")
  /\ job[s].from > 0
  /\ \E v \in 1..published : End[v] > job[s].from /\ JumpTo(s, End[v])
  /\ Goto(s, "state")

AnswerState(s) ==
  /\ At(s, "state")
  /\ JumpTo(s, Top)
  /\ Goto(s, "release")

(* The two deferred functions: FetchDifference's, then the job's own. *)
Release(s) ==
  /\ At(s, "release")
  /\ busy' = FALSE
  /\ Goto(s, "finish")
  /\ UNCHANGED <<feedVars, boxVars, threadVars, phaseVars, published>>

Finish(s) ==
  /\ At(s, "finish")
  /\ recovering' = (recovering /\ ~ (job[s].gap /\ fresh = s))
  /\ fresh' = IF fresh = s THEN NoSlot ELSE fresh
  /\ job' = [job EXCEPT ![s] = FreeSlot]
  /\ UNCHANGED <<feedVars, pending, cooling, threadVars, busy, phaseVars, published>>

-----------------------------------------------------------------------------
(* Time, and the client's background work. *)
Tick ==      \* monitorNoUpdatesTimeout, once a second
  /\ ~ Empty
  /\ TriggerGap
  /\ UNCHANGED <<feedVars, pending, threadVars, busy, phaseVars, published>>

CoolDown ==
  /\ cooling
  /\ cooling' = FALSE
  /\ UNCHANGED <<feedVars, pending, recovering, fresh, threadVars, jobVars, phaseVars, published>>

(* shutdownBackground, first under stopMu: Terminate discards the queued   *)
(* jobs and refuses new ones, Disconnect does not.  A running job sees the *)
(* closed stop channel before its next request.                            *)
Shutdown(discard) ==
  /\ phase # "halting"
  /\ stops < MaxStops
  /\ stops' = stops + 1
  /\ phase' = "halting"
  /\ refusing' = (refusing \/ discard)
  /\ job' = [s \in Slots |-> IF discard /\ job[s].st = "queued" THEN FreeSlot
                             ELSE [job[s] EXCEPT !.cut = @ \/ job[s].st \notin {"none", "queued", "claim"}]]
  /\ UNCHANGED <<feedVars, boxVars, threadVars, busy, faults, published>>

InvalidateNot ==         \* seeded fault: the box is not told
  /\ phase = "halting"
  /\ phase' = "down"
  /\ UNCHANGED <<feedVars, boxVars, threadVars, jobVars, refusing, faults, stops, published>>

(* Then under the lock of the box: the attempt is void, so that recovery   *)
(* can start again after a reconnect.                                      *)
Invalidate ==
  /\ phase = "halting"
  /\ phase' = "down"
  /\ recovering' = FALSE /\ cooling' = FALSE /\ fresh' = NoSlot
  /\ UNCHANGED <<feedVars, pending, threadVars, jobVars, refusing, faults, stops, published>>

ResetBackground ==
  /\ phase = "down"
  /\ phase' = "up" /\ refusing' = FALSE
  /\ UNCHANGED <<feedVars, boxVars, threadVars, jobVars, faults, stops, published>>

Publish ==
  /\ published < N
  /\ published' = published + 1
  /\ UNCHANGED <<feedVars, boxVars, threadVars, jobVars, phaseVars>>

-----------------------------------------------------------------------------
ReceiveStep(u) == ReceiveNext(u) \/ ReceiveUncounted(u) \/ ReceiveEarly(u)
BoxStep(t) == Apply(t) \/ FlushNext(t) \/ FlushEnd(t)
AnswerStep(s) == AnswerEmpty(s) \/ AnswerDifference(s) \/ AnswerTooLong(s) \/ AnswerState(s) \/ AskFails(s)
HandStep(s) ==
  /\ At(s, "handing")
  /\ \/ SetGoal(s)
     \/ \E u \in Updates : HandMessage(s, u) \/ Recover(s, u)
                            \/ RecoverUncounted(s, u) \/ RecoverKnown(s, u)
JobStep(s) ==
  /\ job[s].st # "none"
  /\ \/ StartJob(s) \/ Claim(s) \/ Ask(s) \/ AnswerStep(s) \/ HandStep(s)
     \/ AfterSet(s) \/ Release(s) \/ Finish(s)

Next ==
  \/ \E u \in Updates : ReceiveStep(u)
  \/ \E t \in Threads : BoxStep(t)
  \/ \E s \in Slots : JobStep(s)
  \/ RequestDifference \/ Tick \/ CoolDown \/ Publish
  \/ \E discard \in BOOLEAN : Shutdown(discard)
  \/ Invalidate \/ ResetBackground

(* Goroutines are scheduled, requests end (they have a timeout of 30       *)
(* seconds) and time passes.  The monitor runs while the client is up.     *)
(* Nothing obliges the server to publish or to deliver, nor the user to    *)
(* stop or restart the client.                                             *)
Fairness ==
  /\ WF_vars(BoxStep(Reader))
  /\ \A s \in Slots : WF_vars(BoxStep(s) \/ JobStep(s))
  /\ WF_vars(phase = "up" /\ Tick)
  /\ WF_vars(CoolDown)

Spec == Init /\ [][Next]_vars
FairSpec == Spec /\ Fairness
-----------------------------------------------------------------------------
FeedType ==
  /\ current \in Nat
  /\ handled \in [Updates -> 0..2]
  /\ lost \subseteq Updates
  /\ waived \subseteq Updates
  /\ published \in 0..N

BoxType ==
  /\ pending \in [Keys -> Seq(Updates)]
  /\ \A k \in Keys : Len(pending[k]) <= MaxPerKey
  /\ recovering \in BOOLEAN /\ cooling \in BOOLEAN
  /\ fresh \in Slots \union {NoSlot}

ThreadType ==
  /\ mode \in [Threads -> {"idle", "apply", "applyOnly", "flush"}]
  /\ todo \in [Threads -> Updates \union {0}]
  /\ \A t \in Threads : todo[t] = 0 <=> mode[t] \in {"idle", "flush"}

JobType == job \in [Slots -> Job] /\ busy \in BOOLEAN

PhaseType ==
  /\ phase \in {"up", "halting", "down"} /\ refusing \in BOOLEAN
  /\ faults \in 0..MaxFaults /\ stops \in 0..MaxStops

(* Types, the limit of the buffer, and a thread has an update in hand      *)
(* exactly while it is about to apply one.                                 *)
TypeOK == FeedType /\ BoxType /\ ThreadType /\ JobType /\ PhaseType

(* No update is given to the handlers twice, nor again after the queue has *)
(* turned it away, whichever of the reader, the buffer and the recoveries  *)
(* bring it, and however often.                                            *)
HandledOnce == \A u \in Updates : handled[u] <= (IF u \in lost THEN 0 ELSE 1)

(* current never passes a positive update without dispatching it: its      *)
(* callback has been queued or turned away, or a thread that has moved     *)
(* current is about to apply it, or the server has said to go on without   *)
(* it.                                                                     *)
InFlight == {todo[t] : t \in Threads} \ {0}
NothingSkipped == Owed \subseteq InFlight

(* recovering blocks every further recovery, so as long as it is set there *)
(* is a job that will clear it, or a shutdown that is about to.            *)
RecoveryIsOwned ==
  recovering => \/ fresh # NoSlot /\ job[fresh].gap
                \/ phase = "halting"

(* Two differences are never fetched at once. *)
OneFetch ==
  \A r, s \in Slots :
    {job[r].st, job[s].st} \cap {"none", "queued", "claim", "finish"} = {} => r = s

(* Whatever order the reader, the timers and the recoveries come in, no    *)
(* update is dispatched twice, none is passed over, and the recovery that  *)
(* must close a gap exists, once.                                          *)
BoxSafe == HandledOnce /\ NothingSkipped /\ OneFetch /\ RecoveryIsOwned

(* The detailed box keeps the promise of UpdateFeed: every step is a step  *)
(* of the feed, so current never goes back, no update is dispatched twice, *)
(* and only what a step jumps over by the server's word is waived.         *)
IsFeed == FeedSafe

(* The liveness half of that promise: what current has passed is           *)
(* dispatched, also across shutdowns, failed requests and restarts.  Its   *)
(* callback is queued, or turned away by a stopped dispatcher or a full    *)
(* queue: the box promises no more, see the comment at updates.go:3033.    *)
PaysDebts == DebtsArePaid

(* process "enforces ordering", updates.go:553: an update that is handed   *)
(* over was preceded by every update before it that is handed over at all. *)
InOrder(u, v) == u < v /\ handled[u] = 0 /\ handled'[u] > 0 => handled[v] = 0
AppliedInOrder ==
  [][\A u \in Positive, v \in Positive : InOrder(u, v)]_vars
=============================================================================
