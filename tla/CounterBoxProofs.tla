-------------------------- MODULE CounterBoxProofs --------------------------
(***************************************************************************)
(* What CounterBox promises for every stream of updates, any number of     *)
(* recovery jobs and every limit of the buffer:                            *)
(*   TypeCorrect     the type invariant                                    *)
(*   OwnedAlways     recovering is never set without a job that clears it  *)
(*   OneFetchAlways  no two recoveries fetch at once                       *)
(*   FeedImplemented the box is a feed: UpdateFeed                         *)
(*   HandledOnceAlways, NothingSkippedAlways                               *)
(*   BoxSafeAlways   these four together                                   *)
(*                                                                         *)
(* HandledOnce is not inductive: it needs that an update which only the    *)
(* box can tell from its copy is behind current as soon as a thread has    *)
(* taken it (OnceInv).  NothingSkipped needs that a recovery that is       *)
(* handing over its answer has settled everything between the position it  *)
(* asked from and its goal, but for what is still left (JobInv).           *)
(***************************************************************************)
EXTENDS CounterBox, TLAPS

Settled(u) == handled[u] > 0 \/ u \in lost \/ u \in waived \/ u \in InFlight

(* What is buffered under a position ends there. *)
Keyed == \A k \in Keys : pending[k] \in Seq({u \in Updates : End[u] = k})

OnceInv ==
  \A u \in Updates \ Identified :
    /\ handled[u] > 0 \/ u \in lost => End[u] <= current
    /\ \A t \in Threads : todo[t] = u =>
         /\ End[u] <= current /\ handled[u] = 0 /\ u \notin lost
         /\ \A r \in Threads : todo[r] = u => r = t

Answered(s) ==
  /\ job[s].from > 0 /\ job[s].from <= current
  /\ \A u \in job[s].left : End[u] <= job[s].goal
  /\ \A u \in Positive : job[s].from < End[u] /\ End[u] <= job[s].goal => u \in job[s].left \/ Settled(u)

JobOK(s) ==
  /\ job[s].st \in {"claim", "ask", "asked"} => job[s].from <= current
  /\ job[s].st = "handing" => Answered(s)
  /\ job[s].st = "set" => job[s].goal <= current

JobInv == \A s \in Slots : JobOK(s)

SkipInv == \A u \in Positive : End[u] <= current => Settled(u)

Inv == TypeOK /\ Keyed /\ HandledOnce /\ OnceInv /\ JobInv /\ SkipInv
-----------------------------------------------------------------------------
LEMMA StreamFacts ==
  /\ Updates \subseteq Nat \ {0}
  /\ \A u \in Updates : End[u] \in Nat /\ Cnt[u] \in Nat /\ Start(u) \in Nat /\ Start(u) >= 1 /\ End[u] >= Start(u)
  /\ \A u \in Updates, v \in Updates : u < v => End[u] <= Start(v)
  /\ Keys \subseteq Nat
BY FeedAssumption DEF Updates, Start, Keys

LEMMA TypeInit == Init => TypeOK
<1> SUFFICES ASSUME Init PROVE TypeOK
  OBVIOUS
<1> USE StreamFacts, FeedAssumption, CounterBoxAssumption DEF Init
<1>1. FeedType
  BY 1 \in Updates DEF FeedInit, FeedType, Start, Updates
<1>2. BoxType
  <2>1. pending \in [Keys -> Seq(Updates)] /\ \A k \in Keys : Len(pending[k]) <= MaxPerKey
    <3>1. <<>> \in Seq(Updates) /\ Len(<<>>) = 0
      OBVIOUS
    <3>2. pending = [k \in Keys |-> <<>>]
      OBVIOUS
    <3> QED BY ONLY <3>1, <3>2, CounterBoxAssumption
  <2>2. recovering \in BOOLEAN /\ cooling \in BOOLEAN /\ fresh \in Slots \union {NoSlot}
    OBVIOUS
  <2> QED BY <2>1, <2>2 DEF BoxType
<1>3. ThreadType
  BY DEF ThreadType
<1>4. JobType
  BY DEF JobType, Job, FreeSlot
<1>5. PhaseType
  <2>1. phase \in {"up", "halting", "down"} /\ refusing \in BOOLEAN
    OBVIOUS
  <2>2. faults \in 0..MaxFaults /\ stops \in 0..MaxStops
    OBVIOUS
  <2> QED BY <2>1, <2>2 DEF PhaseType
<1> QED BY <1>1, <1>2, <1>3, <1>4, <1>5 DEF TypeOK

LEMMA PassType ==
  ASSUME TypeOK, NEW t \in Threads, NEW u \in Updates, Pass(t, u)
  PROVE  current' \in Nat /\ waived' \subseteq Updates /\ ThreadType'
BY StreamFacts DEF TypeOK, FeedType, ThreadType, Pass, GiveUpTo, Positive

LEMMA OpenType ==
  ASSUME TypeOK, NEW u \in Updates, OpenAt(u)
  PROVE  current' \in Nat /\ waived' \subseteq Updates
<1>1. Here(u) \in Nat
  BY StreamFacts DEF TypeOK, FeedType, Here
<1>2. GiveUpTo(Here(u)) \subseteq Updates
  BY DEF GiveUpTo, Positive
<1> QED BY <1>1, <1>2 DEF TypeOK, FeedType, OpenAt

LEMMA TriggerType ==
  ASSUME TypeOK, TriggerGap
  PROVE  /\ recovering' \in BOOLEAN /\ cooling' \in BOOLEAN
         /\ fresh' \in Slots \union {NoSlot}
         /\ job' \in [Slots -> Job]
<1>1. CASE recovering \/ cooling
  BY <1>1 DEF TypeOK, BoxType, JobType, TriggerGap
<1>2. CASE ~ (recovering \/ cooling)
  <2>1. [FreeSlot EXCEPT !.st = "queued", !.gap = TRUE] \in Job
    BY DEF FreeSlot, Job
  <2> QED BY <1>2, <2>1 DEF TypeOK, JobType, TriggerGap
<1> QED BY <1>1, <1>2

LEMMA DispatchType ==
  ASSUME TypeOK, NEW u \in Updates, Dispatch(u)
  PROVE  /\ handled' \in [Updates -> 0..2] /\ lost' \subseteq Updates
         /\ faults' \in 0..MaxFaults
<1>1. handled' \in [Updates -> 0..2] /\ lost' \subseteq Updates
  BY DEF TypeOK, FeedType, Dispatch
<1>2. faults' \in 0..MaxFaults
  BY CounterBoxAssumption DEF TypeOK, PhaseType, Dispatch, Fault
<1> QED BY <1>1, <1>2

LEMMA ForceType ==
  ASSUME TypeOK, NEW s \in Slots, NEW p \in Nat, ForceSet(s, p), todo' = todo, mode[s] = "idle",
         UNCHANGED <<recovering, cooling, fresh>>
  PROVE  current' \in Nat /\ BoxType' /\ ThreadType'
<1>1. CASE p < current
  BY <1>1 DEF TypeOK, FeedType, BoxType, ThreadType, ForceSet
<1>2. CASE ~ (p < current)
  <2>1. current' \in Nat
    BY <1>2 DEF ForceSet
  <2>2. BoxType'
    <3>1. pending' = [k \in Keys |-> IF k <= p THEN <<>> ELSE pending[k]]
      BY <1>2 DEF ForceSet
    <3>2. /\ pending \in [Keys -> Seq(Updates)] /\ \A k \in Keys : Len(pending[k]) <= MaxPerKey
      BY DEF TypeOK, BoxType
    <3>3. pending' \in [Keys -> Seq(Updates)] /\ \A k \in Keys : Len(pending'[k]) <= MaxPerKey
      BY ONLY <3>1, <3>2, CounterBoxAssumption
    <3> QED BY <3>3 DEF TypeOK, BoxType
  <2>3. ThreadType'
    BY <1>2 DEF TypeOK, ThreadType, ForceSet, Threads
  <2> QED BY <2>1, <2>2, <2>3
<1> QED BY <1>1, <1>2

LEMMA DropType ==
  ASSUME TypeOK, NEW K \in SUBSET Heads
  PROVE  /\ DropHeads(K) \in [Keys -> Seq(Updates)]
         /\ \A k \in Keys : Len(DropHeads(K)[k]) <= MaxPerKey
BY CounterBoxAssumption DEF TypeOK, BoxType, DropHeads, Heads

LEMMA BufferType ==
  ASSUME TypeOK, NEW u \in Updates, Buffer(u), ~ Refused(u)
  PROVE  /\ pending' \in [Keys -> Seq(Updates)]
         /\ \A k \in Keys : Len(pending'[k]) <= MaxPerKey
<1> DEFINE room == IF Total >= MaxPending THEN [k \in Keys |-> <<>>] ELSE pending
<1>1. /\ room \in [Keys -> Seq(Updates)]
      /\ \A k \in Keys : Len(room[k]) <= MaxPerKey
      /\ Len(room[End[u]]) < MaxPerKey
  <2>1. End[u] \in Keys
    BY DEF Keys
  <2>2. Len(pending[End[u]]) \in Nat /\ Len(pending[End[u]]) < MaxPerKey
    BY <2>1, CounterBoxAssumption DEF TypeOK, BoxType, Refused
  <2>3. CASE Total >= MaxPending
    BY <2>1, <2>3, CounterBoxAssumption
  <2>4. CASE ~ (Total >= MaxPending)
    BY <2>2, <2>4 DEF TypeOK, BoxType
  <2> QED BY <2>3, <2>4
<1>2. /\ <<u>> \o room[End[u]] \in Seq(Updates) /\ Len(<<u>> \o room[End[u]]) <= MaxPerKey
      /\ Append(room[End[u]], u) \in Seq(Updates) /\ Len(Append(room[End[u]], u)) <= MaxPerKey
  <2> HIDE DEF room
  <2> QED BY <1>1, CounterBoxAssumption DEF Keys
<1>3. pending' = [room EXCEPT ![End[u]] = IF Cnt[u] > 0 THEN <<u>> \o @ ELSE Append(@, u)]
  BY DEF Buffer
<1> HIDE DEF room
<1> QED BY <1>1, <1>2, <1>3

LEMMA ThreadNames == Reader \in Threads /\ Slots \subseteq Threads
BY DEF Threads

LEMMA TodoIsUpdate ==
  ASSUME TypeOK, NEW t \in Threads, mode[t] \in {"apply", "applyOnly"}
  PROVE  todo[t] \in Updates
BY DEF TypeOK, ThreadType

LEMMA HeadFacts ==
  ASSUME TypeOK
  PROVE  /\ ReadyKeys \subseteq Heads /\ StaleKeys \subseteq Heads /\ Heads \subseteq Keys
         /\ \A k \in Heads : Head(pending[k]) \in Updates /\ k \in Nat
<1>1. ReadyKeys \subseteq Heads /\ StaleKeys \subseteq Heads /\ Heads \subseteq Keys
  BY DEF ReadyKeys, StaleKeys, Heads
<1>2. ASSUME NEW k \in Heads PROVE Head(pending[k]) \in Updates
  BY DEF TypeOK, BoxType, Heads
<1> QED BY <1>1, <1>2, StreamFacts

LEMMA PublishedExist == TypeOK => 1..published \subseteq Updates
BY FeedAssumption DEF TypeOK, FeedType, Updates

(* What a step leaves alone keeps its type. *)
LEMMA Frame ==
  ASSUME TypeOK
  PROVE  /\ UNCHANGED <<current, handled, lost, waived, published>> => FeedType'
         /\ UNCHANGED <<pending, recovering, cooling, fresh>> => BoxType'
         /\ UNCHANGED <<mode, todo>> => ThreadType'
         /\ UNCHANGED <<job, busy>> => JobType'
         /\ UNCHANGED <<phase, refusing, faults, stops>> => PhaseType'
<1>1. UNCHANGED <<current, handled, lost, waived, published>> => FeedType'
  BY DEF TypeOK, FeedType
<1>2. UNCHANGED <<pending, recovering, cooling, fresh>> => BoxType'
  BY DEF TypeOK, BoxType
<1>3. UNCHANGED <<mode, todo>> => ThreadType'
  BY DEF TypeOK, ThreadType
<1>4. UNCHANGED <<job, busy>> => JobType'
  BY DEF TypeOK, JobType
<1>5. UNCHANGED <<phase, refusing, faults, stops>> => PhaseType'
  BY DEF TypeOK, PhaseType
<1> QED BY <1>1, <1>2, <1>3, <1>4, <1>5

(* A job moves on. *)
LEMMA JobTyped ==
  ASSUME TypeOK, NEW s \in Slots
  PROVE  job[s] \in Job
BY DEF TypeOK, JobType

LEMMA SetJob ==
  ASSUME TypeOK, NEW s \in Slots, NEW r \in Job
  PROVE  [job EXCEPT ![s] = r] \in [Slots -> Job]
BY DEF TypeOK, JobType

LEMMA GotoType ==
  ASSUME TypeOK, NEW s \in Slots, NEW st \in {"queued", "claim", "ask", "asked", "handing", "set", "state", "release", "finish"},
         Goto(s, st)
  PROVE  job' \in [Slots -> Job]
BY DEF TypeOK, JobType, Job, Goto

(* A difference that is too long. *)
LEMMA JumpType ==
  ASSUME TypeOK, NEW s \in Slots, NEW p \in Nat, JumpTo(s, p), mode[s] = "idle",
         NEW st \in {"state", "release"}, Goto(s, st)
  PROVE  TypeOK'
<1>1. current' \in Nat /\ BoxType' /\ ThreadType'
  BY ForceType DEF JumpTo
<1>2. FeedType'
  BY <1>1 DEF JumpTo, TypeOK, FeedType, GiveUpTo, Positive
<1>3. JobType'
  BY GotoType DEF JumpTo, TypeOK, JobType
<1> QED BY <1>1, <1>2, <1>3, Frame DEF TypeOK, JumpTo, phaseVars

(* TypeOK is inductive: one step per action, and under it the parts that   *)
(* the action disturbs.                                                    *)
LEMMA TypeStep ==
  ASSUME TypeOK, [Next]_vars
  PROVE  TypeOK'
<1>1. ASSUME NEW u \in Updates, ReceiveNext(u) PROVE TypeOK'
  <2>1. FeedType'
    BY <1>1, PassType, ThreadNames DEF TypeOK, FeedType, ReceiveNext, feedVars, boxVars, threadVars, jobVars, phaseVars
  <2>2. ThreadType'
    BY <1>1, PassType, ThreadNames DEF TypeOK, ThreadType, ReceiveNext, feedVars, boxVars, threadVars, jobVars, phaseVars
  <2> QED BY <1>1, <2>1, <2>2, Frame DEF TypeOK, ReceiveNext, feedVars, boxVars, threadVars, jobVars, phaseVars
<1>2. ASSUME NEW u \in Updates, ReceiveUncounted(u) PROVE TypeOK'
  <2>1. FeedType'
    BY <1>2, OpenType DEF TypeOK, FeedType, ReceiveUncounted, Arrives, feedVars, boxVars, threadVars, jobVars, phaseVars
  <2>2. ThreadType'
    BY <1>2, ThreadNames, StreamFacts DEF TypeOK, ThreadType, ReceiveUncounted, Arrives, feedVars, boxVars, threadVars, jobVars, phaseVars
  <2> QED BY <1>2, <2>1, <2>2, Frame DEF TypeOK, ReceiveUncounted, Arrives, feedVars, boxVars, threadVars, jobVars, phaseVars
<1>3. ASSUME NEW u \in Updates, ReceiveEarly(u) PROVE TypeOK'
  <2>1. FeedType'
    BY <1>3, OpenType DEF TypeOK, FeedType, ReceiveEarly, feedVars, boxVars, threadVars, jobVars, phaseVars
  <2>2. BoxType'
    BY <1>3, BufferType, TriggerType DEF TypeOK, BoxType, ReceiveEarly, feedVars, boxVars, threadVars, jobVars, phaseVars
  <2>3. JobType'
    BY <1>3, TriggerType DEF TypeOK, JobType, ReceiveEarly, feedVars, boxVars, threadVars, jobVars, phaseVars
  <2> QED BY <1>3, <2>1, <2>2, <2>3, Frame DEF TypeOK, ReceiveEarly, feedVars, boxVars, threadVars, jobVars, phaseVars
<1>4. ASSUME NEW t \in Threads, Apply(t) PROVE TypeOK'
  <2>1. FeedType'
    BY <1>4, DispatchType, TodoIsUpdate DEF TypeOK, FeedType, Apply, feedVars, boxVars, threadVars, jobVars, phaseVars
  <2>2. ThreadType'
    BY <1>4 DEF TypeOK, ThreadType, Apply, feedVars, boxVars, threadVars, jobVars, phaseVars
  <2>3. PhaseType'
    BY <1>4, DispatchType, TodoIsUpdate DEF TypeOK, PhaseType, Apply
  <2> QED BY <1>4, <2>1, <2>2, <2>3, Frame DEF TypeOK, Apply, feedVars, boxVars, threadVars, jobVars, phaseVars
<1>5. ASSUME NEW t \in Threads, FlushNext(t) PROVE TypeOK'
  <2>1. PICK k \in ReadyKeys, met \in SUBSET StaleKeys :
          /\ current' = k
          /\ pending' = DropHeads(met \union {k})
          /\ todo' = [todo EXCEPT ![t] = Head(pending[k])]
          /\ mode' = [mode EXCEPT ![t] = "apply"]
    BY <1>5 DEF FlushNext
  <2>2. k \in Nat /\ Head(pending[k]) \in Updates /\ met \union {k} \in SUBSET Heads
    BY HeadFacts
  <2>3. FeedType'
    BY <1>5, <2>1, <2>2 DEF TypeOK, FeedType, FlushNext
  <2>4. BoxType'
    BY <1>5, <2>1, <2>2, DropType DEF TypeOK, BoxType, FlushNext
  <2>5. ThreadType'
    BY <2>1, <2>2, StreamFacts DEF TypeOK, ThreadType
  <2> QED BY <1>5, <2>3, <2>4, <2>5, Frame DEF TypeOK, FlushNext, jobVars, phaseVars
<1>6. ASSUME NEW t \in Threads, FlushEnd(t) PROVE TypeOK'
  <2>1. StaleKeys \in SUBSET Heads
    BY HeadFacts
  <2>2. BoxType'
    BY <1>6, <2>1, DropType DEF TypeOK, BoxType, FlushEnd
  <2>3. ThreadType'
    BY <1>6 DEF TypeOK, ThreadType, FlushEnd
  <2> QED BY <1>6, <2>2, <2>3, Frame DEF TypeOK, FlushEnd, feedVars, jobVars, phaseVars
<1>7. ASSUME NEW s \in Slots, StartJob(s) PROVE TypeOK'
  <2> DEFINE over == job[s].gap /\ (fresh # s \/ Empty)
  <2>1. BoxType'
    BY <1>7 DEF TypeOK, BoxType, StartJob
  <2>2. CASE over
    <3>1. job' = [job EXCEPT ![s] = FreeSlot]
      BY <1>7, <2>2 DEF StartJob
    <3> QED BY <1>7, <2>1, <3>1, Frame DEF StartJob, TypeOK, JobType, Job, FreeSlot, feedVars, threadVars, phaseVars
  <2>3. CASE ~ over
    <3>1. job' = [job EXCEPT ![s] = [@ EXCEPT !.st = "claim", !.from = current]]
      BY <1>7, <2>3 DEF StartJob
    <3>2. current \in Nat
      BY DEF TypeOK, FeedType
    <3> DEFINE r == [job[s] EXCEPT !.st = "claim", !.from = current]
    <3>3. job' = [job EXCEPT ![s] = r] /\ job[s] \in Job
      BY <3>1, JobTyped
    <3>4. r \in Job
      BY <3>2, <3>3 DEF Job
    <3> HIDE DEF r
    <3>5. job' \in [Slots -> Job]
      BY <3>3, <3>4, SetJob
    <3> QED BY <1>7, <2>1, <3>5, Frame DEF StartJob, TypeOK, JobType, feedVars, threadVars, phaseVars
  <2> QED BY <2>2, <2>3
<1>8. ASSUME NEW s \in Slots, Claim(s) PROVE TypeOK'
  <2>1. CASE busy
    <3>1. Goto(s, "finish") /\ UNCHANGED busy
      BY <1>8, <2>1 DEF Claim
    <3> QED BY <1>8, <3>1, GotoType, Frame DEF TypeOK, JobType, Claim, feedVars, boxVars, threadVars, phaseVars
  <2>2. CASE ~ busy
    <3>1. job' = [job EXCEPT ![s] = [@ EXCEPT !.st = "ask", !.cut = (phase # "up")]] /\ busy' = TRUE
      BY <1>8, <2>2 DEF Claim
    <3> DEFINE cut == phase # "up"
               r == [job[s] EXCEPT !.st = "ask", !.cut = cut]
    <3>2. job' = [job EXCEPT ![s] = r] /\ cut \in BOOLEAN /\ job[s] \in Job
      BY <3>1, JobTyped
    <3> HIDE DEF cut
    <3>3. r \in Job
      BY <3>2 DEF Job
    <3> HIDE DEF r
    <3>4. JobType'
      BY <3>1, <3>2, <3>3, SetJob DEF JobType
    <3> QED BY <1>8, <3>4, Frame DEF TypeOK, Claim, feedVars, boxVars, threadVars, phaseVars
  <2> QED BY <2>1, <2>2
<1>9. ASSUME NEW s \in Slots, Ask(s) PROVE TypeOK'
  <2>1. JobType'
    BY <1>9, GotoType DEF TypeOK, JobType, Ask, feedVars, boxVars, threadVars, jobVars, phaseVars
  <2> QED BY <1>9, <2>1, Frame DEF TypeOK, Ask, feedVars, boxVars, threadVars, jobVars, phaseVars
<1>10. ASSUME NEW s \in Slots, AskFails(s) PROVE TypeOK'
  <2>1. JobType'
    BY <1>10, GotoType DEF TypeOK, JobType, AskFails, feedVars, boxVars, threadVars, jobVars, phaseVars
  <2>2. PhaseType'
    BY <1>10, CounterBoxAssumption DEF TypeOK, PhaseType, AskFails, Fault, feedVars, boxVars, threadVars, jobVars, phaseVars
  <2> QED BY <1>10, <2>1, <2>2, Frame DEF TypeOK, AskFails, feedVars, boxVars, threadVars, jobVars, phaseVars
<1>11. ASSUME NEW s \in Slots, AnswerEmpty(s) PROVE TypeOK'
  <2>1. JobType'
    BY <1>11, GotoType DEF TypeOK, JobType, AnswerEmpty, feedVars, boxVars, threadVars, jobVars, phaseVars
  <2> QED BY <1>11, <2>1, Frame DEF TypeOK, AnswerEmpty, feedVars, boxVars, threadVars, jobVars, phaseVars
<1>12. ASSUME NEW s \in Slots, AnswerDifference(s) PROVE TypeOK'
  <2>1. PICK v \in 1..published, complete \in BOOLEAN, uncounted \in BOOLEAN :
          job' = [job EXCEPT ![s] = [@ EXCEPT !.st = "handing", !.goal = End[v], !.last = complete,
                                             !.left = Difference(job[s].from, End[v], uncounted)]]
    BY <1>12 DEF AnswerDifference
  <2>2. End[v] \in Nat /\ Difference(job[s].from, End[v], uncounted) \subseteq Updates
    BY PublishedExist, StreamFacts DEF Difference
  <2> DEFINE left == Difference(job[s].from, End[v], uncounted)
             r == [job[s] EXCEPT !.st = "handing", !.goal = End[v], !.last = complete, !.left = left]
  <2>3. job' = [job EXCEPT ![s] = r] /\ left \subseteq Updates /\ job[s] \in Job
    BY <2>1, <2>2, JobTyped
  <2> HIDE DEF left
  <2>4. r \in Job
    BY <2>2, <2>3 DEF Job
  <2> HIDE DEF r
  <2>5. job' \in [Slots -> Job]
    BY <2>3, <2>4, SetJob
  <2> QED BY <1>12, <2>5, Frame DEF TypeOK, JobType, AnswerDifference, feedVars, boxVars, threadVars, phaseVars
<1>13. ASSUME NEW s \in Slots, AnswerTooLong(s) PROVE TypeOK'
  <2>1. PICK v \in 1..published : JumpTo(s, End[v])
    BY <1>13 DEF AnswerTooLong
  <2>2. End[v] \in Nat
    BY StreamFacts, FeedAssumption DEF TypeOK, FeedType, Updates
  <2>3. mode[s] = "idle" /\ Goto(s, "state")
    BY <1>13 DEF AnswerTooLong, At
  <2> QED BY <2>1, <2>2, <2>3, JumpType
<1>14. ASSUME NEW s \in Slots, AnswerState(s) PROVE TypeOK'
  <2>1. JumpTo(s, Top) /\ mode[s] = "idle" /\ Goto(s, "release")
    BY <1>14 DEF AnswerState, At
  <2>2. Top \in Nat
    BY StreamFacts, FeedAssumption DEF Top, TypeOK, FeedType, Updates
  <2> QED BY <2>1, <2>2, JumpType
<1>15. ASSUME NEW s \in Slots, NEW u \in Updates, HandMessage(s, u) PROVE TypeOK'
  <2>1. FeedType'
    BY <1>15, DispatchType DEF TypeOK, FeedType, HandMessage, feedVars, boxVars, threadVars, jobVars, phaseVars
  <2>2. JobType'
    BY <1>15 DEF TypeOK, JobType, HandMessage, Job, FreeSlot, Goto, FeedType, feedVars, boxVars, threadVars, jobVars, phaseVars
  <2>3. PhaseType'
    BY <1>15, DispatchType DEF TypeOK, PhaseType, HandMessage
  <2> QED BY <1>15, <2>1, <2>2, <2>3, Frame DEF TypeOK, HandMessage, feedVars, boxVars, threadVars, jobVars, phaseVars
<1>16. ASSUME NEW s \in Slots, SetGoal(s) PROVE TypeOK'
  <2>1. job[s].goal \in Nat
    BY DEF TypeOK, JobType, Job
  <2>2. current' \in Nat /\ BoxType' /\ ThreadType'
    BY <1>16, <2>1, ForceType DEF SetGoal, At
  <2>3. FeedType'
    BY <1>16, <2>2 DEF SetGoal, TypeOK, FeedType
  <2>4. JobType'
    BY <1>16, GotoType DEF SetGoal, TypeOK, JobType
  <2> QED BY <1>16, <2>2, <2>3, <2>4, Frame DEF TypeOK, SetGoal, phaseVars
<1>17. ASSUME NEW s \in Slots, NEW u \in Updates, Recover(s, u) PROVE TypeOK'
  <2>1. FeedType'
    BY <1>17, PassType, ThreadNames DEF TypeOK, FeedType, Recover, HandsOver, feedVars, boxVars, threadVars, jobVars, phaseVars
  <2>2. ThreadType'
    BY <1>17, PassType, ThreadNames DEF TypeOK, ThreadType, Recover, HandsOver, feedVars, boxVars, threadVars, jobVars, phaseVars
  <2>3. JobType'
    BY <1>17 DEF TypeOK, JobType, Recover, HandsOver, Job, FreeSlot, Goto, FeedType, feedVars, boxVars, threadVars, jobVars, phaseVars
  <2> QED BY <1>17, <2>1, <2>2, <2>3, Frame DEF TypeOK, Recover, HandsOver, feedVars, boxVars, threadVars, jobVars, phaseVars
<1>18. ASSUME NEW s \in Slots, NEW u \in Updates, RecoverUncounted(s, u) PROVE TypeOK'
  <2>1. ThreadType'
    BY <1>18, ThreadNames, StreamFacts DEF TypeOK, ThreadType, RecoverUncounted, HandsOver, At, feedVars, boxVars, threadVars, jobVars, phaseVars
  <2>2. JobType'
    BY <1>18 DEF TypeOK, JobType, RecoverUncounted, HandsOver, At, Job, FreeSlot, Goto, FeedType, feedVars, boxVars, threadVars, jobVars, phaseVars
  <2> QED BY <1>18, <2>1, <2>2, Frame DEF TypeOK, RecoverUncounted, HandsOver, At, feedVars, boxVars, threadVars, jobVars, phaseVars
<1>19. ASSUME NEW s \in Slots, NEW u \in Updates, RecoverKnown(s, u) PROVE TypeOK'
  <2>1. JobType'
    BY <1>19 DEF TypeOK, JobType, RecoverKnown, HandsOver, Job, FreeSlot, Goto, FeedType, feedVars, boxVars, threadVars, jobVars, phaseVars
  <2> QED BY <1>19, <2>1, Frame DEF TypeOK, RecoverKnown, HandsOver, feedVars, boxVars, threadVars, jobVars, phaseVars
<1>20. ASSUME NEW s \in Slots, AfterSet(s) PROVE TypeOK'
  <2>1. CASE job[s].last
    <3>1. Goto(s, "release")
      BY <1>20, <2>1 DEF AfterSet
    <3> QED BY <1>20, <3>1, GotoType, Frame DEF TypeOK, JobType, AfterSet, feedVars, boxVars, threadVars, phaseVars
  <2>2. CASE ~ job[s].last
    <3>1. job' = [job EXCEPT ![s] = [@ EXCEPT !.st = "ask", !.from = job[s].goal]]
      BY <1>20, <2>2 DEF AfterSet
    <3>2. [job[s] EXCEPT !.st = "ask", !.from = job[s].goal] \in Job
      BY JobTyped DEF Job
    <3>3. busy' = busy
      BY <1>20 DEF AfterSet
    <3>4. JobType'
      BY <3>1, <3>2, <3>3, SetJob DEF TypeOK, JobType
    <3> QED BY <1>20, <3>4, Frame DEF TypeOK, AfterSet, feedVars, boxVars, threadVars, phaseVars
  <2> QED BY <2>1, <2>2
<1>21. ASSUME NEW s \in Slots, Release(s) PROVE TypeOK'
  <2>1. JobType'
    BY <1>21, GotoType DEF TypeOK, JobType, Release, feedVars, boxVars, threadVars, jobVars, phaseVars
  <2> QED BY <1>21, <2>1, Frame DEF TypeOK, Release, feedVars, boxVars, threadVars, jobVars, phaseVars
<1>22. ASSUME NEW s \in Slots, Finish(s) PROVE TypeOK'
  <2>1. BoxType'
    BY <1>22 DEF TypeOK, BoxType, Finish, feedVars, boxVars, threadVars, jobVars, phaseVars
  <2>2. JobType'
    BY <1>22 DEF TypeOK, JobType, Finish, Job, FreeSlot, Goto, FeedType, feedVars, boxVars, threadVars, jobVars, phaseVars
  <2> QED BY <1>22, <2>1, <2>2, Frame DEF TypeOK, Finish, feedVars, boxVars, threadVars, jobVars, phaseVars
<1>23. ASSUME RequestDifference PROVE TypeOK'
  <2>1. PICK s \in Slots : job' = [job EXCEPT ![s] = [FreeSlot EXCEPT !.st = "queued"]]
    BY <1>23 DEF RequestDifference
  <2>2. [FreeSlot EXCEPT !.st = "queued"] \in Job
    BY DEF FreeSlot, Job
  <2>3. JobType'
    BY <1>23, <2>1, <2>2 DEF TypeOK, JobType, RequestDifference
  <2> QED BY <1>23, <2>3, Frame DEF TypeOK, RequestDifference, feedVars, boxVars, threadVars, phaseVars
<1>24. ASSUME Tick PROVE TypeOK'
  <2>1. BoxType'
    BY <1>24, TriggerType DEF TypeOK, BoxType, Tick, feedVars, boxVars, threadVars, jobVars, phaseVars
  <2>2. JobType'
    BY <1>24, TriggerType DEF TypeOK, JobType, Tick, feedVars, boxVars, threadVars, jobVars, phaseVars
  <2> QED BY <1>24, <2>1, <2>2, Frame DEF TypeOK, Tick, feedVars, boxVars, threadVars, jobVars, phaseVars
<1>25. ASSUME CoolDown PROVE TypeOK'
  <2>1. BoxType'
    BY <1>25 DEF TypeOK, BoxType, CoolDown, feedVars, boxVars, threadVars, jobVars, phaseVars
  <2> QED BY <1>25, <2>1, Frame DEF TypeOK, CoolDown, feedVars, boxVars, threadVars, jobVars, phaseVars
<1>26. ASSUME Publish PROVE TypeOK'
  <2>1. published' \in 0..N
    BY <1>26, FeedAssumption DEF Publish, TypeOK, FeedType
  <2>2. FeedType'
    BY <1>26, <2>1 DEF TypeOK, FeedType, Publish, feedVars
  <2> QED BY <1>26, <2>2, Frame DEF TypeOK, Publish, boxVars, threadVars, jobVars, phaseVars
<1>27. ASSUME NEW discard \in BOOLEAN, Shutdown(discard) PROVE TypeOK'
  <2>1. JobType'
    <3>1. FreeSlot \in Job
      BY DEF FreeSlot, Job
    <3>2. ASSUME NEW s \in Slots, NEW cut \in BOOLEAN
          PROVE  [job[s] EXCEPT !.cut = cut] \in Job
      BY JobTyped DEF Job
    <3>3. \A s \in Slots : (job[s].cut \/ job[s].st \notin {"none", "queued", "claim"}) \in BOOLEAN
      OBVIOUS
    <3>4. busy' = busy
      BY <1>27 DEF Shutdown
    <3> QED BY <1>27, <3>1, <3>2, <3>3, <3>4 DEF TypeOK, JobType, Shutdown
  <2>2. PhaseType'
    BY <1>27, CounterBoxAssumption DEF TypeOK, PhaseType, Shutdown, feedVars, boxVars, threadVars, jobVars, phaseVars
  <2> QED BY <1>27, <2>1, <2>2, Frame DEF TypeOK, Shutdown, feedVars, boxVars, threadVars, jobVars, phaseVars
<1>28. ASSUME Invalidate PROVE TypeOK'
  <2>1. BoxType'
    BY <1>28 DEF TypeOK, BoxType, Invalidate, feedVars, boxVars, threadVars, jobVars, phaseVars
  <2>2. PhaseType'
    BY <1>28 DEF TypeOK, PhaseType, Invalidate, feedVars, boxVars, threadVars, jobVars, phaseVars
  <2> QED BY <1>28, <2>1, <2>2, Frame DEF TypeOK, Invalidate, feedVars, boxVars, threadVars, jobVars, phaseVars
<1>29. ASSUME ResetBackground PROVE TypeOK'
  <2>1. PhaseType'
    BY <1>29 DEF TypeOK, PhaseType, ResetBackground, feedVars, boxVars, threadVars, jobVars, phaseVars
  <2> QED BY <1>29, <2>1, Frame DEF TypeOK, ResetBackground, feedVars, boxVars, threadVars, jobVars, phaseVars
<1>30. CASE UNCHANGED vars
  BY <1>30, Frame DEF TypeOK, vars, feedVars, boxVars, threadVars, jobVars, phaseVars
<1> QED
  BY ONLY [Next]_vars, <1>1, <1>2, <1>3, <1>4, <1>5, <1>6, <1>7, <1>8, <1>9, <1>10, <1>11, <1>12, <1>13, <1>14, <1>15, <1>16, <1>17, <1>18, <1>19, <1>20, <1>21, <1>22, <1>23, <1>24, <1>25, <1>26, <1>27, <1>28, <1>29, <1>30
     DEF Next, ReceiveStep, BoxStep, JobStep, AnswerStep, HandStep

(* The types of all variables, and the limit of the buffer: no thread ever *)
(* applies without an update in hand.                                      *)
THEOREM TypeCorrect == Spec => []TypeOK
<1>1. TypeOK /\ [Next]_vars => TypeOK'
  BY TypeStep
<1> QED BY <1>1, TypeInit, PTL DEF Spec

-----------------------------------------------------------------------------
(* Three kinds of steps as the feed sees them.  In a Move current may      *)
(* advance, what it passes is settled, and a thread may take an update; in *)
(* a Give a thread hands over what it has taken; in a Message a recovery   *)
(* hands over a message that did not pass the box.                         *)

Progress ==
  /\ current' \in Nat /\ current <= current'
  /\ waived \subseteq waived'
  /\ waived' \subseteq waived \union {u \in Updates : current < End[u] /\ End[u] <= current'}
  /\ \A u \in Positive : current < End[u] /\ End[u] <= current' => Settled(u)'

Take(t, u) ==
  /\ todo[t] = 0 /\ todo' = [todo EXCEPT ![t] = u]
  /\ u \in Identified \/ (current < End[u] /\ End[u] = current')

Move ==
  /\ Progress
  /\ UNCHANGED <<handled, lost>>
  /\ todo' = todo \/ \E t \in Threads, u \in Updates : Take(t, u)

Give(t) ==
  /\ todo[t] \in Updates /\ Dispatch(todo[t])
  /\ todo' = [todo EXCEPT ![t] = 0]
  /\ UNCHANGED <<current, waived>>

Message(u) == u \in Messages /\ Dispatch(u) /\ UNCHANGED <<current, waived, todo>>

Kinds == Move \/ (\E t \in Threads : Give(t)) \/ (\E u \in Updates : Message(u))

LEMMA MessagesAreUpdates == Messages \subseteq Identified /\ Identified \subseteq Updates
BY CounterBoxAssumption DEF Identified, Positive

LEMMA DispatchFacts ==
  ASSUME TypeOK, NEW u \in Updates, Dispatch(u)
  PROVE  /\ handled'[u] > 0 \/ u \in lost'
         /\ lost \subseteq lost' /\ \A v \in Updates : handled[v] > 0 => handled'[v] > 0
         /\ \A v \in Updates : v # u => handled'[v] = handled[v] /\ (v \in lost' => v \in lost)
         /\ u \in Identified \/ ~ Dispatched(u) =>
              \/ UNCHANGED <<handled, lost>>
              \/ ~ Dispatched(u) /\ handled' = [handled EXCEPT ![u] = 1] /\ lost' = lost
              \/ ~ Dispatched(u) /\ lost' = lost \union {u} /\ handled' = handled
<1>0. handled \in [Updates -> 0..2]
  BY DEF TypeOK, FeedType
<1>1. CASE Dispatched(u) /\ UNCHANGED <<handled, lost>>
  BY <1>0, <1>1 DEF Dispatched
<1>2. CASE /\ ~ (u \in Identified /\ Dispatched(u))
           /\ handled' = [handled EXCEPT ![u] = IF @ < 2 THEN @ + 1 ELSE 2] /\ lost' = lost
  <2>1. /\ handled'[u] > 0 /\ \A v \in Updates : handled[v] > 0 => handled'[v] > 0
        /\ \A v \in Updates : v # u => handled'[v] = handled[v]
    BY <1>0, <1>2
  <2>2. ~ Dispatched(u) => handled' = [handled EXCEPT ![u] = 1]
    <3>1. ~ Dispatched(u) => handled[u] = 0
      BY <1>0 DEF Dispatched
    <3>2. handled[u] = 0 => handled' = [handled EXCEPT ![u] = 1]
      BY <1>2
    <3> QED BY <3>1, <3>2
  <2> QED BY <1>2, <2>1, <2>2
<1>3. CASE ~ (u \in Identified /\ Dispatched(u)) /\ lost' = lost \union {u} /\ handled' = handled
  BY <1>3
<1> QED BY <1>1, <1>2, <1>3 DEF Dispatch

(* What is settled stays so. *)
LEMMA SettledStays ==
  ASSUME TypeOK, Kinds, NEW u \in Updates, Settled(u)
  PROVE  Settled(u)'
<1>1. CASE Move
  <2>1. CASE handled[u] > 0 \/ u \in lost \/ u \in waived
    BY <1>1, <2>1 DEF Move, Progress, Settled
  <2>2. CASE u \in InFlight
    <3>1. PICK t \in Threads : todo[t] = u
      BY <2>2 DEF InFlight
    <3>2. todo'[t] = u
      BY <1>1, <3>1, StreamFacts DEF Move, Take, TypeOK, ThreadType
    <3> QED BY <3>1, <3>2, StreamFacts DEF Settled, InFlight
  <2> QED BY <2>1, <2>2 DEF Settled
<1>2. ASSUME NEW t \in Threads, Give(t) PROVE Settled(u)'
  <2>1. CASE handled[u] > 0 \/ u \in lost \/ u = todo[t]
    BY <1>2, <2>1, DispatchFacts DEF Give, Settled
  <2>2. CASE u \in waived
    BY <1>2, <2>2 DEF Give, Settled
  <2>3. CASE u \in InFlight /\ u # todo[t]
    <3>1. PICK r \in Threads : todo[r] = u
      BY <2>3 DEF InFlight
    <3>2. todo'[r] = u
      BY <1>2, <2>3, <3>1 DEF Give, TypeOK, ThreadType
    <3> QED BY <3>1, <3>2, StreamFacts DEF Settled, InFlight
  <2> QED BY <2>1, <2>2, <2>3 DEF Settled
<1>3. ASSUME NEW v \in Updates, Message(v) PROVE Settled(u)'
  <2>1. (handled[u] > 0 => handled'[u] > 0) /\ (u \in lost => u \in lost')
    BY <1>3, DispatchFacts DEF Message
  <2> QED BY <1>3, <2>1 DEF Message, Settled, InFlight
<1> QED BY <1>1, <1>2, <1>3 DEF Kinds

LEMMA SkipKinds ==
  ASSUME TypeOK, SkipInv, Kinds
  PROVE  SkipInv'
<1> SUFFICES ASSUME NEW u \in Positive, End[u] <= current' PROVE Settled(u)'
  BY DEF SkipInv
<1>1. u \in Updates /\ End[u] \in Nat /\ current \in Nat
  BY StreamFacts DEF Positive, TypeOK, FeedType
<1>2. CASE End[u] <= current
  BY <1>1, <1>2, SettledStays DEF SkipInv
<1>3. CASE ~ (End[u] <= current)
  BY <1>1, <1>3 DEF Kinds, Give, Message, Move, Progress
<1> QED BY <1>2, <1>3

(* Every kind of step is a step of the feed. *)
LEMMA FeedKinds ==
  ASSUME TypeOK, OnceInv, Kinds
  PROVE  [FeedNext]_feedVars
<1>1. CASE Move
  <2>1. CASE current' = current
    <3>1. {u \in Updates : current < End[u] /\ End[u] <= current'} = {}
      <4>1. \A u \in Updates : ~ (current < End[u] /\ End[u] <= current)
        BY StreamFacts DEF TypeOK, FeedType
      <4> QED BY <2>1, <4>1
    <3>2. waived' = waived
      BY <1>1, <3>1 DEF Move, Progress
    <3> QED BY <1>1, <2>1, <3>2 DEF Move, feedVars
  <2>2. CASE current' # current
    <3>1. current' > current
      BY <1>1, <2>2 DEF Move, Progress, TypeOK, FeedType
    <3>2. Waive
      BY <1>1, <3>1 DEF Waive, Move, Progress
    <3> QED BY <3>2 DEF FeedNext
  <2> QED BY <2>1, <2>2
<1>2. ASSUME NEW u \in Updates, Dispatch(u), UNCHANGED <<current, waived>>,
             u \in Identified \/ ~ Dispatched(u)
      PROVE  [FeedNext]_feedVars
  <2>1. CASE UNCHANGED <<handled, lost>>
    BY <1>2, <2>1 DEF feedVars
  <2>2. CASE ~ Dispatched(u) /\ handled' = [handled EXCEPT ![u] = 1] /\ lost' = lost
    BY <1>2, <2>2 DEF FeedNext, Hand
  <2>3. CASE ~ Dispatched(u) /\ lost' = lost \union {u} /\ handled' = handled
    BY <1>2, <2>3 DEF FeedNext, Lose
  <2> QED BY <1>2, <2>1, <2>2, <2>3, DispatchFacts
<1>3. ASSUME NEW t \in Threads, Give(t) PROVE [FeedNext]_feedVars
  <2>1. todo[t] \in Identified \/ ~ Dispatched(todo[t])
    <3>1. ASSUME todo[t] \in Updates \ Identified PROVE handled[todo[t]] = 0 /\ todo[t] \notin lost
      BY <3>1 DEF OnceInv
    <3> QED BY <1>3, <3>1 DEF Give, Dispatched
  <2> QED BY <1>2, <1>3, <2>1 DEF Give
<1>4. ASSUME NEW u \in Updates, Message(u) PROVE [FeedNext]_feedVars
  BY <1>2, <1>4, MessagesAreUpdates DEF Message
<1> QED BY <1>1, <1>3, <1>4 DEF Kinds

LEMMA OnceKinds ==
  ASSUME TypeOK, OnceInv, Kinds
  PROVE  OnceInv'
<1> SUFFICES ASSUME NEW u \in Updates \ Identified
             PROVE  /\ handled'[u] > 0 \/ u \in lost' => End[u] <= current'
                    /\ \A t \in Threads : todo'[t] = u =>
                         /\ End[u] <= current' /\ handled'[u] = 0 /\ u \notin lost'
                         /\ \A r \in Threads : todo'[r] = u => r = t
  BY DEF OnceInv
<1>0. End[u] \in Nat /\ current \in Nat /\ u # 0 /\ u \notin Messages
  BY StreamFacts, MessagesAreUpdates DEF TypeOK, FeedType
<1>1. CASE Move
  <2>1. current' \in Nat /\ current <= current' /\ handled' = handled /\ lost' = lost
    BY <1>1 DEF Move, Progress
  <2>2. handled'[u] > 0 \/ u \in lost' => End[u] <= current'
    BY <1>0, <2>1 DEF OnceInv
  <2>3. CASE todo' = todo
    BY <1>0, <2>1, <2>2, <2>3 DEF OnceInv
  <2>4. ASSUME NEW t \in Threads, NEW v \in Updates, Take(t, v)
        PROVE  \A q \in Threads : todo'[q] = u =>
                 /\ End[u] <= current' /\ handled'[u] = 0 /\ u \notin lost'
                 /\ \A r \in Threads : todo'[r] = u => r = q
    <3>1. todo' = [todo EXCEPT ![t] = v] /\ todo[t] = 0
      BY <2>4 DEF Take
    <3>2. \A q \in Threads : todo'[q] = IF q = t THEN v ELSE todo[q]
      BY <3>1 DEF TypeOK, ThreadType
    <3>3. CASE v # u
      BY <1>0, <2>1, <3>2, <3>3 DEF OnceInv
    <3>4. CASE v = u
      <4>1. current < End[u] /\ End[u] = current'
        BY <2>4, <3>4 DEF Take
      <4>2. handled[u] = 0 /\ u \notin lost
        BY <1>0, <4>1 DEF OnceInv, TypeOK, FeedType
      <4>3. \A r \in Threads : todo[r] # u
        BY <1>0, <4>1 DEF OnceInv
      <4> QED BY <1>0, <2>1, <3>2, <4>1, <4>2, <4>3
    <3> QED BY <3>3, <3>4
  <2> QED BY <1>1, <2>2, <2>3, <2>4 DEF Move
<1>2. ASSUME NEW v \in Updates, Dispatch(v), current' = current, v # u
      PROVE  handled'[u] = handled[u] /\ (u \in lost' => u \in lost)
  BY <1>2, DispatchFacts
<1>3. ASSUME NEW t \in Threads, Give(t)
      PROVE  /\ handled'[u] > 0 \/ u \in lost' => End[u] <= current'
             /\ \A q \in Threads : todo'[q] = u =>
                  /\ End[u] <= current' /\ handled'[u] = 0 /\ u \notin lost'
                  /\ \A r \in Threads : todo'[r] = u => r = q
  <2>1. \A q \in Threads : todo'[q] = IF q = t THEN 0 ELSE todo[q]
    BY <1>3 DEF Give, TypeOK, ThreadType
  <2>2. current' = current /\ todo[t] \in Updates /\ Dispatch(todo[t])
    BY <1>3 DEF Give
  <2>3. CASE todo[t] = u
    BY <1>0, <2>1, <2>2, <2>3 DEF OnceInv
  <2>4. CASE todo[t] # u
    BY <1>0, <1>2, <2>1, <2>2, <2>4 DEF OnceInv
  <2> QED BY <2>3, <2>4
<1>4. ASSUME NEW v \in Updates, Message(v)
      PROVE  /\ handled'[u] > 0 \/ u \in lost' => End[u] <= current'
             /\ \A q \in Threads : todo'[q] = u =>
                  /\ End[u] <= current' /\ handled'[u] = 0 /\ u \notin lost'
                  /\ \A r \in Threads : todo'[r] = u => r = q
  <2>1. v # u /\ current' = current /\ todo' = todo /\ Dispatch(v)
    BY <1>0, <1>4 DEF Message
  <2>2. handled'[u] = handled[u] /\ (u \in lost' => u \in lost)
    BY <1>2, <2>1
  <2> QED BY <1>0, <2>1, <2>2 DEF OnceInv
<1> QED BY <1>1, <1>3, <1>4 DEF Kinds

-----------------------------------------------------------------------------
(* Every step is of one of these kinds. *)

(* current moves from the beginning of u to its end: nothing else is passed. *)
LEMMA NothingBetween ==
  ASSUME NEW u \in Updates, NEW v \in Positive, Start(u) < End[v], End[v] <= End[u]
  PROVE  v = u
<1>1. v \in Updates /\ Cnt[v] > 0 /\ Start(v) < End[v]
  BY StreamFacts DEF Positive, Start
<1>2. CASE v < u
  BY <1>1, <1>2, StreamFacts
<1>3. CASE u < v
  BY <1>1, <1>3, StreamFacts
<1> QED BY <1>1, <1>2, <1>3, StreamFacts

LEMMA PassTakes ==
  ASSUME TypeOK, NEW t \in Threads, NEW u \in Updates, Pass(t, u), mode[t] = "idle",
         current < End[u], UNCHANGED <<handled, lost>>,
         \A v \in Positive : 0 < current /\ current < End[v] /\ End[v] <= End[u] => v = u \/ Settled(v)
  PROVE  Move
<1>1. current' = End[u] /\ todo' = [todo EXCEPT ![t] = u] /\ todo[t] = 0
  BY DEF Pass, TypeOK, ThreadType
<1>2. Take(t, u)
  BY <1>1 DEF Take
<1>3. current' \in Nat /\ current <= current' /\ current \in Nat
  BY <1>1, StreamFacts DEF TypeOK, FeedType
<1>4. /\ waived \subseteq waived'
      /\ waived' \subseteq waived \union {v \in Updates : current < End[v] /\ End[v] <= current'}
  BY <1>1 DEF Pass, GiveUpTo, Positive
<1>5. ASSUME NEW v \in Positive, current < End[v], End[v] <= current'
      PROVE  Settled(v)'
  <2>1. CASE v = u
    <3>1. todo'[t] = u /\ u # 0
      BY <1>1, StreamFacts DEF TypeOK, ThreadType
    <3> QED BY <2>1, <3>1 DEF Settled, InFlight
  <2>2. CASE v # u /\ current = 0
    BY <1>1, <1>5, <2>2 DEF Pass, GiveUpTo, Settled
  <2>3. CASE v # u /\ current # 0
    <3>1. Settled(v)
      BY <1>1, <1>3, <1>5, <2>3
    <3>2. CASE handled[v] > 0 \/ v \in lost \/ v \in waived
      BY <1>4, <3>2 DEF Settled
    <3>3. CASE v \in InFlight
      <4>1. PICK r \in Threads : todo[r] = v /\ v # 0
        BY <3>3 DEF InFlight
      <4>2. todo'[r] = v
        BY <1>1, <4>1 DEF TypeOK, ThreadType
      <4> QED BY <4>1, <4>2 DEF Settled, InFlight
    <3> QED BY <3>1, <3>2, <3>3 DEF Settled
  <2> QED BY <2>1, <2>2, <2>3
<1> QED BY <1>2, <1>3, <1>4, <1>5 DEF Move, Progress

LEMMA OpenMoves ==
  ASSUME TypeOK, NEW u \in Updates, OpenAt(u)
  PROVE  Progress
<1>1. CASE Opens(u)
  <2>1. current = 0 /\ current' \in Nat /\ current' = Here(u)
    BY <1>1, StreamFacts DEF OpenAt, Opens, Here
  <2>2. waived' = waived \union {v \in Positive : current < End[v] /\ End[v] <= current'}
    BY <1>1, <2>1 DEF OpenAt, GiveUpTo
  <2> QED BY <2>1, <2>2 DEF Progress, Settled, Positive
<1>2. CASE ~ Opens(u)
  <2>1. current' = current /\ waived' = waived /\ current \in Nat
    BY <1>2 DEF OpenAt, Here, TypeOK, FeedType
  <2> QED BY <2>1, StreamFacts DEF Progress, Positive
<1> QED BY <1>1, <1>2

LEMMA Still ==
  ASSUME TypeOK, UNCHANGED <<current, waived>>
  PROVE  Progress
BY StreamFacts DEF TypeOK, FeedType, Progress, Positive

(* forceSet to a position up to which everything is settled. *)
LEMMA ForceMoves ==
  ASSUME TypeOK, NEW s \in Slots, NEW p \in Nat, ForceSet(s, p), UNCHANGED <<handled, lost, todo>>,
         waived \subseteq waived', waived' \subseteq waived \union GiveUpTo(p),
         \A u \in GiveUpTo(p) : Settled(u)'
  PROVE  Move
<1>0. current \in Nat /\ \A u \in Positive : u \in Updates /\ End[u] \in Nat
  BY StreamFacts DEF TypeOK, FeedType, Positive
<1>1. CASE p < current
  <2>1. current' = current /\ GiveUpTo(p) = {}
    BY <1>0, <1>1 DEF ForceSet, GiveUpTo
  <2> QED BY <2>1, Still DEF Move
<1>2. CASE ~ (p < current)
  <2>1. current' = p
    BY <1>2 DEF ForceSet
  <2> QED BY <1>0, <1>2, <2>1 DEF Move, Progress, GiveUpTo
<1> QED BY <1>1, <1>2

LEMMA StepKinds ==
  ASSUME TypeOK, Keyed, JobInv, SkipInv, [Next]_vars
  PROVE  Kinds
<1>1. ASSUME NEW u \in Updates, ReceiveNext(u) PROVE Kinds
  <2>1. Pass(Reader, u) /\ handled' = handled /\ lost' = lost /\ mode[Reader] = "idle" /\ Cnt[u] > 0
    BY <1>1 DEF ReceiveNext, Arrives
  <2>2. current < End[u]
    BY <1>1, StreamFacts DEF ReceiveNext, Start
  <2>3. ASSUME NEW v \in Positive, 0 < current, current < End[v], End[v] <= End[u] PROVE v = u
    BY <1>1, <2>3, NothingBetween DEF ReceiveNext
  <2> QED BY <2>1, <2>2, <2>3, PassTakes, ThreadNames DEF Kinds
<1>2. ASSUME NEW u \in Updates, ReceiveUncounted(u) PROVE Kinds
  <2>1. OpenAt(u) /\ handled' = handled /\ lost' = lost /\ todo' = [todo EXCEPT ![Reader] = u] /\ todo[Reader] = 0
    BY <1>2, ThreadNames DEF ReceiveUncounted, Arrives, TypeOK, ThreadType
  <2>2. Take(Reader, u)
    BY <1>2, <2>1 DEF Take, Identified, ReceiveUncounted
  <2>3. Progress
    BY <2>1, OpenMoves
  <2> QED BY <2>1, <2>2, <2>3, ThreadNames DEF Kinds, Move
<1>3. ASSUME NEW u \in Updates, ReceiveEarly(u) PROVE Kinds
  BY <1>3, OpenMoves DEF ReceiveEarly, Kinds, Move, threadVars
<1>4. ASSUME NEW t \in Threads, Apply(t) PROVE Kinds
  BY <1>4, TodoIsUpdate DEF Apply, Kinds, Give
<1>5. ASSUME NEW t \in Threads, FlushNext(t) PROVE Kinds
  <2>1. PICK k \in ReadyKeys, met \in SUBSET StaleKeys :
          /\ current' = k
          /\ todo' = [todo EXCEPT ![t] = Head(pending[k])]
    BY <1>5 DEF FlushNext
  <2> DEFINE h == Head(pending[k])
  <2>2. h \in Updates /\ End[h] = k /\ Start(h) = current
    <3>1. pending[k] \in Seq({u \in Updates : End[u] = k}) /\ pending[k] # <<>>
      BY DEF Keyed, ReadyKeys, Heads
    <3> QED BY <3>1 DEF ReadyKeys
  <2> HIDE DEF h
  <2>3. handled' = handled /\ lost' = lost /\ waived' = waived /\ todo[t] = 0
    BY <1>5 DEF FlushNext, TypeOK, ThreadType
  <2>4. Take(t, h)
    <3>1. CASE Cnt[h] = 0
      BY <2>1, <2>2, <2>3, <3>1 DEF Take, Identified, h
    <3>2. CASE Cnt[h] # 0
      <4>1. current < End[h]
        BY <2>2, <3>2, StreamFacts DEF Start
      <4> QED BY <2>1, <2>2, <2>3, <4>1 DEF Take, h
    <3> QED BY <3>1, <3>2
  <2>5. ASSUME NEW v \in Positive, current < End[v], End[v] <= current' PROVE Settled(v)'
    <3>1. v = h
      BY <2>1, <2>2, <2>5, NothingBetween
    <3>2. todo'[t] = h /\ h # 0
      BY <2>1, <2>2, StreamFacts DEF TypeOK, ThreadType, h
    <3> QED BY <3>1, <3>2 DEF Settled, InFlight
  <2>6. Progress
    BY <2>1, <2>2, <2>3, <2>5, StreamFacts DEF Progress
  <2> QED BY <2>2, <2>3, <2>4, <2>6 DEF Kinds, Move
<1>6. ASSUME NEW t \in Threads, FlushEnd(t) PROVE Kinds
  BY <1>6, Still DEF Kinds, Move, FlushEnd, feedVars, boxVars, threadVars, jobVars, phaseVars
<1>7. ASSUME NEW s \in Slots, StartJob(s) PROVE Kinds
  BY <1>7, Still DEF Kinds, Move, StartJob, feedVars, boxVars, threadVars, jobVars, phaseVars
<1>8. ASSUME NEW s \in Slots, Claim(s) PROVE Kinds
  BY <1>8, Still DEF Kinds, Move, Claim, feedVars, boxVars, threadVars, jobVars, phaseVars
<1>9. ASSUME NEW s \in Slots, Ask(s) PROVE Kinds
  BY <1>9, Still DEF Kinds, Move, Ask, feedVars, boxVars, threadVars, jobVars, phaseVars
<1>10. ASSUME NEW s \in Slots, AskFails(s) PROVE Kinds
  BY <1>10, Still DEF Kinds, Move, AskFails, feedVars, boxVars, threadVars, jobVars, phaseVars
<1>11. ASSUME NEW s \in Slots, AnswerEmpty(s) PROVE Kinds
  BY <1>11, Still DEF Kinds, Move, AnswerEmpty, feedVars, boxVars, threadVars, jobVars, phaseVars
<1>12. ASSUME NEW s \in Slots, AnswerDifference(s) PROVE Kinds
  BY <1>12, Still DEF Kinds, Move, AnswerDifference, feedVars, boxVars, threadVars, jobVars, phaseVars
<1>13. ASSUME NEW s \in Slots, AfterSet(s) PROVE Kinds
  BY <1>13, Still DEF Kinds, Move, AfterSet, feedVars, boxVars, threadVars, jobVars, phaseVars
<1>14. ASSUME NEW s \in Slots, Release(s) PROVE Kinds
  BY <1>14, Still DEF Kinds, Move, Release, feedVars, boxVars, threadVars, jobVars, phaseVars
<1>15. ASSUME NEW s \in Slots, Finish(s) PROVE Kinds
  BY <1>15, Still DEF Kinds, Move, Finish, feedVars, boxVars, threadVars, jobVars, phaseVars
<1>16. ASSUME RequestDifference PROVE Kinds
  BY <1>16, Still DEF Kinds, Move, RequestDifference, feedVars, boxVars, threadVars, jobVars, phaseVars
<1>17. ASSUME Tick PROVE Kinds
  BY <1>17, Still DEF Kinds, Move, Tick, feedVars, boxVars, threadVars, jobVars, phaseVars
<1>18. ASSUME CoolDown PROVE Kinds
  BY <1>18, Still DEF Kinds, Move, CoolDown, feedVars, boxVars, threadVars, jobVars, phaseVars
<1>19. ASSUME Publish PROVE Kinds
  BY <1>19, Still DEF Kinds, Move, Publish, feedVars, boxVars, threadVars, jobVars, phaseVars
<1>20. ASSUME Invalidate PROVE Kinds
  BY <1>20, Still DEF Kinds, Move, Invalidate, feedVars, boxVars, threadVars, jobVars, phaseVars
<1>21. ASSUME ResetBackground PROVE Kinds
  BY <1>21, Still DEF Kinds, Move, ResetBackground, feedVars, boxVars, threadVars, jobVars, phaseVars
<1>22. ASSUME NEW discard \in BOOLEAN, Shutdown(discard) PROVE Kinds
  BY <1>22, Still DEF Kinds, Move, Shutdown, feedVars, boxVars, threadVars, jobVars, phaseVars
<1>23. ASSUME NEW s \in Slots, NEW u \in Updates, RecoverKnown(s, u) PROVE Kinds
  BY <1>23, Still DEF Kinds, Move, RecoverKnown, feedVars, boxVars, threadVars, jobVars, phaseVars
<1>24. ASSUME NEW s \in Slots, NEW p \in Nat, JumpTo(s, p) PROVE Kinds
  <2>1. waived' = waived \union GiveUpTo(p) /\ ForceSet(s, p) /\ UNCHANGED <<handled, lost, todo>>
    BY <1>24 DEF JumpTo
  <2>2. \A u \in GiveUpTo(p) : Settled(u)'
    BY <2>1 DEF Settled
  <2> QED BY <2>1, <2>2, ForceMoves DEF Kinds
<1>25. ASSUME NEW s \in Slots, AnswerTooLong(s) PROVE Kinds
  <2>1. PICK v \in 1..published : JumpTo(s, End[v])
    BY <1>25 DEF AnswerTooLong
  <2>2. End[v] \in Nat
    BY PublishedExist, StreamFacts
  <2> QED BY <1>24, <2>1, <2>2
<1>26. ASSUME NEW s \in Slots, AnswerState(s) PROVE Kinds
  <2>1. Top \in Nat
    BY StreamFacts, FeedAssumption DEF Top, TypeOK, FeedType, Updates
  <2> QED BY <1>26, <1>24, <2>1 DEF AnswerState
<1>27. ASSUME NEW s \in Slots, SetGoal(s) PROVE Kinds
  <2> DEFINE p == job[s].goal
  <2>1. p \in Nat /\ job[s].from \in Nat /\ current \in Nat
    BY DEF TypeOK, JobType, Job, FeedType
  <2>2. Answered(s) /\ job[s].left = {}
    BY <1>27 DEF SetGoal, At, JobInv, JobOK
  <2>3. ForceSet(s, p) /\ UNCHANGED <<handled, lost, todo, waived>>
    BY <1>27 DEF SetGoal
  <2> HIDE DEF p
  <2>4. ASSUME NEW u \in GiveUpTo(p) PROVE Settled(u)'
    <3>1. u \in Positive /\ End[u] \in Nat /\ job[s].from < End[u] /\ End[u] <= job[s].goal
      BY <2>1, <2>2, StreamFacts DEF GiveUpTo, Positive, Answered, p
    <3>2. Settled(u)
      BY <2>2, <3>1 DEF Answered
    <3> QED BY <2>3, <3>2 DEF Settled, InFlight
  <2> QED BY <2>1, <2>3, <2>4, ForceMoves DEF Kinds
<1>28. ASSUME NEW s \in Slots, NEW u \in Updates, HandMessage(s, u) PROVE Kinds
  BY <1>28 DEF HandMessage, First, Kinds, Message, threadVars
<1>29. ASSUME NEW s \in Slots, NEW u \in Updates, Recover(s, u) PROVE Kinds
  <2>1. /\ Pass(s, u) /\ handled' = handled /\ lost' = lost /\ mode[s] = "idle" /\ current < End[u]
        /\ u \in job[s].left /\ \A v \in job[s].left : u <= v
    BY <1>29, StreamFacts DEF Recover, HandsOver, At, First, TypeOK, FeedType
  <2>2. Answered(s)
    BY <1>29 DEF Recover, HandsOver, At, JobInv, JobOK
  <2>3. ASSUME NEW v \in Positive, current < End[v], End[v] <= End[u] PROVE v = u \/ Settled(v)
    <3>1. v \in Updates /\ Cnt[v] > 0 /\ job[s].from \in Nat /\ job[s].goal \in Nat /\ current \in Nat
      BY DEF Positive, TypeOK, FeedType, JobType, Job
    <3>2. job[s].from < End[v] /\ End[v] <= job[s].goal
      BY <2>1, <2>2, <2>3, <3>1, StreamFacts DEF Answered
    <3>3. v \in job[s].left \/ Settled(v)
      BY <2>2, <3>2 DEF Answered
    <3>4. v \in job[s].left => v = u
      BY <2>1, <2>3, <3>1, StreamFacts DEF Start
    <3> QED BY <3>3, <3>4
  <2> QED BY <2>1, <2>3, PassTakes, ThreadNames DEF Kinds
<1>30. ASSUME NEW s \in Slots, NEW u \in Updates, RecoverUncounted(s, u) PROVE Kinds
  <2>1. todo' = [todo EXCEPT ![s] = u] /\ todo[s] = 0 /\ u \in Identified /\ UNCHANGED <<current, handled, lost, waived>>
    BY <1>30, ThreadNames DEF RecoverUncounted, HandsOver, At, TypeOK, ThreadType, Identified, feedVars
  <2>2. Take(s, u) /\ Progress
    BY <2>1, StreamFacts DEF Take, Progress, TypeOK, FeedType, Positive
  <2> QED BY <2>1, <2>2, ThreadNames DEF Kinds, Move
<1>31. CASE UNCHANGED vars
  BY <1>31, Still DEF Kinds, Move, vars, feedVars, threadVars
<1> QED
  BY ONLY [Next]_vars, <1>1, <1>2, <1>3, <1>4, <1>5, <1>6, <1>7, <1>8, <1>9, <1>10, <1>11, <1>12, <1>13, <1>14, <1>15, <1>16, <1>17, <1>18, <1>19, <1>20, <1>21, <1>22, <1>23, <1>24, <1>25, <1>26, <1>27, <1>28, <1>29, <1>30, <1>31
     DEF Next, ReceiveStep, BoxStep, JobStep, AnswerStep, HandStep

-----------------------------------------------------------------------------
(* Keyed is inductive: the buffer grows under the key of the update and    *)
(* otherwise only shrinks.                                                 *)
LEMMA KeyedStep ==
  ASSUME TypeOK, Keyed, [Next]_vars
  PROVE  Keyed'
<1> DEFINE At_(k) == {u \in Updates : End[u] = k}
<1>0. pending \in [Keys -> Seq(Updates)] /\ \A k \in Keys : pending[k] \in Seq(At_(k))
  BY DEF TypeOK, BoxType, Keyed
<1>1. ASSUME pending' = pending PROVE Keyed'
  BY <1>1 DEF Keyed
<1>2. ASSUME NEW u \in Updates, Buffer(u) PROVE Keyed'
  <2> DEFINE room == IF Total >= MaxPending THEN [k \in Keys |-> <<>>] ELSE pending
  <2>1. DOMAIN room = Keys /\ \A k \in Keys : room[k] \in Seq(At_(k))
    BY <1>0
  <2>2. pending' = [room EXCEPT ![End[u]] = IF Cnt[u] > 0 THEN <<u>> \o @ ELSE Append(@, u)]
    BY <1>2 DEF Buffer
  <2> HIDE DEF room
  <2>3. End[u] \in Keys /\ u \in At_(End[u])
    BY DEF Keys
  <2>4. <<u>> \o room[End[u]] \in Seq(At_(End[u])) /\ Append(room[End[u]], u) \in Seq(At_(End[u]))
    <3>1. room[End[u]] \in Seq(At_(End[u])) /\ <<u>> \in Seq(At_(End[u]))
      BY <2>1, <2>3
    <3> HIDE DEF At_
    <3> QED BY <3>1, <2>3
  <2>5. pending'[End[u]] \in Seq(At_(End[u])) /\ \A k \in Keys : k # End[u] => pending'[k] = room[k]
    BY <2>1, <2>2, <2>3, <2>4
  <2>6. \A k \in Keys : pending'[k] \in Seq(At_(k))
    BY <2>1, <2>5
  <2> QED BY <2>6 DEF Keyed
<1>3. ASSUME NEW K \in SUBSET Heads, pending' = DropHeads(K) PROVE Keyed'
  <2>1. ASSUME NEW k \in Keys PROVE pending'[k] \in Seq(At_(k))
    <3>1. CASE k \in K
      <4>1. pending[k] \in Seq(At_(k)) /\ pending[k] # <<>>
        BY <1>0, <3>1 DEF Heads
      <4>2. Tail(pending[k]) \in Seq(At_(k))
        BY <4>1
      <4> QED BY <1>3, <3>1, <4>2 DEF DropHeads
    <3>2. CASE k \notin K
      BY <1>0, <1>3, <3>2 DEF DropHeads
    <3> QED BY <3>1, <3>2
  <2> QED BY <2>1 DEF Keyed
<1>4. ASSUME NEW s \in Slots, NEW p, ForceSet(s, p) PROVE Keyed'
  <2>1. CASE pending' = [k \in Keys |-> IF k <= p THEN <<>> ELSE pending[k]]
    <3>1. ASSUME NEW k \in Keys PROVE pending'[k] \in Seq(At_(k))
      <4>1. <<>> \in Seq(At_(k)) /\ pending[k] \in Seq(At_(k))
        BY <1>0
      <4> QED BY <2>1, <4>1
    <3> QED BY <3>1 DEF Keyed
  <2> QED BY <1>1, <1>4, <2>1 DEF ForceSet
<1>5. ASSUME NEW u \in Updates, ReceiveStep(u) PROVE Keyed'
  <2>1. CASE ReceiveNext(u) \/ ReceiveUncounted(u)
    BY <1>1, <2>1 DEF ReceiveNext, ReceiveUncounted, boxVars
  <2>2. CASE ReceiveEarly(u)
    BY <1>2, <2>2 DEF ReceiveEarly
  <2> QED BY <1>5, <2>1, <2>2 DEF ReceiveStep
<1>6. ASSUME NEW t \in Threads, BoxStep(t) PROVE Keyed'
  <2>1. CASE Apply(t)
    BY <1>1, <2>1 DEF Apply, boxVars
  <2>2. CASE FlushNext(t)
    <3>1. PICK k \in ReadyKeys, met \in SUBSET StaleKeys : pending' = DropHeads(met \union {k})
      BY <2>2 DEF FlushNext
    <3> QED BY <1>3, <3>1, HeadFacts
  <2>3. CASE FlushEnd(t)
    BY <1>3, <2>3, HeadFacts DEF FlushEnd
  <2> QED BY <1>6, <2>1, <2>2, <2>3 DEF BoxStep
<1>7. ASSUME NEW s \in Slots, AnswerStep(s) PROVE Keyed'
  <2>1. CASE AnswerEmpty(s) \/ AnswerDifference(s) \/ AskFails(s)
    BY <1>1, <2>1 DEF AnswerEmpty, AnswerDifference, AskFails, boxVars
  <2>2. CASE AnswerTooLong(s) \/ AnswerState(s)
    BY <1>4, <2>2 DEF AnswerTooLong, AnswerState, JumpTo
  <2> QED BY <1>7, <2>1, <2>2 DEF AnswerStep
<1>8. ASSUME NEW s \in Slots, HandStep(s) PROVE Keyed'
  <2>1. CASE SetGoal(s)
    BY <1>4, <2>1 DEF SetGoal
  <2>2. ASSUME NEW u \in Updates, HandMessage(s, u) \/ Recover(s, u) \/ RecoverUncounted(s, u) \/ RecoverKnown(s, u)
        PROVE  Keyed'
    BY <1>1, <2>2 DEF HandMessage, Recover, RecoverUncounted, RecoverKnown, boxVars
  <2> QED BY <1>8, <2>1, <2>2 DEF HandStep
<1>9. ASSUME NEW s \in Slots, StartJob(s) \/ Claim(s) \/ Ask(s) \/ AfterSet(s) \/ Release(s) \/ Finish(s) PROVE Keyed'
  BY <1>1, <1>9 DEF StartJob, Claim, Ask, AfterSet, Release, Finish, boxVars
<1>10. ASSUME RequestDifference \/ Tick \/ CoolDown \/ Publish \/ Invalidate \/ ResetBackground PROVE Keyed'
  BY <1>1, <1>10 DEF RequestDifference, Tick, CoolDown, Publish, Invalidate, ResetBackground, boxVars
<1>11. ASSUME NEW discard \in BOOLEAN, Shutdown(discard) PROVE Keyed'
  BY <1>1, <1>11 DEF Shutdown, boxVars
<1>12. CASE UNCHANGED vars
  BY <1>1, <1>12 DEF vars, boxVars
<1> QED
  BY ONLY [Next]_vars, <1>5, <1>6, <1>7, <1>8, <1>9, <1>10, <1>11, <1>12 DEF Next, JobStep

-----------------------------------------------------------------------------
(* JobInv is inductive: what a job knows about current and about the       *)
(* updates of its answer stays true whatever the others do.                *)
LEMMA JobStays ==
  ASSUME TypeOK, Kinds, NEW s \in Slots, JobOK(s),
         \/ job'[s].st \in {"none", "queued", "state", "release", "finish"}
         \/ /\ job'[s].st = job[s].st /\ job'[s].from = job[s].from
            /\ job'[s].goal = job[s].goal /\ job'[s].left = job[s].left
  PROVE  JobOK(s)'
<1>1. CASE job'[s].st \in {"none", "queued", "state", "release", "finish"}
  BY <1>1 DEF JobOK
<1>2. CASE /\ job'[s].st = job[s].st /\ job'[s].from = job[s].from
           /\ job'[s].goal = job[s].goal /\ job'[s].left = job[s].left
  <2>1. current \in Nat /\ current' \in Nat /\ current <= current'
    BY DEF Kinds, Move, Progress, Give, Message, TypeOK, FeedType
  <2>2. job[s].from \in Nat /\ job[s].goal \in Nat
    BY DEF TypeOK, JobType, Job
  <2>3. Answered(s) => Answered(s)'
    <3>1. \A u \in Positive : Settled(u) => Settled(u)'
      BY SettledStays DEF Positive
    <3> QED BY <1>2, <2>1, <2>2, <3>1 DEF Answered
  <2> QED BY <1>2, <2>1, <2>2, <2>3 DEF JobOK
<1> QED BY <1>1, <1>2

LEMMA OneJob ==
  ASSUME TypeOK, Kinds, JobInv, NEW s \in Slots, NEW new, job' = [job EXCEPT ![s] = new],
         job'[s] = new => JobOK(s)'
  PROVE  JobInv'
<1>1. job'[s] = new /\ \A r \in Slots : r # s => job'[r] = job[r]
  BY DEF TypeOK, JobType
<1>2. ASSUME NEW r \in Slots, r # s PROVE JobOK(r)'
  <2>1. job'[r] = job[r]
    BY <1>1, <1>2
  <2> QED BY <2>1, JobStays DEF JobInv
<1> QED BY <1>1, <1>2 DEF JobInv

(* The goal of a recovery: what is settled by the time it is taken over. *)
LEMMA LeftSettled ==
  ASSUME TypeOK, Kinds, JobInv, NEW s \in Slots, NEW u \in Updates, At(s, "handing"),
         job' = [job EXCEPT ![s].left = @ \ {u}], u \in Positive => Settled(u)'
  PROVE  JobInv'
<1> DEFINE new == [job[s] EXCEPT !.left = @ \ {u}]
<1>1. job' = [job EXCEPT ![s] = new] /\ job[s] \in Job
  BY DEF TypeOK, JobType
<1>2. new.st = "handing" /\ new.from = job[s].from /\ new.goal = job[s].goal /\ new.left = job[s].left \ {u}
  BY <1>1 DEF At, Job
<1>3. current \in Nat /\ current' \in Nat /\ current <= current' /\ job[s].from \in Nat
  BY DEF Kinds, Move, Progress, Give, Message, TypeOK, FeedType, JobType, Job
<1>4. Answered(s)
  BY DEF JobInv, JobOK, At
<1>5. \A v \in Positive : Settled(v) => Settled(v)'
  BY SettledStays DEF Positive
<1> HIDE DEF new
<1>6. ASSUME job'[s] = new PROVE JobOK(s)'
  <2>1. Answered(s)'
    BY <1>2, <1>3, <1>4, <1>5, <1>6 DEF Answered
  <2> QED BY <1>2, <1>6, <2>1 DEF JobOK
<1> QED BY <1>1, <1>6, OneJob

LEMMA JobsUnmoved ==
  ASSUME TypeOK, Kinds, JobInv, job' = job
  PROVE  JobInv'
BY JobStays DEF JobInv

LEMMA JobGoes ==
  ASSUME TypeOK, Kinds, JobInv, NEW s \in Slots, NEW st \in {"state", "release", "finish"}, Goto(s, st)
  PROVE  JobInv'
<1>1. job' = [job EXCEPT ![s] = [job[s] EXCEPT !.st = st]] /\ [job[s] EXCEPT !.st = st].st = st
  BY DEF Goto, TypeOK, JobType, Job
<1> DEFINE new == [job[s] EXCEPT !.st = st]
<1>2. ASSUME job'[s] = new PROVE JobOK(s)'
  BY <1>1, <1>2 DEF JobOK
<1> QED BY <1>1, <1>2, OneJob

LEMMA TriggerJobs ==
  ASSUME TypeOK, Kinds, JobInv, TriggerGap
  PROVE  JobInv'
<1>1. CASE job' = job
  BY <1>1, JobsUnmoved
<1>2. ASSUME NEW s \in Slots, job' = [job EXCEPT ![s] = [FreeSlot EXCEPT !.st = "queued", !.gap = TRUE]]
      PROVE  JobInv'
  <2>1. [FreeSlot EXCEPT !.st = "queued", !.gap = TRUE].st = "queued"
    BY DEF FreeSlot
  <2> DEFINE new == [FreeSlot EXCEPT !.st = "queued", !.gap = TRUE]
  <2>2. job' = [job EXCEPT ![s] = new] /\ new.st = "queued"
    BY <1>2, <2>1
  <2> HIDE DEF new
  <2>3. job'[s] = new => JobOK(s)'
    BY <2>2 DEF JobOK
  <2> QED BY <2>2, <2>3, OneJob
<1> QED BY <1>1, <1>2 DEF TriggerGap

LEMMA JobInvStep ==
  ASSUME TypeOK, SkipInv, JobInv, Kinds, [Next]_vars
  PROVE  JobInv'
<1>0. current \in Nat /\ current' \in Nat /\ current <= current'
  BY DEF Kinds, Move, Progress, Give, Message, TypeOK, FeedType
<1>1. ASSUME NEW u \in Updates, ReceiveStep(u) PROVE JobInv'
  <2>1. CASE ReceiveNext(u) \/ ReceiveUncounted(u)
    BY <2>1, JobsUnmoved DEF ReceiveNext, ReceiveUncounted, jobVars
  <2>2. CASE ReceiveEarly(u)
    BY <2>2, TriggerJobs DEF ReceiveEarly
  <2> QED BY <1>1, <2>1, <2>2 DEF ReceiveStep
<1>2. ASSUME NEW t \in Threads, BoxStep(t) PROVE JobInv'
  BY <1>2, JobsUnmoved DEF BoxStep, Apply, FlushNext, FlushEnd, jobVars
<1>3. ASSUME NEW s \in Slots, StartJob(s) PROVE JobInv'
  <2>1. CASE job' = [job EXCEPT ![s] = FreeSlot]
    <3>1. job'[s] = FreeSlot => JobOK(s)'
      BY DEF JobOK, FreeSlot
    <3> QED BY <2>1, <3>1, OneJob
  <2>2. CASE job' = [job EXCEPT ![s] = [@ EXCEPT !.st = "claim", !.from = current]]
    <3> DEFINE new == [job[s] EXCEPT !.st = "claim", !.from = current]
    <3>1. job' = [job EXCEPT ![s] = new] /\ new.st = "claim" /\ new.from = current
      BY <2>2 DEF TypeOK, JobType, Job
    <3> HIDE DEF new
    <3>2. job'[s] = new => JobOK(s)'
      BY <1>0, <3>1 DEF JobOK
    <3> QED BY <3>1, <3>2, OneJob
  <2> QED BY <1>3, <2>1, <2>2 DEF StartJob
<1>4. ASSUME NEW s \in Slots, Claim(s) PROVE JobInv'
  <2>1. CASE Goto(s, "finish")
    BY <2>1, JobGoes
  <2>2. CASE job' = [job EXCEPT ![s] = [@ EXCEPT !.st = "ask", !.cut = (phase # "up")]]
    <3> DEFINE new == [job[s] EXCEPT !.st = "ask", !.cut = (phase # "up")]
    <3>1. job' = [job EXCEPT ![s] = new] /\ new.st = "ask" /\ new.from = job[s].from
      BY <2>2 DEF TypeOK, JobType, Job
    <3>2. job[s].from \in Nat /\ job[s].from <= current
      BY <1>4 DEF Claim, At, JobInv, JobOK, TypeOK, JobType, Job
    <3> HIDE DEF new
    <3>3. job'[s] = new => JobOK(s)'
      BY <1>0, <3>1, <3>2 DEF JobOK
    <3> QED BY <3>1, <3>3, OneJob
  <2> QED BY <1>4, <2>1, <2>2 DEF Claim
<1>5. ASSUME NEW s \in Slots, Ask(s) PROVE JobInv'
  <2>1. CASE Goto(s, "release")
    BY <2>1, JobGoes
  <2>2. CASE Goto(s, "asked")
    <3> DEFINE new == [job[s] EXCEPT !.st = "asked"]
    <3>1. job' = [job EXCEPT ![s] = new] /\ new.st = "asked" /\ new.from = job[s].from
      BY <2>2 DEF Goto, TypeOK, JobType, Job
    <3>2. job[s].from \in Nat /\ job[s].from <= current
      BY <1>5 DEF Ask, At, JobInv, JobOK, TypeOK, JobType, Job
    <3> HIDE DEF new
    <3>3. job'[s] = new => JobOK(s)'
      BY <1>0, <3>1, <3>2 DEF JobOK
    <3> QED BY <3>1, <3>3, OneJob
  <2> QED BY <1>5, <2>1, <2>2 DEF Ask
<1>6. ASSUME NEW s \in Slots, AskFails(s) \/ AnswerEmpty(s) \/ AnswerTooLong(s) \/ AnswerState(s) PROVE JobInv'
  <2>1. Goto(s, "release") \/ Goto(s, "state")
    BY <1>6 DEF AskFails, AnswerEmpty, AnswerTooLong, AnswerState
  <2> QED BY <2>1, JobGoes
<1>7. ASSUME NEW s \in Slots, AnswerDifference(s) PROVE JobInv'
  <2>1. PICK v \in 1..published, complete \in BOOLEAN, uncounted \in BOOLEAN :
          /\ End[v] > job[s].from
          /\ job' = [job EXCEPT ![s] = [@ EXCEPT !.st = "handing", !.goal = End[v], !.last = complete,
                                                !.left = Difference(job[s].from, End[v], uncounted)]]
    BY <1>7 DEF AnswerDifference
  <2> DEFINE new == [job[s] EXCEPT !.st = "handing", !.goal = End[v], !.last = complete,
                                  !.left = Difference(job[s].from, End[v], uncounted)]
  <2>2. /\ job' = [job EXCEPT ![s] = new]
        /\ new.st = "handing" /\ new.from = job[s].from /\ new.goal = End[v]
        /\ new.left = Difference(job[s].from, End[v], uncounted)
    BY <2>1 DEF TypeOK, JobType, Job
  <2>3. job[s].from \in Nat /\ job[s].from > 0 /\ job[s].from <= current
    BY <1>7 DEF AnswerDifference, At, JobInv, JobOK, TypeOK, JobType, Job
  <2>4. v \in Updates /\ v \in Nat /\ published \in Nat /\ v <= published
    BY PublishedExist, StreamFacts DEF TypeOK, FeedType
  <2>5. ASSUME NEW u \in Positive, job[s].from < End[u], End[u] <= End[v]
        PROVE  u \in new.left
    <3>1. u \in Updates /\ u \in Nat \ {0} /\ Cnt[u] > 0 /\ Start(u) < End[u]
      BY StreamFacts DEF Positive, Start
    <3>2. ~ (v < u)
      BY <2>4, <2>5, <3>1, StreamFacts
    <3>3. u \in 1..published
      BY <2>4, <3>1, <3>2
    <3> QED BY <2>2, <2>5, <3>1, <3>3 DEF Difference
  <2>6. \A u \in new.left : End[u] <= End[v]
    BY <2>2 DEF Difference
  <2> HIDE DEF new
  <2>7. ASSUME job'[s] = new PROVE JobOK(s)'
    <3>1. Answered(s)'
      BY <1>0, <2>2, <2>3, <2>5, <2>6, <2>7 DEF Answered
    <3> QED BY <2>2, <2>7, <3>1 DEF JobOK
  <2> QED BY <2>2, <2>7, OneJob
<1>8. ASSUME NEW s \in Slots, NEW u \in Updates, HandMessage(s, u) PROVE JobInv'
  <2>1. handled'[u] > 0 \/ u \in lost'
    BY <1>8, DispatchFacts DEF HandMessage
  <2> QED BY <1>8, <2>1, LeftSettled DEF HandMessage, Settled
<1>9. ASSUME NEW s \in Slots, NEW u \in Updates, Recover(s, u) PROVE JobInv'
  <2>1. todo'[s] = u /\ u # 0 /\ s \in Threads
    BY <1>9, StreamFacts, ThreadNames DEF Recover, Pass, TypeOK, ThreadType
  <2>2. Settled(u)'
    BY <2>1 DEF Settled, InFlight
  <2> QED BY <1>9, <2>2, LeftSettled DEF Recover, HandsOver
<1>10. ASSUME NEW s \in Slots, NEW u \in Updates, RecoverUncounted(s, u) PROVE JobInv'
  <2>1. u \notin Positive
    BY <1>10 DEF RecoverUncounted, Positive
  <2> QED BY <1>10, <2>1, LeftSettled DEF RecoverUncounted, HandsOver
<1>11. ASSUME NEW s \in Slots, NEW u \in Updates, RecoverKnown(s, u) PROVE JobInv'
  <2>1. End[u] <= current
    BY <1>0, <1>11, StreamFacts DEF RecoverKnown
  <2>2. u \in Positive => Settled(u)'
    BY <2>1, SettledStays DEF SkipInv
  <2> QED BY <1>11, <2>2, LeftSettled DEF RecoverKnown, HandsOver
<1>12. ASSUME NEW s \in Slots, SetGoal(s) PROVE JobInv'
  <2> DEFINE new == [job[s] EXCEPT !.st = "set"]
  <2>1. job' = [job EXCEPT ![s] = new] /\ new.st = "set" /\ new.goal = job[s].goal
    BY <1>12 DEF SetGoal, Goto, TypeOK, JobType, Job
  <2>2. job[s].goal \in Nat /\ job[s].goal <= current'
    BY <1>0, <1>12 DEF SetGoal, ForceSet, TypeOK, JobType, Job
  <2> HIDE DEF new
  <2>3. job'[s] = new => JobOK(s)'
    BY <2>1, <2>2 DEF JobOK
  <2> QED BY <2>1, <2>3, OneJob
<1>13. ASSUME NEW s \in Slots, AfterSet(s) PROVE JobInv'
  <2>1. CASE Goto(s, "release")
    BY <2>1, JobGoes
  <2>2. CASE job' = [job EXCEPT ![s] = [@ EXCEPT !.st = "ask", !.from = job[s].goal]]
    <3> DEFINE new == [job[s] EXCEPT !.st = "ask", !.from = job[s].goal]
    <3>1. job' = [job EXCEPT ![s] = new] /\ new.st = "ask" /\ new.from = job[s].goal
      BY <2>2 DEF TypeOK, JobType, Job
    <3>2. job[s].goal \in Nat /\ job[s].goal <= current
      BY <1>13 DEF AfterSet, At, JobInv, JobOK, TypeOK, JobType, Job
    <3> HIDE DEF new
    <3>3. job'[s] = new => JobOK(s)'
      BY <1>0, <3>1, <3>2 DEF JobOK
    <3> QED BY <3>1, <3>3, OneJob
  <2> QED BY <1>13, <2>1, <2>2 DEF AfterSet
<1>14. ASSUME NEW s \in Slots, Release(s) PROVE JobInv'
  BY <1>14, JobGoes DEF Release
<1>15. ASSUME NEW s \in Slots, Finish(s) PROVE JobInv'
  <2>1. job'[s] = FreeSlot => JobOK(s)'
    BY DEF JobOK, FreeSlot
  <2> QED BY <1>15, <2>1, OneJob DEF Finish
<1>16. ASSUME RequestDifference PROVE JobInv'
  <2>1. PICK s \in Slots : job' = [job EXCEPT ![s] = [FreeSlot EXCEPT !.st = "queued"]]
    BY <1>16 DEF RequestDifference
  <2> DEFINE new == [FreeSlot EXCEPT !.st = "queued"]
  <2>2. job' = [job EXCEPT ![s] = new] /\ new.st = "queued"
    BY <2>1 DEF FreeSlot
  <2> HIDE DEF new
  <2>3. job'[s] = new => JobOK(s)'
    BY <2>2 DEF JobOK
  <2> QED BY <2>2, <2>3, OneJob
<1>17. ASSUME Tick PROVE JobInv'
  BY <1>17, TriggerJobs DEF Tick
<1>18. ASSUME CoolDown \/ Publish \/ Invalidate \/ ResetBackground PROVE JobInv'
  BY <1>18, JobsUnmoved DEF CoolDown, Publish, Invalidate, ResetBackground, jobVars
<1>19. ASSUME NEW discard \in BOOLEAN, Shutdown(discard) PROVE JobInv'
  <2>1. ASSUME NEW s \in Slots
        PROVE  \/ job'[s].st = "none"
               \/ /\ job'[s].st = job[s].st /\ job'[s].from = job[s].from
                  /\ job'[s].goal = job[s].goal /\ job'[s].left = job[s].left
    <3>1. CASE job'[s] = FreeSlot
      BY <3>1 DEF FreeSlot
    <3>2. CASE job'[s] = [job[s] EXCEPT !.cut = @ \/ job[s].st \notin {"none", "queued", "claim"}]
      <4>1. job[s] \in Job
        BY DEF TypeOK, JobType
      <4> QED BY <3>2, <4>1 DEF Job
    <3> QED BY <1>19, <3>1, <3>2 DEF Shutdown
  <2> QED BY <2>1, JobStays DEF JobInv
<1>20. CASE UNCHANGED vars
  BY <1>20, JobsUnmoved DEF vars, jobVars
<1> QED
  BY ONLY [Next]_vars, <1>1, <1>2, <1>3, <1>4, <1>5, <1>6, <1>7, <1>8, <1>9, <1>10, <1>11, <1>12, <1>13, <1>14, <1>15, <1>16, <1>17, <1>18, <1>19, <1>20
     DEF Next, JobStep, AnswerStep, HandStep

-----------------------------------------------------------------------------
LEMMA InvInit == Init => Inv
<1> SUFFICES ASSUME Init PROVE Inv
  OBVIOUS
<1>1. TypeOK
  BY TypeInit
<1>2. Keyed
  BY DEF Init, Keyed
<1>3. HandledOnce
  BY DEF Init, FeedInit, HandledOnce
<1>4. OnceInv
  BY StreamFacts DEF Init, FeedInit, OnceInv
<1>5. JobInv
  BY DEF Init, JobInv, JobOK, FreeSlot
<1>6. SkipInv
  <2> SUFFICES ASSUME NEW u \in Positive, End[u] <= current PROVE FALSE
    BY DEF SkipInv
  <2>1. /\ u \in Updates /\ 1 \in Updates /\ current \in {0, Start(1)}
        /\ Start(u) < End[u]
    <3>1. u \in Updates /\ Cnt[u] > 0 /\ current \in {0, Start(1)}
      BY DEF Init, FeedInit, Positive, Start
    <3>2. 1 \in Updates
      BY FeedAssumption DEF Updates
    <3>3. End[u] \in Nat /\ Cnt[u] \in Nat
      BY <3>1, StreamFacts
    <3> QED BY <3>1, <3>2, <3>3 DEF Start
  <2>2. Start(1) <= Start(u)
    BY <2>1, StreamFacts DEF Updates
  <2> QED BY <2>1, <2>2, StreamFacts
<1> QED BY <1>1, <1>2, <1>3, <1>4, <1>5, <1>6 DEF Inv

LEMMA InvStep == Inv /\ [Next]_vars => Inv'
<1> SUFFICES ASSUME Inv, [Next]_vars PROVE Inv'
  OBVIOUS
<1> USE DEF Inv
<1>1. TypeOK'
  BY TypeStep
<1>2. Keyed'
  BY KeyedStep
<1>3. Kinds
  BY StepKinds
<1>4. OnceInv' /\ SkipInv' /\ JobInv'
  BY <1>3, OnceKinds, SkipKinds, JobInvStep
<1>5. HandledOnce'
  <2>1. [FeedNext]_feedVars
    BY <1>3, FeedKinds
  <2>2. CASE UNCHANGED <<handled, lost>>
    BY <2>2 DEF HandledOnce
  <2>3. ASSUME NEW u \in Updates, Hand(u) \/ Lose(u) PROVE HandledOnce'
    BY <2>3 DEF HandledOnce, Hand, Lose, Dispatched, TypeOK, FeedType
  <2> QED BY <2>1, <2>2, <2>3 DEF FeedNext, Advance, Waive, feedVars
<1> QED BY <1>1, <1>2, <1>4, <1>5

(* The inductive invariant. *)
THEOREM InvAlways == Spec => []Inv
BY InvInit, InvStep, PTL DEF Spec

(* No update of the stream is queued for the handlers twice, nor again     *)
(* after the queue has turned it away, however the reader, the buffer and  *)
(* any number of recoveries of overlapping differences meet                *)
(* (counterBox.process, flushLocked and dispatchUpdate's cache).           *)
THEOREM HandledOnceAlways == Spec => []HandledOnce
<1>1. Inv => HandledOnce
  BY DEF Inv
<1> QED BY <1>1, InvAlways, PTL

(* A positive update that current has passed has been dispatched, queued   *)
(* or turned away, is in the hands of a thread, or was given up at the     *)
(* server's word.                                                          *)
THEOREM NothingSkippedAlways == Spec => []NothingSkipped
<1>1. Inv => NothingSkipped
  BY DEF Inv, SkipInv, NothingSkipped, Owed, Dispatched, Settled, TypeOK, FeedType, Positive
<1> QED BY <1>1, InvAlways, PTL

(* Every step of the box, of its recoveries and of the client around it is *)
(* a step of the feed or leaves it alone: current never goes back, nothing *)
(* is dispatched twice, and only what a jump passes is waived.            *)
THEOREM FeedImplemented == Spec => IsFeed
<1>1. Init => FeedInit
  BY DEF Init
<1>2. Inv /\ [Next]_vars => [FeedNext]_feedVars
  BY StepKinds, FeedKinds DEF Inv
<1> QED BY <1>1, <1>2, InvAlways, PTL DEF Spec, IsFeed, FeedSafe
-----------------------------------------------------------------------------
(* A free slot is not a gap's job, so the job that fresh names is there.   *)
OwnedInv == (\A s \in Slots : job[s].st = "none" => ~ job[s].gap) /\ RecoveryIsOwned

LEMMA OwnedStays ==
  ASSUME OwnedInv, TypeOK, recovering' => recovering, fresh' = fresh,
         phase = "halting" => phase' = "halting",
         \A s \in Slots : job'[s].gap = job[s].gap /\ (job'[s].st = "none" => job[s].st = "none")
  PROVE  OwnedInv'
BY DEF OwnedInv, RecoveryIsOwned, TypeOK, BoxType

(* A job that goes on is still the job it was. *)
LEMMA OwnedGoes ==
  ASSUME OwnedInv, TypeOK, NEW s \in Slots, NEW new, job' = [job EXCEPT ![s] = new],
         new.gap = job[s].gap, new.st # "none",
         recovering' => recovering, fresh' = fresh, phase = "halting" => phase' = "halting"
  PROVE  OwnedInv'
<1>1. job'[s] = new /\ \A r \in Slots : r # s => job'[r] = job[r]
  BY DEF TypeOK, JobType
<1>2. \A r \in Slots : job'[r].gap = job[r].gap /\ (job'[r].st = "none" => job[r].st = "none")
  BY <1>1
<1> QED BY <1>2, OwnedStays

LEMMA OwnedGoto ==
  ASSUME OwnedInv, TypeOK, NEW s \in Slots, NEW st \in {"ask", "asked", "set", "state", "release", "finish"}, Goto(s, st),
         UNCHANGED <<recovering, fresh, phase>>
  PROVE  OwnedInv'
<1> DEFINE new == [job[s] EXCEPT !.st = st]
<1>1. job' = [job EXCEPT ![s] = new] /\ new.gap = job[s].gap /\ new.st # "none"
  BY DEF Goto, TypeOK, JobType, Job
<1> HIDE DEF new
<1> QED BY <1>1, OwnedGoes

LEMMA OwnedTrigger ==
  ASSUME OwnedInv, TypeOK, TriggerGap, phase' = phase
  PROVE  OwnedInv'
<1>1. CASE UNCHANGED <<recovering, fresh, job>>
  BY <1>1, OwnedStays
<1>2. ASSUME NEW s \in Slots, job' = [job EXCEPT ![s] = [FreeSlot EXCEPT !.st = "queued", !.gap = TRUE]],
             fresh' = s
      PROVE  OwnedInv'
  <2>1. job'[s].gap = TRUE /\ job'[s].st = "queued" /\ \A r \in Slots : r # s => job'[r] = job[r]
    BY <1>2 DEF TypeOK, JobType, FreeSlot
  <2> QED BY <1>2, <2>1, CounterBoxAssumption DEF OwnedInv, RecoveryIsOwned
<1>3. CASE recovering' = FALSE /\ job' = job
  BY <1>3 DEF OwnedInv, RecoveryIsOwned
<1> QED BY <1>1, <1>2, <1>3 DEF TriggerGap

(* A job that ends takes recovering with it if it is the one fresh names. *)
LEMMA OwnedEnds ==
  ASSUME OwnedInv, TypeOK, NEW s \in Slots, job' = [job EXCEPT ![s] = FreeSlot], phase' = phase,
         recovering' => recovering /\ ~ (job[s].gap /\ fresh = s),
         fresh' = IF fresh = s THEN NoSlot ELSE fresh
  PROVE  OwnedInv'
<1>1. job'[s].gap = FALSE /\ \A r \in Slots : r # s => job'[r] = job[r]
  BY DEF TypeOK, JobType, FreeSlot
<1>2. \A r \in Slots : job'[r].st = "none" => ~ job'[r].gap
  BY <1>1 DEF OwnedInv
<1>3. RecoveryIsOwned'
  <2> SUFFICES ASSUME recovering', phase' # "halting" PROVE fresh' # NoSlot /\ job'[fresh'].gap
    BY DEF RecoveryIsOwned
  <2>1. fresh # NoSlot /\ job[fresh].gap /\ fresh # s
    BY DEF OwnedInv, RecoveryIsOwned
  <2> QED BY <1>1, <2>1 DEF TypeOK, BoxType
<1> QED BY <1>2, <1>3 DEF OwnedInv

LEMMA OwnedStep ==
  ASSUME OwnedInv, TypeOK, [Next]_vars
  PROVE  OwnedInv'
<1>1. ASSUME NEW u \in Updates, ReceiveStep(u) PROVE OwnedInv'
  <2>1. CASE ReceiveNext(u) \/ ReceiveUncounted(u)
    BY <2>1, OwnedStays DEF ReceiveNext, ReceiveUncounted, boxVars, jobVars, phaseVars
  <2>2. CASE ReceiveEarly(u)
    BY <2>2, OwnedTrigger DEF ReceiveEarly, phaseVars
  <2> QED BY <1>1, <2>1, <2>2 DEF ReceiveStep
<1>2. ASSUME NEW t \in Threads, BoxStep(t) PROVE OwnedInv'
  BY <1>2, OwnedStays DEF BoxStep, Apply, FlushNext, FlushEnd, boxVars, jobVars, phaseVars
<1>3. ASSUME NEW s \in Slots, StartJob(s) PROVE OwnedInv'
  <2>1. CASE job[s].gap /\ (fresh # s \/ Empty)
    <3>1. job' = [job EXCEPT ![s] = FreeSlot] /\ phase' = phase
      BY <1>3, <2>1 DEF StartJob, phaseVars
    <3>2. recovering' = (recovering /\ fresh # s) /\ fresh' = IF fresh = s THEN NoSlot ELSE fresh
      BY <1>3, <2>1 DEF StartJob
    <3> QED BY <3>1, <3>2, OwnedEnds
  <2>2. CASE ~ (job[s].gap /\ (fresh # s \/ Empty))
    <3> DEFINE new == [job[s] EXCEPT !.st = "claim", !.from = current]
    <3>1. job' = [job EXCEPT ![s] = new] /\ UNCHANGED <<recovering, fresh, phase>>
      BY <1>3, <2>2 DEF StartJob, phaseVars
    <3>2. new.gap = job[s].gap /\ new.st # "none"
      BY DEF TypeOK, JobType, Job
    <3> HIDE DEF new
    <3> QED BY <3>1, <3>2, OwnedGoes
  <2> QED BY <2>1, <2>2
<1>4. ASSUME NEW s \in Slots, Claim(s) PROVE OwnedInv'
  <2>1. UNCHANGED <<recovering, fresh, phase>>
    BY <1>4 DEF Claim, boxVars, phaseVars
  <2>2. CASE Goto(s, "finish")
    BY <2>1, <2>2, OwnedGoto
  <2>3. CASE job' = [job EXCEPT ![s] = [@ EXCEPT !.st = "ask", !.cut = (phase # "up")]]
    <3> DEFINE new == [job[s] EXCEPT !.st = "ask", !.cut = (phase # "up")]
    <3>1. job' = [job EXCEPT ![s] = new] /\ new.gap = job[s].gap /\ new.st # "none"
      BY <2>3 DEF TypeOK, JobType, Job
    <3> HIDE DEF new
    <3> QED BY <2>1, <3>1, OwnedGoes
  <2> QED BY <1>4, <2>2, <2>3 DEF Claim
<1>5. ASSUME NEW s \in Slots, NEW st \in {"ask", "asked", "set", "state", "release", "finish"}, Goto(s, st),
             UNCHANGED <<recovering, fresh, phase>>
      PROVE  OwnedInv'
  BY <1>5, OwnedGoto
<1>6. ASSUME NEW s \in Slots, Ask(s) \/ Release(s) PROVE OwnedInv'
  BY <1>5, <1>6 DEF Ask, Release, boxVars, phaseVars
<1>7. ASSUME NEW s \in Slots, AskFails(s) \/ AnswerEmpty(s) PROVE OwnedInv'
  BY <1>5, <1>7 DEF AskFails, AnswerEmpty, boxVars, phaseVars
<1>8. ASSUME NEW s \in Slots, AnswerTooLong(s) \/ AnswerState(s) PROVE OwnedInv'
  BY <1>5, <1>8 DEF AnswerTooLong, AnswerState, JumpTo, phaseVars
<1>9. ASSUME NEW s \in Slots, AnswerDifference(s) PROVE OwnedInv'
  <2>1. PICK v \in 1..published, complete \in BOOLEAN, uncounted \in BOOLEAN :
          job' = [job EXCEPT ![s] = [@ EXCEPT !.st = "handing", !.goal = End[v], !.last = complete,
                                              !.left = Difference(job[s].from, End[v], uncounted)]]
    BY <1>9 DEF AnswerDifference
  <2> DEFINE new == [job[s] EXCEPT !.st = "handing", !.goal = End[v], !.last = complete,
                                  !.left = Difference(job[s].from, End[v], uncounted)]
  <2>2. job' = [job EXCEPT ![s] = new] /\ new.gap = job[s].gap /\ new.st # "none"
    BY <2>1 DEF TypeOK, JobType, Job
  <2>3. UNCHANGED <<recovering, fresh, phase>>
    BY <1>9 DEF AnswerDifference, boxVars, phaseVars
  <2> HIDE DEF new
  <2> QED BY <2>2, <2>3, OwnedGoes
<1>10. ASSUME NEW s \in Slots, NEW u \in Updates,
              HandMessage(s, u) \/ Recover(s, u) \/ RecoverUncounted(s, u) \/ RecoverKnown(s, u)
       PROVE  OwnedInv'
  <2> DEFINE new == [job[s] EXCEPT !.left = @ \ {u}]
  <2>1. job[s].st = "handing" /\ job' = [job EXCEPT ![s].left = @ \ {u}]
    BY <1>10 DEF HandMessage, Recover, RecoverUncounted, RecoverKnown, HandsOver, At
  <2>2. job' = [job EXCEPT ![s] = new] /\ new.gap = job[s].gap /\ new.st # "none"
    BY <2>1 DEF TypeOK, JobType, Job
  <2>3. UNCHANGED <<recovering, fresh, phase>>
    BY <1>10 DEF HandMessage, Recover, RecoverUncounted, RecoverKnown, boxVars, phaseVars
  <2> HIDE DEF new
  <2> QED BY <2>2, <2>3, OwnedGoes
<1>11. ASSUME NEW s \in Slots, SetGoal(s) PROVE OwnedInv'
  BY <1>5, <1>11 DEF SetGoal, phaseVars
<1>12. ASSUME NEW s \in Slots, AfterSet(s) PROVE OwnedInv'
  <2>1. UNCHANGED <<recovering, fresh, phase>>
    BY <1>12 DEF AfterSet, boxVars, phaseVars
  <2>2. CASE Goto(s, "release")
    BY <2>1, <2>2, OwnedGoto
  <2>3. CASE job' = [job EXCEPT ![s] = [@ EXCEPT !.st = "ask", !.from = job[s].goal]]
    <3> DEFINE new == [job[s] EXCEPT !.st = "ask", !.from = job[s].goal]
    <3>1. job' = [job EXCEPT ![s] = new] /\ new.gap = job[s].gap /\ new.st # "none"
      BY <2>3 DEF TypeOK, JobType, Job
    <3> HIDE DEF new
    <3> QED BY <2>1, <3>1, OwnedGoes
  <2> QED BY <1>12, <2>2, <2>3 DEF AfterSet
<1>13. ASSUME NEW s \in Slots, Finish(s) PROVE OwnedInv'
  <2>1. job' = [job EXCEPT ![s] = FreeSlot] /\ phase' = phase
    BY <1>13 DEF Finish, phaseVars
  <2>2. recovering' = (recovering /\ ~ (job[s].gap /\ fresh = s)) /\ fresh' = IF fresh = s THEN NoSlot ELSE fresh
    BY <1>13 DEF Finish
  <2> QED BY <2>1, <2>2, OwnedEnds
<1>14. ASSUME RequestDifference PROVE OwnedInv'
  <2>1. PICK s \in Slots : job[s].st = "none" /\ job' = [job EXCEPT ![s] = [FreeSlot EXCEPT !.st = "queued"]]
    BY <1>14 DEF RequestDifference
  <2> DEFINE new == [FreeSlot EXCEPT !.st = "queued"]
  <2>2. new.gap = FALSE /\ new.st # "none" /\ job[s].gap = FALSE
    BY <2>1 DEF FreeSlot, OwnedInv, TypeOK, JobType, Job
  <2>3. UNCHANGED <<recovering, fresh, phase>>
    BY <1>14 DEF RequestDifference, boxVars, phaseVars
  <2> HIDE DEF new
  <2>4. job' = [job EXCEPT ![s] = new]
    BY <2>1 DEF new
  <2> QED BY <2>2, <2>3, <2>4, OwnedGoes
<1>15. ASSUME Tick PROVE OwnedInv'
  BY <1>15, OwnedTrigger DEF Tick, phaseVars
<1>16. ASSUME CoolDown \/ Publish PROVE OwnedInv'
  BY <1>16, OwnedStays DEF CoolDown, Publish, boxVars, jobVars, phaseVars
<1>17. ASSUME Invalidate PROVE OwnedInv'
  BY <1>17 DEF Invalidate, OwnedInv, RecoveryIsOwned, jobVars
<1>18. ASSUME ResetBackground PROVE OwnedInv'
  BY <1>18, OwnedStays DEF ResetBackground, boxVars, jobVars
<1>19. ASSUME NEW discard \in BOOLEAN, Shutdown(discard) PROVE OwnedInv'
  <2>1. phase' = "halting"
    BY <1>19 DEF Shutdown
  <2>2. ASSUME NEW s \in Slots PROVE job'[s].st = "none" => ~ job'[s].gap
    <3>1. CASE job'[s] = FreeSlot
      BY <3>1 DEF FreeSlot
    <3>2. CASE job'[s] = [job[s] EXCEPT !.cut = @ \/ job[s].st \notin {"none", "queued", "claim"}]
      <4>1. job[s] \in Job
        BY DEF TypeOK, JobType
      <4>2. job'[s].st = job[s].st /\ job'[s].gap = job[s].gap
        BY <3>2, <4>1 DEF Job
      <4> QED BY <4>2 DEF OwnedInv
    <3> QED BY <1>19, <3>1, <3>2 DEF Shutdown
  <2> QED BY <2>1, <2>2 DEF OwnedInv, RecoveryIsOwned
<1>20. CASE UNCHANGED vars
  BY <1>20, OwnedStays DEF vars, boxVars, jobVars, phaseVars
<1> QED
  BY ONLY [Next]_vars, <1>1, <1>2, <1>3, <1>4, <1>6, <1>7, <1>8, <1>9, <1>10, <1>11, <1>12, <1>13, <1>14, <1>15, <1>16, <1>17, <1>18, <1>19, <1>20
     DEF Next, JobStep, AnswerStep, HandStep

(* recovering, which turns every further recovery away, is never left set  *)
(* without a job that clears it, whatever order triggerGapLocked, the      *)
(* workers and shutdownBackground run in.                                  *)
THEOREM OwnedAlways == Spec => []RecoveryIsOwned
<1>1. Init => OwnedInv
  BY DEF Init, OwnedInv, RecoveryIsOwned, FreeSlot
<1>2. OwnedInv /\ TypeOK /\ [Next]_vars => OwnedInv'
  BY OwnedStep
<1>3. OwnedInv => RecoveryIsOwned
  BY DEF OwnedInv
<1> QED BY <1>1, <1>2, <1>3, TypeCorrect, PTL DEF Spec

-----------------------------------------------------------------------------
(* OneFetch: busy is set as long as a job is between Claim and Release.    *)
Idling == {"none", "queued", "claim", "finish"}
FetchInv ==
  /\ \A s \in Slots : job[s].st \notin Idling => busy
  /\ \A r, s \in Slots : job[r].st \notin Idling /\ job[s].st \notin Idling => r = s

LEMMA FetchStays ==
  ASSUME FetchInv, busy' = busy, \A s \in Slots : job'[s].st \notin Idling => job[s].st \notin Idling
  PROVE  FetchInv'
BY DEF FetchInv

(* Only job s moves, and it was fetching already or stops doing so. *)
LEMMA FetchMoves ==
  ASSUME FetchInv, TypeOK, NEW s \in Slots, NEW new, job' = [job EXCEPT ![s] = new], busy' = busy,
         new.st \in Idling \/ job[s].st \notin Idling
  PROVE  FetchInv'
<1>1. job'[s] = new /\ \A r \in Slots : r # s => job'[r] = job[r]
  BY DEF TypeOK, JobType
<1>2. \A r \in Slots : job'[r].st \notin Idling => job[r].st \notin Idling
  BY <1>1
<1> QED BY <1>2, FetchStays

LEMMA FetchGoto ==
  ASSUME FetchInv, TypeOK, NEW s \in Slots, NEW st, Goto(s, st), busy' = busy,
         st \in Idling \/ job[s].st \notin Idling
  PROVE  FetchInv'
<1> DEFINE new == [job[s] EXCEPT !.st = st]
<1>1. job' = [job EXCEPT ![s] = new] /\ new.st = st
  BY DEF Goto, TypeOK, JobType, Job
<1> HIDE DEF new
<1> QED BY <1>1, FetchMoves

LEMMA FetchTrigger ==
  ASSUME FetchInv, TypeOK, TriggerGap, busy' = busy
  PROVE  FetchInv'
<1>1. CASE job' = job
  BY <1>1, FetchStays
<1>2. ASSUME NEW s \in Slots, job' = [job EXCEPT ![s] = [FreeSlot EXCEPT !.st = "queued", !.gap = TRUE]]
      PROVE  FetchInv'
  <2>1. [FreeSlot EXCEPT !.st = "queued", !.gap = TRUE].st \in Idling
    BY DEF FreeSlot, Idling
  <2> QED BY <1>2, <2>1, FetchMoves
<1> QED BY <1>1, <1>2 DEF TriggerGap

LEMMA FetchStep ==
  ASSUME FetchInv, TypeOK, [Next]_vars
  PROVE  FetchInv'
<1>0. "finish" \in Idling /\ "handing" \notin Idling
  BY DEF Idling
<1>1. ASSUME NEW u \in Updates, ReceiveStep(u) PROVE FetchInv'
  <2>1. CASE ReceiveNext(u) \/ ReceiveUncounted(u)
    BY <2>1, FetchStays DEF ReceiveNext, ReceiveUncounted, jobVars
  <2>2. CASE ReceiveEarly(u)
    BY <2>2, FetchTrigger DEF ReceiveEarly
  <2> QED BY <1>1, <2>1, <2>2 DEF ReceiveStep
<1>2. ASSUME NEW t \in Threads, BoxStep(t) PROVE FetchInv'
  BY <1>2, FetchStays DEF BoxStep, Apply, FlushNext, FlushEnd, jobVars
<1>3. ASSUME NEW s \in Slots, StartJob(s) PROVE FetchInv'
  <2>1. busy' = busy
    BY <1>3 DEF StartJob
  <2>2. CASE job' = [job EXCEPT ![s] = FreeSlot]
    <3>1. FreeSlot.st \in Idling
      BY DEF FreeSlot, Idling
    <3> QED BY <2>1, <2>2, <3>1, FetchMoves
  <2>3. CASE job' = [job EXCEPT ![s] = [@ EXCEPT !.st = "claim", !.from = current]]
    <3> DEFINE new == [job[s] EXCEPT !.st = "claim", !.from = current]
    <3>1. job' = [job EXCEPT ![s] = new] /\ new.st \in Idling
      BY <2>3 DEF TypeOK, JobType, Job, Idling
    <3> HIDE DEF new
    <3> QED BY <2>1, <3>1, FetchMoves
  <2> QED BY <1>3, <2>2, <2>3 DEF StartJob
<1>4. ASSUME NEW s \in Slots, Claim(s) PROVE FetchInv'
  <2>1. CASE busy
    BY <1>0, <1>4, <2>1, FetchGoto DEF Claim
  <2>2. CASE ~ busy
    <3>1. busy' = TRUE /\ \A r \in Slots : r # s => job'[r] = job[r]
      BY <1>4, <2>2 DEF Claim, TypeOK, JobType
    <3>2. \A r \in Slots : r # s => job'[r].st \in Idling
      BY <2>2, <3>1 DEF FetchInv
    <3> QED BY <3>1, <3>2 DEF FetchInv
  <2> QED BY <2>1, <2>2
<1>5. ASSUME NEW s \in Slots, Ask(s) \/ AnswerEmpty(s) \/ AnswerTooLong(s) \/ AnswerState(s) \/ AskFails(s)
      PROVE  FetchInv'
  <2>1. job[s].st \notin Idling
    BY <1>5 DEF Ask, AnswerEmpty, AnswerTooLong, AnswerState, AskFails, At, Idling
  <2>2. busy' = busy
    BY <1>5 DEF Ask, AnswerEmpty, AnswerTooLong, AnswerState, AskFails, JumpTo
  <2>3. Goto(s, "release") \/ Goto(s, "asked") \/ Goto(s, "state")
    BY <1>5 DEF Ask, AnswerEmpty, AnswerTooLong, AnswerState, AskFails
  <2> QED BY <2>1, <2>2, <2>3, FetchGoto
<1>6. ASSUME NEW s \in Slots, AnswerDifference(s) PROVE FetchInv'
  <2>1. PICK new : job' = [job EXCEPT ![s] = new]
    BY <1>6 DEF AnswerDifference
  <2>2. job[s].st \notin Idling /\ busy' = busy
    BY <1>6 DEF AnswerDifference, At, Idling
  <2> QED BY <2>1, <2>2, FetchMoves
<1>7. ASSUME NEW s \in Slots, NEW u \in Updates,
             HandMessage(s, u) \/ Recover(s, u) \/ RecoverUncounted(s, u) \/ RecoverKnown(s, u)
      PROVE  FetchInv'
  <2> DEFINE new == [job[s] EXCEPT !.left = @ \ {u}]
  <2>1. job' = [job EXCEPT ![s].left = @ \ {u}] /\ job[s].st = "handing" /\ busy' = busy
    BY <1>7 DEF HandMessage, Recover, RecoverUncounted, RecoverKnown, HandsOver, At
  <2>2. job' = [job EXCEPT ![s] = new]
    BY <2>1 DEF TypeOK, JobType
  <2> HIDE DEF new
  <2> QED BY <1>0, <2>1, <2>2, FetchMoves
<1>8. ASSUME NEW s \in Slots, SetGoal(s) PROVE FetchInv'
  BY <1>0, <1>8, FetchGoto DEF SetGoal, At
<1>9. ASSUME NEW s \in Slots, AfterSet(s) PROVE FetchInv'
  <2>1. job[s].st \notin Idling /\ busy' = busy
    BY <1>9 DEF AfterSet, At, Idling
  <2>2. CASE Goto(s, "release")
    BY <2>1, <2>2, FetchGoto
  <2>3. CASE job' = [job EXCEPT ![s] = [@ EXCEPT !.st = "ask", !.from = job[s].goal]]
    BY <2>1, <2>3, FetchMoves
  <2> QED BY <1>9, <2>2, <2>3 DEF AfterSet
<1>10. ASSUME NEW s \in Slots, Release(s) PROVE FetchInv'
  <2>1. job[s].st \notin Idling
    BY <1>10 DEF Release, At, Idling
  <2>2. job'[s].st \in Idling /\ \A r \in Slots : r # s => job'[r] = job[r]
    BY <1>0, <1>10 DEF Release, Goto, TypeOK, JobType, Job
  <2>3. \A r \in Slots : job'[r].st \in Idling
    BY <2>1, <2>2 DEF FetchInv
  <2> QED BY <2>3 DEF FetchInv
<1>11. ASSUME NEW s \in Slots, Finish(s) PROVE FetchInv'
  <2>1. FreeSlot.st \in Idling
    BY DEF FreeSlot, Idling
  <2> QED BY <1>11, <2>1, FetchMoves DEF Finish
<1>12. ASSUME RequestDifference PROVE FetchInv'
  <2>1. PICK s \in Slots : job' = [job EXCEPT ![s] = [FreeSlot EXCEPT !.st = "queued"]]
    BY <1>12 DEF RequestDifference
  <2>2. [FreeSlot EXCEPT !.st = "queued"].st \in Idling /\ busy' = busy
    BY <1>12 DEF RequestDifference, FreeSlot, Idling
  <2> QED BY <2>1, <2>2, FetchMoves
<1>13. ASSUME Tick PROVE FetchInv'
  BY <1>13, FetchTrigger DEF Tick
<1>14. ASSUME CoolDown \/ Publish \/ Invalidate \/ ResetBackground PROVE FetchInv'
  BY <1>14, FetchStays DEF CoolDown, Publish, Invalidate, ResetBackground, jobVars
<1>15. ASSUME NEW discard \in BOOLEAN, Shutdown(discard) PROVE FetchInv'
  <2>1. ASSUME NEW s \in Slots PROVE job'[s].st \notin Idling => job[s].st \notin Idling
    <3>1. CASE job'[s] = FreeSlot
      BY <3>1 DEF FreeSlot, Idling
    <3>2. CASE job'[s] = [job[s] EXCEPT !.cut = @ \/ job[s].st \notin {"none", "queued", "claim"}]
      <4>1. job[s] \in Job
        BY DEF TypeOK, JobType
      <4> QED BY <3>2, <4>1 DEF Job
    <3> QED BY <1>15, <3>1, <3>2 DEF Shutdown
  <2> QED BY <1>15, <2>1, FetchStays DEF Shutdown
<1>16. CASE UNCHANGED vars
  BY <1>16, FetchStays DEF vars, jobVars
<1> QED
  BY ONLY [Next]_vars, <1>1, <1>2, <1>3, <1>4, <1>5, <1>6, <1>7, <1>8, <1>9, <1>10, <1>11, <1>12, <1>13, <1>14, <1>15, <1>16
     DEF Next, JobStep, AnswerStep, HandStep

(* However many recoveries are queued, and across shutdowns that void the  *)
(* attempt of a running one, only one of them fetches (FetchDifference's   *)
(* recoveringDifference).                                                  *)
THEOREM OneFetchAlways == Spec => []OneFetch
<1>1. Init => FetchInv
  BY DEF Init, FetchInv, FreeSlot, Idling
<1>2. FetchInv /\ TypeOK /\ [Next]_vars => FetchInv'
  BY FetchStep
<1>3. FetchInv => OneFetch
  BY DEF FetchInv, OneFetch, Idling
<1> QED BY <1>1, <1>2, <1>3, TypeCorrect, PTL DEF Spec

(* What the run checks as one: nothing twice, nothing passed over, and the *)
(* recovery that must close a gap exists, once.                            *)
THEOREM BoxSafeAlways == Spec => []BoxSafe
  BY HandledOnceAlways, NothingSkippedAlways, OneFetchAlways, OwnedAlways, PTL DEF BoxSafe
=============================================================================
