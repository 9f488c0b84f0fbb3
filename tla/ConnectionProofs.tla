-------------------------- MODULE ConnectionProofs --------------------------
(***************************************************************************)
(* Proofs about module Connection, for any number of threads, attempts and *)
(* faults: there is never more than one reader, an open gate means there   *)
(* is a transport, a Disconnect is never undone by background recovery (as *)
(* long as nobody switches the data centre), a connection that is half way *)
(* is always somebody's, and no request is left behind on a dead one but   *)
(* by a set-up or a reconnect that failed.                                 *)
(*                                                                         *)
(* The first part (SafeInv) is mutual exclusion by lifecycleMu plus what   *)
(* its holder knows.  Disconnect runs stopRoutines a first time without    *)
(* the lock; that pass only closes things, and closing disturbs nothing    *)
(* there.  The second part (CareInv) adds, for every state that somebody   *)
(* has to leave, who that is: the thread that owns inProgress, the one     *)
(* inside Disconnect, the one whose context has ended.                     *)
(***************************************************************************)
EXTENDS Connection, TLAPS

(* Steps taken under lifecycleMu by whoever takes them ... *)
LockLabels ==
  {"check", "flag", "peek", "wait", "dial", "up", "read", "setup", "undo", "undo_link",
   "undo_wait", "down_wait"}

(* ... and by all but those that are in their first pass of a Disconnect.  *)
PassLabels == {"down", "down_gate", "stop", "stop_ctx", "stop_link", "stop_notify"}

(* Steps between the closing of the gate and the next opening. *)
ShutLabels ==
  {"stop_ctx", "stop_link", "stop_notify", "wait", "dial", "up", "undo_link", "undo_wait",
   "down_wait"}

ReaderLabels == {"none", "gate", "reading", "failed", "report", "odd", "ask", "done"}

PcType == pc \in [Threads -> Labels]

ReaderType == reader \in [Gens -> ReaderLabels] /\ gen \in Nat

LockHeld ==
  \A t \in Threads :
    pc[t] \in LockLabels \/ (pc[t] \in PassLabels /\ t \notin downing) => lock = t

DowningHere ==
  \A t \in Threads :
    /\ t \in downing => pc[t] \in PassLabels \union {"down_lock", "down_wait"}
    /\ pc[t] \in {"down", "down_gate", "down_lock", "down_wait"} => t \in downing

GateShut == \A t \in Threads : lock = t /\ pc[t] \in ShutLabels => ~ active

TransportIsLast ==
  /\ transport \in {0, gen}
  /\ \A t \in Threads : pc[t] \in {"dial", "up"} => gen # 0
  /\ \A t \in Threads : pc[t] = "up" => transport = gen

ReaderIsLast == \A g \in Gens : Reading(g) => gen = g

SafeInv ==
  /\ PcType /\ ReaderType
  /\ LockHeld /\ DowningHere /\ GateShut /\ TransportIsLast /\ ReaderIsLast /\ ActiveHasTransport

-----------------------------------------------------------------------------

(* A step that changes no more than this concerns the connection only from *)
(* outside: threads move among the labels outside the lock, the gate may   *)
(* close, readers may stop.  Most actions are such steps.                  *)
OutsideLabels == Labels \ (LockLabels \union PassLabels \union {"down_lock"})

(* Nobody enters the lock or goes on under it, nobody goes on with a       *)
(* Disconnect, and no Reconnect begins.                                    *)
OutsideMove(p) ==
  /\ p \in [Threads -> Labels]
  /\ \A t \in Threads : p[t] = pc[t] \/ p[t] \in OutsideLabels
  /\ \A t \in Threads : pc[t] \in LockLabels => p[t] = pc[t]
  /\ \A t \in Threads : t \in downing => p[t] = pc[t]
  /\ \A t \in Reconnectors : pc[t] \in {"idle", "done"} => p[t] \in {"idle", "done"}

Outside ==
  /\ active' \in {active, FALSE}
  /\ UNCHANGED <<disconnected, terminated, lock, transport, gen, downing, stayOff>>
  /\ OutsideMove(pc')
  /\ reader' \in [Gens -> ReaderLabels]
  /\ \A g \in Gens : reader[g] \in {"none", "done"} => reader'[g] = reader[g]

LEMMA OutsideSafe ==
  ASSUME SafeInv, Outside
  PROVE  SafeInv'
<1>1. PcType' /\ ReaderType'
  BY DEF SafeInv, Outside, OutsideMove, PcType, ReaderType
<1>2. LockHeld'
  BY DEF SafeInv, Outside, OutsideMove, LockHeld, OutsideLabels
<1>7. DowningHere'
  BY DEF SafeInv, Outside, OutsideMove, DowningHere, OutsideLabels, LockLabels, PassLabels
<1>3. GateShut'
  <2>1. SUFFICES ASSUME NEW t \in Threads, lock' = t, pc'[t] \in ShutLabels
                 PROVE  ~ active'
    BY DEF GateShut
  <2>2. pc'[t] = pc[t]
    BY <2>1 DEF Outside, OutsideMove, OutsideLabels, ShutLabels, LockLabels, PassLabels
  <2>3. ~ active
    BY <2>1, <2>2 DEF SafeInv, GateShut, Outside
  <2> QED BY <2>3 DEF Outside
<1>4. TransportIsLast'
  BY DEF SafeInv, Outside, OutsideMove, TransportIsLast, OutsideLabels, LockLabels
<1>5. ReaderIsLast'
  BY DEF SafeInv, Outside, OutsideMove, ReaderIsLast, Reading
<1>6. ActiveHasTransport'
  BY DEF SafeInv, Outside, OutsideMove, ActiveHasTransport
<1> QED BY <1>1, <1>2, <1>3, <1>4, <1>5, <1>6, <1>7 DEF SafeInv

(* Whoever asks for a reconnect moves on and may start a goroutine, which  *)
(* is not inside the lock yet.                                             *)
LEMMA StartsAuto ==
  ASSUME DowningHere, NEW p, OutsideMove(p), NEW a \in Autos, p[a] = "idle"
  PROVE  OutsideMove([p EXCEPT ![a] = "gate"])
BY ConnectionAssumption
   DEF DowningHere, OutsideMove, OutsideLabels, Labels, LockLabels, PassLabels, Threads

LEMMA ReconnectMove ==
  ASSUME DowningHere, NEW p, OutsideMove(p), RequestReconnectThen(p)
  PROVE  OutsideMove(pc')
BY StartsAuto DEF RequestReconnectThen

(* The actions that are such steps. *)
LEMMA RoleOutside ==
  ASSUME SafeInv, NEW t \in Threads,
         \/ GiveUpLock(t) \/ ParentDone(t) \/ AutoGate(t) \/ FinishReconnect(t)
         \/ SwitchDelete(t) \/ SwitchClear(t) \/ SwitchEnd(t)
  PROVE  Outside
<1> USE ConnectionAssumption DEF SafeInv, PcType, ReaderType, DowningHere, Outside, OutsideMove, OutsideLabels, Labels, LockLabels, PassLabels,
            At, Goto, SetActive, gateVars, flagVars, connVars, coreVars, roleVars, reqVars, ghostVars, restVars
<1>1. CASE GiveUpLock(t) BY <1>1 DEF GiveUpLock, AfterConnect
<1>2. CASE ParentDone(t) BY <1>2 DEF ParentDone
<1>3. CASE AutoGate(t)
  <2>1. OutsideMove(pc')
    BY <1>3 DEF AutoGate
  <2> HIDE DEF OutsideMove
  <2>2. active' \in {active, FALSE}
    BY <1>3 DEF AutoGate
  <2> QED BY <1>3, <2>1, <2>2 DEF AutoGate
<1>4. CASE FinishReconnect(t)
  <2> DEFINE p == [pc EXCEPT ![t] = IF t \in Autos THEN "idle" ELSE "done"]
  <2>1. OutsideMove(p)
    BY <1>4 DEF FinishReconnect
  <2>2. pc' = p \/ \E a \in Autos : p[a] = "idle" /\ pc' = [p EXCEPT ![a] = "gate"]
    BY <1>4 DEF FinishReconnect
  <2> HIDE DEF p, OutsideMove
  <2>3. OutsideMove(pc')
    BY ONLY SafeInv, <2>1, <2>2, StartsAuto DEF SafeInv
  <2> QED BY <1>4, <2>3 DEF FinishReconnect
<1>5. CASE SwitchDelete(t)
  <2>1. PICK l \in {"sw_clear", "sw_end"} : Goto(t, l)
    BY <1>5 DEF SwitchDelete
  <2>2. OutsideMove(pc')
    BY <1>5, <2>1 DEF SwitchDelete
  <2> HIDE DEF OutsideMove
  <2> QED BY <1>5, <2>2 DEF SwitchDelete
<1>6. CASE SwitchClear(t) BY <1>6 DEF SwitchClear
<1>7. CASE SwitchEnd(t) BY <1>7 DEF SwitchEnd
<1> QED BY <1>1, <1>2, <1>3, <1>4, <1>5, <1>6, <1>7

LEMMA RequestOutside ==
  ASSUME SafeInv, NEW c \in Callers,
         RequestStep(c) \/ AwaitExpires(c) \/ WriteExpires(c) \/ ReceiveExpires(c)
  PROVE  Outside
<1> USE ConnectionAssumption DEF SafeInv, PcType, ReaderType, DowningHere, Outside, OutsideMove, OutsideLabels, Labels, LockLabels, PassLabels,
            At, Goto, SetActive, gateVars, flagVars, connVars, coreVars, roleVars, reqVars, ghostVars, restVars
<1> USE DEF Threads
<1>1. CASE BeginAttempt(c) BY <1>1 DEF BeginAttempt
<1>2. CASE EnsureTransport(c) BY <1>2 DEF EnsureTransport
<1>3. CASE AwaitActive(c) BY <1>3 DEF AwaitActive
<1>4. CASE PickTransport(c) BY <1>4 DEF PickTransport, RequestReconnectThen, AfterSendError
<1>5. CASE Register(c) BY <1>5 DEF Register
<1>6. CASE Write(c)
  <2>1. PICK l \in {"mr_recv", "mr_lost"} : Goto(c, l)
    BY <1>6 DEF Write
  <2>2. pc[c] = "mr_write" /\ UNCHANGED <<coreVars, restVars>>
    BY <1>6 DEF Write
  <2> QED BY <2>1, <2>2
<1>7. CASE WriteFailed(c)
  <2>1. OutsideMove([pc EXCEPT ![c] = AfterSendError(c)])
    BY <1>7 DEF WriteFailed, AfterSendError
  <2> HIDE DEF OutsideMove
  <2>2. OutsideMove(pc')
    BY <1>7, <2>1, ReconnectMove DEF WriteFailed, ReconnectTransportThen
  <2>3. active' \in {active, FALSE}
    BY <1>7 DEF WriteFailed, ReconnectTransportThen
  <2> QED BY <1>7, <2>2, <2>3 DEF WriteFailed, OutsideMove
<1>8. CASE Receive(c) BY <1>8 DEF Receive
<1>9. CASE AwaitExpires(c) BY <1>9 DEF AwaitExpires
<1>10. CASE WriteExpires(c) BY <1>10 DEF WriteExpires
<1>11. CASE ReceiveExpires(c) BY <1>11 DEF ReceiveExpires, RequestReconnectThen
<1> QED BY <1>1, <1>2, <1>3, <1>4, <1>5, <1>6, <1>7, <1>8, <1>9, <1>10, <1>11 DEF RequestStep

LEMMA ReaderOutside ==
  ASSUME SafeInv, NEW g \in Gens,
         \/ ReaderStep(g) \/ ReaderReceives(g) \/ ReaderOdd(g) \/ Reader404(g) \/ LinkBreaks(g)
         \/ \E c \in Callers : ReaderAnswers(g, c)
  PROVE  Outside
<1> USE ConnectionAssumption DEF SafeInv, PcType, ReaderType, DowningHere, Outside, OutsideMove, OutsideLabels, Labels, LockLabels, PassLabels, ReaderLabels,
            At, Goto, SetActive, gateVars, flagVars, connVars, coreVars, roleVars, reqVars, ghostVars, restVars, ReaderGoto, readerRest
<1> USE DEF Threads
<1>1. CASE ReaderStops(g) BY <1>1 DEF ReaderStops
<1>2. CASE ReaderEnters(g) BY <1>2 DEF ReaderEnters
<1>3. CASE ReaderFails(g) BY <1>3 DEF ReaderFails
<1>4. CASE ReaderChecks(g) BY <1>4 DEF ReaderChecks
<1>5. CASE ReaderReports(g)
  <2>1. OutsideMove(pc)
    OBVIOUS
  <2> HIDE DEF OutsideMove
  <2>2. OutsideMove(pc') /\ active' \in {active, FALSE}
    BY <1>5, <2>1, ReconnectMove DEF ReaderReports, ReconnectTransportThen
  <2> QED BY <1>5, <2>2 DEF ReaderReports
<1>6. CASE ReaderDecides(g) BY <1>6 DEF ReaderDecides
<1>7. CASE ReaderAsks(g) BY <1>7 DEF ReaderAsks, RequestReconnectThen
<1>8. CASE ReaderReceives(g) BY <1>8 DEF ReaderReceives
<1>9. CASE ReaderOdd(g) BY <1>9 DEF ReaderOdd
<1>10. CASE Reader404(g) BY <1>10 DEF Reader404, RequestReconnectThen
<1>11. CASE LinkBreaks(g) BY <1>11 DEF LinkBreaks
<1>12. CASE \E c \in Callers : ReaderAnswers(g, c) BY <1>12 DEF ReaderAnswers
<1> QED BY <1>1, <1>2, <1>3, <1>4, <1>5, <1>6, <1>7, <1>8, <1>9, <1>10, <1>11, <1>12 DEF ReaderStep

LEMMA WriteOutside ==
  ASSUME SafeInv, BackgroundWrite
  PROVE  Outside
<1>1. OutsideMove(pc)
  BY DEF SafeInv, PcType, OutsideMove
<1>2. OutsideMove(pc') /\ active' \in {active, FALSE}
  BY <1>1, ReconnectMove DEF SafeInv, BackgroundWrite, ReconnectTransportThen, SetActive, gateVars
<1> QED BY <1>2 DEF BackgroundWrite, SafeInv, ReaderType, Outside, flagVars, connVars, roleVars,
                    readerRest

-----------------------------------------------------------------------------
(* The steps under the lock, and the first pass of a Disconnect.           *)

LEMMA InsideSafe ==
  ASSUME SafeInv, NEW t \in Threads,
         ConnectStep(t) \/ StopStep(t) \/ DownStep(t) \/ BeginStop(t) \/ BeginSwitch(t) \/ BeginReconnect(t)
  PROVE  SafeInv'
<1> USE ConnectionAssumption DEF SafeInv, PcType, ReaderType, LockHeld, DowningHere, GateShut, TransportIsLast, ReaderIsLast, ActiveHasTransport, Reading,
            Labels, LockLabels, PassLabels, ShutLabels, ReaderLabels,
            At, Goto, SetActive, CloseGate, gateVars, flagVars, connVars, coreVars, roleVars, reqVars, ghostVars, restVars
<1>1. CASE LockLifecycle(t) BY <1>1 DEF LockLifecycle
<1>2. CASE CheckTerminated(t) BY <1>2 DEF CheckTerminated, Return, AfterConnect
<1>3. CASE CheckDisconnected(t) BY <1>3 DEF CheckDisconnected, Return, AfterConnect
<1>4. CASE PeekConnected(t) BY <1>4 DEF PeekConnected, Return, AfterConnect
<1>5. CASE AwaitRoutines(t) BY <1>5 DEF AwaitRoutines
<1>6. CASE Dial(t) BY <1>6 DEF Dial
<1>7. CASE DialFails(t) BY <1>7 DEF DialFails
<1>8. CASE OpenGate(t) BY <1>8 DEF OpenGate
<1>9. CASE StartReader(t)
  <2>1. PcType' /\ ReaderType'
    BY <1>9 DEF StartReader
  <2>2. LockHeld' /\ DowningHere' /\ GateShut'
    BY <1>9 DEF StartReader
  <2>3. TransportIsLast' /\ ActiveHasTransport'
    BY <1>9 DEF StartReader
  <2>4. ReaderIsLast'
    BY <1>9 DEF StartReader
  <2> QED BY ONLY <2>1, <2>2, <2>3, <2>4 DEF SafeInv
<1>10. CASE Commit(t) BY <1>10 DEF Commit, Return, AfterConnect
<1>11. CASE SetupFails(t) BY <1>11 DEF SetupFails
<1>12. CASE UndoGate(t) BY <1>12 DEF UndoGate
<1>13. CASE UndoTransport(t) BY <1>13 DEF UndoTransport
<1>14. CASE UndoWait(t) BY <1>14 DEF UndoWait, Return, AfterConnect
<1>15. CASE StopGate(t) BY <1>15 DEF StopGate
<1>16. CASE StopContext(t) BY <1>16 DEF StopContext
<1>17. CASE StopTransport(t) BY <1>17 DEF StopTransport
<1>18. CASE StopNotify(t) BY <1>18 DEF StopNotify
<1>19. CASE DownFlags(t) BY <1>19 DEF DownFlags
<1>20. CASE DownGate(t) BY <1>20 DEF DownGate
<1>21. CASE DownLock(t) BY <1>21 DEF DownLock
<1>22. CASE DownWait(t) BY <1>22 DEF DownWait
<1>23. CASE BeginStop(t) BY <1>23 DEF BeginStop
<1>24. CASE BeginSwitch(t) BY <1>24 DEF BeginSwitch
<1>25. CASE BeginReconnect(t) BY <1>25 DEF BeginReconnect
<1> QED BY <1>1, <1>2, <1>3, <1>4, <1>5, <1>6, <1>7, <1>8, <1>9, <1>10, <1>11, <1>12, <1>13, <1>14,
     <1>15, <1>16, <1>17, <1>18, <1>19, <1>20, <1>21, <1>22, <1>23, <1>24, <1>25 DEF ConnectStep,
     StopStep, DownStep

LEMMA SafeInit ==
  ASSUME Init
  PROVE  SafeInv
BY ConnectionAssumption
   DEF Init, SafeInv, PcType, ReaderType, LockHeld, DowningHere, GateShut, TransportIsLast, ReaderIsLast,
       ActiveHasTransport, Reading, Labels, LockLabels, PassLabels, ShutLabels, ReaderLabels

(* Every step is an inside step, an outside step or a stutter. *)
Inside(t) ==
  ConnectStep(t) \/ StopStep(t) \/ DownStep(t) \/ BeginStop(t) \/ BeginSwitch(t) \/ BeginReconnect(t)

LEMMA StepKinds ==
  ASSUME SafeInv, [Next]_vars
  PROVE  (\E t \in Threads : Inside(t)) \/ Outside
<1>1. CASE UNCHANGED vars
  BY <1>1 DEF vars, coreVars, restVars, gateVars, flagVars, connVars, reqVars, roleVars, ghostVars,
              SafeInv, PcType, ReaderType, Outside, OutsideMove
<1>2. CASE Next
  BY <1>2, RoleOutside, RequestOutside, ReaderOutside, WriteOutside
     DEF Next, RoleStep, SwitchStep, Environment, Inside, Threads
<1> QED BY <1>1, <1>2

LEMMA SafeStep ==
  ASSUME SafeInv, [Next]_vars
  PROVE  SafeInv'
BY StepKinds, InsideSafe, OutsideSafe DEF Inside

(* The invariant holds in every reachable state. *)
THEOREM SafeInvariant == Spec => []SafeInv
BY SafeInit, SafeStep, PTL DEF Spec

LEMMA SafeMeans == SafeInv => OneReader
BY DEF SafeInv, ReaderIsLast, TransportIsLast, OneReader

(* There are never two readers on the client (property OneReader): the old *)
(* one is gone before the next transport is made, so it cannot take a      *)
(* message off the new connection (mtproto.go:766-767, routineswg.Wait).   *)
THEOREM OneReaderAlways == Spec => []OneReader
BY SafeMeans, SafeInvariant, PTL

(* Nobody whom the gate lets pass finds the transport missing (property    *)
(* ActiveHasTransport): every path that drops m.transport closes the gate  *)
(* first and keeps it closed under lifecycleMu.                            *)
THEOREM GateMeansTransport == Spec => []ActiveHasTransport
<1>1. SafeInv => ActiveHasTransport
  BY DEF SafeInv
<1> QED BY <1>1, SafeInvariant, PTL

-----------------------------------------------------------------------------
(* A Disconnect sticks.                                                    *)

StopLabels  == {"stop", "stop_ctx", "stop_link", "stop_notify"}
BuildLabels == {"peek", "wait", "dial", "up", "read", "setup"}

(* The second pass of a Disconnect works with disconnected set. *)
StopperSaid ==
  \A t \in Threads :
    lock = t /\ t \in downing /\ pc[t] \in StopLabels \union {"down_gate", "down_wait"}
      => disconnected

(* Nobody is building a connection, and nobody will. *)
NobodyBuilds ==
  \A t \in Threads :
    /\ pc[t] \notin BuildLabels
    /\ pc[t] \in StopLabels => t \in downing
    /\ t \in Reconnectors => pc[t] # "flag" /\ (pc[t] \in {"idle", "done"} \/ terminated)

StickInv == StopperSaid /\ (stayOff => NobodyBuilds) /\ DisconnectSticks

LEMMA StickOutside ==
  ASSUME SafeInv, StickInv, Outside
  PROVE  StickInv'
<1>1. StopperSaid'
  BY DEF StickInv, StopperSaid, StopLabels, Outside, OutsideMove, OutsideLabels, LockLabels, PassLabels
<1>2. (stayOff => NobodyBuilds)'
  BY DEF StickInv, NobodyBuilds, StopLabels, BuildLabels, Outside, OutsideMove, OutsideLabels,
         LockLabels, PassLabels
<1>3. DisconnectSticks'
  BY DEF StickInv, DisconnectSticks, Outside
<1> QED BY <1>1, <1>2, <1>3 DEF StickInv

LEMMA StickInside ==
  ASSUME Switchers = {}, SafeInv, StickInv, NEW t \in Threads, Inside(t)
  PROVE  StickInv'
<1> USE ConnectionAssumption
    DEF SafeInv, PcType, LockHeld, DowningHere, GateShut, StickInv, StopperSaid, NobodyBuilds, DisconnectSticks,
        StopLabels, BuildLabels, Labels, LockLabels, PassLabels, ShutLabels,
        At, Goto, SetActive, CloseGate, Allowed, gateVars, flagVars, connVars, coreVars, roleVars,
        reqVars, ghostVars, restVars
<1>1. CASE LockLifecycle(t) BY <1>1 DEF LockLifecycle
<1>2. CASE CheckTerminated(t) BY <1>2 DEF CheckTerminated, Return, AfterConnect
<1>3. CASE CheckDisconnected(t) BY <1>3 DEF CheckDisconnected, Return, AfterConnect
<1>4. CASE PeekConnected(t) BY <1>4 DEF PeekConnected, Return, AfterConnect
<1>5. CASE AwaitRoutines(t) BY <1>5 DEF AwaitRoutines
<1>6. CASE Dial(t) BY <1>6 DEF Dial
<1>7. CASE DialFails(t) BY <1>7 DEF DialFails
<1>8. CASE OpenGate(t) BY <1>8 DEF OpenGate
<1>9. CASE StartReader(t) BY <1>9 DEF StartReader
<1>10. CASE Commit(t) BY <1>10 DEF Commit, Return, AfterConnect
<1>11. CASE SetupFails(t) BY <1>11 DEF SetupFails
<1>12. CASE UndoGate(t) BY <1>12 DEF UndoGate
<1>13. CASE UndoTransport(t) BY <1>13 DEF UndoTransport
<1>14. CASE UndoWait(t) BY <1>14 DEF UndoWait, Return, AfterConnect
<1>15. CASE StopGate(t) BY <1>15 DEF StopGate
<1>16. CASE StopContext(t) BY <1>16 DEF StopContext
<1>17. CASE StopTransport(t) BY <1>17 DEF StopTransport
<1>18. CASE StopNotify(t) BY <1>18 DEF StopNotify
<1>19. CASE DownFlags(t) BY <1>19 DEF DownFlags
<1>20. CASE DownGate(t)
  <2>1. StopperSaid'
    BY <1>20 DEF DownGate
  <2>2. (stayOff => NobodyBuilds)'
    BY <1>20 DEF DownGate
  <2>3. DisconnectSticks'
    BY <1>20 DEF DownGate
  <2> QED BY ONLY <2>1, <2>2, <2>3 DEF StickInv
<1>21. CASE DownLock(t) BY <1>21 DEF DownLock
<1>22. CASE DownWait(t)
  <2>1. lock = t /\ t \in downing /\ disconnected /\ ~ active
    BY <1>22 DEF DownWait
  <2>2. StopperSaid'
    BY <1>22, <2>1 DEF DownWait
  <2>3. DisconnectSticks'
    BY <1>22, <2>1 DEF DownWait
  <2>4. ASSUME stayOff', NEW u \in Threads
        PROVE  /\ pc'[u] \notin BuildLabels
               /\ pc'[u] \in StopLabels => u \in downing'
               /\ u \in Reconnectors => pc'[u] # "flag" /\ (pc'[u] \in {"idle", "done"} \/ terminated')
    <3>1. CASE u = t
      BY <1>22, <2>1, <2>4, <3>1 DEF DownWait
    <3>2. CASE u # t
      <4>1. pc'[u] = pc[u] /\ pc[u] \notin LockLabels /\ (pc[u] \in StopLabels => u \in downing')
        BY <1>22, <2>1, <3>2 DEF DownWait
      <4>2. terminated' = terminated /\ (stayOff \/ terminated \/ ~ ExplicitConnect)
        BY <1>22, <2>4 DEF DownWait
      <4>3. u \in Reconnectors => pc[u] \in {"idle", "done"} \/ terminated
        BY <4>2 DEF ExplicitConnect
      <4> QED BY <4>1, <4>2, <4>3
    <3> QED BY <3>1, <3>2
  <2> QED BY <2>2, <2>3, <2>4
<1>23. CASE BeginStop(t) BY <1>23 DEF BeginStop
<1>24. CASE BeginSwitch(t) BY <1>24 DEF BeginSwitch
<1>25. CASE BeginReconnect(t)
  <2>1. StopperSaid'
    BY <1>25 DEF BeginReconnect
  <2>2. (stayOff => NobodyBuilds)'
    <3>1. stayOff' => stayOff /\ terminated
      BY <1>25 DEF BeginReconnect
    <3>2. terminated => pc' = [pc EXCEPT ![t] = "done"] /\ terminated'
      BY <1>25 DEF BeginReconnect
    <3>3. downing' = downing
      BY <1>25 DEF BeginReconnect
    <3> QED BY <3>1, <3>2, <3>3
  <2>3. DisconnectSticks'
    BY <1>25 DEF BeginReconnect
  <2> QED BY ONLY <2>1, <2>2, <2>3 DEF StickInv
<1> QED BY <1>1, <1>2, <1>3, <1>4, <1>5, <1>6, <1>7, <1>8, <1>9, <1>10, <1>11, <1>12, <1>13, <1>14,
     <1>15, <1>16, <1>17, <1>18, <1>19, <1>20, <1>21, <1>22, <1>23, <1>24, <1>25 DEF Inside,
     ConnectStep, StopStep, DownStep

LEMMA StickInit ==
  ASSUME Init
  PROVE  StickInv
BY ConnectionAssumption DEF Init, StickInv, StopperSaid, DisconnectSticks

(* Background recovery never undoes a Disconnect, and nothing undoes a     *)
(* Terminate (property DisconnectSticks; comment mtproto.go:740-743), if   *)
(* nobody switches the data centre.                                        *)
THEOREM DisconnectStaysOff ==
  ASSUME Switchers = {}
  PROVE  Spec => []DisconnectSticks
<1>1. Init => StickInv
  BY StickInit
<1>2. SafeInv /\ StickInv /\ [Next]_vars => StickInv'
  BY StepKinds, StickInside, StickOutside
<1>3. StickInv => DisconnectSticks
  BY DEF StickInv
<1> QED BY <1>1, <1>2, <1>3, SafeInvariant, PTL DEF Spec

-----------------------------------------------------------------------------
(* From the dial on there has been an attempt, whose context can be        *)
(* cancelled.                                                              *)
AttemptMade == \A t \in Threads : pc[t] \in {"dial", "up", "read", "setup", "undo"} => gen # 0

LEMMA MadeStep ==
  ASSUME SafeInv, AttemptMade, [Next]_vars
  PROVE  AttemptMade'
<1>1. CASE Outside
  BY <1>1 DEF AttemptMade, Outside, OutsideMove, OutsideLabels, LockLabels
<1>2. ASSUME NEW t \in Threads, Inside(t) PROVE AttemptMade'
  <2> USE DEF SafeInv, PcType, ReaderType, AttemptMade, At, Goto, connVars, coreVars, restVars
  <2>1. CASE LockLifecycle(t)
    BY <2>1 DEF LockLifecycle
  <2>2. CASE CheckTerminated(t)
    BY <2>2 DEF CheckTerminated, Return, AfterConnect
  <2>3. CASE CheckDisconnected(t)
    BY <2>3 DEF CheckDisconnected, Return, AfterConnect
  <2>4. CASE PeekConnected(t)
    BY <2>4 DEF PeekConnected, Return, AfterConnect
  <2>5. CASE AwaitRoutines(t)
    BY <2>5 DEF AwaitRoutines
  <2>6. CASE Dial(t)
    BY <2>6 DEF Dial
  <2>7. CASE DialFails(t)
    BY <2>7 DEF DialFails
  <2>8. CASE OpenGate(t)
    BY <2>8 DEF OpenGate
  <2>9. CASE StartReader(t)
    BY <2>9 DEF StartReader
  <2>10. CASE Commit(t)
    BY <2>10 DEF Commit, Return, AfterConnect
  <2>11. CASE SetupFails(t)
    BY <2>11 DEF SetupFails
  <2>12. CASE UndoGate(t)
    BY <2>12 DEF UndoGate
  <2>13. CASE UndoTransport(t)
    BY <2>13 DEF UndoTransport
  <2>14. CASE UndoWait(t)
    BY <2>14 DEF UndoWait, Return, AfterConnect
  <2>15. CASE StopGate(t)
    BY <2>15 DEF StopGate
  <2>16. CASE StopContext(t)
    BY <2>16 DEF StopContext
  <2>17. CASE StopTransport(t)
    BY <2>17 DEF StopTransport
  <2>18. CASE StopNotify(t)
    BY <2>18 DEF StopNotify
  <2>19. CASE DownFlags(t)
    BY <2>19 DEF DownFlags
  <2>20. CASE DownGate(t)
    BY <2>20 DEF DownGate
  <2>21. CASE DownLock(t)
    BY <2>21 DEF DownLock
  <2>22. CASE DownWait(t)
    BY <2>22 DEF DownWait
  <2>23. CASE BeginStop(t)
    BY <2>23 DEF BeginStop
  <2>24. CASE BeginSwitch(t)
    BY <2>24 DEF BeginSwitch
  <2>25. CASE BeginReconnect(t)
    BY <2>25 DEF BeginReconnect
  <2>26. QED
    BY <1>2, <2>1, <2>2, <2>3, <2>4, <2>5, <2>6, <2>7, <2>8, <2>9, <2>10, <2>11, <2>12, <2>13,
       <2>14, <2>15, <2>16, <2>17, <2>18, <2>19, <2>20, <2>21, <2>22, <2>23, <2>24,
       <2>25 DEF Inside, ConnectStep, StopStep, DownStep
<1>3. QED
  BY <1>1, <1>2, StepKinds

-----------------------------------------------------------------------------
(* The types of the variables that SafeInv says nothing about.             *)

FlagTypes ==
  /\ active \in BOOLEAN /\ closed \in BOOLEAN
  /\ disconnected \in BOOLEAN /\ terminated \in BOOLEAN /\ inProgress \in BOOLEAN
  /\ stayOff \in BOOLEAN /\ gaveUp \in BOOLEAN /\ keyRefused \in BOOLEAN

ConnTypes ==
  /\ lock \in Threads \union {None}
  /\ transport \in 0..MaxGen /\ gen \in 0..MaxGen
  /\ ctxDone \subseteq Gens /\ undone \subseteq Gens
  /\ link \in [Gens -> {"none", "open", "broken", "shut"}]

RoleTypes ==
  /\ up \in [Threads -> BOOLEAN] /\ downing \subseteq Threads /\ expired \subseteq Impatient

ReqTypes ==
  /\ slot \in [Callers -> {"none", "wait", "changed", "reply", "closed"}]
  /\ on \in [Callers -> 0..MaxGen]

CountTypes ==
  /\ attempt \in [Callers -> 0..MaxAttempts]
  /\ timeouts \in 0..TimeoutLimit /\ faults \in 0..MaxFaults

MoreTypes == FlagTypes /\ ConnTypes /\ RoleTypes /\ ReqTypes /\ CountTypes

LEMMA ConnectTypes ==
  ASSUME SafeInv, AttemptMade, MoreTypes, NEW t \in Threads,
         ConnectStep(t)
  PROVE  MoreTypes'
<1> USE ConnectionAssumption
    DEF MoreTypes, FlagTypes, ConnTypes, RoleTypes, ReqTypes, CountTypes, Gens,
        At, Goto, gateVars, flagVars, connVars, coreVars, roleVars, reqVars, ghostVars, restVars, SafeInv, TransportIsLast
<1>1. CASE LockLifecycle(t)
  BY <1>1 DEF LockLifecycle
<1>2. CASE CheckTerminated(t)
  BY <1>2 DEF CheckTerminated, Return, AfterConnect
<1>3. CASE CheckDisconnected(t)
  BY <1>3 DEF CheckDisconnected, Return, AfterConnect, Allowed
<1>4. CASE PeekConnected(t)
  BY <1>4 DEF PeekConnected, Return, AfterConnect
<1>5. CASE AwaitRoutines(t)
  BY <1>5 DEF AwaitRoutines
<1>6. CASE Dial(t)
  BY <1>6 DEF Dial
<1>7. CASE DialFails(t)
  BY <1>7 DEF DialFails
<1>8. CASE OpenGate(t)
  BY <1>8 DEF OpenGate, SetActive
<1>9. CASE StartReader(t)
  BY <1>9 DEF StartReader
<1>10. CASE Commit(t)
  BY <1>10 DEF Commit, Return, AfterConnect
<1>11. CASE SetupFails(t)
  BY <1>11 DEF SetupFails
<1>12. CASE UndoGate(t)
  <2>1. gen \in Gens
    BY <1>12 DEF UndoGate, AttemptMade
  <2>2. FlagTypes'
    BY <1>12 DEF UndoGate, SetActive
  <2>3. ctxDone' \subseteq Gens /\ UNCHANGED <<lock, transport, gen, link, restVars>>
    BY <1>12, <2>1 DEF UndoGate
  <2>4. QED
    BY <2>2, <2>3
<1>13. CASE UndoTransport(t)
  BY <1>13 DEF UndoTransport, CloseLink
<1>14. CASE UndoWait(t)
  BY <1>14 DEF UndoWait, Return, AfterConnect
<1> QED
  BY <1>1, <1>2, <1>3, <1>4, <1>5, <1>6, <1>7, <1>8, <1>9, <1>10, <1>11, <1>12, <1>13,
     <1>14 DEF ConnectStep

LEMMA StopTypes ==
  ASSUME SafeInv, AttemptMade, MoreTypes, NEW t \in Threads,
         StopGate(t) \/ StopContext(t) \/ StopTransport(t) \/ StopNotify(t) \/ DownFlags(t) \/ DownGate(t) \/ DownLock(t) \/ DownWait(t) \/ BeginStop(t) \/ BeginSwitch(t) \/ BeginReconnect(t)
  PROVE  MoreTypes'
<1> USE ConnectionAssumption
    DEF MoreTypes, FlagTypes, ConnTypes, RoleTypes, ReqTypes, CountTypes, Gens,
        At, Goto, gateVars, flagVars, connVars, coreVars, roleVars, reqVars, ghostVars, restVars, SafeInv, DowningHere
<1>1. CASE StopGate(t)
  BY <1>1 DEF StopGate, SetActive
<1>2. CASE StopContext(t)
  BY <1>2 DEF StopContext
<1>3. CASE StopTransport(t)
  BY <1>3 DEF StopTransport, CloseLink
<1>4. CASE StopNotify(t)
  BY <1>4 DEF StopNotify, NotifyPending
<1>5. CASE DownFlags(t)
  BY <1>5 DEF DownFlags
<1>6. CASE DownGate(t)
  BY <1>6 DEF DownGate, CloseGate
<1>7. CASE DownLock(t)
  BY <1>7 DEF DownLock
<1>8. CASE DownWait(t)
  BY <1>8 DEF DownWait
<1>9. CASE BeginStop(t)
  BY <1>9 DEF BeginStop
<1>10. CASE BeginSwitch(t)
  BY <1>10 DEF BeginSwitch
<1>11. CASE BeginReconnect(t)
  BY <1>11 DEF BeginReconnect
<1> QED
  BY <1>1, <1>2, <1>3, <1>4, <1>5, <1>6, <1>7, <1>8, <1>9, <1>10, <1>11

LEMMA RoleTypesStep ==
  ASSUME SafeInv, AttemptMade, MoreTypes, NEW t \in Threads,
         SwitchDelete(t) \/ SwitchClear(t) \/ SwitchEnd(t) \/ AutoGate(t) \/ FinishReconnect(t) \/ GiveUpLock(t) \/ ParentDone(t)
  PROVE  MoreTypes'
<1> USE ConnectionAssumption
    DEF MoreTypes, FlagTypes, ConnTypes, RoleTypes, ReqTypes, CountTypes, Gens,
        At, Goto, gateVars, flagVars, connVars, coreVars, roleVars, reqVars, ghostVars, restVars, SafeInv, TransportIsLast
<1>1. CASE SwitchDelete(t)
  BY <1>1 DEF SwitchDelete
<1>2. CASE SwitchClear(t)
  BY <1>2 DEF SwitchClear, NotifyPending
<1>3. CASE SwitchEnd(t)
  BY <1>3 DEF SwitchEnd
<1>4. CASE AutoGate(t)
  BY <1>4 DEF AutoGate, SetActive
<1>5. CASE FinishReconnect(t)
  BY <1>5 DEF FinishReconnect
<1>6. CASE GiveUpLock(t)
  BY <1>6 DEF GiveUpLock, AfterConnect
<1>7. CASE ParentDone(t)
  BY <1>7 DEF ParentDone, AttemptMade
<1> QED
  BY <1>1, <1>2, <1>3, <1>4, <1>5, <1>6, <1>7

LEMMA RequestTypes ==
  ASSUME SafeInv, AttemptMade, MoreTypes, NEW c \in Callers,
         RequestStep(c) \/ AwaitExpires(c) \/ WriteExpires(c) \/ ReceiveExpires(c)
  PROVE  MoreTypes'
<1> USE ConnectionAssumption
    DEF MoreTypes, FlagTypes, ConnTypes, RoleTypes, ReqTypes, CountTypes, Gens,
        At, Goto, gateVars, flagVars, connVars, coreVars, roleVars, reqVars, ghostVars, restVars
<1>1. CASE BeginAttempt(c)
  BY <1>1 DEF BeginAttempt
<1>2. CASE EnsureTransport(c)
  BY <1>2 DEF EnsureTransport
<1>3. CASE AwaitActive(c)
  BY <1>3 DEF AwaitActive
<1>4. CASE PickTransport(c)
  <2>1. FlagTypes'
    BY <1>4 DEF PickTransport, RequestReconnectThen
  <2>2. ConnTypes' /\ RoleTypes' /\ CountTypes'
    BY <1>4 DEF PickTransport
  <2>3. ReqTypes'
    BY <1>4 DEF PickTransport
  <2> QED BY <2>1, <2>2, <2>3
<1>5. CASE Register(c)
  BY <1>5 DEF Register
<1>6. CASE Write(c)
  BY <1>6 DEF Write
<1>7. CASE WriteFailed(c)
  BY <1>7 DEF WriteFailed, ReconnectTransportThen, RequestReconnectThen, SetActive, AfterSendError
<1>8. CASE Receive(c)
  BY <1>8 DEF Receive
<1>9. CASE AwaitExpires(c)
  BY <1>9 DEF AwaitExpires
<1>10. CASE WriteExpires(c)
  BY <1>10 DEF WriteExpires, CloseLink
<1>11. CASE ReceiveExpires(c)
  <2>1. timeouts' \in 0..TimeoutLimit
    BY <1>11 DEF ReceiveExpires
  <2>2. inProgress' \in BOOLEAN
    BY <1>11 DEF ReceiveExpires, RequestReconnectThen
  <2>3. /\ expired' = expired \union {c} /\ c \in Impatient /\ slot' = [slot EXCEPT ![c] = "none"]
        /\ UNCHANGED <<gateVars, flagVars, lock, connVars, reader, up, downing, on, attempt, ghostVars>>
        /\ pc[c] = "mr_recv"
    BY <1>11 DEF ReceiveExpires
  <2>4. QED
    BY <2>1, <2>2, <2>3
<1> QED
  BY <1>1, <1>2, <1>3, <1>4, <1>5, <1>6, <1>7, <1>8, <1>9, <1>10, <1>11 DEF RequestStep

LEMMA ReaderTypes ==
  ASSUME SafeInv, AttemptMade, MoreTypes, NEW g \in Gens,
         ReaderStep(g) \/ ReaderReceives(g) \/ ReaderOdd(g) \/ Reader404(g) \/ LinkBreaks(g)
  PROVE  MoreTypes'
<1> USE ConnectionAssumption
    DEF MoreTypes, FlagTypes, ConnTypes, RoleTypes, ReqTypes, CountTypes, Gens,
        At, Goto, gateVars, flagVars, connVars, coreVars, roleVars, reqVars, ghostVars, restVars, readerRest
<1>1. CASE ReaderStops(g)
  BY <1>1 DEF ReaderStops, ReaderGoto
<1>2. CASE ReaderEnters(g)
  BY <1>2 DEF ReaderEnters, ReaderGoto
<1>3. CASE ReaderFails(g)
  BY <1>3 DEF ReaderFails, ReaderGoto
<1>4. CASE ReaderChecks(g)
  BY <1>4 DEF ReaderChecks, ReaderGoto
<1>5. CASE ReaderReports(g)
  BY <1>5 DEF ReaderReports, ReconnectTransportThen, RequestReconnectThen, SetActive, ReaderGoto
<1>6. CASE ReaderDecides(g)
  BY <1>6 DEF ReaderDecides, ReaderGoto
<1>7. CASE ReaderAsks(g)
  BY <1>7 DEF ReaderAsks, RequestReconnectThen, ReaderGoto
<1>8. CASE ReaderReceives(g)
  BY <1>8 DEF ReaderReceives, ReaderGoto
<1>9. CASE ReaderOdd(g)
  BY <1>9 DEF ReaderOdd, ReaderGoto
<1>10. CASE Reader404(g)
  <2>1. /\ faults' \in 0..MaxFaults /\ inProgress' \in BOOLEAN /\ keyRefused' \in BOOLEAN
    <3>1. faults' \in 0..MaxFaults
      BY <1>10 DEF Reader404
    <3>2. inProgress' \in BOOLEAN /\ keyRefused' \in BOOLEAN
      BY <1>10 DEF Reader404, RequestReconnectThen
    <3>3. QED
      BY <3>1, <3>2
  <2>2. UNCHANGED <<gateVars, flagVars, lock, connVars, roleVars, reqVars, stayOff, gaveUp, undone>>
    BY <1>10 DEF Reader404
  <2>3. QED
    BY <2>1, <2>2
<1>11. CASE LinkBreaks(g)
  BY <1>11 DEF LinkBreaks
<1> QED
  BY <1>1, <1>2, <1>3, <1>4, <1>5, <1>6, <1>7, <1>8, <1>9, <1>10, <1>11 DEF ReaderStep

TypeInv == SafeInv /\ AttemptMade /\ MoreTypes

LEMMA TypeInit ==
  ASSUME Init
  PROVE  TypeInv
<1> USE ConnectionAssumption DEF Init
<1>1. SafeInv /\ AttemptMade
  BY SafeInit DEF AttemptMade
<1>2. FlagTypes /\ RoleTypes
  BY DEF FlagTypes, RoleTypes
<1>3. ConnTypes
  BY DEF ConnTypes
<1>4. ReqTypes
  BY DEF ReqTypes
<1>5. CountTypes
  <2>1. 0 \in 0..MaxAttempts /\ 0 \in 0..TimeoutLimit /\ 0 \in 0..MaxFaults
    OBVIOUS
  <2> QED BY <2>1 DEF CountTypes
<1> QED BY <1>1, <1>2, <1>3, <1>4, <1>5 DEF TypeInv, MoreTypes

LEMMA TypesKept ==
  ASSUME ConnTypes, RoleTypes, ReqTypes, CountTypes,
         UNCHANGED <<lock, connVars, undone, roleVars, reqVars, faults>>
  PROVE  ConnTypes' /\ RoleTypes' /\ ReqTypes' /\ CountTypes'
<1>1. ConnTypes' /\ RoleTypes'
  BY DEF ConnTypes, RoleTypes, connVars, roleVars
<1>2. ReqTypes'
  BY DEF ReqTypes, reqVars
<1>3. CountTypes'
  BY DEF CountTypes, reqVars
<1> QED BY <1>1, <1>2, <1>3

LEMMA TypeStep ==
  ASSUME TypeInv, [Next]_vars
  PROVE  TypeInv'
<1> USE DEF TypeInv
<1>1. SafeInv' /\ AttemptMade'
  BY SafeStep, MadeStep
<1>2. ASSUME NEW g \in Gens, NEW c \in Callers, ReaderAnswers(g, c) PROVE MoreTypes'
  BY <1>2 DEF ReaderAnswers, MoreTypes, FlagTypes, ConnTypes, RoleTypes, ReqTypes, CountTypes,
              gateVars, flagVars, connVars, roleVars, ghostVars
<1>3. CASE BackgroundWrite
  <2>1. active' \in BOOLEAN /\ closed' \in BOOLEAN /\ inProgress' \in BOOLEAN
    BY <1>3 DEF BackgroundWrite, ReconnectTransportThen, RequestReconnectThen, SetActive, MoreTypes,
                FlagTypes, gateVars
  <2>2. UNCHANGED <<faults, readerRest>>
    BY <1>3 DEF BackgroundWrite
  <2>3. FlagTypes'
    BY <2>1, <2>2 DEF readerRest, flagVars, MoreTypes, FlagTypes
  <2>4. UNCHANGED <<lock, connVars, undone, roleVars, reqVars, faults>>
    BY <2>2 DEF readerRest
  <2>5. ConnTypes' /\ RoleTypes' /\ ReqTypes' /\ CountTypes'
    BY <2>4, TypesKept DEF MoreTypes
  <2> QED BY <1>1, <2>3, <2>5 DEF MoreTypes
<1>4. CASE UNCHANGED vars
  <2>1. FlagTypes'
    BY <1>4 DEF vars, coreVars, restVars, gateVars, flagVars, ghostVars, MoreTypes, FlagTypes
  <2>2. UNCHANGED <<lock, connVars, undone, roleVars, reqVars, faults>>
    BY <1>4 DEF vars, coreVars, restVars, ghostVars
  <2>3. ConnTypes' /\ RoleTypes' /\ ReqTypes' /\ CountTypes'
    BY <2>2, TypesKept DEF MoreTypes
  <2> QED BY <1>1, <2>1, <2>3 DEF MoreTypes
<1>5. CASE Next
  <2>1. ASSUME NEW t \in Threads, ConnectStep(t) \/ StopStep(t) \/ DownStep(t) \/ SwitchStep(t) \/ RoleStep(t)
        PROVE  MoreTypes'
    BY <2>1, ConnectTypes, StopTypes, RoleTypesStep DEF StopStep, DownStep, SwitchStep, RoleStep
  <2>2. ASSUME NEW c \in Callers, RequestStep(c) \/ AwaitExpires(c) \/ WriteExpires(c) \/ ReceiveExpires(c)
        PROVE  MoreTypes'
    BY <2>2, RequestTypes
  <2>3. ASSUME NEW g \in Gens,
               ReaderStep(g) \/ ReaderReceives(g) \/ ReaderOdd(g) \/ Reader404(g) \/ LinkBreaks(g)
        PROVE  MoreTypes'
    BY <2>3, ReaderTypes
  <2>4. ASSUME NEW t \in Threads,
               BeginStop(t) \/ BeginSwitch(t) \/ BeginReconnect(t) \/ GiveUpLock(t) \/ ParentDone(t)
        PROVE  MoreTypes'
    BY <2>4, StopTypes, RoleTypesStep
  <2>5. CASE Environment
    BY <1>1, <1>2, <1>3, <2>2, <2>3, <2>4, <2>5 DEF Environment, Threads
  <2> QED BY <1>1, <1>5, <2>1, <2>2, <2>3, <2>5 DEF Next, Threads
<1> QED BY <1>1, <1>4, <1>5

LEMMA TypeMeans == TypeInv => TypeOK
BY DEF TypeInv, SafeInv, PcType, ReaderType, ReaderLabels, MoreTypes, FlagTypes, ConnTypes, RoleTypes,
       ReqTypes, CountTypes, TypeOK

(* Every variable keeps its type, whatever the threads, faults and bounds. *)
THEOREM TypeCorrect == Spec => []TypeOK
BY TypeMeans, TypeInit, TypeStep, PTL DEF Spec

-----------------------------------------------------------------------------
(* The steps of Next, by who takes them.                                   *)

TearAction(t) ==
  StopStep(t) \/ DownStep(t) \/ BeginStop(t) \/ BeginSwitch(t) \/ BeginReconnect(t)
RoleAction(t) == SwitchStep(t) \/ RoleStep(t) \/ GiveUpLock(t) \/ ParentDone(t)
RequestAction(c) == RequestStep(c) \/ AwaitExpires(c) \/ WriteExpires(c) \/ ReceiveExpires(c)
ReaderAction(g) ==
  ReaderStep(g) \/ ReaderReceives(g) \/ ReaderOdd(g) \/ Reader404(g) \/ LinkBreaks(g)
OtherAction ==
  \/ BackgroundWrite
  \/ \E g \in Gens, c \in Callers : ReaderAnswers(g, c)
  \/ UNCHANGED vars

LEMMA NextKinds ==
  ASSUME [Next]_vars
  PROVE  \/ \E t \in Threads : ConnectStep(t) \/ TearAction(t) \/ RoleAction(t)
         \/ \E c \in Callers : RequestAction(c)
         \/ \E g \in Gens : ReaderAction(g)
         \/ OtherAction
<1>1. CASE Environment
  BY <1>1 DEF Environment, TearAction, RoleAction, RequestAction, ReaderAction, OtherAction, Threads
<1>2. CASE Next
  BY <1>1, <1>2 DEF Next, TearAction, RoleAction, RequestAction, ReaderAction, Threads
<1> QED BY <1>1, <1>2 DEF OtherAction

(* A background write that fails closes the gate and asks for a reconnect. *)
LEMMA WriteEffects ==
  ASSUME BackgroundWrite
  PROVE  /\ ~ active'
         /\ UNCHANGED <<reader, disconnected, terminated, lock, connVars, roleVars, reqVars, gaveUp, undone>>
         /\ \/ inProgress /\ UNCHANGED <<inProgress, pc>>
            \/ \E a \in Autos : pc[a] = "idle" /\ pc' = [pc EXCEPT ![a] = "gate"]
BY DEF BackgroundWrite, ReconnectTransportThen, RequestReconnectThen, SetActive, readerRest, flagVars

LEMMA WriteMoves ==
  ASSUME PcType, BackgroundWrite, NEW t \in Threads
  PROVE  pc'[t] = pc[t] \/ (pc[t] = "idle" /\ pc'[t] = "gate")
BY WriteEffects DEF PcType

-----------------------------------------------------------------------------
(* Whatever is half way, somebody owns it.                                 *)

Works(t) == pc[t] \notin {"idle", "done"}

(* inProgress is set only while a goroutine that will clear it is at work. *)
InProgressOwned ==
  inProgress => \E t \in Reconnectors \union Switchers \union Autos : Works(t)

Downers == downing \subseteq Stoppers \union Switchers

(* A connection that is down is left only by whoever replaces or drops it. *)
TearLabels == {"stop_ctx", "stop_link", "stop_notify", "wait", "up", "undo_link"}
HalfOwned ==
  ~ gaveUp /\ transport # 0 /\ ~ active /\ ~ disconnected /\ ~ terminated =>
    \/ \E t \in Threads \ Callers : Works(t)
    \/ \E c \in Callers : lock = c /\ pc[c] \in TearLabels

OwnInv == InProgressOwned /\ Downers /\ HalfOwned

LEMMA OwnInvConnect ==
  ASSUME TypeInv, OwnInv, NEW t \in Threads,
         ConnectStep(t)
  PROVE  OwnInv'
<1> USE ConnectionAssumption
    DEF OwnInv, InProgressOwned, Downers, HalfOwned, Works, TearLabels, Threads,
        TypeInv, SafeInv, PcType, LockHeld, DowningHere, GateShut, TransportIsLast, LockLabels, PassLabels, ShutLabels,
        At, Goto, gateVars, flagVars, connVars, coreVars, roleVars, reqVars, ghostVars, restVars
<1>1. CASE LockLifecycle(t)
  BY <1>1 DEF LockLifecycle
<1>2. CASE CheckTerminated(t)
  BY <1>2 DEF CheckTerminated, Return, AfterConnect
<1>3. CASE CheckDisconnected(t)
  BY <1>3 DEF CheckDisconnected, Return, AfterConnect, Allowed
<1>4. CASE PeekConnected(t)
  BY <1>4 DEF PeekConnected, Return, AfterConnect
<1>5. CASE AwaitRoutines(t)
  BY <1>5 DEF AwaitRoutines
<1>6. CASE Dial(t)
  BY <1>6 DEF Dial
<1>7. CASE DialFails(t)
  BY <1>7 DEF DialFails
<1>8. CASE OpenGate(t)
  BY <1>8 DEF OpenGate, SetActive
<1>9. CASE StartReader(t)
  BY <1>9 DEF StartReader
<1>10. CASE Commit(t)
  BY <1>10 DEF Commit, Return, AfterConnect
<1>11. CASE SetupFails(t)
  BY <1>11 DEF SetupFails
<1>12. CASE UndoGate(t)
  BY <1>12 DEF UndoGate, SetActive
<1>13. CASE UndoTransport(t)
  BY <1>13 DEF UndoTransport, CloseLink
<1>14. CASE UndoWait(t)
  BY <1>14 DEF UndoWait, Return, AfterConnect
<1> QED
  BY <1>1, <1>2, <1>3, <1>4, <1>5, <1>6, <1>7, <1>8, <1>9, <1>10, <1>11, <1>12, <1>13,
     <1>14 DEF ConnectStep

LEMMA OwnInvStop ==
  ASSUME TypeInv, OwnInv, NEW t \in Threads,
         TearAction(t)
  PROVE  OwnInv'
<1> USE ConnectionAssumption
    DEF OwnInv, InProgressOwned, Downers, HalfOwned, Works, TearLabels, Threads,
        TypeInv, SafeInv, PcType, LockHeld, DowningHere, GateShut, TransportIsLast, LockLabels, PassLabels, ShutLabels,
        At, Goto, gateVars, flagVars, connVars, coreVars, roleVars, reqVars, ghostVars, restVars
<1>1. CASE StopGate(t)
  BY <1>1 DEF StopGate, SetActive
<1>2. CASE StopContext(t)
  BY <1>2 DEF StopContext
<1>3. CASE StopTransport(t)
  BY <1>3 DEF StopTransport, CloseLink
<1>4. CASE StopNotify(t)
  BY <1>4 DEF StopNotify, NotifyPending
<1>5. CASE DownFlags(t)
  BY <1>5 DEF DownFlags
<1>6. CASE DownGate(t)
  BY <1>6 DEF DownGate, CloseGate
<1>7. CASE DownLock(t)
  BY <1>7 DEF DownLock
<1>8. CASE DownWait(t)
  BY <1>8 DEF DownWait
<1>9. CASE BeginStop(t)
  BY <1>9 DEF BeginStop
<1>10. CASE BeginSwitch(t)
  BY <1>10 DEF BeginSwitch
<1>11. CASE BeginReconnect(t)
  BY <1>11 DEF BeginReconnect
<1> QED
  BY <1>1, <1>2, <1>3, <1>4, <1>5, <1>6, <1>7, <1>8, <1>9, <1>10, <1>11 DEF TearAction, StopStep,
     DownStep

LEMMA OwnInvRole ==
  ASSUME TypeInv, OwnInv, NEW t \in Threads,
         RoleAction(t)
  PROVE  OwnInv'
<1> USE ConnectionAssumption
    DEF OwnInv, InProgressOwned, Downers, HalfOwned, Works, TearLabels, Threads,
        TypeInv, SafeInv, PcType, LockHeld, DowningHere, GateShut, TransportIsLast, LockLabels, PassLabels, ShutLabels,
        At, Goto, gateVars, flagVars, connVars, coreVars, roleVars, reqVars, ghostVars, restVars
<1>1. CASE SwitchDelete(t)
  BY <1>1 DEF SwitchDelete
<1>2. CASE SwitchClear(t)
  BY <1>2 DEF SwitchClear, NotifyPending
<1>3. CASE SwitchEnd(t)
  BY <1>3 DEF SwitchEnd
<1>4. CASE AutoGate(t)
  BY <1>4 DEF AutoGate, SetActive
<1>5. CASE FinishReconnect(t)
  <2> DEFINE p == [pc EXCEPT ![t] = IF t \in Autos THEN "idle" ELSE "done"]
  <2>1. UNCHANGED <<transport, active, disconnected, terminated, lock, downing>> /\ gaveUp' = (gaveUp \/ ~ up[t])
    BY <1>5 DEF FinishReconnect
  <2>2. CASE up[t] /\ ~ active /\ ~ disconnected /\ ~ terminated
    <3>1. PICK a \in Autos : p[a] = "idle" /\ pc' = [p EXCEPT ![a] = "gate"]
      BY <1>5, <2>2 DEF FinishReconnect
    <3>2. pc'[a] = "gate" /\ a \notin Callers
      BY <3>1
    <3>3. QED
      BY <2>1, <3>2
  <2>3. CASE ~ (up[t] /\ ~ active /\ ~ disconnected /\ ~ terminated)
    <3>1. ~ inProgress'
      BY <1>5, <2>3 DEF FinishReconnect
    <3>2. gaveUp' \/ active \/ disconnected \/ terminated
      BY <2>1, <2>3
    <3>3. QED
      BY <2>1, <3>1, <3>2
  <2>4. QED
    BY <2>2, <2>3
<1>6. CASE GiveUpLock(t)
  BY <1>6 DEF GiveUpLock, AfterConnect
<1>7. CASE ParentDone(t)
  BY <1>7 DEF ParentDone
<1> QED
  BY <1>1, <1>2, <1>3, <1>4, <1>5, <1>6, <1>7 DEF RoleAction, RoleStep, SwitchStep

LEMMA OwnInvRequest ==
  ASSUME TypeInv, OwnInv, NEW c \in Callers,
         RequestAction(c)
  PROVE  OwnInv'
<1> USE ConnectionAssumption
    DEF OwnInv, InProgressOwned, Downers, HalfOwned, Works, TearLabels, Threads,
        TypeInv, SafeInv, PcType, LockHeld, DowningHere, GateShut, TransportIsLast, LockLabels, PassLabels, ShutLabels,
        At, Goto, gateVars, flagVars, connVars, coreVars, roleVars, reqVars, ghostVars, restVars
<1>1. CASE BeginAttempt(c)
  BY <1>1 DEF BeginAttempt
<1>2. CASE EnsureTransport(c)
  BY <1>2 DEF EnsureTransport
<1>3. CASE AwaitActive(c)
  BY <1>3 DEF AwaitActive
<1>4. CASE PickTransport(c)
  BY <1>4 DEF PickTransport, RequestReconnectThen, AfterSendError
<1>5. CASE Register(c)
  BY <1>5 DEF Register
<1>6. CASE Write(c)
  BY <1>6 DEF Write
<1>7. CASE WriteFailed(c)
  BY <1>7 DEF WriteFailed, ReconnectTransportThen, RequestReconnectThen, SetActive, AfterSendError
<1>8. CASE Receive(c)
  BY <1>8 DEF Receive
<1>9. CASE AwaitExpires(c)
  BY <1>9 DEF AwaitExpires
<1>10. CASE WriteExpires(c)
  BY <1>10 DEF WriteExpires, CloseLink
<1>11. CASE ReceiveExpires(c)
  BY <1>11 DEF ReceiveExpires, RequestReconnectThen
<1> QED
  BY <1>1, <1>2, <1>3, <1>4, <1>5, <1>6, <1>7, <1>8, <1>9, <1>10, <1>11 DEF RequestAction, RequestStep

LEMMA OwnInvReader ==
  ASSUME TypeInv, OwnInv, NEW g \in Gens,
         ReaderAction(g)
  PROVE  OwnInv'
<1> USE ConnectionAssumption
    DEF OwnInv, InProgressOwned, Downers, HalfOwned, Works, TearLabels, Threads,
        TypeInv, SafeInv, PcType, LockHeld, DowningHere, GateShut, TransportIsLast, LockLabels, PassLabels, ShutLabels,
        At, Goto, gateVars, flagVars, connVars, coreVars, roleVars, reqVars, ghostVars, restVars, readerRest
<1>1. CASE ReaderStops(g)
  BY <1>1 DEF ReaderStops, ReaderGoto
<1>2. CASE ReaderEnters(g)
  BY <1>2 DEF ReaderEnters, ReaderGoto
<1>3. CASE ReaderFails(g)
  BY <1>3 DEF ReaderFails, ReaderGoto
<1>4. CASE ReaderChecks(g)
  BY <1>4 DEF ReaderChecks, ReaderGoto
<1>5. CASE ReaderReports(g)
  BY <1>5 DEF ReaderReports, ReconnectTransportThen, RequestReconnectThen, SetActive, ReaderGoto
<1>6. CASE ReaderDecides(g)
  BY <1>6 DEF ReaderDecides, ReaderGoto
<1>7. CASE ReaderAsks(g)
  BY <1>7 DEF ReaderAsks, RequestReconnectThen, ReaderGoto
<1>8. CASE ReaderReceives(g)
  BY <1>8 DEF ReaderReceives, ReaderGoto
<1>9. CASE ReaderOdd(g)
  BY <1>9 DEF ReaderOdd, ReaderGoto
<1>10. CASE Reader404(g)
  BY <1>10 DEF Reader404, RequestReconnectThen, ReaderGoto
<1>11. CASE LinkBreaks(g)
  BY <1>11 DEF LinkBreaks
<1> QED
  BY <1>1, <1>2, <1>3, <1>4, <1>5, <1>6, <1>7, <1>8, <1>9, <1>10, <1>11 DEF ReaderAction, ReaderStep

LEMMA OwnInvRest ==
  ASSUME TypeInv, OwnInv, OtherAction
  PROVE  OwnInv'
<1> USE ConnectionAssumption
    DEF OwnInv, InProgressOwned, Downers, HalfOwned, Works, TearLabels, Threads,
        TypeInv, SafeInv, PcType, LockHeld, DowningHere, GateShut, TransportIsLast, LockLabels, PassLabels, ShutLabels,
        At, Goto, gateVars, flagVars, connVars, coreVars, roleVars, reqVars, ghostVars, restVars, readerRest
<1>1. CASE BackgroundWrite
  <2>1. CASE inProgress /\ UNCHANGED <<inProgress, pc>>
    <3>1. \E t \in Reconnectors \union Switchers \union Autos : Works(t)
      BY <2>1
    <3> QED BY <1>1, <2>1, <3>1, WriteEffects
  <2>2. CASE \E a \in Autos : pc[a] = "idle" /\ pc' = [pc EXCEPT ![a] = "gate"]
    <3>1. PICK a \in Autos : pc' = [pc EXCEPT ![a] = "gate"]
      BY <2>2
    <3>2. Works(a)' /\ a \notin Callers
      BY <3>1
    <3>3. Downers'
      BY <1>1, WriteEffects
    <3> QED BY <3>2, <3>3
  <2> QED BY <1>1, <2>1, <2>2, WriteEffects
<1>2. CASE \E g \in Gens, c \in Callers : ReaderAnswers(g, c)
  BY <1>2 DEF ReaderAnswers, ReaderGoto
<1>3. CASE UNCHANGED vars
  BY <1>3 DEF vars
<1> QED
  BY <1>1, <1>2, <1>3 DEF OtherAction

LEMMA OwnInvStep ==
  ASSUME TypeInv, OwnInv, [Next]_vars
  PROVE  OwnInv'
BY NextKinds, OwnInvConnect, OwnInvStop, OwnInvRole, OwnInvRequest, OwnInvReader, OwnInvRest

(* The flags are set by who drops the connection, and nobody builds a new  *)
(* one unless a Disconnect or Terminate is still at work that will drop it *)
(* too.                                                                    *)
TearDown == {"peek", "stop", "stop_ctx", "stop_link", "stop_notify", "wait", "dial", "up", "read",
             "setup", "undo", "undo_link", "undo_wait"}

TermOwned ==
  terminated /\ (transport # 0 \/ \E t \in Threads \ downing : lock = t /\ pc[t] \in TearDown \union {"flag"})
    => downing # {}
DiscOwned ==
  disconnected /\ (transport # 0 \/ \E t \in Threads \ downing : lock = t /\ pc[t] \in TearDown)
    => downing # {}

FlagInv == TermOwned /\ DiscOwned

LEMMA FlagOutside ==
  ASSUME SafeInv, FlagInv, Outside
  PROVE  FlagInv'
BY DEF FlagInv, TermOwned, DiscOwned, TearDown, Outside, OutsideMove, OutsideLabels, LockLabels,
   PassLabels

LEMMA FlagInvConnect ==
  ASSUME TypeInv, FlagInv, NEW t \in Threads,
         ConnectStep(t)
  PROVE  FlagInv'
<1> USE ConnectionAssumption
    DEF FlagInv, TermOwned, DiscOwned, TearDown, Threads,
        TypeInv, SafeInv, PcType, LockHeld, DowningHere, TransportIsLast, LockLabels, PassLabels,
        At, Goto, gateVars, flagVars, connVars, coreVars, roleVars, reqVars, ghostVars, restVars
<1>1. CASE LockLifecycle(t)
  BY <1>1 DEF LockLifecycle
<1>2. CASE CheckTerminated(t)
  BY <1>2 DEF CheckTerminated, Return, AfterConnect
<1>3. CASE CheckDisconnected(t)
  BY <1>3 DEF CheckDisconnected, Return, AfterConnect, Allowed
<1>4. CASE PeekConnected(t)
  BY <1>4 DEF PeekConnected, Return, AfterConnect
<1>5. CASE AwaitRoutines(t)
  BY <1>5 DEF AwaitRoutines
<1>6. CASE Dial(t)
  BY <1>6 DEF Dial
<1>7. CASE DialFails(t)
  BY <1>7 DEF DialFails
<1>8. CASE OpenGate(t)
  BY <1>8 DEF OpenGate, SetActive
<1>9. CASE StartReader(t)
  BY <1>9 DEF StartReader
<1>10. CASE Commit(t)
  BY <1>10 DEF Commit, Return, AfterConnect
<1>11. CASE SetupFails(t)
  BY <1>11 DEF SetupFails
<1>12. CASE UndoGate(t)
  BY <1>12 DEF UndoGate, SetActive
<1>13. CASE UndoTransport(t)
  BY <1>13 DEF UndoTransport, CloseLink
<1>14. CASE UndoWait(t)
  BY <1>14 DEF UndoWait, Return, AfterConnect
<1> QED
  BY <1>1, <1>2, <1>3, <1>4, <1>5, <1>6, <1>7, <1>8, <1>9, <1>10, <1>11, <1>12, <1>13,
     <1>14 DEF ConnectStep

LEMMA FlagInvStop ==
  ASSUME TypeInv, FlagInv, NEW t \in Threads,
         TearAction(t)
  PROVE  FlagInv'
<1> USE ConnectionAssumption
    DEF FlagInv, TermOwned, DiscOwned, TearDown, Threads,
        TypeInv, SafeInv, PcType, LockHeld, DowningHere, TransportIsLast, LockLabels, PassLabels,
        At, Goto, gateVars, flagVars, connVars, coreVars, roleVars, reqVars, ghostVars, restVars
<1>1. CASE StopGate(t)
  BY <1>1 DEF StopGate, SetActive
<1>2. CASE StopContext(t)
  BY <1>2 DEF StopContext
<1>3. CASE StopTransport(t)
  BY <1>3 DEF StopTransport, CloseLink
<1>4. CASE StopNotify(t)
  BY <1>4 DEF StopNotify, NotifyPending
<1>5. CASE DownFlags(t)
  BY <1>5 DEF DownFlags
<1>6. CASE DownGate(t)
  BY <1>6 DEF DownGate, CloseGate
<1>7. CASE DownLock(t)
  BY <1>7 DEF DownLock
<1>8. CASE DownWait(t)
  BY <1>8 DEF DownWait
<1>9. CASE BeginStop(t)
  BY <1>9 DEF BeginStop
<1>10. CASE BeginSwitch(t)
  BY <1>10 DEF BeginSwitch
<1>11. CASE BeginReconnect(t)
  BY <1>11 DEF BeginReconnect
<1> QED
  BY <1>1, <1>2, <1>3, <1>4, <1>5, <1>6, <1>7, <1>8, <1>9, <1>10, <1>11 DEF TearAction, StopStep,
     DownStep

LEMMA FlagStep ==
  ASSUME TypeInv, FlagInv, [Next]_vars
  PROVE  FlagInv'
BY StepKinds, FlagOutside, FlagInvConnect, FlagInvStop DEF TypeInv, Inside, TearAction

(* An attempt starts afresh: its context, its link and its reader are new. *)
AttemptIsNew ==
  /\ \A g \in ctxDone : g <= gen
  /\ \A g \in Gens : g > gen => reader[g] = "none" /\ link[g] = "none"
  /\ \A t \in Threads : lock = t /\ pc[t] \in {"dial", "up", "read"} => reader[gen] = "none"
  /\ \A t \in Threads : lock = t /\ pc[t] = "dial" => link[gen] = "none" /\ transport = 0
  /\ \A t \in Threads : lock = t /\ pc[t] = "undo_wait" => transport = 0

(* A connection that counts as up without a reader is about to get one.    *)
ReaderComes == active /\ reader[gen] = "none" => \E t \in Threads : lock = t /\ pc[t] = "read"

(* A request goes out on a connection that was made.                       *)
SentOnLink ==
  /\ transport # 0 => link[transport] # "none"
  /\ \A c \in Callers :
       pc[c] \in {"mr_reg", "mr_write", "mr_lost", "mr_recv"} => on[c] \in 1..gen /\ link[on[c]] # "none"

FreshInv == AttemptIsNew /\ ReaderComes /\ SentOnLink

LEMMA FreshInvConnect ==
  ASSUME TypeInv, FreshInv, NEW t \in Threads,
         ConnectStep(t)
  PROVE  FreshInv'
<1> USE ConnectionAssumption
    DEF FreshInv, AttemptIsNew, ReaderComes, SentOnLink, Threads,
        TypeInv, SafeInv, PcType, ReaderType, LockHeld, GateShut, TransportIsLast, ActiveHasTransport, LockLabels, ShutLabels,
        MoreTypes, ConnTypes, ReqTypes, Gens,
        At, Goto, gateVars, flagVars, connVars, coreVars, roleVars, reqVars, ghostVars, restVars
<1>1. CASE LockLifecycle(t)
  BY <1>1 DEF LockLifecycle
<1>2. CASE CheckTerminated(t)
  BY <1>2 DEF CheckTerminated, Return, AfterConnect
<1>3. CASE CheckDisconnected(t)
  BY <1>3 DEF CheckDisconnected, Return, AfterConnect, Allowed
<1>4. CASE PeekConnected(t)
  BY <1>4 DEF PeekConnected, Return, AfterConnect
<1>5. CASE AwaitRoutines(t)
  BY <1>5 DEF AwaitRoutines
<1>6. CASE Dial(t)
  BY <1>6 DEF Dial
<1>7. CASE DialFails(t)
  BY <1>7 DEF DialFails
<1>8. CASE OpenGate(t)
  BY <1>8 DEF OpenGate, SetActive
<1>9. CASE StartReader(t)
  BY <1>9 DEF StartReader
<1>10. CASE Commit(t)
  BY <1>10 DEF Commit, Return, AfterConnect
<1>11. CASE SetupFails(t)
  BY <1>11 DEF SetupFails
<1>12. CASE UndoGate(t)
  BY <1>12 DEF UndoGate, SetActive
<1>13. CASE UndoTransport(t)
  BY <1>13 DEF UndoTransport, CloseLink
<1>14. CASE UndoWait(t)
  BY <1>14 DEF UndoWait, Return, AfterConnect
<1> QED
  BY <1>1, <1>2, <1>3, <1>4, <1>5, <1>6, <1>7, <1>8, <1>9, <1>10, <1>11, <1>12, <1>13,
     <1>14 DEF ConnectStep

LEMMA FreshInvStop ==
  ASSUME TypeInv, FreshInv, NEW t \in Threads,
         TearAction(t)
  PROVE  FreshInv'
<1> USE ConnectionAssumption
    DEF FreshInv, AttemptIsNew, ReaderComes, SentOnLink, Threads,
        TypeInv, SafeInv, PcType, ReaderType, LockHeld, GateShut, TransportIsLast, ActiveHasTransport, LockLabels, ShutLabels,
        MoreTypes, ConnTypes, ReqTypes, Gens,
        At, Goto, gateVars, flagVars, connVars, coreVars, roleVars, reqVars, ghostVars, restVars
<1>1. CASE StopGate(t)
  BY <1>1 DEF StopGate, SetActive
<1>2. CASE StopContext(t)
  BY <1>2 DEF StopContext
<1>3. CASE StopTransport(t)
  BY <1>3 DEF StopTransport, CloseLink
<1>4. CASE StopNotify(t)
  BY <1>4 DEF StopNotify, NotifyPending
<1>5. CASE DownFlags(t)
  BY <1>5 DEF DownFlags
<1>6. CASE DownGate(t)
  BY <1>6 DEF DownGate, CloseGate
<1>7. CASE DownLock(t)
  BY <1>7 DEF DownLock
<1>8. CASE DownWait(t)
  BY <1>8 DEF DownWait
<1>9. CASE BeginStop(t)
  BY <1>9 DEF BeginStop
<1>10. CASE BeginSwitch(t)
  BY <1>10 DEF BeginSwitch
<1>11. CASE BeginReconnect(t)
  BY <1>11 DEF BeginReconnect
<1> QED
  BY <1>1, <1>2, <1>3, <1>4, <1>5, <1>6, <1>7, <1>8, <1>9, <1>10, <1>11 DEF TearAction, StopStep,
     DownStep

LEMMA FreshInvRole ==
  ASSUME TypeInv, FreshInv, NEW t \in Threads,
         RoleAction(t)
  PROVE  FreshInv'
<1> USE ConnectionAssumption
    DEF FreshInv, AttemptIsNew, ReaderComes, SentOnLink, Threads,
        TypeInv, SafeInv, PcType, ReaderType, LockHeld, GateShut, TransportIsLast, ActiveHasTransport, LockLabels, ShutLabels,
        MoreTypes, ConnTypes, ReqTypes, Gens,
        At, Goto, gateVars, flagVars, connVars, coreVars, roleVars, reqVars, ghostVars, restVars
<1>1. CASE SwitchDelete(t)
  BY <1>1 DEF SwitchDelete
<1>2. CASE SwitchClear(t)
  BY <1>2 DEF SwitchClear, NotifyPending
<1>3. CASE SwitchEnd(t)
  BY <1>3 DEF SwitchEnd
<1>4. CASE AutoGate(t)
  BY <1>4 DEF AutoGate, SetActive
<1>5. CASE FinishReconnect(t)
  <2>1. UNCHANGED <<active, lock, transport, gen, link, ctxDone, reader, on>>
    BY <1>5 DEF FinishReconnect
  <2>2. \A u \in Threads : pc'[u] = pc[u] \/ pc'[u] \in {"idle", "done", "gate"}
    BY <1>5 DEF FinishReconnect
  <2>3. pc[t] = "finish"
    BY <1>5 DEF FinishReconnect
  <2>4. AttemptIsNew'
    <3>1. \A u \in Threads : pc'[u] \in {"dial", "up", "read", "undo_wait"} => pc'[u] = pc[u]
      BY ONLY <2>2
    <3> QED BY <2>1, <3>1
  <2>5. SentOnLink'
    BY <2>1, <2>2
  <2>6. \A u \in Threads : pc[u] = "read" => pc'[u] = "read"
    BY <1>5 DEF FinishReconnect
  <2>7. ReaderComes'
    BY <2>1, <2>6
  <2> QED BY <2>4, <2>5, <2>7
<1>6. CASE GiveUpLock(t)
  BY <1>6 DEF GiveUpLock, AfterConnect
<1>7. CASE ParentDone(t)
  BY <1>7 DEF ParentDone
<1> QED
  BY <1>1, <1>2, <1>3, <1>4, <1>5, <1>6, <1>7 DEF RoleAction, RoleStep, SwitchStep

LEMMA FreshInvRequest ==
  ASSUME TypeInv, FreshInv, NEW c \in Callers,
         RequestAction(c)
  PROVE  FreshInv'
<1> USE ConnectionAssumption
    DEF FreshInv, AttemptIsNew, ReaderComes, SentOnLink, Threads,
        TypeInv, SafeInv, PcType, ReaderType, LockHeld, GateShut, TransportIsLast, ActiveHasTransport, LockLabels, ShutLabels,
        MoreTypes, ConnTypes, ReqTypes, Gens,
        At, Goto, gateVars, flagVars, connVars, coreVars, roleVars, reqVars, ghostVars, restVars
<1>1. CASE BeginAttempt(c)
  BY <1>1 DEF BeginAttempt
<1>2. CASE EnsureTransport(c)
  BY <1>2 DEF EnsureTransport
<1>3. CASE AwaitActive(c)
  BY <1>3 DEF AwaitActive
<1>4. CASE PickTransport(c)
  <2>1. UNCHANGED <<active, lock, transport, gen, link, ctxDone, reader>>
    BY <1>4 DEF PickTransport
  <2>2. /\ pc[c] = "mr_send" /\ pc'[c] \in {"done", "mr_begin", "mr_reg"}
        /\ pc'[c] = "mr_reg" => transport # 0 /\ on' = [on EXCEPT ![c] = transport]
        /\ pc'[c] # "mr_reg" => on' = on
    BY <1>4 DEF PickTransport, RequestReconnectThen, AfterSendError
  <2>3. \A u \in Threads : u # c => pc'[u] = pc[u] \/ (pc[u] = "idle" /\ pc'[u] = "gate")
    BY <1>4 DEF PickTransport, RequestReconnectThen, AfterSendError
  <2>4. \A u \in Threads :
          pc'[u] = pc[u] \/ (pc[u] \in {"idle", "mr_send"} /\ pc'[u] \in {"gate", "done", "mr_begin", "mr_reg"})
    BY <2>2, <2>3
  <2>5. AttemptIsNew' /\ ReaderComes'
    <3>1. \A u \in Threads : pc'[u] \in {"dial", "up", "read", "undo_wait"} => pc'[u] = pc[u]
      BY <2>4
    <3>2. AttemptIsNew'
      BY <2>1, <3>1
    <3>3. \A u \in Threads : pc[u] = "read" => pc'[u] = "read"
      BY <2>4
    <3>4. ReaderComes'
      BY <2>1, <3>3
    <3>5. QED
      BY <3>2, <3>4
  <2>6. ASSUME NEW d \in Callers, pc'[d] \in {"mr_reg", "mr_write", "mr_lost", "mr_recv"}
        PROVE  on'[d] \in 1..gen /\ link[on'[d]] # "none"
    <3>1. CASE d = c
      BY <2>2, <2>6, <3>1
    <3>2. CASE d # c
      BY <2>2, <2>3, <2>6, <3>2
    <3>3. QED
      BY <3>1, <3>2
  <2>7. SentOnLink'
    BY <2>1, <2>6
  <2>8. QED
    BY <2>5, <2>7
<1>5. CASE Register(c)
  BY <1>5 DEF Register
<1>6. CASE Write(c)
  BY <1>6 DEF Write
<1>7. CASE WriteFailed(c)
  <2>1. UNCHANGED <<lock, transport, gen, link, ctxDone, reader, on>> /\ (active' => active)
    BY <1>7 DEF WriteFailed, ReconnectTransportThen, SetActive
  <2> DEFINE p == [pc EXCEPT ![c] = AfterSendError(c)]
  <2>2. pc[c] = "mr_lost" /\ (pc' = p \/ \E a \in Autos : p[a] = "idle" /\ pc' = [p EXCEPT ![a] = "gate"])
    BY <1>7 DEF WriteFailed, ReconnectTransportThen, RequestReconnectThen
  <2>3. \A u \in Threads :
          pc'[u] = pc[u] \/ (pc[u] \in {"idle", "mr_lost"} /\ pc'[u] \in {"gate", "done", "mr_begin"})
    BY <2>2 DEF AfterSendError
  <2>4. AttemptIsNew' /\ ReaderComes'
    <3>1. \A u \in Threads : pc'[u] \in {"dial", "up", "read", "undo_wait"} => pc'[u] = pc[u]
      BY <2>3
    <3>2. AttemptIsNew'
      BY <2>1, <3>1
    <3>3. \A u \in Threads : pc[u] = "read" => pc'[u] = "read"
      BY <2>3
    <3>4. ReaderComes'
      BY <2>1, <3>3
    <3>5. QED
      BY <3>2, <3>4
  <2>5. SentOnLink'
    BY <2>1, <2>3
  <2>6. QED
    BY <2>4, <2>5
<1>8. CASE Receive(c)
  BY <1>8 DEF Receive
<1>9. CASE AwaitExpires(c)
  BY <1>9 DEF AwaitExpires
<1>10. CASE WriteExpires(c)
  BY <1>10 DEF WriteExpires, CloseLink
<1>11. CASE ReceiveExpires(c)
  BY <1>11 DEF ReceiveExpires, RequestReconnectThen
<1> QED
  BY <1>1, <1>2, <1>3, <1>4, <1>5, <1>6, <1>7, <1>8, <1>9, <1>10, <1>11 DEF RequestAction, RequestStep

LEMMA FreshInvReader ==
  ASSUME TypeInv, FreshInv, NEW g \in Gens,
         ReaderAction(g)
  PROVE  FreshInv'
<1> USE ConnectionAssumption
    DEF FreshInv, AttemptIsNew, ReaderComes, SentOnLink, Threads,
        TypeInv, SafeInv, PcType, ReaderType, LockHeld, GateShut, TransportIsLast, ActiveHasTransport, LockLabels, ShutLabels,
        MoreTypes, ConnTypes, ReqTypes, Gens,
        At, Goto, gateVars, flagVars, connVars, coreVars, roleVars, reqVars, ghostVars, restVars, readerRest
<1>1. CASE ReaderStops(g)
  BY <1>1 DEF ReaderStops, ReaderGoto
<1>2. CASE ReaderEnters(g)
  BY <1>2 DEF ReaderEnters, ReaderGoto
<1>3. CASE ReaderFails(g)
  BY <1>3 DEF ReaderFails, ReaderGoto
<1>4. CASE ReaderChecks(g)
  BY <1>4 DEF ReaderChecks, ReaderGoto
<1>5. CASE ReaderReports(g)
  BY <1>5 DEF ReaderReports, ReconnectTransportThen, RequestReconnectThen, SetActive, ReaderGoto
<1>6. CASE ReaderDecides(g)
  BY <1>6 DEF ReaderDecides, ReaderGoto
<1>7. CASE ReaderAsks(g)
  BY <1>7 DEF ReaderAsks, RequestReconnectThen, ReaderGoto
<1>8. CASE ReaderReceives(g)
  BY <1>8 DEF ReaderReceives, ReaderGoto
<1>9. CASE ReaderOdd(g)
  BY <1>9 DEF ReaderOdd, ReaderGoto
<1>10. CASE Reader404(g)
  BY <1>10 DEF Reader404, RequestReconnectThen, ReaderGoto
<1>11. CASE LinkBreaks(g)
  BY <1>11 DEF LinkBreaks
<1> QED
  BY <1>1, <1>2, <1>3, <1>4, <1>5, <1>6, <1>7, <1>8, <1>9, <1>10, <1>11 DEF ReaderAction, ReaderStep

LEMMA FreshInvRest ==
  ASSUME TypeInv, FreshInv, OtherAction
  PROVE  FreshInv'
<1> USE ConnectionAssumption
    DEF FreshInv, AttemptIsNew, ReaderComes, SentOnLink, Threads,
        TypeInv, SafeInv, PcType, ReaderType, LockHeld, GateShut, TransportIsLast, ActiveHasTransport, LockLabels, ShutLabels,
        MoreTypes, ConnTypes, ReqTypes, Gens,
        At, Goto, gateVars, flagVars, connVars, coreVars, roleVars, reqVars, ghostVars, restVars, readerRest
<1>1. CASE BackgroundWrite
  <2>1. ~ active' /\ UNCHANGED <<reader, lock, transport, gen, link, ctxDone, on>>
    BY <1>1, WriteEffects
  <2>2. \A u \in Threads : pc'[u] = pc[u] \/ (pc[u] = "idle" /\ pc'[u] = "gate")
    BY <1>1, WriteMoves
  <2>3. AttemptIsNew'
    BY <2>1, <2>2
  <2>4. SentOnLink'
    BY <2>1, <2>2
  <2> QED BY <2>1, <2>3, <2>4
<1>2. CASE \E g \in Gens, c \in Callers : ReaderAnswers(g, c)
  BY <1>2 DEF ReaderAnswers, ReaderGoto
<1>3. CASE UNCHANGED vars
  BY <1>3 DEF vars
<1> QED
  BY <1>1, <1>2, <1>3 DEF OtherAction

LEMMA FreshInvStep ==
  ASSUME TypeInv, FreshInv, [Next]_vars
  PROVE  FreshInv'
BY NextKinds, FreshInvConnect, FreshInvStop, FreshInvRole, FreshInvRequest, FreshInvReader, FreshInvRest

(* The context of the attempt of now is cancelled only by a Disconnect or  *)
(* Terminate, which goes on, or when the attempt is undone.                *)
CancelledOwned ==
  gen \in ctxDone /\ (active \/ \E t \in Threads : lock = t /\ pc[t] \in {"dial", "up"}) =>
    \/ downing # {}
    \/ \E t \in Threads : lock = t /\ pc[t] = "undo"
    \/ \E t \in Threads : t \in expired /\ lock = t /\ pc[t] \in {"dial", "up", "read", "setup"}

(* Outside, contexts are cancelled only by their attempt's caller.         *)
ContextsKept == ctxDone' = ctxDone /\ expired \subseteq expired'

LEMMA OutsideContexts ==
  ASSUME [Next]_vars
  PROVE  (\E t \in Threads : Inside(t) \/ ParentDone(t)) \/ ContextsKept
<1> USE DEF ContextsKept, gateVars, flagVars, connVars, coreVars, roleVars, reqVars, ghostVars, restVars
<1>1. CASE UNCHANGED vars
  BY <1>1 DEF vars
<1>2. ASSUME NEW t \in Threads, SwitchStep(t) \/ RoleStep(t) \/ GiveUpLock(t) PROVE ContextsKept
  BY <1>2 DEF SwitchStep, SwitchDelete, SwitchClear, SwitchEnd, RoleStep, AutoGate, FinishReconnect,
     GiveUpLock
<1>3. ASSUME NEW c \in Callers, RequestStep(c) \/ AwaitExpires(c) \/ WriteExpires(c) \/ ReceiveExpires(c)
      PROVE  ContextsKept
  BY <1>3 DEF RequestStep, BeginAttempt, EnsureTransport, AwaitActive, PickTransport, Register, Write,
              WriteFailed, Receive, AwaitExpires, WriteExpires, ReceiveExpires
<1>4. ASSUME NEW g \in Gens,
             \/ ReaderStep(g) \/ ReaderReceives(g) \/ ReaderOdd(g) \/ Reader404(g) \/ LinkBreaks(g)
             \/ \E c \in Callers : ReaderAnswers(g, c)
      PROVE  ContextsKept
  BY <1>4 DEF ReaderStep, ReaderStops, ReaderEnters, ReaderFails, ReaderChecks, ReaderReports,
     ReaderDecides,
              ReaderAsks, ReaderReceives, ReaderOdd, Reader404, LinkBreaks, ReaderAnswers, readerRest
<1>5. BackgroundWrite => ContextsKept
  BY DEF BackgroundWrite, readerRest
<1>6. CASE Next
  BY <1>2, <1>3, <1>4, <1>5, <1>6 DEF Next, Environment, Inside, Threads
<1> QED BY <1>1, <1>6

LEMMA CancelledOutside ==
  ASSUME SafeInv, MoreTypes, CancelledOwned, Outside, ContextsKept
  PROVE  CancelledOwned'
<1>1. UNCHANGED <<gen, lock, downing>>
  BY DEF Outside
<1>2. ctxDone' = ctxDone /\ expired \subseteq expired'
  BY DEF ContextsKept
<1>3. active' => active
  BY DEF Outside
<1>4. \A t \in Threads : pc'[t] \in {"dial", "up"} => pc'[t] = pc[t]
  BY DEF Outside, OutsideMove, OutsideLabels, LockLabels
<1>5. \A t \in Threads : pc[t] \in LockLabels => pc'[t] = pc[t]
  BY DEF Outside, OutsideMove
<1>6. CASE downing' # {}
  BY <1>6 DEF CancelledOwned
<1>7. CASE downing = {}
  <2>1. SUFFICES ASSUME gen' \in ctxDone', active' \/ \E t \in Threads : lock' = t /\ pc'[t] \in {"dial", "up"}
                 PROVE  \/ \E t \in Threads : lock' = t /\ pc'[t] = "undo"
                        \/ \E t \in Threads : t \in expired' /\ lock' = t /\ pc'[t] \in {"dial", "up", "read", "setup"}
    BY DEF CancelledOwned
  <2>2. gen \in ctxDone /\ (active \/ \E t \in Threads : lock = t /\ pc[t] \in {"dial", "up"})
    BY <1>1, <1>2, <1>3, <1>4, <2>1
  <2>3. CASE \E t \in Threads : lock = t /\ pc[t] = "undo"
    BY <1>1, <1>5, <2>3 DEF LockLabels
  <2>4. CASE \E t \in Threads : t \in expired /\ lock = t /\ pc[t] \in {"dial", "up", "read", "setup"}
    BY <1>1, <1>2, <1>5, <2>4 DEF LockLabels
  <2> QED BY <1>7, <2>2, <2>3, <2>4 DEF CancelledOwned
<1> QED BY <1>1, <1>6, <1>7

LEMMA CancelledLock ==
  ASSUME CancelledOwned, NEW t \in Threads, lock = None, lock' = t, pc'[t] = "check",
         UNCHANGED <<gen, ctxDone, active, downing>>
  PROVE  CancelledOwned'
<1>1. \A u \in Threads : lock # u /\ (lock' = u => u = t)
  BY ConnectionAssumption
<1>2. \A u \in Threads : lock' = u => pc'[u] = "check"
  BY <1>1
<1> QED BY <1>1, <1>2 DEF CancelledOwned

LEMMA CancelledIdle ==
  ASSUME CancelledOwned, NEW t \in Threads, pc[t] = "idle", pc'[t] \in {"done", "lock"},
         \A u \in Threads : u # t => pc'[u] = pc[u],
         UNCHANGED <<gen, ctxDone, active, downing, lock, expired>>
  PROVE  CancelledOwned'
BY DEF CancelledOwned

LEMMA CancelledOwnedConnect ==
  ASSUME TypeInv, FreshInv, CancelledOwned, NEW t \in Threads,
         ConnectStep(t)
  PROVE  CancelledOwned'
<1> USE ConnectionAssumption
    DEF CancelledOwned, Threads,
        TypeInv, SafeInv, PcType, ReaderType, LockHeld, DowningHere, GateShut, TransportIsLast, ActiveHasTransport,
        LockLabels, PassLabels, ShutLabels, FreshInv, AttemptIsNew,
        At, Goto, gateVars, flagVars, connVars, coreVars, roleVars, reqVars, ghostVars, restVars
<1>1. CASE LockLifecycle(t)
  <2> HIDE DEF CancelledOwned
  <2> QED BY <1>1, CancelledLock DEF LockLifecycle
<1>2. CASE CheckTerminated(t)
  BY <1>2 DEF CheckTerminated, Return, AfterConnect
<1>3. CASE CheckDisconnected(t)
  BY <1>3 DEF CheckDisconnected, Return, AfterConnect, Allowed
<1>4. CASE PeekConnected(t)
  BY <1>4 DEF PeekConnected, Return, AfterConnect
<1>5. CASE AwaitRoutines(t)
  BY <1>5 DEF AwaitRoutines
<1>6. CASE Dial(t)
  BY <1>6 DEF Dial
<1>7. CASE DialFails(t)
  BY <1>7 DEF DialFails
<1>8. CASE OpenGate(t)
  BY <1>8 DEF OpenGate, SetActive
<1>9. CASE StartReader(t)
  BY <1>9 DEF StartReader
<1>10. CASE Commit(t)
  BY <1>10 DEF Commit, Return, AfterConnect
<1>11. CASE SetupFails(t)
  BY <1>11 DEF SetupFails
<1>12. CASE UndoGate(t)
  BY <1>12 DEF UndoGate, SetActive
<1>13. CASE UndoTransport(t)
  BY <1>13 DEF UndoTransport, CloseLink
<1>14. CASE UndoWait(t)
  BY <1>14 DEF UndoWait, Return, AfterConnect
<1> QED
  BY <1>1, <1>2, <1>3, <1>4, <1>5, <1>6, <1>7, <1>8, <1>9, <1>10, <1>11, <1>12, <1>13,
     <1>14 DEF ConnectStep

LEMMA CancelledOwnedStop ==
  ASSUME TypeInv, FreshInv, CancelledOwned, NEW t \in Threads,
         TearAction(t)
  PROVE  CancelledOwned'
<1> USE ConnectionAssumption
    DEF CancelledOwned, Threads,
        TypeInv, SafeInv, PcType, ReaderType, LockHeld, DowningHere, GateShut, TransportIsLast, ActiveHasTransport,
        LockLabels, PassLabels, ShutLabels, FreshInv, AttemptIsNew,
        At, Goto, gateVars, flagVars, connVars, coreVars, roleVars, reqVars, ghostVars, restVars
<1>1. CASE StopGate(t)
  BY <1>1 DEF StopGate, SetActive
<1>2. CASE StopContext(t)
  BY <1>2 DEF StopContext
<1>3. CASE StopTransport(t)
  BY <1>3 DEF StopTransport, CloseLink
<1>4. CASE StopNotify(t)
  BY <1>4 DEF StopNotify, NotifyPending
<1>5. CASE DownFlags(t)
  BY <1>5 DEF DownFlags
<1>6. CASE DownGate(t)
  BY <1>6 DEF DownGate, CloseGate
<1>7. CASE DownLock(t)
  BY <1>7 DEF DownLock
<1>8. CASE DownWait(t)
  BY <1>8 DEF DownWait
<1>9. CASE BeginStop(t)
  BY <1>9 DEF BeginStop
<1>10. CASE BeginSwitch(t)
  BY <1>10 DEF BeginSwitch
<1>11. CASE BeginReconnect(t)
  <2>1. pc[t] = "idle" /\ pc'[t] \in {"done", "lock"} /\ UNCHANGED <<gen, ctxDone, active, downing, lock, expired>>
    BY <1>11 DEF BeginReconnect
  <2>2. \A u \in Threads : u # t => pc'[u] = pc[u]
    BY <1>11 DEF BeginReconnect
  <2> HIDE DEF CancelledOwned
  <2> QED BY <2>1, <2>2, CancelledIdle
<1> QED
  BY <1>1, <1>2, <1>3, <1>4, <1>5, <1>6, <1>7, <1>8, <1>9, <1>10, <1>11 DEF TearAction, StopStep,
     DownStep

LEMMA CancelledOwnedRole ==
  ASSUME TypeInv, FreshInv, CancelledOwned, NEW t \in Threads,
         ParentDone(t)
  PROVE  CancelledOwned'
<1> USE ConnectionAssumption
    DEF CancelledOwned, Threads,
        TypeInv, SafeInv, PcType, ReaderType, LockHeld, DowningHere, GateShut, TransportIsLast, ActiveHasTransport,
        LockLabels, PassLabels, ShutLabels, FreshInv, AttemptIsNew,
        At, Goto, gateVars, flagVars, connVars, coreVars, roleVars, reqVars, ghostVars, restVars
<1>1. CASE ParentDone(t)
  BY <1>1 DEF ParentDone
<1> QED
  BY <1>1

(* Who will close the gate, or fail with an ended context.                 *)
Closer(t) ==
  \/ t \in downing
  \/ t \in Autos /\ pc[t] = "gate"
  \/ t \in Reconnectors \union Switchers /\ pc[t] \in {"lock", "check", "flag", "stop"}
  \/ t \in expired \ Callers /\ pc[t] = "sw_end"
  \/ t \in expired \ Callers /\ pc[t] = "finish" /\ ~ up[t]

(* A reader that ended, or is about to leave it to the owner of            *)
(* inProgress, has somebody who takes the connection down.                 *)
ReaderLost == reader[gen] = "done" /\ gen \notin ctxDone
ReaderLeaves == reader[gen] = "ask" /\ inProgress
LossOwned ==
  active /\ (ReaderLost \/ ReaderLeaves) /\ ~ keyRefused /\ ~ disconnected /\ ~ terminated /\ ~ Deserted
    => \E t \in Threads : Closer(t)

LEMMA LossKept ==
  ASSUME LossOwned, UNCHANGED <<active, keyRefused, disconnected, terminated>>,
         ReaderLost' \/ ReaderLeaves' => ReaderLost \/ ReaderLeaves,
         Deserted => Deserted', \A u \in Threads : Closer(u) => Closer(u)'
  PROVE  LossOwned'
BY DEF LossOwned

LEMMA LossOwnedConnect ==
  ASSUME TypeInv, FreshInv, LossOwned, NEW t \in Threads,
         ConnectStep(t)
  PROVE  LossOwned'
<1> USE ConnectionAssumption
    DEF LossOwned, Closer, ReaderLost, ReaderLeaves, Deserted, Threads,
        TypeInv, SafeInv, PcType, ReaderType, LockHeld, DowningHere, GateShut, TransportIsLast, ReaderIsLast, ActiveHasTransport,
        Reading, LockLabels, PassLabels, ShutLabels, FreshInv, AttemptIsNew,
        At, Goto, gateVars, flagVars, connVars, coreVars, roleVars, reqVars, ghostVars, restVars
<1>1. CASE LockLifecycle(t)
  BY <1>1 DEF LockLifecycle
<1>2. CASE CheckTerminated(t)
  BY <1>2 DEF CheckTerminated, Return, AfterConnect
<1>3. CASE CheckDisconnected(t)
  BY <1>3 DEF CheckDisconnected, Return, AfterConnect, Allowed
<1>4. CASE PeekConnected(t)
  <2>1. pc[t] = "peek" /\ UNCHANGED <<active, reader, gen, ctxDone, inProgress, keyRefused, disconnected, terminated>>
    BY <1>4 DEF PeekConnected
  <2>2. UNCHANGED <<downing, expired, gaveUp>>
    BY <1>4 DEF PeekConnected, Return
  <2>3. \A u \in Threads : u # t => pc'[u] = pc[u] /\ up'[u] = up[u]
    <3>1. \A u \in Threads : u # t => pc'[u] = pc[u]
      BY <1>4 DEF PeekConnected, Return
    <3>2. up' = up \/ up' = [up EXCEPT ![t] = TRUE]
      BY <1>4 DEF PeekConnected, Return
    <3>3. up \in [Threads -> BOOLEAN]
      BY DEF MoreTypes, RoleTypes
    <3> QED BY ONLY <3>1, <3>2, <3>3
  <2>4. ~ Closer(t)
    BY <2>1
  <2>5. \A u \in Threads : Closer(u) => Closer(u)'
    BY <2>2, <2>3, <2>4
  <2> QED BY ONLY LossOwned, <2>1, <2>2, <2>5, LossKept DEF ReaderLost, ReaderLeaves, Deserted
<1>5. CASE AwaitRoutines(t)
  BY <1>5 DEF AwaitRoutines
<1>6. CASE Dial(t)
  BY <1>6 DEF Dial
<1>7. CASE DialFails(t)
  BY <1>7 DEF DialFails
<1>8. CASE OpenGate(t)
  BY <1>8 DEF OpenGate, SetActive
<1>9. CASE StartReader(t)
  BY <1>9 DEF StartReader
<1>10. CASE Commit(t)
  BY <1>10 DEF Commit, Return, AfterConnect
<1>11. CASE SetupFails(t)
  BY <1>11 DEF SetupFails
<1>12. CASE UndoGate(t)
  <2>1. ~ active'
    BY <1>12 DEF UndoGate, SetActive
  <2>2. QED
    BY ONLY <2>1 DEF LossOwned
<1>13. CASE UndoTransport(t)
  BY <1>13 DEF UndoTransport, CloseLink
<1>14. CASE UndoWait(t)
  BY <1>14 DEF UndoWait, Return, AfterConnect
<1> QED
  BY <1>1, <1>2, <1>3, <1>4, <1>5, <1>6, <1>7, <1>8, <1>9, <1>10, <1>11, <1>12, <1>13,
     <1>14 DEF ConnectStep

LEMMA LossOwnedStop ==
  ASSUME TypeInv, FreshInv, LossOwned, NEW t \in Threads,
         TearAction(t)
  PROVE  LossOwned'
<1> USE ConnectionAssumption
    DEF LossOwned, Closer, ReaderLost, ReaderLeaves, Deserted, Threads,
        TypeInv, SafeInv, PcType, ReaderType, LockHeld, DowningHere, GateShut, TransportIsLast, ReaderIsLast, ActiveHasTransport,
        Reading, LockLabels, PassLabels, ShutLabels, FreshInv, AttemptIsNew,
        At, Goto, gateVars, flagVars, connVars, coreVars, roleVars, reqVars, ghostVars, restVars
<1>1. CASE StopGate(t)
  <2>1. ~ active'
    BY <1>1 DEF StopGate, SetActive
  <2>2. QED
    BY ONLY <2>1 DEF LossOwned
<1>2. CASE StopContext(t)
  BY <1>2 DEF StopContext
<1>3. CASE StopTransport(t)
  BY <1>3 DEF StopTransport, CloseLink
<1>4. CASE StopNotify(t)
  BY <1>4 DEF StopNotify, NotifyPending
<1>5. CASE DownFlags(t)
  BY <1>5 DEF DownFlags
<1>6. CASE DownGate(t)
  <2>1. ~ active'
    BY <1>6 DEF DownGate, CloseGate
  <2>2. QED
    BY ONLY <2>1 DEF LossOwned
<1>7. CASE DownLock(t)
  BY <1>7 DEF DownLock
<1>8. CASE DownWait(t)
  BY <1>8 DEF DownWait
<1>9. CASE BeginStop(t)
  BY <1>9 DEF BeginStop
<1>10. CASE BeginSwitch(t)
  BY <1>10 DEF BeginSwitch
<1>11. CASE BeginReconnect(t)
  BY <1>11 DEF BeginReconnect
<1> QED
  BY <1>1, <1>2, <1>3, <1>4, <1>5, <1>6, <1>7, <1>8, <1>9, <1>10, <1>11 DEF TearAction, StopStep,
     DownStep

LEMMA LossOwnedRole ==
  ASSUME TypeInv, FreshInv, LossOwned, NEW t \in Threads,
         RoleAction(t)
  PROVE  LossOwned'
<1> USE ConnectionAssumption
    DEF LossOwned, Closer, ReaderLost, ReaderLeaves, Deserted, Threads,
        TypeInv, SafeInv, PcType, ReaderType, LockHeld, DowningHere, GateShut, TransportIsLast, ReaderIsLast, ActiveHasTransport,
        Reading, LockLabels, PassLabels, ShutLabels, FreshInv, AttemptIsNew,
        At, Goto, gateVars, flagVars, connVars, coreVars, roleVars, reqVars, ghostVars, restVars
<1>1. CASE SwitchDelete(t)
  BY <1>1 DEF SwitchDelete
<1>2. CASE SwitchClear(t)
  BY <1>2 DEF SwitchClear, NotifyPending
<1>3. CASE SwitchEnd(t)
  BY <1>3 DEF SwitchEnd
<1>4. CASE AutoGate(t)
  <2>1. ~ active'
    BY <1>4 DEF AutoGate, SetActive
  <2>2. QED
    BY ONLY <2>1 DEF LossOwned
<1>5. CASE FinishReconnect(t)
  <2>1. pc[t] = "finish" /\ UNCHANGED <<active, reader, gen, ctxDone, keyRefused, disconnected, terminated>>
    BY <1>5 DEF FinishReconnect
  <2>2. UNCHANGED <<downing, expired, up>> /\ gaveUp' = (gaveUp \/ ~ up[t])
    BY <1>5 DEF FinishReconnect
  <2>3. \A u \in Threads : u # t => pc'[u] = pc[u] \/ (pc[u] = "idle" /\ u \in Autos /\ pc'[u] = "gate")
    BY <1>5 DEF FinishReconnect
  <2>4. Closer(t) => t \in expired \ Callers /\ ~ up[t]
    BY <2>1
  <2>5. inProgress' => ~ active
    BY <1>5 DEF FinishReconnect
  <2>6. \A u \in Threads : Closer(u) => Closer(u)' \/ Deserted'
    <3>1. Closer(t) => Deserted'
      BY <2>2, <2>4
    <3>2. \A u \in Threads : u # t /\ Closer(u) => Closer(u)'
      BY <2>2, <2>3
    <3> QED BY <3>1, <3>2
  <2> HIDE DEF Closer
  <2>7. Deserted => Deserted'
    BY <2>2
  <2> QED BY <2>1, <2>2, <2>5, <2>6, <2>7
<1>6. CASE GiveUpLock(t)
  <2>1. UNCHANGED <<active, reader, gen, ctxDone, inProgress, keyRefused, disconnected, terminated>>
    BY <1>6 DEF GiveUpLock
  <2>2. pc[t] = "lock" /\ UNCHANGED <<downing, gaveUp>> /\ expired' = expired \union {t} /\ ~ up'[t]
    BY <1>6 DEF GiveUpLock, MoreTypes, RoleTypes
  <2>3. \A u \in Threads : u # t => pc'[u] = pc[u] /\ up'[u] = up[u]
    BY <1>6 DEF GiveUpLock
  <2>4. t \notin Callers => pc'[t] = IF t \in Switchers THEN "sw_end" ELSE "finish"
    BY <1>6 DEF GiveUpLock, AfterConnect
  <2>5. Closer(t) => Closer(t)'
    BY <2>2, <2>4
  <2>6. \A u \in Threads : Closer(u) => Closer(u)'
    BY <2>2, <2>3, <2>5
  <2>7. Deserted => Deserted'
    BY <2>2
  <2> QED BY ONLY LossOwned, <2>1, <2>6, <2>7, LossKept DEF ReaderLost, ReaderLeaves
<1>7. CASE ParentDone(t)
  BY <1>7 DEF ParentDone
<1> QED
  BY <1>1, <1>2, <1>3, <1>4, <1>5, <1>6, <1>7 DEF RoleAction, RoleStep, SwitchStep

LEMMA LossOwnedRequest ==
  ASSUME TypeInv, FreshInv, LossOwned, NEW c \in Callers,
         RequestAction(c)
  PROVE  LossOwned'
<1> USE ConnectionAssumption
    DEF LossOwned, Closer, ReaderLost, ReaderLeaves, Deserted, Threads,
        TypeInv, SafeInv, PcType, ReaderType, LockHeld, DowningHere, GateShut, TransportIsLast, ReaderIsLast, ActiveHasTransport,
        Reading, LockLabels, PassLabels, ShutLabels, FreshInv, AttemptIsNew,
        At, Goto, gateVars, flagVars, connVars, coreVars, roleVars, reqVars, ghostVars, restVars
<1>1. CASE BeginAttempt(c)
  BY <1>1 DEF BeginAttempt
<1>2. CASE EnsureTransport(c)
  BY <1>2 DEF EnsureTransport
<1>3. CASE AwaitActive(c)
  BY <1>3 DEF AwaitActive
<1>4. CASE PickTransport(c)
  BY <1>4 DEF PickTransport, RequestReconnectThen, AfterSendError
<1>5. CASE Register(c)
  BY <1>5 DEF Register
<1>6. CASE Write(c)
  BY <1>6 DEF Write
<1>7. CASE WriteFailed(c)
  <2>1. CASE ~ active'
    BY <2>1
  <2>2. CASE active'
    <3>1. pc' = [pc EXCEPT ![c] = AfterSendError(c)] /\ UNCHANGED <<active, inProgress>>
      BY <1>7, <2>2 DEF WriteFailed, ReconnectTransportThen, SetActive
    <3>2. pc[c] = "mr_lost" /\ UNCHANGED <<reader, gen, ctxDone, keyRefused, disconnected, terminated>>
      BY <1>7 DEF WriteFailed
    <3>3. UNCHANGED <<downing, expired, up, gaveUp>>
      BY <1>7 DEF WriteFailed
    <3>4. ~ Closer(c)
      BY <3>2
    <3>5. \A u \in Threads : u # c => pc'[u] = pc[u]
      BY <3>1
    <3>6. \A u \in Threads : Closer(u) => Closer(u)'
      BY <3>3, <3>4, <3>5
    <3> QED BY ONLY LossOwned, <3>1, <3>2, <3>3, <3>6, LossKept DEF ReaderLost, ReaderLeaves, Deserted
  <2> QED BY <2>1, <2>2
<1>8. CASE Receive(c)
  BY <1>8 DEF Receive
<1>9. CASE AwaitExpires(c)
  BY <1>9 DEF AwaitExpires
<1>10. CASE WriteExpires(c)
  BY <1>10 DEF WriteExpires, CloseLink
<1>11. CASE ReceiveExpires(c)
  BY <1>11 DEF ReceiveExpires, RequestReconnectThen
<1> QED
  BY <1>1, <1>2, <1>3, <1>4, <1>5, <1>6, <1>7, <1>8, <1>9, <1>10, <1>11 DEF RequestAction, RequestStep

LEMMA LossOwnedReader ==
  ASSUME TypeInv, FreshInv, LossOwned, NEW g \in Gens,
         ReaderAction(g)
  PROVE  LossOwned'
<1> USE ConnectionAssumption
    DEF LossOwned, Closer, ReaderLost, ReaderLeaves, Deserted, Threads,
        TypeInv, SafeInv, PcType, ReaderType, LockHeld, DowningHere, GateShut, TransportIsLast, ReaderIsLast, ActiveHasTransport,
        Reading, LockLabels, PassLabels, ShutLabels, FreshInv, AttemptIsNew,
        At, Goto, gateVars, flagVars, connVars, coreVars, roleVars, reqVars, ghostVars, restVars, readerRest
<1>1. CASE ReaderStops(g)
  BY <1>1 DEF ReaderStops, ReaderGoto
<1>2. CASE ReaderEnters(g)
  BY <1>2 DEF ReaderEnters, ReaderGoto
<1>3. CASE ReaderFails(g)
  BY <1>3 DEF ReaderFails, ReaderGoto
<1>4. CASE ReaderChecks(g)
  BY <1>4 DEF ReaderChecks, ReaderGoto
<1>5. CASE ReaderReports(g)
  <2>1. UNCHANGED <<disconnected, terminated>> /\ reader[g] = "report"
    BY <1>5 DEF ReaderReports
  <2>2. active => transport = g
    BY <2>1
  <2>3. ~ active' \/ disconnected \/ terminated
    BY <1>5, <2>2 DEF ReaderReports, ReconnectTransportThen, SetActive
  <2> QED BY <2>1, <2>3
<1>6. CASE ReaderDecides(g)
  BY <1>6 DEF ReaderDecides, ReaderGoto
<1>7. CASE ReaderAsks(g)
  BY <1>7 DEF ReaderAsks, RequestReconnectThen, ReaderGoto
<1>8. CASE ReaderReceives(g)
  BY <1>8 DEF ReaderReceives, ReaderGoto
<1>9. CASE ReaderOdd(g)
  BY <1>9 DEF ReaderOdd, ReaderGoto
<1>10. CASE Reader404(g)
  BY <1>10 DEF Reader404, RequestReconnectThen, ReaderGoto
<1>11. CASE LinkBreaks(g)
  BY <1>11 DEF LinkBreaks
<1> QED
  BY <1>1, <1>2, <1>3, <1>4, <1>5, <1>6, <1>7, <1>8, <1>9, <1>10, <1>11 DEF ReaderAction, ReaderStep

LEMMA LossOwnedRest ==
  ASSUME TypeInv, FreshInv, LossOwned, OtherAction
  PROVE  LossOwned'
<1> USE ConnectionAssumption
    DEF LossOwned, Closer, ReaderLost, ReaderLeaves, Deserted, Threads,
        TypeInv, SafeInv, PcType, ReaderType, LockHeld, DowningHere, GateShut, TransportIsLast, ReaderIsLast, ActiveHasTransport,
        Reading, LockLabels, PassLabels, ShutLabels, FreshInv, AttemptIsNew,
        At, Goto, gateVars, flagVars, connVars, coreVars, roleVars, reqVars, ghostVars, restVars, readerRest
<1>1. CASE BackgroundWrite
  BY <1>1 DEF BackgroundWrite, ReconnectTransportThen, RequestReconnectThen, SetActive
<1>2. CASE \E g \in Gens, c \in Callers : ReaderAnswers(g, c)
  BY <1>2 DEF ReaderAnswers, ReaderGoto
<1>3. CASE UNCHANGED vars
  BY <1>3 DEF vars
<1> QED
  BY <1>1, <1>2, <1>3 DEF OtherAction

LEMMA LossOwnedStep ==
  ASSUME TypeInv, FreshInv, LossOwned, [Next]_vars
  PROVE  LossOwned'
BY NextKinds, LossOwnedConnect, LossOwnedStop, LossOwnedRole, LossOwnedRequest, LossOwnedReader,
   LossOwnedRest

(* A request that waits, waits on the connection of now: the others were   *)
(* told, or were closed by the cleanup of an attempt.                      *)
Waits(c) == pc[c] = "mr_recv" /\ slot[c] = "wait"

WaitsHere == \A c \in Callers : Waits(c) => on[c] = transport \/ on[c] \in undone

WasTold ==
  \A t \in Threads : lock = t /\ pc[t] \in {"wait", "down_wait"} =>
    \A c \in Callers : Waits(c) => on[c] # transport

LinkShut ==
  \A t \in Threads : lock = t /\ pc[t] \in {"stop_notify", "wait", "down_wait"} /\ transport # 0
    => link[transport] = "shut"

OldShut == \A g \in Gens : g # transport => link[g] \in {"none", "shut"}

WaitInv == WaitsHere /\ WasTold /\ LinkShut /\ OldShut

LEMMA WaitInvConnect ==
  ASSUME TypeInv, OwnInv, FreshInv, WaitInv, NEW t \in Threads,
         ConnectStep(t)
  PROVE  WaitInv'
<1> USE ConnectionAssumption
    DEF WaitInv, WaitsHere, Waits, WasTold, LinkShut, OldShut, Threads,
        TypeInv, SafeInv, PcType, LockHeld, DowningHere, TransportIsLast, LockLabels, PassLabels,
        MoreTypes, ConnTypes, ReqTypes, Gens, FreshInv, AttemptIsNew, SentOnLink, OwnInv, Downers,
        At, Goto, gateVars, flagVars, connVars, coreVars, roleVars, reqVars, ghostVars, restVars
<1>1. CASE LockLifecycle(t)
  BY <1>1 DEF LockLifecycle
<1>2. CASE CheckTerminated(t)
  BY <1>2 DEF CheckTerminated, Return, AfterConnect
<1>3. CASE CheckDisconnected(t)
  BY <1>3 DEF CheckDisconnected, Return, AfterConnect, Allowed
<1>4. CASE PeekConnected(t)
  BY <1>4 DEF PeekConnected, Return, AfterConnect
<1>5. CASE AwaitRoutines(t)
  BY <1>5 DEF AwaitRoutines
<1>6. CASE Dial(t)
  BY <1>6 DEF Dial
<1>7. CASE DialFails(t)
  BY <1>7 DEF DialFails
<1>8. CASE OpenGate(t)
  BY <1>8 DEF OpenGate, SetActive
<1>9. CASE StartReader(t)
  BY <1>9 DEF StartReader
<1>10. CASE Commit(t)
  BY <1>10 DEF Commit, Return, AfterConnect
<1>11. CASE SetupFails(t)
  BY <1>11 DEF SetupFails
<1>12. CASE UndoGate(t)
  BY <1>12 DEF UndoGate, SetActive
<1>13. CASE UndoTransport(t)
  BY <1>13 DEF UndoTransport, CloseLink
<1>14. CASE UndoWait(t)
  BY <1>14 DEF UndoWait, Return, AfterConnect
<1> QED
  BY <1>1, <1>2, <1>3, <1>4, <1>5, <1>6, <1>7, <1>8, <1>9, <1>10, <1>11, <1>12, <1>13,
     <1>14 DEF ConnectStep

LEMMA WaitInvStop ==
  ASSUME TypeInv, OwnInv, FreshInv, WaitInv, NEW t \in Threads,
         TearAction(t)
  PROVE  WaitInv'
<1> USE ConnectionAssumption
    DEF WaitInv, WaitsHere, Waits, WasTold, LinkShut, OldShut, Threads,
        TypeInv, SafeInv, PcType, LockHeld, DowningHere, TransportIsLast, LockLabels, PassLabels,
        MoreTypes, ConnTypes, ReqTypes, Gens, FreshInv, AttemptIsNew, SentOnLink, OwnInv, Downers,
        At, Goto, gateVars, flagVars, connVars, coreVars, roleVars, reqVars, ghostVars, restVars
<1>1. CASE StopGate(t)
  BY <1>1 DEF StopGate, SetActive
<1>2. CASE StopContext(t)
  BY <1>2 DEF StopContext
<1>3. CASE StopTransport(t)
  BY <1>3 DEF StopTransport, CloseLink
<1>4. CASE StopNotify(t)
  BY <1>4 DEF StopNotify, NotifyPending
<1>5. CASE DownFlags(t)
  BY <1>5 DEF DownFlags
<1>6. CASE DownGate(t)
  BY <1>6 DEF DownGate, CloseGate
<1>7. CASE DownLock(t)
  BY <1>7 DEF DownLock
<1>8. CASE DownWait(t)
  BY <1>8 DEF DownWait
<1>9. CASE BeginStop(t)
  BY <1>9 DEF BeginStop
<1>10. CASE BeginSwitch(t)
  BY <1>10 DEF BeginSwitch
<1>11. CASE BeginReconnect(t)
  BY <1>11 DEF BeginReconnect
<1> QED
  BY <1>1, <1>2, <1>3, <1>4, <1>5, <1>6, <1>7, <1>8, <1>9, <1>10, <1>11 DEF TearAction, StopStep,
     DownStep

LEMMA WaitInvRole ==
  ASSUME TypeInv, OwnInv, FreshInv, WaitInv, NEW t \in Threads,
         RoleAction(t)
  PROVE  WaitInv'
<1> USE ConnectionAssumption
    DEF WaitInv, WaitsHere, Waits, WasTold, LinkShut, OldShut, Threads,
        TypeInv, SafeInv, PcType, LockHeld, DowningHere, TransportIsLast, LockLabels, PassLabels,
        MoreTypes, ConnTypes, ReqTypes, Gens, FreshInv, AttemptIsNew, SentOnLink, OwnInv, Downers,
        At, Goto, gateVars, flagVars, connVars, coreVars, roleVars, reqVars, ghostVars, restVars
<1>1. CASE SwitchDelete(t)
  BY <1>1 DEF SwitchDelete
<1>2. CASE SwitchClear(t)
  BY <1>2 DEF SwitchClear, NotifyPending
<1>3. CASE SwitchEnd(t)
  BY <1>3 DEF SwitchEnd
<1>4. CASE AutoGate(t)
  BY <1>4 DEF AutoGate, SetActive
<1>5. CASE FinishReconnect(t)
  <2>1. UNCHANGED <<lock, transport, link, slot, on, undone>>
    BY <1>5 DEF FinishReconnect
  <2>2. \A u \in Threads : pc'[u] = pc[u] \/ pc'[u] \in {"idle", "done", "gate"}
    BY <1>5 DEF FinishReconnect
  <2>3. \A c \in Callers : Waits(c)' => Waits(c)
    BY <2>1, <2>2
  <2> HIDE DEF Waits
  <2>4. WaitsHere' /\ OldShut'
    BY <2>1, <2>3
  <2>5. \A u \in Threads : pc'[u] \in {"stop_notify", "wait", "down_wait"} => pc'[u] = pc[u]
    BY ONLY <2>2
  <2>6. WasTold' /\ LinkShut'
    BY <2>1, <2>3, <2>5
  <2> QED BY <2>4, <2>6
<1>6. CASE GiveUpLock(t)
  BY <1>6 DEF GiveUpLock, AfterConnect
<1>7. CASE ParentDone(t)
  BY <1>7 DEF ParentDone
<1> QED
  BY <1>1, <1>2, <1>3, <1>4, <1>5, <1>6, <1>7 DEF RoleAction, RoleStep, SwitchStep

LEMMA WaitInvRequest ==
  ASSUME TypeInv, OwnInv, FreshInv, WaitInv, NEW c \in Callers,
         RequestAction(c)
  PROVE  WaitInv'
<1> USE ConnectionAssumption
    DEF WaitInv, WaitsHere, Waits, WasTold, LinkShut, OldShut, Threads,
        TypeInv, SafeInv, PcType, LockHeld, DowningHere, TransportIsLast, LockLabels, PassLabels,
        MoreTypes, ConnTypes, ReqTypes, Gens, FreshInv, AttemptIsNew, SentOnLink, OwnInv, Downers,
        At, Goto, gateVars, flagVars, connVars, coreVars, roleVars, reqVars, ghostVars, restVars
<1>1. CASE BeginAttempt(c)
  BY <1>1 DEF BeginAttempt
<1>2. CASE EnsureTransport(c)
  BY <1>2 DEF EnsureTransport
<1>3. CASE AwaitActive(c)
  BY <1>3 DEF AwaitActive
<1>4. CASE PickTransport(c)
  <2>1. pc[c] = "mr_send" /\ pc'[c] \in {"done", "mr_begin", "mr_reg"}
    BY <1>4 DEF PickTransport, RequestReconnectThen, AfterSendError
  <2>2. \A u \in Threads : u # c => pc'[u] = pc[u] \/ (pc[u] = "idle" /\ pc'[u] = "gate")
    BY <1>4 DEF PickTransport, RequestReconnectThen, AfterSendError
  <2>3. UNCHANGED <<lock, transport, link, slot, undone>>
    BY <1>4 DEF PickTransport
  <2>4. \A d \in Callers : d # c => on'[d] = on[d]
    BY <1>4 DEF PickTransport
  <2>5. \A d \in Callers : Waits(d)' => Waits(d) /\ on'[d] = on[d]
    BY <2>1, <2>2, <2>3, <2>4
  <2> HIDE DEF Waits
  <2>6. WaitsHere' /\ OldShut'
    BY <2>3, <2>5
  <2>7. \A t \in Threads : pc'[t] \in {"stop_notify", "wait", "down_wait"} => pc'[t] = pc[t]
    BY <2>1, <2>2
  <2>8. WasTold' /\ LinkShut'
    BY <2>3, <2>5, <2>7
  <2> QED BY <2>6, <2>8
<1>5. CASE Register(c)
  BY <1>5 DEF Register
<1>6. CASE Write(c)
  BY <1>6 DEF Write
<1>7. CASE WriteFailed(c)
  BY <1>7 DEF WriteFailed, ReconnectTransportThen, RequestReconnectThen, SetActive, AfterSendError
<1>8. CASE Receive(c)
  BY <1>8 DEF Receive
<1>9. CASE AwaitExpires(c)
  BY <1>9 DEF AwaitExpires
<1>10. CASE WriteExpires(c)
  BY <1>10 DEF WriteExpires, CloseLink
<1>11. CASE ReceiveExpires(c)
  BY <1>11 DEF ReceiveExpires, RequestReconnectThen
<1> QED
  BY <1>1, <1>2, <1>3, <1>4, <1>5, <1>6, <1>7, <1>8, <1>9, <1>10, <1>11 DEF RequestAction, RequestStep

LEMMA WaitInvReader ==
  ASSUME TypeInv, OwnInv, FreshInv, WaitInv, NEW g \in Gens,
         ReaderAction(g)
  PROVE  WaitInv'
<1> USE ConnectionAssumption
    DEF WaitInv, WaitsHere, Waits, WasTold, LinkShut, OldShut, Threads,
        TypeInv, SafeInv, PcType, LockHeld, DowningHere, TransportIsLast, LockLabels, PassLabels,
        MoreTypes, ConnTypes, ReqTypes, Gens, FreshInv, AttemptIsNew, SentOnLink, OwnInv, Downers,
        At, Goto, gateVars, flagVars, connVars, coreVars, roleVars, reqVars, ghostVars, restVars, readerRest
<1>1. CASE ReaderStops(g)
  BY <1>1 DEF ReaderStops, ReaderGoto
<1>2. CASE ReaderEnters(g)
  BY <1>2 DEF ReaderEnters, ReaderGoto
<1>3. CASE ReaderFails(g)
  BY <1>3 DEF ReaderFails, ReaderGoto
<1>4. CASE ReaderChecks(g)
  BY <1>4 DEF ReaderChecks, ReaderGoto
<1>5. CASE ReaderReports(g)
  BY <1>5 DEF ReaderReports, ReconnectTransportThen, RequestReconnectThen, SetActive, ReaderGoto
<1>6. CASE ReaderDecides(g)
  BY <1>6 DEF ReaderDecides, ReaderGoto
<1>7. CASE ReaderAsks(g)
  BY <1>7 DEF ReaderAsks, RequestReconnectThen, ReaderGoto
<1>8. CASE ReaderReceives(g)
  BY <1>8 DEF ReaderReceives, ReaderGoto
<1>9. CASE ReaderOdd(g)
  BY <1>9 DEF ReaderOdd, ReaderGoto
<1>10. CASE Reader404(g)
  BY <1>10 DEF Reader404, RequestReconnectThen, ReaderGoto
<1>11. CASE LinkBreaks(g)
  BY <1>11 DEF LinkBreaks
<1> QED
  BY <1>1, <1>2, <1>3, <1>4, <1>5, <1>6, <1>7, <1>8, <1>9, <1>10, <1>11 DEF ReaderAction, ReaderStep

LEMMA WaitInvRest ==
  ASSUME TypeInv, OwnInv, FreshInv, WaitInv, OtherAction
  PROVE  WaitInv'
<1> USE ConnectionAssumption
    DEF WaitInv, WaitsHere, Waits, WasTold, LinkShut, OldShut, Threads,
        TypeInv, SafeInv, PcType, LockHeld, DowningHere, TransportIsLast, LockLabels, PassLabels,
        MoreTypes, ConnTypes, ReqTypes, Gens, FreshInv, AttemptIsNew, SentOnLink, OwnInv, Downers,
        At, Goto, gateVars, flagVars, connVars, coreVars, roleVars, reqVars, ghostVars, restVars, readerRest
<1>1. CASE BackgroundWrite
  <2>1. UNCHANGED <<lock, transport, link, slot, on, undone>>
    BY <1>1, WriteEffects
  <2>2. \A u \in Threads : pc'[u] = pc[u] \/ (pc[u] = "idle" /\ pc'[u] = "gate")
    BY <1>1, WriteMoves
  <2>3. \A c \in Callers : Waits(c)' => Waits(c)
    BY <2>1, <2>2
  <2> HIDE DEF Waits
  <2>4. WaitsHere' /\ OldShut'
    BY <2>1, <2>3
  <2>5. \A t \in Threads : pc'[t] \in {"stop_notify", "wait", "down_wait"} => pc'[t] = pc[t]
    BY <2>2
  <2>6. WasTold' /\ LinkShut'
    BY <2>1, <2>3, <2>5
  <2> QED BY <2>4, <2>6
<1>2. CASE \E g \in Gens, c \in Callers : ReaderAnswers(g, c)
  BY <1>2 DEF ReaderAnswers, ReaderGoto
<1>3. CASE UNCHANGED vars
  BY <1>3 DEF vars
<1> QED
  BY <1>1, <1>2, <1>3 DEF OtherAction

LEMMA WaitInvStep ==
  ASSUME TypeInv, OwnInv, FreshInv, WaitInv, [Next]_vars
  PROVE  WaitInv'
BY NextKinds, WaitInvConnect, WaitInvStop, WaitInvRole, WaitInvRequest, WaitInvReader, WaitInvRest

-----------------------------------------------------------------------------
(* The parts together.                                                     *)

LEMMA CancelledStep ==
  ASSUME TypeInv, FreshInv, CancelledOwned, [Next]_vars
  PROVE  CancelledOwned'
<1>1. ASSUME NEW t \in Threads, Inside(t) PROVE CancelledOwned'
  BY <1>1, CancelledOwnedConnect, CancelledOwnedStop DEF Inside, TearAction
<1>2. ASSUME NEW t \in Threads, ParentDone(t) PROVE CancelledOwned'
  BY <1>2, CancelledOwnedRole
<1>3. CASE Outside /\ ContextsKept
  BY <1>3, CancelledOutside DEF TypeInv
<1> QED BY <1>1, <1>2, <1>3, StepKinds, OutsideContexts DEF TypeInv

CareInv ==
  TypeInv /\ OwnInv /\ FlagInv /\ FreshInv /\ CancelledOwned /\ LossOwned /\ WaitInv

LEMMA CareInit ==
  ASSUME Init
  PROVE  CareInv
<1> USE ConnectionAssumption DEF Init
<1>1. TypeInv
  BY TypeInit
<1>2. OwnInv /\ FlagInv
  BY DEF OwnInv, InProgressOwned, Downers, HalfOwned, FlagInv, TermOwned, DiscOwned
<1>3. FreshInv
  BY DEF FreshInv, AttemptIsNew, ReaderComes, SentOnLink, Threads
<1>4. CancelledOwned /\ LossOwned
  BY DEF CancelledOwned, LossOwned
<1>5. WaitInv
  BY DEF WaitInv, WaitsHere, Waits, WasTold, LinkShut, OldShut
<1> QED BY <1>1, <1>2, <1>3, <1>4, <1>5 DEF CareInv

LEMMA CareStep ==
  ASSUME CareInv, [Next]_vars
  PROVE  CareInv'
BY TypeStep, OwnInvStep, FlagStep, FreshInvStep, CancelledStep, LossOwnedStep, WaitInvStep DEF CareInv

-----------------------------------------------------------------------------

LEMMA StopperBusy ==
  ASSUME CareInv, NEW t \in downing
  PROVE  t \in Threads /\ Busy(t)
<1>1. t \in Threads /\ t \notin Callers
  BY ConnectionAssumption DEF CareInv, OwnInv, Downers, Threads
<1>2. pc[t] \notin {"idle", "done"}
  BY <1>1 DEF CareInv, TypeInv, SafeInv, DowningHere, PassLabels
<1> QED BY <1>1, <1>2 DEF Busy

LEMMA CloserBusy ==
  ASSUME CareInv, NEW t \in Threads, Closer(t)
  PROVE  Busy(t)
BY StopperBusy, ConnectionAssumption DEF Closer, Busy

LEMMA CareIsRead ==
  ASSUME CareInv
  PROVE  ActiveIsRead
<1>1. SUFFICES ASSUME active, ~ keyRefused, ~ disconnected, ~ terminated, ~ Deserted, ~ Reading(transport)
               PROVE  SomeoneActs
  BY DEF ActiveIsRead
<1>2. transport = gen
  BY <1>1 DEF CareInv, TypeInv, SafeInv, TransportIsLast, ActiveHasTransport
<1>3. CASE reader[gen] = "none"
  <2>1. PICK t \in Threads : lock = t /\ pc[t] = "read"
    BY <1>1, <1>3 DEF CareInv, FreshInv, ReaderComes
  <2> QED BY <2>1 DEF SomeoneActs, Busy
<1>4. CASE reader[gen] = "done" /\ gen \in ctxDone
  <2>1. downing # {} \/ \E t \in Threads : lock = t /\ pc[t] \in {"dial", "up", "read", "setup", "undo"}
    BY <1>1, <1>4 DEF CareInv, CancelledOwned
  <2> QED BY <2>1, StopperBusy DEF SomeoneActs, Busy
<1>5. CASE reader[gen] = "done" /\ gen \notin ctxDone
  <2>1. \E t \in Threads : Closer(t)
    BY <1>1, <1>5 DEF CareInv, LossOwned, ReaderLost
  <2> QED BY <2>1, CloserBusy DEF SomeoneActs
<1> QED BY <1>1, <1>2, <1>3, <1>4, <1>5 DEF Reading

LEMMA CareIsOwned ==
  ASSUME CareInv
  PROVE  HalfOpenIsOwned
<1>1. SUFFICES ASSUME ~ gaveUp, transport # 0, ~ active, ~ disconnected, ~ terminated
               PROVE  SomeoneActs
  BY DEF HalfOpenIsOwned
<1>2. CASE \E t \in Threads \ Callers : Works(t)
  BY <1>2 DEF SomeoneActs, Busy, Works
<1>3. CASE \E c \in Callers : lock = c /\ pc[c] \in TearLabels
  BY <1>3 DEF SomeoneActs, Busy, TearLabels, Threads
<1> QED BY <1>1, <1>2, <1>3 DEF CareInv, OwnInv, HalfOwned

LEMMA CareMeans == CareInv => SomebodyCares
BY CareIsRead, CareIsOwned DEF CareInv, TypeInv, SafeInv, SomebodyCares

(* Whatever is half way, somebody owns it (property SomebodyCares): an     *)
(* open gate has a transport that is read, and one that is down is worked  *)
(* on, however reconnects, Disconnects, lost links and failed attempts     *)
(* interleave.                                                             *)
THEOREM SomebodyCaresAlways == Spec => []SomebodyCares
BY CareMeans, CareInit, CareStep, PTL DEF Spec

LEMMA CareStrands ==
  ASSUME CareInv
  PROVE  StrandedOnlyByFailure
<1>1. SUFFICES ASSUME NEW c \in Callers, Stranded(c), ~ keyRefused, ~ gaveUp, on[c] \notin undone
               PROVE  FALSE
  BY DEF StrandedOnlyByFailure
<1>2. Waits(c) /\ ~ SomeoneActs
  BY <1>1 DEF Stranded, Waits, At
<1>3. on[c] = transport
  BY <1>1, <1>2 DEF CareInv, WaitInv, WaitsHere
<1>4. ~ Reading(transport)
  BY <1>1, <1>3 DEF Stranded
<1>5. transport # 0
  BY <1>2, <1>3 DEF CareInv, FreshInv, SentOnLink, Waits
<1>6. downing = {}
  BY <1>2, StopperBusy DEF SomeoneActs
<1>7. ~ disconnected /\ ~ terminated
  BY <1>5, <1>6 DEF CareInv, FlagInv, TermOwned, DiscOwned
<1>8. CASE active
  BY <1>1, <1>2, <1>4, <1>7, <1>8, CareIsRead DEF ActiveIsRead, Deserted
<1>9. CASE ~ active
  BY <1>1, <1>2, <1>5, <1>7, <1>9, CareIsOwned DEF HalfOpenIsOwned
<1> QED BY <1>8, <1>9

(* A request is left waiting on a dead connection only by a failed set-up, *)
(* by an attempt that owned inProgress and failed, or by a refused key     *)
(* (property StrandedOnlyByFailure): everybody else who takes a connection *)
(* down wakes the requests on it (notifyPendingRequestsOfConfigChange).    *)
THEOREM StrandedAlways == Spec => []StrandedOnlyByFailure
BY CareStrands, CareInit, CareStep, PTL DEF Spec
=============================================================================
