----------------------------- MODULE Connection -----------------------------
(***************************************************************************)
(* The connection lifecycle of an MTProto client (mtproto.go, network.go): *)
(* everybody who may set up, tear down, use or lose the one transport of   *)
(* the client, at the granularity of the locks and atomics of the code.    *)
(*                                                                         *)
(*   Callers       goroutines in makeRequest                               *)
(*   Reconnectors  explicit Reconnect(ctx)                                 *)
(*   Switchers     SwitchDc, which makeRequest calls on a 303 error        *)
(*   Stoppers      Disconnect, or Terminate for those in Terminators       *)
(*   Autos         goroutines that requestReconnect starts                 *)
(*                                                                         *)
(* plus, for each transport, the reader goroutine of                       *)
(* startReadingResponses.  A transport carries the number of the attempt   *)
(* that made it; number 0 is the nil transport.                            *)
(*                                                                         *)
(* The gate (active, closed) is module TcpState without its channel.       *)
(* Which data centre, which auth key and what a request says are left out. *)
(***************************************************************************)
EXTENDS Naturals, FiniteSets

CONSTANTS
  Callers, Reconnectors, Switchers, Stoppers, Autos,
  Terminators,    \* the Stoppers that call Terminate
  Impatient,      \* threads whose context may end at any time
  KeyPresent,     \* an auth key exists: setup after the dial cannot fail
  MaxAttempts,    \* maxRequestAttempts of a request
  TimeoutLimit,   \* timed-out requests in a row that force a reconnect (5)
  MaxGen,         \* bound: connection attempts in a behaviour
  MaxFaults,      \* bound: faults of the network or the server
  None

Threads == Callers \union Reconnectors \union Switchers \union Stoppers \union Autos

Gens == 1..MaxGen

ASSUME ConnectionAssumption ==
  /\ None \notin Threads
  /\ MaxGen \in Nat \ {0} /\ MaxAttempts \in Nat \ {0} /\ TimeoutLimit \in Nat \ {0}
  /\ MaxFaults \in Nat
  /\ KeyPresent \in BOOLEAN
  /\ Terminators \subseteq Stoppers
  /\ Callers \cap (Reconnectors \union Switchers \union Stoppers \union Autos) = {}
  /\ Reconnectors \cap (Switchers \union Stoppers \union Autos) = {}
  /\ Switchers \cap (Stoppers \union Autos) = {}
  /\ Stoppers \cap Autos = {}

VARIABLES
  active, closed,             \* tcpState
  disconnected, terminated,   \* the flags of the client
  inProgress,                 \* connState.InProgress
  lock,                       \* the holder of lifecycleMu
  transport,                  \* m.transport
  gen,                        \* the attempt ctxCancel belongs to
  link,                       \* [Gens -> state of the network connection]
  ctxDone,                    \* the attempts whose context is cancelled
  reader,                     \* [Gens -> where the reader goroutine is]
  pc,                         \* [Threads -> next step]
  up,                         \* [Threads -> result of the last CreateConnection]
  downing,                    \* the threads inside Disconnect or Terminate
  expired,                    \* the threads whose context has ended
  slot,                       \* [Callers -> response channel of the request]
  on,                         \* [Callers -> transport the request goes out on]
  attempt,                    \* [Callers -> attempts made]
  timeouts,                   \* connState.ConsecutiveTimeouts
  faults,                     \* faults so far
  stayOff,                    \* history: the user's last word was Disconnect or Terminate
  gaveUp,                     \* history: an attempt that owned inProgress has failed
  keyRefused,                 \* history: a reader ended because the server refuses the key
  undone                      \* history: the transports that the cleanup of an attempt closed

gateVars == <<active, closed>>
flagVars == <<disconnected, terminated>>
connVars == <<transport, gen, link, ctxDone>>
reqVars  == <<slot, on, attempt, timeouts>>
roleVars == <<up, downing, expired>>
ghostVars == <<faults, stayOff, gaveUp, keyRefused, undone>>
restVars  == <<roleVars, reqVars, ghostVars>>
coreVars  == <<gateVars, flagVars, inProgress, lock, connVars, reader>>
vars == <<coreVars, pc, restVars>>

Init ==
  /\ active = FALSE /\ closed = FALSE
  /\ disconnected = FALSE /\ terminated = FALSE /\ inProgress = FALSE
  /\ lock = None
  /\ transport = 0 /\ gen = 0
  /\ link = [g \in Gens |-> "none"]
  /\ ctxDone = {}
  /\ reader = [g \in Gens |-> "none"]
  /\ pc = [t \in Threads |-> "idle"]
  /\ up = [t \in Threads |-> FALSE] /\ downing = {} /\ expired = {}
  /\ slot = [c \in Callers |-> "none"]
  /\ on = [c \in Callers |-> 0]
  /\ attempt = [c \in Callers |-> 0]
  /\ timeouts = 0 /\ faults = 0
  /\ stayOff = FALSE /\ gaveUp = FALSE /\ keyRefused = FALSE /\ undone = {}

-----------------------------------------------------------------------------
(* Helpers: what the smaller functions do to the state they own.           *)

At(t, l)   == pc[t] = l
Goto(t, l) == pc' = [pc EXCEPT ![t] = l]

SetActive(b) == active' = b /\ closed' = (closed /\ ~ b)
CloseGate    == active' = FALSE /\ closed' = TRUE

CloseLink(g) == IF g = 0 THEN link ELSE [link EXCEPT ![g] = "shut"]

Reading(g) == reader[g] \notin {"none", "done"}

(* notifyPendingRequestsOfConfigChange: every registered request is taken  *)
(* out of responseChannels and told to try again.                          *)
NotifyPending ==
  slot' = [c \in Callers |-> IF slot[c] = "wait" THEN "changed" ELSE slot[c]]

(* requestReconnect, called by somebody whose own next step is l.  The     *)
(* winner of the compare-and-swap starts a goroutine; SetActive(false) is  *)
(* the first step of that goroutine here.                                  *)
RequestReconnectThen(p) ==
  IF disconnected \/ terminated \/ inProgress
  THEN pc' = p /\ UNCHANGED inProgress
  ELSE /\ inProgress' = TRUE
       /\ \E a \in Autos : p[a] = "idle" /\ pc' = [p EXCEPT ![a] = "gate"]

(* reconnectTransport(g), under transportMu. *)
ReconnectTransportThen(g, p) ==
  IF transport # g \/ disconnected \/ terminated
  THEN pc' = p /\ UNCHANGED <<gateVars, inProgress>>
  ELSE SetActive(FALSE) /\ RequestReconnectThen(p)

-----------------------------------------------------------------------------
(* CreateConnection(parent, _, allowDisconnected): the steps of thread t.  *)

Allowed(t) == t \in Reconnectors \union Switchers

(* Where a thread goes when its CreateConnection returns. *)
AfterConnect(t, ok) ==
  CASE t \in Callers   -> IF ok THEN "mr_wait" ELSE "done"
    [] t \in Switchers -> "sw_end"
    [] OTHER           -> "finish"

Return(t, ok) ==
  /\ lock' = None
  /\ up' = [up EXCEPT ![t] = ok]
  /\ Goto(t, AfterConnect(t, ok))
  /\ UNCHANGED <<downing, expired>>

LockLifecycle(t) ==
  /\ At(t, "lock") /\ lock = None
  /\ lock' = t
  /\ Goto(t, "check")
  /\ UNCHANGED <<gateVars, flagVars, inProgress, connVars, reader, restVars>>

(* The context of the caller ends while it waits for lifecycleMu. *)
GiveUpLock(t) ==
  /\ At(t, "lock") /\ t \in Impatient
  /\ expired' = expired \union {t}
  /\ up' = [up EXCEPT ![t] = FALSE]
  /\ Goto(t, AfterConnect(t, FALSE))
  /\ UNCHANGED <<coreVars, downing, reqVars, ghostVars>>

CheckTerminated(t) ==
  /\ At(t, "check")
  /\ IF terminated THEN Return(t, FALSE) ELSE Goto(t, "flag") /\ UNCHANGED <<lock, roleVars>>
  /\ UNCHANGED <<gateVars, flagVars, inProgress, connVars, reader, reqVars, ghostVars>>

\* Seeded fault: background recovery does not look at disconnected.
CheckDisconnectedNot(t) ==
  /\ At(t, "flag")
  /\ disconnected' = (disconnected /\ ~ Allowed(t))
  /\ Goto(t, IF Allowed(t) THEN "stop" ELSE "peek")
  /\ UNCHANGED <<gateVars, terminated, inProgress, lock, connVars, reader, restVars>>

CheckDisconnected(t) ==
  /\ At(t, "flag")
  /\ IF Allowed(t)
     THEN disconnected' = FALSE /\ Goto(t, "stop") /\ UNCHANGED <<lock, roleVars>>
     ELSE /\ UNCHANGED disconnected
          /\ IF disconnected THEN Return(t, FALSE) ELSE Goto(t, "peek") /\ UNCHANGED <<lock, roleVars>>
  /\ UNCHANGED <<gateVars, terminated, inProgress, connVars, reader, reqVars, ghostVars>>

(* Background recovery leaves a connection alone that works already. *)
PeekConnected(t) ==
  /\ At(t, "peek")
  /\ IF transport # 0 /\ active
     THEN Return(t, TRUE)
     ELSE Goto(t, "stop") /\ UNCHANGED <<lock, roleVars>>
  /\ UNCHANGED <<gateVars, flagVars, inProgress, connVars, reader, reqVars, ghostVars>>

(* stopRoutines, in four steps; Disconnect and Terminate run it too, the   *)
(* first time without lifecycleMu.                                         *)
StopGate(t) ==
  /\ At(t, "stop")
  /\ SetActive(FALSE)
  /\ Goto(t, "stop_ctx")
  /\ UNCHANGED <<flagVars, inProgress, lock, connVars, reader, restVars>>

StopContext(t) ==
  /\ At(t, "stop_ctx")
  /\ ctxDone' = ctxDone \union ({gen} \ {0})
  /\ Goto(t, "stop_link")
  /\ UNCHANGED <<gateVars, flagVars, inProgress, lock, transport, gen, link, reader,
                 restVars>>

StopTransport(t) ==
  /\ At(t, "stop_link")
  /\ link' = CloseLink(transport)
  /\ Goto(t, "stop_notify")
  /\ UNCHANGED <<gateVars, flagVars, inProgress, lock, transport, gen, ctxDone, reader,
                 restVars>>

\* Seeded fault: the pending requests are not woken.
StopNotifyNot(t) ==
  /\ At(t, "stop_notify")
  /\ Goto(t, IF lock # t THEN "down_lock" ELSE IF t \in downing THEN "down_wait" ELSE "wait")
  /\ UNCHANGED <<coreVars, restVars>>

StopNotify(t) ==
  /\ At(t, "stop_notify")
  /\ NotifyPending
  /\ Goto(t, IF lock # t THEN "down_lock" ELSE IF t \in downing THEN "down_wait" ELSE "wait")
  /\ UNCHANGED <<coreVars, roleVars, on, attempt, timeouts, ghostVars>>

\* Seeded fault: the old routines are not waited for.
AwaitRoutinesNot(t) ==
  /\ At(t, "wait")
  /\ gen < MaxGen
  /\ transport' = 0
  /\ gen' = gen + 1
  /\ Goto(t, "dial")
  /\ UNCHANGED <<gateVars, flagVars, inProgress, lock, link, ctxDone, reader, restVars>>

(* routineswg.Wait, then the transport is dropped and a new context made. *)
AwaitRoutines(t) ==
  /\ At(t, "wait")
  /\ \A g \in Gens : ~ Reading(g)
  /\ gen < MaxGen
  /\ transport' = 0
  /\ gen' = gen + 1
  /\ Goto(t, "dial")
  /\ UNCHANGED <<gateVars, flagVars, inProgress, lock, link, ctxDone, reader, restVars>>

(* The context of the caller ends during setup: AfterFunc cancels the new  *)
(* context, which makes a dial or a handshake under way fail.              *)
ParentDone(t) ==
  /\ pc[t] \in {"dial", "up", "read", "setup"} /\ t \in Impatient
  /\ t \notin expired
  /\ expired' = expired \union {t}
  /\ ctxDone' = ctxDone \union {gen}
  /\ UNCHANGED <<gateVars, flagVars, inProgress, lock, transport, gen, link, reader,
                 pc, up, downing, reqVars, ghostVars>>

(* connectWithRetry: a dial that succeeds, in the end. *)
Dial(t) ==
  /\ At(t, "dial")
  /\ transport' = gen
  /\ link' = [link EXCEPT ![gen] = "open"]
  /\ Goto(t, "up")
  /\ UNCHANGED <<gateVars, flagVars, inProgress, lock, gen, ctxDone, reader, restVars>>

(* connectWithRetry fails: all attempts failed, the error is fatal, or the *)
(* client was cancelled, disconnected or terminated between two attempts.  *)
(* The client is one without a ConnectionHandler of its own                *)
(* (mtproto.go:701); one that returns an error ends like this as well.     *)
DialFails(t) ==
  /\ At(t, "dial")
  /\ IF gen \in ctxDone \/ disconnected \/ terminated
     THEN UNCHANGED faults
     ELSE faults < MaxFaults /\ faults' = faults + 1
  /\ Goto(t, "undo")
  /\ UNCHANGED <<coreVars, roleVars, reqVars, stayOff, gaveUp, keyRefused, undone>>

OpenGate(t) ==
  /\ At(t, "up")
  /\ SetActive(TRUE)
  /\ Goto(t, "read")
  /\ UNCHANGED <<flagVars, inProgress, lock, connVars, reader, restVars>>

StartReader(t) ==
  /\ At(t, "read")
  /\ reader' = [reader EXCEPT ![gen] = "gate"]
  /\ Goto(t, "setup")
  /\ UNCHANGED <<gateVars, flagVars, inProgress, lock, connVars, restVars>>

(* makeAuthKey (if there is no key) and the last look at the caller's      *)
(* context: the connection is committed, or it is undone.                  *)
Commit(t) ==
  /\ At(t, "setup")
  /\ t \notin expired
  /\ Return(t, TRUE)
  /\ UNCHANGED <<gateVars, flagVars, inProgress, transport, gen, link, ctxDone, reader, reqVars,
                 ghostVars>>

SetupFails(t) ==
  /\ At(t, "setup")
  /\ \/ t \in expired /\ UNCHANGED faults
     \/ ~ KeyPresent /\ (gen \in ctxDone \/ link[gen] # "open") /\ UNCHANGED faults
     \/ ~ KeyPresent /\ faults < MaxFaults /\ faults' = faults + 1
  /\ Goto(t, "undo")
  /\ UNCHANGED <<coreVars, roleVars, reqVars, stayOff, gaveUp, keyRefused, undone>>

(* The deferred cleanup of an uncommitted connection. *)
UndoGate(t) ==
  /\ At(t, "undo")
  /\ ctxDone' = ctxDone \union {gen}
  /\ SetActive(FALSE)
  /\ Goto(t, "undo_link")
  /\ UNCHANGED <<flagVars, inProgress, lock, transport, gen, link, reader, restVars>>

UndoTransport(t) ==
  /\ At(t, "undo_link")
  /\ link' = CloseLink(transport)
  /\ transport' = 0
  /\ undone' = undone \union ({transport} \ {0})
  /\ Goto(t, "undo_wait")
  /\ UNCHANGED <<gateVars, flagVars, inProgress, lock, gen, ctxDone, reader, roleVars, reqVars,
                 faults, stayOff, gaveUp, keyRefused>>

UndoWait(t) ==
  /\ At(t, "undo_wait")
  /\ \A g \in Gens : ~ Reading(g)
  /\ Return(t, FALSE)
  /\ UNCHANGED <<gateVars, flagVars, inProgress, connVars, reader, reqVars, ghostVars>>

-----------------------------------------------------------------------------
(* Reconnect(ctx) and the goroutine of requestReconnect.                   *)

(* The user asks for a connection: from here on the client may be up. *)
BeginReconnect(t) ==
  /\ t \in Reconnectors /\ At(t, "idle")
  /\ stayOff' = (stayOff /\ terminated)
  /\ IF terminated \/ inProgress
     THEN Goto(t, "done") /\ UNCHANGED inProgress
     ELSE inProgress' = TRUE /\ Goto(t, "lock")
  /\ UNCHANGED <<gateVars, flagVars, lock, connVars, reader, roleVars, reqVars, faults, gaveUp, keyRefused, undone>>

AutoGate(a) ==
  /\ a \in Autos /\ At(a, "gate")
  /\ SetActive(FALSE)
  /\ Goto(a, "lock")
  /\ UNCHANGED <<flagVars, inProgress, lock, connVars, reader, restVars>>

\* Seeded fault: a loss during the reconnect is forgotten.
FinishReconnectForgets(t) ==
  /\ At(t, "finish")
  /\ inProgress' = FALSE
  /\ Goto(t, IF t \in Autos THEN "idle" ELSE "done")
  /\ UNCHANGED <<gateVars, flagVars, lock, connVars, reader, restVars>>

(* finishReconnect(connected).  A goroutine of requestReconnect then ends  *)
(* (it pings, which is BackgroundWrite), and may be the next one's.        *)
FinishReconnect(t) ==
  /\ At(t, "finish")
  /\ LET p == [pc EXCEPT ![t] = IF t \in Autos THEN "idle" ELSE "done"]
     IN  IF up[t] /\ ~ active /\ ~ disconnected /\ ~ terminated
         THEN /\ inProgress' = TRUE
              /\ \E a \in Autos : p[a] = "idle" /\ pc' = [p EXCEPT ![a] = "gate"]
         ELSE inProgress' = FALSE /\ pc' = p
  /\ gaveUp' = (gaveUp \/ ~ up[t])
  /\ UNCHANGED <<gateVars, flagVars, lock, connVars, reader, roleVars, reqVars, faults, stayOff, keyRefused, undone>>

-----------------------------------------------------------------------------
(* Disconnect and Terminate.                                               *)

BeginStop(t) ==
  /\ t \in Stoppers /\ At(t, "idle")
  /\ downing' = downing \union {t}
  /\ Goto(t, "down")
  /\ UNCHANGED <<coreVars, up, expired, reqVars, ghostVars>>

(* The flags; Terminate sets both. *)
DownFlags(t) ==
  /\ At(t, "down")
  /\ disconnected' = TRUE
  /\ terminated' = (terminated \/ t \in Terminators)
  /\ Goto(t, "down_gate")
  /\ UNCHANGED <<gateVars, inProgress, lock, connVars, reader, restVars>>

DownGate(t) ==
  /\ At(t, "down_gate")
  /\ CloseGate
  /\ Goto(t, "stop")
  /\ UNCHANGED <<flagVars, inProgress, lock, connVars, reader, restVars>>

(* Once the lifecycle lock is held everything is said again. *)
DownLock(t) ==
  /\ At(t, "down_lock") /\ lock = None
  /\ lock' = t
  /\ Goto(t, "down")
  /\ UNCHANGED <<gateVars, flagVars, inProgress, connVars, reader, restVars>>

(* Threads that will make CreateConnection clear the user's Disconnect on  *)
(* the user's own behalf.                                                  *)
ExplicitConnect == \E t \in Reconnectors : pc[t] \notin {"idle", "done"}

DownWait(t) ==
  /\ At(t, "down_wait")
  /\ \A g \in Gens : ~ Reading(g)
  /\ transport' = 0
  /\ lock' = None
  /\ downing' = downing \ {t}
  /\ slot' = [c \in Callers |-> IF t \in Terminators /\ slot[c] = "wait" THEN "closed" ELSE slot[c]]
  /\ Goto(t, IF t \in Stoppers THEN "done" ELSE "sw_delete")
  /\ stayOff' = (stayOff \/ (t \in Stoppers /\ (terminated \/ ~ ExplicitConnect)))
  /\ UNCHANGED <<gateVars, flagVars, inProgress, gen, link, ctxDone, reader, up, expired,
                 on, attempt, timeouts, faults, gaveUp, keyRefused, undone>>

-----------------------------------------------------------------------------
(* SwitchDc(ctx, dc).                                                      *)

BeginSwitch(t) ==
  /\ t \in Switchers /\ At(t, "idle")
  /\ inProgress' = TRUE
  /\ downing' = downing \union {t}
  /\ Goto(t, "down")
  /\ UNCHANGED <<gateVars, flagVars, lock, connVars, reader, up, expired, reqVars, ghostVars>>

(* sessionStorage.Delete; when it fails the client stays disconnected. *)
SwitchDelete(t) ==
  /\ At(t, "sw_delete")
  /\ \/ Goto(t, "sw_clear") /\ UNCHANGED faults
     \/ faults < MaxFaults /\ faults' = faults + 1 /\ Goto(t, "sw_end")
  /\ UNCHANGED <<coreVars, roleVars, reqVars, stayOff, gaveUp, keyRefused, undone>>

(* Keys, ids and counters of the old data centre are forgotten. *)
SwitchClear(t) ==
  /\ At(t, "sw_clear")
  /\ NotifyPending
  /\ timeouts' = 0
  /\ Goto(t, "lock")
  /\ UNCHANGED <<coreVars, roleVars, on, attempt, ghostVars>>

(* The deferred InProgress.Store(false). *)
SwitchEnd(t) ==
  /\ At(t, "sw_end")
  /\ inProgress' = FALSE
  /\ Goto(t, "done")
  /\ gaveUp' = TRUE
  /\ UNCHANGED <<gateVars, flagVars, lock, connVars, reader, roleVars, reqVars, faults, stayOff, keyRefused, undone>>

-----------------------------------------------------------------------------
(* makeRequest: one request of caller c.                                   *)

\* Seeded fault: the retry loop has no limit.
BeginAttemptAgain(c) ==
  /\ c \in Callers /\ pc[c] \in {"idle", "mr_begin"}
  /\ slot' = [slot EXCEPT ![c] = "none"]
  /\ Goto(c, "mr_conn")
  /\ attempt' = [attempt EXCEPT ![c] = @ + 1]
  /\ UNCHANGED <<coreVars, roleVars, on, timeouts, ghostVars>>

(* The head of the retry loop. *)
BeginAttempt(c) ==
  /\ c \in Callers /\ pc[c] \in {"idle", "mr_begin"}
  /\ slot' = [slot EXCEPT ![c] = "none"]
  /\ IF attempt[c] = MaxAttempts \/ c \in expired \/ terminated \/ disconnected
     THEN Goto(c, "done") /\ UNCHANGED attempt
     ELSE Goto(c, "mr_conn") /\ attempt' = [attempt EXCEPT ![c] = @ + 1]
  /\ UNCHANGED <<coreVars, roleVars, on, timeouts, ghostVars>>

(* Without a transport the request sets up a connection itself. *)
EnsureTransport(c) ==
  /\ At(c, "mr_conn")
  /\ Goto(c, IF transport = 0 /\ ~ active THEN "lock" ELSE "mr_wait")
  /\ UNCHANGED <<coreVars, restVars>>

(* WaitForActive(ctx) *)
AwaitActive(c) ==
  /\ At(c, "mr_wait") /\ (closed \/ active)
  /\ Goto(c, IF closed THEN "done" ELSE "mr_send")
  /\ UNCHANGED <<coreVars, restVars>>

AwaitExpires(c) ==
  /\ At(c, "mr_wait") /\ c \in Impatient
  /\ expired' = expired \union {c}
  /\ Goto(c, "done")
  /\ UNCHANGED <<coreVars, up, downing, reqVars, ghostVars>>

AfterSendError(c) == IF c \in expired \/ terminated \/ disconnected THEN "done" ELSE "mr_begin"

(* sendPacket up to the end of its transportMu section. *)
PickTransport(c) ==
  /\ At(c, "mr_send")
  /\ IF transport = 0 \/ ~ active \/ disconnected \/ terminated
     THEN /\ RequestReconnectThen([pc EXCEPT ![c] = AfterSendError(c)])
          /\ UNCHANGED on
     ELSE /\ on' = [on EXCEPT ![c] = transport]
          /\ Goto(c, "mr_reg") /\ UNCHANGED inProgress
  /\ UNCHANGED <<gateVars, flagVars, lock, connVars, reader, roleVars, slot, attempt, timeouts, ghostVars>>

(* responseChannels.Add *)
Register(c) ==
  /\ At(c, "mr_reg")
  /\ slot' = [slot EXCEPT ![c] = "wait"]
  /\ Goto(c, "mr_write")
  /\ UNCHANGED <<coreVars, roleVars, on, attempt, timeouts, ghostVars>>

(* WriteMsg.  A write to a connection the peer has lost may still succeed. *)
Write(c) ==
  /\ At(c, "mr_write")
  /\ \/ link[on[c]] # "shut" /\ Goto(c, "mr_recv")
     \/ link[on[c]] # "open" /\ Goto(c, "mr_lost")
  /\ UNCHANGED <<coreVars, restVars>>

(* The context ends during the write: the transport is closed, because a   *)
(* half-written frame cannot be resumed.                                   *)
WriteExpires(c) ==
  /\ At(c, "mr_write") /\ c \in Impatient
  /\ expired' = expired \union {c}
  /\ link' = CloseLink(on[c])
  /\ Goto(c, "mr_lost")
  /\ UNCHANGED <<gateVars, flagVars, inProgress, lock, transport, gen, ctxDone, reader, up,
                 downing, reqVars, ghostVars>>

(* reconnectTransport after a failed write, and the request is forgotten. *)
WriteFailed(c) ==
  /\ At(c, "mr_lost")
  /\ ReconnectTransportThen(on[c], [pc EXCEPT ![c] = AfterSendError(c)])
  /\ slot' = [slot EXCEPT ![c] = "none"]
  /\ UNCHANGED <<flagVars, lock, connVars, reader, roleVars, on, attempt, timeouts, ghostVars>>

Receive(c) ==
  /\ At(c, "mr_recv") /\ slot[c] \in {"reply", "changed", "closed"}
  /\ timeouts' = IF slot[c] = "closed" THEN timeouts ELSE 0
  /\ slot' = [slot EXCEPT ![c] = "none"]
  /\ Goto(c, IF slot[c] = "changed" /\ MaxAttempts > 1 THEN "mr_begin" ELSE "done")
  /\ UNCHANGED <<coreVars, roleVars, on, attempt, ghostVars>>

(* The context ends while the request waits: by its deadline, which is     *)
(* counted and at the limit forces a reconnect (unless the timeouts lie    *)
(* a minute apart), or because the caller cancelled it.                    *)
ReceiveExpires(c) ==
  /\ At(c, "mr_recv") /\ c \in Impatient
  /\ expired' = expired \union {c}
  /\ slot' = [slot EXCEPT ![c] = "none"]
  /\ LET p == [pc EXCEPT ![c] = "done"] IN
     \/ /\ timeouts + 1 < TimeoutLimit
        /\ timeouts' = timeouts + 1 /\ pc' = p /\ UNCHANGED inProgress
     \/ /\ timeouts + 1 >= TimeoutLimit
        /\ timeouts' = 0 /\ RequestReconnectThen(p)
     \/ timeouts' = 0 /\ pc' = p /\ UNCHANGED inProgress
  /\ UNCHANGED <<gateVars, flagVars, lock, connVars, reader, up, downing, on, attempt, ghostVars>>

-----------------------------------------------------------------------------
(* startReadingResponses: the reader of attempt g.                         *)

ReaderGoto(g, l) == reader' = [reader EXCEPT ![g] = l]

readerRest == <<flagVars, lock, connVars, roleVars, reqVars, stayOff, gaveUp, keyRefused, undone>>

ReaderStops(g) ==
  /\ reader[g] = "gate" /\ g \in ctxDone
  /\ ReaderGoto(g, "done")
  /\ UNCHANGED <<gateVars, inProgress, pc, faults, readerRest>>

(* WaitForActive lets it pass; readMsg finds a transport or none. *)
ReaderEnters(g) ==
  /\ reader[g] = "gate" /\ active
  /\ ReaderGoto(g, IF transport = 0 THEN "odd" ELSE "reading")
  /\ UNCHANGED <<gateVars, inProgress, pc, faults, readerRest>>

(* A message is processed: an update, or the reply to the request of c. *)
ReaderReceives(g) ==
  /\ reader[g] = "reading" /\ link[g] = "open"
  /\ ReaderGoto(g, "gate")
  /\ UNCHANGED <<gateVars, inProgress, pc, faults, readerRest>>

ReaderAnswers(g, c) ==
  /\ reader[g] = "reading" /\ link[g] = "open"
  /\ slot[c] = "wait" /\ on[c] = g /\ At(c, "mr_recv")
  /\ ReaderGoto(g, "gate")
  /\ slot' = [slot EXCEPT ![c] = "reply"]
  /\ UNCHANGED <<gateVars, flagVars, inProgress, lock, connVars, pc, roleVars, on, attempt, timeouts,
                 ghostVars>>

(* ReadMsg fails with a transport error. *)
ReaderFails(g) ==
  /\ reader[g] = "reading" /\ link[g] # "open"
  /\ ReaderGoto(g, "failed")
  /\ UNCHANGED <<gateVars, inProgress, pc, faults, readerRest>>

\* Seeded fault: the reader ends without reporting the loss.
ReaderChecksOut(g) ==
  /\ reader[g] = "failed"
  /\ ReaderGoto(g, "done")
  /\ UNCHANGED <<gateVars, inProgress, pc, faults, readerRest>>

ReaderChecks(g) ==
  /\ reader[g] = "failed"
  /\ ReaderGoto(g, IF g \in ctxDone THEN "done" ELSE "report")
  /\ UNCHANGED <<gateVars, inProgress, pc, faults, readerRest>>

ReaderReports(g) ==
  /\ reader[g] = "report"
  /\ ReaderGoto(g, "done")
  /\ ReconnectTransportThen(g, pc)
  /\ UNCHANGED <<faults, readerRest>>

(* Any other error, such as a message of another session. *)
ReaderOdd(g) ==
  /\ reader[g] = "reading" /\ link[g] = "open"
  /\ faults < MaxFaults /\ faults' = faults + 1
  /\ ReaderGoto(g, "odd")
  /\ UNCHANGED <<gateVars, inProgress, pc, readerRest>>

ReaderDecides(g) ==
  /\ reader[g] = "odd"
  /\ ReaderGoto(g, IF terminated \/ inProgress THEN "gate" ELSE "ask")
  /\ UNCHANGED <<gateVars, inProgress, pc, faults, readerRest>>

ReaderAsks(g) ==
  /\ reader[g] = "ask"
  /\ ReaderGoto(g, "done")
  /\ RequestReconnectThen(pc)
  /\ UNCHANGED <<gateVars, faults, readerRest>>

(* handle404Error, from the fifth repetition on: reconnect, keep reading.  *)
(* From the sixteenth on the user's error handler is told and the reader   *)
(* ends, without a reconnect.                                              *)
Reader404(g) ==
  /\ reader[g] = "reading" /\ link[g] = "open"
  /\ faults < MaxFaults /\ faults' = faults + 1
  /\ \/ ReaderGoto(g, "gate") /\ RequestReconnectThen(pc) /\ UNCHANGED keyRefused
     \/ ReaderGoto(g, "done") /\ keyRefused' = TRUE /\ UNCHANGED <<inProgress, pc>>
  /\ UNCHANGED <<gateVars, flagVars, lock, connVars, roleVars, reqVars, stayOff, gaveUp, undone>>

(* Ping, the acknowledgements of serviceWriter and httpWaiter write to the *)
(* transport as well; what matters here is a write that fails.             *)
BackgroundWrite ==
  /\ transport # 0 /\ active /\ ~ disconnected /\ ~ terminated
  /\ link[transport] # "open"
  /\ ReconnectTransportThen(transport, pc)
  /\ UNCHANGED <<reader, faults, readerRest>>

(* The network or the peer drops the connection. *)
LinkBreaks(g) ==
  /\ link[g] = "open"
  /\ faults < MaxFaults /\ faults' = faults + 1
  /\ link' = [link EXCEPT ![g] = "broken"]
  /\ UNCHANGED <<gateVars, flagVars, inProgress, lock, transport, gen, ctxDone, reader, pc,
                 roleVars, reqVars, stayOff, gaveUp, keyRefused, undone>>

-----------------------------------------------------------------------------

ConnectStep(t) ==
  \/ LockLifecycle(t) \/ CheckTerminated(t) \/ CheckDisconnected(t) \/ PeekConnected(t)
  \/ AwaitRoutines(t) \/ Dial(t) \/ DialFails(t) \/ OpenGate(t) \/ StartReader(t)
  \/ Commit(t) \/ SetupFails(t) \/ UndoGate(t) \/ UndoTransport(t) \/ UndoWait(t)

StopStep(t) == StopGate(t) \/ StopContext(t) \/ StopTransport(t) \/ StopNotify(t)

DownStep(t) == DownFlags(t) \/ DownGate(t) \/ DownLock(t) \/ DownWait(t)

SwitchStep(t) == SwitchDelete(t) \/ SwitchClear(t) \/ SwitchEnd(t)

RoleStep(t) == AutoGate(t) \/ FinishReconnect(t)

RequestStep(c) ==
  \/ BeginAttempt(c) \/ EnsureTransport(c) \/ AwaitActive(c) \/ PickTransport(c)
  \/ Register(c) \/ Write(c) \/ WriteFailed(c) \/ Receive(c)

ReaderStep(g) ==
  \/ ReaderStops(g) \/ ReaderEnters(g) \/ ReaderFails(g) \/ ReaderChecks(g)
  \/ ReaderReports(g) \/ ReaderDecides(g) \/ ReaderAsks(g)

(* What users, contexts, the server and the network may do. *)
Environment ==
  \/ \E t \in Reconnectors : BeginReconnect(t)
  \/ \E t \in Stoppers : BeginStop(t)
  \/ \E t \in Switchers : BeginSwitch(t)
  \/ \E t \in Threads \cap Impatient : GiveUpLock(t) \/ ParentDone(t)
  \/ \E c \in Callers \cap Impatient : AwaitExpires(c) \/ WriteExpires(c) \/ ReceiveExpires(c)
  \/ \E g \in Gens :
       \/ ReaderReceives(g) \/ ReaderOdd(g) \/ Reader404(g) \/ LinkBreaks(g)
       \/ \E c \in Callers : ReaderAnswers(g, c)
  \/ BackgroundWrite

Next ==
  \/ \E t \in Threads : ConnectStep(t) \/ StopStep(t) \/ RoleStep(t)
  \/ \E t \in Stoppers \union Switchers : DownStep(t)
  \/ \E t \in Switchers : SwitchStep(t)
  \/ \E c \in Callers : RequestStep(c)
  \/ \E g \in Gens : ReaderStep(g)
  \/ Environment

(* Goroutines that can run do run.  lifecycleMu is a channel with a FIFO   *)
(* queue of senders, so whoever waits for it gets it.  A server that keeps *)
(* its connection answers; users, contexts and faults are not fair.        *)
Fairness ==
  /\ \A t \in Threads :
       /\ WF_vars(ConnectStep(t) \/ StopStep(t) \/ DownStep(t) \/ SwitchStep(t) \/ RoleStep(t))
       /\ SF_vars(LockLifecycle(t) \/ DownLock(t))
  /\ \A c \in Callers : WF_vars(RequestStep(c) /\ ~ At(c, "idle"))
  /\ WF_vars(\E g \in Gens : ReaderStep(g))
  /\ \A c \in Callers : SF_vars(\E g \in Gens : ReaderAnswers(g, c))

Spec == Init /\ [][Next]_vars /\ Fairness

-----------------------------------------------------------------------------

Labels == {"idle", "done", "lock", "check", "flag", "peek", "stop", "stop_ctx", "stop_link",
           "stop_notify", "wait", "dial", "up", "read", "setup", "undo", "undo_link", "undo_wait",
           "gate", "finish", "down", "down_gate", "down_lock", "down_wait", "sw_delete", "sw_clear",
           "sw_end", "mr_begin", "mr_conn", "mr_wait", "mr_send", "mr_reg", "mr_write", "mr_lost",
           "mr_recv"}

TypeOK ==
  /\ active \in BOOLEAN /\ closed \in BOOLEAN
  /\ disconnected \in BOOLEAN /\ terminated \in BOOLEAN /\ inProgress \in BOOLEAN
  /\ lock \in Threads \union {None}
  /\ transport \in 0..MaxGen /\ gen \in 0..MaxGen
  /\ link \in [Gens -> {"none", "open", "broken", "shut"}]
  /\ ctxDone \subseteq Gens
  /\ reader \in [Gens -> {"none", "gate", "reading", "failed", "report", "odd", "ask", "done"}]
  /\ pc \in [Threads -> Labels]
  /\ up \in [Threads -> BOOLEAN] /\ downing \subseteq Threads /\ expired \subseteq Impatient
  /\ slot \in [Callers -> {"none", "wait", "changed", "reply", "closed"}]
  /\ on \in [Callers -> 0..MaxGen]
  /\ attempt \in [Callers -> 0..MaxAttempts]
  /\ timeouts \in 0..TimeoutLimit /\ faults \in 0..MaxFaults
  /\ stayOff \in BOOLEAN /\ gaveUp \in BOOLEAN /\ keyRefused \in BOOLEAN
  /\ undone \subseteq Gens

(* An open gate means there is a transport: nobody whom WaitForActive lets *)
(* pass finds m.transport nil because a Disconnect, a reconnect or a       *)
(* cleanup was half way through.                                           *)
ActiveHasTransport == active => transport # 0

(* Never two readers: a reconnect waits for the old one, so the old one    *)
(* cannot take a message off the new connection.                           *)
OneReader == \A g \in Gens : Reading(g) => transport \in {0, g} /\ gen = g

(* Background recovery never undoes a user's Disconnect (comment           *)
(* mtproto.go:741-743): once Disconnect has returned, and until the user   *)
(* asks for a connection, nothing is connected; once Terminate has, no     *)
(* reconnect counts as asking (a new start, Start or St in client.go,      *)
(* takes the flag back first, SetTerminated(false), and is not modelled).  *)
DisconnectSticks == stayOff => disconnected /\ ~ active /\ transport = 0

(* Somebody is at work who will look at the connection again. *)
Busy(t) == pc[t] \notin {"idle", "done"} /\ (t \in Callers => lock = t)
SomeoneActs ==
  \/ \E t \in Threads : Busy(t)
  \/ \E g \in Gens : reader[g] \in {"failed", "report", "odd", "ask"}

(* A connection that is down is never simply left there: whoever saw it    *)
(* fail has passed the news on to a goroutine that is still at work.  This *)
(* lasts until an attempt that owned inProgress fails (or is SwitchDc's,   *)
(* whose deferred store looks at nothing): finishReconnect(false) does not *)
(* look at the gate, and a loss that was not reported because inProgress   *)
(* was set is lost with it.                                                *)
HalfOpenIsOwned ==
  ~ gaveUp /\ transport # 0 /\ ~ active /\ ~ disconnected /\ ~ terminated => SomeoneActs

(* A connection that counts as up is read by its reader, unless the reader *)
(* ended because the server refuses the key, or the context of a Reconnect *)
(* ended while it waited for lifecycleMu: a reader that meets an error     *)
(* leaves to the Reconnect what it would do itself (the compare-and-swap   *)
(* of requestReconnect), and nobody takes it up again.                     *)
Deserted == gaveUp /\ expired \ Callers # {}
ActiveIsRead ==
  active /\ ~ keyRefused /\ ~ disconnected /\ ~ terminated /\ ~ Deserted
    => Reading(transport) \/ SomeoneActs

(* Whatever is half way, somebody owns it: an open gate has a transport, a *)
(* connection that counts as up is read, one that is down is worked on.    *)
SomebodyCares == ActiveHasTransport /\ ActiveIsRead /\ HalfOpenIsOwned

(* A request waits only on a connection that is read, or somebody is at    *)
(* work who will wake it: no answer is awaited from a connection that is   *)
(* gone.                                                                   *)
Stranded(c) ==
  /\ At(c, "mr_recv") /\ slot[c] = "wait"
  /\ ~ (transport = on[c] /\ Reading(on[c])) /\ ~ SomeoneActs
NoOrphanRequest == \A c \in Callers : Stranded(c) => keyRefused

(* What does hold: a request is left waiting on a dead connection only by  *)
(* the cleanup of a failed set-up, or when a loss was not passed on        *)
(* because an attempt owned inProgress that then failed (or was            *)
(* SwitchDc's).  No other reconnect, lost link, Disconnect or Terminate    *)
(* leaves a request behind, whatever they run into.                        *)
StrandedOnlyByFailure ==
  \A c \in Callers : Stranded(c) => keyRefused \/ gaveUp \/ on[c] \in undone

(* A connection that is lost is replaced or given up: the client does not  *)
(* sit on a dead transport while WaitForActive holds every request back.   *)
LostIsNoticed ==
  (transport # 0 /\ ~ active) ~> (active \/ transport = 0 \/ disconnected \/ gaveUp)

(* Every request ends, also without a deadline and when connections are    *)
(* lost under it: answered, out of attempts, or told of the Disconnect.    *)
(* The exceptions, which only a deadline ends: a request that waits for    *)
(* the gate when the background reconnect has given up, one that was sent  *)
(* before the set-up of its connection failed, and one whose reader ended  *)
(* because the key is refused.                                             *)
AbandonedAtGate(c) == At(c, "mr_wait") /\ transport = 0 /\ ~ active /\ ~ SomeoneActs
RequestEnds ==
  \A c \in Callers :
    (pc[c] # "idle") ~>
      \/ pc[c] = "done" \/ keyRefused
      \/ AbandonedAtGate(c)
      \/ Stranded(c) /\ on[c] \in undone
=============================================================================
