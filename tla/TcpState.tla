------------------------------ MODULE TcpState ------------------------------
(***************************************************************************)
(* The connection gate of an MTProto client: type TcpState of mtproto.go.  *)
(* It is a flag pair (active, closed) and a Go channel that is closed to   *)
(* release everybody who waits for the connection.  Go panics when a       *)
(* channel is closed twice, and a waiter that blocks on a channel nobody   *)
(* will close any more is never woken, so the point of this module is that *)
(* flag pair, current channel and captured channels stay in step.          *)
(*                                                                         *)
(* SetActive, close and the first section of WaitForActive run under the   *)
(* mutex and are one action each.  Between capturing the channel and       *)
(* looking at the flags again a waiter holds no lock: these are separate   *)
(* actions.                                                                *)
(***************************************************************************)
EXTENDS Naturals, FiniteSets

CONSTANTS
  Waiters,    \* goroutines that call WaitForActive
  MaxChan     \* bound: number of channels made in one behaviour

ASSUME TcpStateAssumption == MaxChan \in Nat \ {0}

VARIABLES
  gateActive, \* TcpState.active
  gateClosed, \* TcpState.closed
  ch,         \* TcpState.ch: the channels are numbered as make() creates them
  shut,       \* the channels that have been closed
  panicked,   \* a channel was closed that was closed already
  pc,         \* [Waiters -> where the waiter is in WaitForActive]
  held        \* [Waiters -> the channel the waiter has captured, 0: none]

gateVars == <<gateActive, gateClosed, ch, shut, panicked, pc, held>>

Chans == 1..MaxChan

GateInit ==
  /\ gateActive = FALSE
  /\ gateClosed = FALSE
  /\ ch = 1
  /\ shut = {}
  /\ panicked = FALSE
  /\ pc = [w \in Waiters |-> "idle"]
  /\ held = [w \in Waiters |-> 0]

(* The Go statement close(c). *)
CloseChan(c) ==
  /\ shut' = shut \union {c}
  /\ panicked' = (panicked \/ c \in shut)

-----------------------------------------------------------------------------
(* Seeded faults: wrong versions of the actions below, each of which one   *)
(* of the properties must notice.                                          *)

\* forgets to replace the channel that close() has closed
ActivateReusesChannel ==
  /\ ~ gateActive
  /\ gateActive' = TRUE
  /\ gateClosed' = FALSE
  /\ CloseChan(ch)
  /\ UNCHANGED <<ch, pc, held>>

\* sets the flags without releasing the waiters
CloseSilently ==
  /\ gateActive' = FALSE
  /\ gateClosed' = TRUE
  /\ UNCHANGED <<ch, shut, panicked, pc, held>>

\* captures a channel that is not made yet
LookTooFar(w) ==
  /\ pc[w] = "look"
  /\ pc' = [pc EXCEPT ![w] = IF gateClosed THEN "refused" ELSE IF gateActive THEN "ok" ELSE "blocked"]
  /\ held' = [held EXCEPT ![w] = IF gateClosed \/ gateActive THEN 0 ELSE ch + 1]
  /\ UNCHANGED <<gateActive, gateClosed, ch, shut, panicked>>
-----------------------------------------------------------------------------

(* SetActive(true) *)
Activate ==
  /\ ~ gateActive
  /\ gateClosed => ch < MaxChan
  /\ gateActive' = TRUE
  /\ gateClosed' = FALSE
  /\ ch' = IF gateClosed THEN ch + 1 ELSE ch
  /\ CloseChan(ch')
  /\ UNCHANGED <<pc, held>>

(* SetActive(false) *)
Deactivate ==
  /\ gateActive
  /\ ch < MaxChan
  /\ gateActive' = FALSE
  /\ ch' = ch + 1
  /\ UNCHANGED <<gateClosed, shut, panicked, pc, held>>

(* close() *)
Close ==
  /\ gateActive' = FALSE
  /\ gateClosed' = TRUE
  /\ IF ~ gateActive /\ ~ gateClosed THEN CloseChan(ch) ELSE UNCHANGED <<shut, panicked>>
  /\ UNCHANGED <<ch, pc, held>>

Goto(w, label) == pc' = [pc EXCEPT ![w] = label]

(* A goroutine calls WaitForActive (again). *)
CallWait(w) ==
  /\ pc[w] \in {"idle", "ok", "refused", "cancelled"}
  /\ Goto(w, "look")
  /\ UNCHANGED <<gateActive, gateClosed, ch, shut, panicked, held>>

(* The read-locked section at the head of the loop, with the two early     *)
(* returns that follow it.                                                 *)
Look(w) ==
  /\ pc[w] = "look"
  /\ Goto(w, IF gateClosed THEN "refused" ELSE IF gateActive THEN "ok" ELSE "blocked")
  /\ held' = [held EXCEPT ![w] = IF gateClosed \/ gateActive THEN 0 ELSE ch]
  /\ UNCHANGED <<gateActive, gateClosed, ch, shut, panicked>>

(* The select receives from the captured channel and looks again. *)
WakeUp(w) ==
  /\ pc[w] = "blocked"
  /\ held[w] \in shut
  /\ Goto(w, IF gateActive THEN "ok" ELSE "look")
  /\ held' = [held EXCEPT ![w] = 0]
  /\ UNCHANGED <<gateActive, gateClosed, ch, shut, panicked>>

(* The select sees the context of the caller end. *)
Cancel(w) ==
  /\ pc[w] = "blocked"
  /\ Goto(w, "cancelled")
  /\ held' = [held EXCEPT ![w] = 0]
  /\ UNCHANGED <<gateActive, gateClosed, ch, shut, panicked>>

GateNext ==
  \/ Activate
  \/ Deactivate
  \/ Close
  \/ \E w \in Waiters : CallWait(w) \/ Look(w) \/ WakeUp(w) \/ Cancel(w)

(* The Go scheduler runs a runnable goroutine eventually; nobody has to    *)
(* connect, to close or to cancel.                                         *)
GateFairness == \A w \in Waiters : WF_gateVars(Look(w) \/ WakeUp(w))

GateSpec == GateInit /\ [][GateNext]_gateVars /\ GateFairness

-----------------------------------------------------------------------------

(* Type invariant of the gate and its waiters (mtproto.go:1824-1829). *)
GateTypeOK ==
  /\ gateActive \in BOOLEAN
  /\ gateClosed \in BOOLEAN
  /\ ch \in Chans
  /\ shut \subseteq Chans
  /\ panicked \in BOOLEAN
  /\ pc \in [Waiters -> {"idle", "look", "blocked", "ok", "refused", "cancelled"}]
  /\ held \in [Waiters -> 0..MaxChan]

(* No sequence of SetActive and close closes a channel twice: the program  *)
(* would die of a panic in the middle of a reconnect.                      *)
NoPanic == ~ panicked

(* No waiter is left behind: who blocks in WaitForActive blocks on the     *)
(* channel that the next SetActive(true) or close() will close, or on one  *)
(* that is closed already, however often the state flapped in between.     *)
NoLostWakeup ==
  \A w \in Waiters : pc[w] = "blocked" => held[w] = ch \/ held[w] \in shut

(* Who waits at the gate is safe: nothing panics, nobody is left behind.   *)
GateSafe == NoPanic /\ NoLostWakeup

(* The flags describe the channel: it is closed exactly while the gate is  *)
(* open or shut down, and the two exclude each other.                      *)
FlagsMatchChannel ==
  /\ ~ (gateActive /\ gateClosed)
  /\ ch \in shut <=> gateActive \/ gateClosed

(* A gate that settles, open or shut down, releases everybody who waits    *)
(* for the connection (comment mtproto.go:1817-1822).                      *)
WaitersReleased ==
  \A w \in Waiters :
    <>[](gateActive \/ gateClosed) => []<>(pc[w] \notin {"look", "blocked"})

(* The channels form a history in which only the last one can be open.     *)
(* With the flags this is inductive, and it is why nobody is left behind.  *)
OnlyLastOpen ==
  /\ \A c \in shut : c <= ch
  /\ \A c \in Chans : c < ch => c \in shut
  /\ \A w \in Waiters : pc[w] = "blocked" => held[w] \in 1..ch

GateInv == GateTypeOK /\ NoPanic /\ FlagsMatchChannel /\ OnlyLastOpen
=============================================================================
