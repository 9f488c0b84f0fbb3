-------------------------------- MODULE Pacer --------------------------------
(***************************************************************************)
(* transferPacer (telegram/media.go): how many requests of all transfers   *)
(* with one data centre are under way at once, and when the next may go.   *)
(* acquire waits for room or for a time; finishAt returns the room, learns *)
(* from the answer and wakes everybody who waits, by closing a channel and *)
(* making a new one.  Times are abstracted: a moment that was set has come *)
(* or not.                                                                 *)
(***************************************************************************)
EXTENDS Naturals, FiniteSets

CONSTANTS
  Askers,      \* goroutines with requests to make
  AskerLimit,  \* transferWorkerLimit
  MaxWindow,   \* maximum
  MaxAsks      \* bound: requests in a behaviour

ASSUME PacerAssumption ==
  /\ IsFiniteSet(Askers) /\ MaxAsks \in Nat
  /\ AskerLimit \in Nat \ {0} /\ MaxWindow \in Nat /\ MaxWindow >= 2

VARIABLES
  asker,    \* [Askers -> "idle", "ask", "room", "time" (what it waits for), "send"]
  current,  \* the askers whose ticket is of this epoch
  flying,   \* active
  window,
  rated,    \* rateWindow()
  slow,     \* slowResponses
  spaced,   \* next is ahead of now
  blocked,  \* blockedUntil is
  probe,    \* windowProbeAfter is not
  asks

pacerVars == <<asker, current, flying, window, rated, slow, spaced, blocked, probe, asks>>

PacerInit ==
  /\ asker = [a \in Askers |-> "idle"] /\ current = {}
  /\ flying = 0 /\ window = 2 /\ rated = MaxWindow
  /\ slow = 0 /\ spaced = FALSE /\ blocked = FALSE /\ probe = TRUE
  /\ asks = 0

Least(m, n) == IF m < n THEN m ELSE n
Most(m, n) == IF m < n THEN n ELSE m

-----------------------------------------------------------------------------

Ask(a) ==
  /\ asker[a] = "idle" /\ asks < MaxAsks
  /\ asker' = [asker EXCEPT ![a] = "ask"] /\ asks' = asks + 1
  /\ UNCHANGED <<current, flying, window, rated, slow, spaced, blocked, probe>>

(* One round of acquire, up to the select.  The channel it is to wait for  *)
(* is read with the lock still held.                                       *)
Acquire(a) ==
  /\ asker[a] = "ask"
  /\ IF flying < Least(Least(window, rated), AskerLimit) /\ ~spaced /\ ~blocked
     THEN /\ asker' = [asker EXCEPT ![a] = "send"]
          /\ flying' = flying + 1 /\ current' = current \union {a}
          /\ spaced' \in BOOLEAN
     ELSE /\ asker' = [asker EXCEPT ![a] = IF spaced \/ blocked THEN "time" ELSE "room"]
          /\ UNCHANGED <<current, flying, spaced>>
  /\ UNCHANGED <<window, rated, slow, blocked, probe, asks>>

(* The timer of the select. *)
TimerFires(a) ==
  /\ asker[a] = "time"
  /\ asker' = [asker EXCEPT ![a] = "ask"]
  /\ UNCHANGED <<current, flying, window, rated, slow, spaced, blocked, probe, asks>>

(* The caller's context ends. *)
GiveUpAsking(a) ==
  /\ asker[a] \in {"ask", "room", "time"}
  /\ asker' = [asker EXCEPT ![a] = "idle"]
  /\ UNCHANGED <<current, flying, window, rated, slow, spaced, blocked, probe, asks>>

(* The moments that were set come. *)
TimeComes ==
  /\ \/ spaced /\ spaced' = FALSE /\ UNCHANGED <<blocked, probe>>
     \/ blocked /\ blocked' = FALSE /\ UNCHANGED <<spaced, probe>>
     \/ ~probe /\ probe' = TRUE /\ UNCHANGED <<spaced, blocked>>
  /\ UNCHANGED <<asker, current, flying, window, rated, slow, asks>>

-----------------------------------------------------------------------------
(* finishAt: what all its branches do, then one action for each.           *)

(* The channel is closed: everybody who waits for it goes on. *)
WokenBy(a) ==
  [x \in Askers |-> IF x = a THEN "idle" ELSE IF asker[x] \in {"room", "time"} THEN "ask" ELSE asker[x]]

(* Seeded fault: nothing is done for a ticket of an older epoch. *)
ReturnsIfCurrent(a) ==
  /\ asker[a] = "send"
  /\ flying' = (IF a \in current THEN flying - 1 ELSE flying)
  /\ asker' = WokenBy(a)
  /\ UNCHANGED <<spaced, asks>>

RequestReturns(a) ==
  /\ asker[a] = "send"
  /\ flying' = flying - 1
  /\ asker' = WokenBy(a)
  /\ UNCHANGED <<spaced, asks>>

(* Seeded fault: the window may close. *)
BackOffToNothing(w) == window' = w /\ current' = {} /\ slow' = 0

(* A new epoch: the requests still under way are of the old one. *)
BackOff(w) == window' = Most(1, w) /\ current' = {} /\ slow' = 0

Settled(a) == UNCHANGED <<window, slow>> /\ current' = current \ {a}

(* FLOOD_WAIT; the rate falls, perhaps from none at all. *)
Flooded(a) ==
  /\ RequestReturns(a)
  /\ blocked' = TRUE /\ probe' = FALSE
  /\ IF a \in current
     THEN BackOff(window - 1) /\ rated' \in 2..rated
     ELSE Settled(a) /\ UNCHANGED rated

Unanswered(a) ==
  /\ RequestReturns(a)
  /\ \/ a \in current /\ BackOff(window \div 2) /\ probe' = FALSE
     \/ Settled(a) /\ UNCHANGED probe
  /\ UNCHANGED <<rated, blocked>>

(* An answer: late, in good time or neither.  The rate may grow. *)
Late(a) ==
  /\ RequestReturns(a) /\ a \in current
  /\ IF slow + 1 >= Least(3, window) /\ window > 1
     THEN BackOff(window \div 2) /\ probe' = FALSE
     ELSE /\ slow' = Least(slow + 1, 3)   \* counts on when window = 1
          /\ current' = current \ {a} /\ UNCHANGED <<window, probe>>
  /\ rated' \in rated..MaxWindow
  /\ UNCHANGED blocked

InTime(a) ==
  /\ RequestReturns(a)
  /\ rated' \in rated..MaxWindow
  /\ current' = current \ {a}
  /\ IF a \in current
     THEN /\ slow' = 0
          /\ \/ window < rated' /\ probe /\ window' = window + 1 /\ probe' \in BOOLEAN
             \/ UNCHANGED <<window, probe>>
     ELSE UNCHANGED <<window, slow, probe>>
  /\ UNCHANGED blocked

FinishRequest(a) == Flooded(a) \/ Unanswered(a) \/ Late(a) \/ InTime(a)

AskerMoves(a) == Acquire(a) \/ TimerFires(a) \/ FinishRequest(a)

PacerNext ==
  \/ \E a \in Askers : Ask(a) \/ AskerMoves(a) \/ GiveUpAsking(a)
  \/ TimeComes

(* Time goes on, and each request has its deadline. *)
PacerFairness == WF_pacerVars(TimeComes) /\ \A a \in Askers : WF_pacerVars(AskerMoves(a))

-----------------------------------------------------------------------------

PacerTypeOK ==
  /\ asker \in [Askers -> {"idle", "ask", "room", "time", "send"}]
  /\ current \subseteq Askers /\ flying \in 0..Cardinality(Askers)
  /\ window \in 1..MaxWindow /\ rated \in 2..MaxWindow /\ slow \in 0..3
  /\ spaced \in BOOLEAN /\ blocked \in BOOLEAN /\ probe \in BOOLEAN
  /\ asks \in 0..MaxAsks

(* The count of requests under way is right, however they end, and who     *)
(* waits for room without a timer is not the last: somebody will wake it.  *)
RoomIsReturned ==
  /\ \A a \in current : asker[a] = "send"
  /\ flying = Cardinality({a \in Askers : asker[a] = "send"})
  /\ (\E a \in Askers : asker[a] = "room") => flying > 0
=============================================================================
