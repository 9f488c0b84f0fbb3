----------------------------- MODULE UpdateFeed -----------------------------
(***************************************************************************)
(* What the counter box of telegram/updates.go promises to the handlers of *)
(* one stream of updates, without threads, buffers or recovery.            *)
(*                                                                         *)
(* The server numbers the updates of a stream: update u ends at position   *)
(* End[u], and a positive update covers the Cnt[u] positions before it.    *)
(* The client keeps one number, current, and promises:                     *)
(*   - current never goes back;                                            *)
(*   - an update is dispatched at most once: its callback is queued for    *)
(*     the handlers, or turned away by the queue and lost for good;        *)
(*   - a positive update that current has passed is dispatched, unless     *)
(*     the server has told the client to go on without it.                 *)
(* It does not promise that a handler runs: the queue is bounded, and a    *)
(* client that terminates discards it.                                     *)
(***************************************************************************)
EXTENDS Integers

CONSTANTS
  N,          \* number of updates the server makes
  Cnt,        \* pts_count of an update; 0: it changes nothing that is counted
  End         \* pts of an update: the position after applying it

Updates == 1..N

(* Updates do not overlap and come in order.  Position 0 stands for        *)
(* "unknown", so the stream begins at 1 or later.                          *)
ASSUME FeedAssumption ==
  /\ N \in Nat \ {0}
  /\ Cnt \in [Updates -> Nat]
  /\ End \in [Updates -> Nat]
  /\ End[1] - Cnt[1] >= 1
  /\ \A u \in Updates, v \in Updates : u < v => End[u] <= End[v] - Cnt[v]

Positive == {u \in Updates : Cnt[u] > 0}

VARIABLES
  current,    \* the position the client has reached, 0: not known yet
  handled,    \* [Updates -> how often its callback was queued]
  lost,       \* the updates whose callback the queue has turned away
  waived      \* the updates the client may go on without

feedVars == <<current, handled, lost, waived>>

Dispatched(u) == handled[u] > 0 \/ u \in lost

(* Passed by current and neither dispatched nor waived: a debt. *)
Owed == {u \in Positive : End[u] <= current /\ ~ Dispatched(u) /\ u \notin waived}

FeedInit ==
  /\ current \in {0, End[1] - Cnt[1]}
  /\ handled = [u \in Updates |-> 0]
  /\ lost = {}
  /\ waived = {}

(* Also ahead of current: a difference hands new messages over first. *)
Hand(u) ==
  /\ ~ Dispatched(u)
  /\ handled' = [handled EXCEPT ![u] = 1]
  /\ UNCHANGED <<current, lost, waived>>

Lose(u) ==
  /\ ~ Dispatched(u)
  /\ lost' = lost \union {u}
  /\ UNCHANGED <<current, handled, waived>>

Advance ==
  /\ current' \in Nat
  /\ current' > current
  /\ UNCHANGED <<handled, lost, waived>>

(* The client begins in the middle of the stream, or the server declares   *)
(* the difference too long and names a position to go on from: what is     *)
(* jumped over in this very step is given up.  A debt is never cancelled.  *)
Waive ==
  /\ current' \in Nat
  /\ current' > current
  /\ waived \subseteq waived'
  /\ waived' \subseteq waived \union {u \in Updates : current < End[u] /\ End[u] <= current'}
  /\ UNCHANGED <<handled, lost>>

FeedNext == Advance \/ Waive \/ \E u \in Updates : Hand(u) \/ Lose(u)

FeedSafe == FeedInit /\ [][FeedNext]_feedVars

(* Every debt is paid, by Hand or Lose: no update is owed a second time, so *)
(* this is the weak fairness of the two for what is owed.                  *)
DebtsArePaid == []<>(Owed = {})

FeedSpec == FeedSafe /\ DebtsArePaid
=============================================================================
