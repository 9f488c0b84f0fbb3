---------------------------- MODULE MCCounterBox ----------------------------
(* Streams of updates for the model checker, and what it remembers.        *)
EXTENDS CounterBox

(* A message, a deletion that counts two, and a read state that counts     *)
(* nothing at the same position.                                           *)
MCCnt == [u \in Updates |-> <<1, 2, 0>>[u]]
MCEnd == [u \in Updates |-> <<2, 4, 4>>[u]]

(* Three deletions: only the box tells them apart from their copies. *)
MCCntPlain == [u \in Updates |-> 1]
MCEndPlain == [u \in Updates |-> 1 + u]

VARIABLE awaited   \* history: those that were buffered and should arrive

Outstanding == {u \in Positive : ~ Dispatched(u) /\ u \notin waived}
mcVars == <<vars, awaited>>

(* A buffered update is awaited, also when the buffer is cleared, until it *)
(* is dispatched or waived, or the client shuts down.                      *)
Await ==
  awaited' = IF phase' = "up" THEN (awaited \union Queued') \intersect Outstanding' ELSE {}

MCInit == Init /\ awaited = {}
MCNext == Next /\ Await
MCSpec == MCInit /\ [][MCNext]_mcVars /\ Fairness

(* A buffered update is dispatched in the end (its callback queued or      *)
(* turned away), or the server lets it go, if the client stays up and      *)
(* requests do not fail for ever (updates.go: triggerGapLocked,            *)
(* FetchDifference, monitorNoUpdatesTimeout): time and again none is       *)
(* awaited.                                                                *)
GapCloses == []<>(awaited = {})
=============================================================================
