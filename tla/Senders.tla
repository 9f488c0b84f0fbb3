------------------------------ MODULE Senders ------------------------------
(***************************************************************************)
(* The extra connections of a client: type ExSenders of telegram/client.go *)
(* and its users, the transfers of telegram/media.go                       *)
(* (initializeTransferWorkers, WorkerPool) and the edits of inline         *)
(* messages in telegram/messages.go.  Connections are kept in a cache by   *)
(* data centre; a cleanup terminates those that nobody used for half an    *)
(* hour, and Close, when the client stops, terminates all of them.  A      *)
(* transfer that finds too few makes more, which takes several requests,   *)
(* and goes on to add them in the background after it has begun to work.   *)
(* The channel createGate lets one transfer at a time look at the cache    *)
(* and fill it.                                                            *)
(*                                                                         *)
(* One data centre is modelled, with its two keys in the cache: the        *)
(* regular address and the one for media.                                  *)
(***************************************************************************)
EXTENDS Naturals, FiniteSets

CONSTANTS
  Transfers,    \* calls that upload or download a file
  MediaFirst,   \* those that try the media address first
  Edits,        \* edits of an inline message, which need one connection
  NoTransfer,   \* createGate is empty
  Conns,        \* transferConnectionCount: connections a transfer works with
  MaxSenders,   \* bound: connections made in one behaviour
  MaxCloses     \* bound: how often the client is stopped

ASSUME SendersAssumption ==
  /\ MediaFirst \subseteq Transfers
  /\ NoTransfer \notin Transfers
  /\ Transfers \intersect Edits = {} /\ IsFiniteSet(Edits)
  /\ Conns \in Nat \ {0} /\ MaxSenders \in Nat /\ MaxCloses \in Nat

VARIABLES
  cache,      \* ExSenders.senders: [Keys -> the connections it lends]
  open,       \* ExSenders.running
  gate,       \* createGate: who has put the token in, NoTransfer when empty
  live,       \* connections made and not yet terminated
  stale,      \* those not used for half an hour
  doomed,     \* taken out of the cache, to be terminated by who took them
  made,       \* how many connections were made
  stage,      \* [Transfers \union Edits -> where the call is]
  key,        \* [Transfers \union Edits -> the cache key it uses]
  filling,    \* the transfers whose fill goroutine runs
  job,        \* [Transfers \union Edits -> [1..Conns -> the making of a connection]]
  makes,      \* the connection each of these has made
  closes

Keys == {"media", "plain"}
Calls == Transfers \union Edits
All == 1..MaxSenders

senderVars == <<cache, open, gate, live, stale, doomed, made, stage, key, filling,
                job, makes, closes>>
store == <<cache, open, stale, doomed, closes>>

SendersInit ==
  /\ cache = [k \in Keys |-> {}] /\ open = TRUE
  /\ gate = NoTransfer
  /\ live = {} /\ stale = {} /\ doomed = {} /\ made = 0
  /\ stage \in [Calls -> {"begin", "over"}]   \* not every call is made
  /\ key = [t \in Calls |-> IF t \in MediaFirst THEN "media" ELSE "plain"]
  /\ filling = {}
  /\ job = [t \in Calls |-> [i \in 1..Conns |-> "none"]]
  /\ makes = [t \in Calls |-> [i \in 1..Conns |-> 0]]
  /\ closes = 0

MoveTo(t, s) == stage' = [stage EXCEPT ![t] = s]
SetJob(t, i, s) == job' = [job EXCEPT ![t][i] = s]

-----------------------------------------------------------------------------
(* initializeTransferWorkers.                                              *)

\* the channel hands its room to those who wait in the order they came; the
\* media address may have been put off meanwhile (deferTransferMedia)
PassGate(t) ==
  /\ t \in Transfers /\ stage[t] = "begin"
  /\ gate = NoTransfer
  /\ gate' = t
  /\ \E k \in {key[t], "plain"} : key' = [key EXCEPT ![t] = k]
  /\ MoveTo(t, "look")
  /\ UNCHANGED <<live, made, filling, job, makes, store>>

\* the transfer is cancelled while it waits
GiveUpGate(t) ==
  /\ t \in Transfers /\ stage[t] = "begin"
  /\ MoveTo(t, "over")
  /\ UNCHANGED <<gate, live, made, key, filling, job, makes, store>>

\* the jobs for the connections that are missing
Missing(t, n) == job' = [job EXCEPT ![t] = [i \in 1..Conns |-> IF i > n THEN "check" ELSE "done"]]

\* Seeded fault: the token is taken back before the fill goroutine is done.
FillUngated(t, n) ==
  /\ gate' = NoTransfer
  /\ MoveTo(t, "work")
  /\ IF n < Conns
     THEN filling' = filling \union {t} /\ Missing(t, n)
     ELSE UNCHANGED <<filling, job>>

\* n connections are there: work begins, the rest is made in the background
Fill(t, n) ==
  /\ MoveTo(t, "work")
  /\ IF n < Conns
     THEN filling' = filling \union {t} /\ Missing(t, n) /\ UNCHANGED gate
     ELSE gate' = NoTransfer /\ UNCHANGED <<filling, job>>

LookCache(t) ==
  /\ t \in Transfers /\ stage[t] = "look"
  /\ LET n == Cardinality(cache[key[t]])
     IN IF n > 0 THEN Fill(t, IF n < Conns THEN n ELSE Conns)
        ELSE MoveTo(t, "first") /\ SetJob(t, 1, "check") /\ UNCHANGED <<gate, filling>>
  /\ UNCHANGED <<live, made, key, makes, store>>

FirstIsThere(t) ==
  /\ stage[t] = "first" /\ job[t][1] = "done"
  /\ Fill(t, 1)
  /\ UNCHANGED <<live, made, key, makes, store>>

\* Seeded fault: the gate stays taken when the media address fails.
FirstFailsHeld(t) ==
  /\ stage[t] = "first" /\ job[t][1] = "failed"
  /\ key' = [key EXCEPT ![t] = "plain"]
  /\ MoveTo(t, IF key[t] = "media" THEN "begin" ELSE "over")
  /\ gate' = IF key[t] = "media" THEN gate ELSE NoTransfer
  /\ SetJob(t, 1, "none")
  /\ UNCHANGED <<live, made, filling, makes, store>>

\* without the first connection: once more with the regular address, or an error
FirstFails(t) ==
  /\ stage[t] = "first" /\ job[t][1] = "failed"
  /\ gate' = NoTransfer
  /\ key' = [key EXCEPT ![t] = "plain"]
  /\ MoveTo(t, IF key[t] = "media" THEN "begin" ELSE "over")
  /\ SetJob(t, 1, "none")
  /\ UNCHANGED <<live, made, filling, makes, store>>

\* the fill goroutine has ended: it takes the token back
FillEnds(t) ==
  /\ t \in filling
  /\ \A i \in 1..Conns : job[t][i] \in {"done", "failed"}
  /\ filling' = filling \ {t}
  /\ gate' = NoTransfer
  /\ UNCHANGED <<live, made, stage, key, job, makes, store>>

\* the transfer ends; WorkerPool.Close cancels the fill goroutine and awaits it
EndWork(t) ==
  /\ t \in Transfers /\ stage[t] = "work"
  /\ MoveTo(t, IF t \in filling THEN "closing" ELSE "over")
  /\ UNCHANGED <<gate, live, made, key, filling, job, makes, store>>

AwaitFill(t) ==
  /\ stage[t] = "closing" /\ t \notin filling
  /\ MoveTo(t, "over")
  /\ UNCHANGED <<gate, live, made, key, filling, job, makes, store>>

\* a message edit takes a connection from the cache or makes one, without the
\* gate; the code takes the first of the list, whose order is left out: here any
BeginEdit(t) ==
  /\ t \in Edits /\ stage[t] = "begin"
  /\ \/ /\ cache["plain"] = {}
        /\ SetJob(t, 1, "dial?") /\ MoveTo(t, "edit") /\ UNCHANGED stale
     \/ /\ \E s \in cache["plain"] : stale' = stale \ {s}
        /\ MoveTo(t, "over") /\ UNCHANGED job
  /\ UNCHANGED <<cache, open, doomed, closes, gate, live, made, key, filling, makes>>

EndEdit(t) ==
  /\ stage[t] = "edit" /\ job[t][1] \in {"done", "failed"}
  /\ MoveTo(t, "over")
  /\ UNCHANGED <<gate, live, made, key, filling, job, makes, store>>

-----------------------------------------------------------------------------
(* Making a connection: create, CreateExportedSender and AddSender.        *)

\* an open cache is asked for before the connection is made, and a fill that
\* was cancelled makes no more
CheckOpen(t, i) ==
  /\ job[t][i] = "check"
  /\ SetJob(t, i, IF open /\ stage[t] # "closing" THEN "dial?" ELSE "failed")
  /\ UNCHANGED <<gate, live, made, stage, key, filling, makes, store>>

Dial(t, i) ==
  /\ job[t][i] = "dial?" /\ made < MaxSenders
  /\ made' = made + 1
  /\ live' = live \union {made + 1}
  /\ makes' = [makes EXCEPT ![t][i] = made + 1]
  /\ SetJob(t, i, "dialing")
  /\ UNCHANGED <<gate, stage, key, filling, store>>

DialFails(t, i) ==
  /\ job[t][i] \in {"dial?", "dialing"}
  /\ live' = IF job[t][i] = "dialing" THEN live \ {makes[t][i]} ELSE live
  /\ SetJob(t, i, "failed")
  /\ UNCHANGED <<gate, made, stage, key, filling, makes, store>>

\* AddSender terminates the connection when the cache was closed meanwhile
AddSender(t, i) ==
  /\ job[t][i] = "dialing"
  /\ IF open
     THEN /\ cache' = [cache EXCEPT ![key[t]] = @ \union {makes[t][i]}]
          /\ UNCHANGED live
     ELSE live' = live \ {makes[t][i]} /\ UNCHANGED cache
  /\ SetJob(t, i, "done")
  /\ UNCHANGED <<open, stale, doomed, closes, gate, made, stage, key, filling, makes>>

-----------------------------------------------------------------------------
(* The cleanup, Close and ensureRunning.                                   *)

\* nobody uses s for half an hour; WorkerPool.Next or an edit uses it again
Neglect(s) ==
  /\ s \in cache["media"] \union cache["plain"]
  /\ s \notin stale
  /\ stale' = stale \union {s}
  /\ UNCHANGED <<cache, open, doomed, closes, gate, live, made, stage, key, filling, job, makes>>

UseAgain(s) ==
  /\ s \in stale
  /\ \E t \in Transfers : stage[t] = "work"
  /\ stale' = stale \ {s}
  /\ UNCHANGED <<cache, open, doomed, closes, gate, live, made, stage, key, filling, job, makes>>

CleanUp ==
  /\ open
  /\ cache' = [k \in Keys |-> cache[k] \ stale]
  /\ doomed' = doomed \union stale
  /\ stale' = {}
  /\ UNCHANGED <<open, closes, gate, live, made, stage, key, filling, job, makes>>

Terminate(s) ==
  /\ s \in doomed
  /\ doomed' = doomed \ {s}
  /\ live' = live \ {s}
  /\ UNCHANGED <<cache, open, stale, closes, gate, made, stage, key, filling, job, makes>>

CloseSenders ==
  /\ open /\ closes < MaxCloses
  /\ open' = FALSE
  /\ closes' = closes + 1
  /\ doomed' = doomed \union cache["media"] \union cache["plain"]
  /\ cache' = [k \in Keys |-> {}]
  /\ stale' = {}
  /\ UNCHANGED <<gate, live, made, stage, key, filling, job, makes>>

EnsureRunning ==
  /\ ~ open
  /\ open' = TRUE
  /\ UNCHANGED <<cache, stale, doomed, closes, gate, live, made, stage, key, filling, job, makes>>

-----------------------------------------------------------------------------
Setup(t) == LookCache(t) \/ FirstIsThere(t) \/ FirstFails(t) \/ FillEnds(t) \/ AwaitFill(t)
Make(t, i) == CheckOpen(t, i) \/ Dial(t, i) \/ DialFails(t, i) \/ AddSender(t, i)

SendersNext ==
  \/ \E t \in Transfers : PassGate(t) \/ GiveUpGate(t) \/ Setup(t) \/ EndWork(t)
  \/ \E t \in Edits : BeginEdit(t) \/ EndEdit(t)
  \/ \E t \in Calls : \E i \in 1..Conns : Make(t, i)
  \/ \E s \in All : Neglect(s) \/ UseAgain(s) \/ Terminate(s)
  \/ CleanUp \/ CloseSenders \/ EnsureRunning

(* A connection attempt ends: it has a timeout of 30 seconds.  Nobody has  *)
(* to end a transfer: the gate is free before.                             *)
SendersFairness ==
  /\ \A t \in Transfers : SF_senderVars(PassGate(t))
  /\ WF_senderVars(\E t \in Transfers : Setup(t))
  /\ WF_senderVars(\E t \in Calls : \E i \in 1..Conns : Make(t, i))
  /\ WF_senderVars(\E s \in All : Terminate(s))

SendersSpec == SendersInit /\ [][SendersNext]_senderVars /\ SendersFairness

-----------------------------------------------------------------------------
SendersTypeOK ==
  /\ cache \in [Keys -> SUBSET All] /\ open \in BOOLEAN
  /\ gate \in Transfers \union {NoTransfer}
  /\ live \subseteq All /\ stale \subseteq All /\ doomed \subseteq All
  /\ made \in 0..MaxSenders /\ closes \in 0..MaxCloses
  /\ stage \in [Calls -> {"begin", "look", "first", "work", "closing", "edit", "over"}]
  /\ key \in [Calls -> Keys] /\ filling \subseteq Transfers
  /\ job \in [Calls -> [1..Conns -> {"none", "check", "dial?", "dialing", "done", "failed"}]]
  /\ makes \in [Calls -> [1..Conns -> 0..MaxSenders]]

(* However many transfers begin at once, the cache holds no more           *)
(* connections to one address than one transfer works with, beside those   *)
(* that edits have added without the gate (media.go:                       *)
(* initializeTransferWorkers).                                             *)
CacheIsBounded ==
  /\ Cardinality(cache["media"]) <= Conns
  /\ Cardinality(cache["plain"]) <= Conns + Cardinality({t \in Edits : makes[t][1] # 0})

(* A stop of the client reaches every connection, also one that was being  *)
(* made when the cache was closed, one that the cleanup has taken out, and *)
(* one that a fill goroutine adds after its transfer has ended.            *)
StopReachesAll == []<>(open \/ live = {})

(* Every transfer gets past createGate or is cancelled: whoever holds it,  *)
(* a fill goroutine in the background or a transfer whose media address    *)
(* fails, gives it back.                                                   *)
GateIsPassed == []<>(\A t \in Transfers : stage[t] # "begin")

(* Both: no connection outlives a stop, and no transfer waits at the gate  *)
(* for ever.                                                               *)
SendersSettle == StopReachesAll /\ GateIsPassed
=============================================================================
