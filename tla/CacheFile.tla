----------------------------- MODULE CacheFile -----------------------------
(***************************************************************************)
(* The file of the peer cache: the delayed writes of type CACHE in         *)
(* telegram/cache.go.  UpdatePeersToCache stores peers in memory and asks  *)
(* for a write; requests are collected into one timer (writeTimer), and a  *)
(* request that finds writeMu taken leaves a flag (writeRequested) and a   *)
(* goroutine behind.  WriteFile writes at once unless a write was made     *)
(* lately, a failed write is tried again by the timer, and Close writes    *)
(* what is still owed before it closes the storage.                        *)
(*                                                                         *)
(* Not every peer in memory is owed to the file: a forbidden channel is    *)
(* stored without a request, the size limit drops old peers, and a write   *)
(* that finds the cache disabled or in memory mode drops the request.      *)
(*                                                                         *)
(* The flags writePending and writeRequested are read and set without the  *)
(* lock, and a writer takes its snapshot some time before it clears        *)
(* writePending: a request may fall between any two of these steps.        *)
(***************************************************************************)
EXTENDS Naturals, FiniteSets

CONSTANTS
  Updaters,   \* calls of UpdatePeersToCache, and the peer that each may bring
  Savers,     \* calls of WriteFile
  Closers,    \* calls of Close
  Alarm,      \* the callback of a timer that holds writeMu
  Helper,     \* the goroutine of requestWrite that holds writeMu
  NoOne,      \* writeMu is free
  MaxBreaks   \* bound: writes of the storage that fail

Writers == Savers \union Closers \union {Alarm}   \* who may write the file
Holders == Writers \union Updaters \union {Helper}

ASSUME CacheFileAssumption ==
  /\ MaxBreaks \in Nat
  /\ NoOne \notin Holders
  /\ Helper \notin Writers \union Updaters
  /\ Updaters \intersect Writers = {}
  /\ Savers \intersect Closers = {}
  /\ Alarm \notin Savers \union Closers

VARIABLES
  known,      \* the peers in memory (InputPeers), named by who brought them
  file,       \* the peers in the storage
  pending,    \* CACHE.writePending
  requested,  \* CACHE.writeRequested
  timer,      \* CACHE.writeTimer: none, armed, or fired with its callback waiting
  strays,     \* armed timers that writeTimer does not point to any more
  late,       \* fired callbacks that wait for writeMu
  mutex,      \* who holds writeMu
  at,         \* [Holders -> the step the call has reached]
  shot,       \* the snapshot that is being written
  recent,     \* the last successful write is less than two seconds ago
  off,        \* CACHE.disabled or CACHE.memory
  over,       \* CACHE.closed
  sealed,     \* how Close ended: open, kept, lost
  asked,      \* history: peers in memory for which a call has asked for a write
  promised,   \* history: those whose call has returned: owed to the file
  due,        \* history: promised when Close took the lock
  breaks      \* failed writes so far

peers  == <<known, file, shot>>
flags  == <<pending, requested>>
timers == <<timer, strays, late>>
calls  == <<mutex, at>>
modes  == <<recent, off, over, sealed>>
past   == <<asked, promised, due, breaks>>
cacheVars == <<peers, flags, timers, calls, modes, past>>

(* Not every call is made. *)
CacheInit ==
  /\ known = {} /\ file = {} /\ shot = {}
  /\ pending = FALSE /\ requested = FALSE
  /\ timer = "none" /\ strays = 0 /\ late = 0
  /\ mutex = NoOne
  /\ \E made \in SUBSET (Updaters \union Savers \union Closers) :
       at = [h \in Holders |-> IF h \in made \union {Helper, Alarm} THEN "idle" ELSE "done"]
  /\ recent = FALSE /\ off = FALSE /\ over = FALSE
  /\ sealed = "open"
  /\ asked = {} /\ promised = {} /\ due = {}
  /\ breaks = 0

\* Call h goes to step s and keeps the lock as it is; LeaveCache gives it up.
Go(h, s) == at' = [at EXCEPT ![h] = s]
LeaveCache(h) == Go(h, "done") /\ mutex' = NoOne

\* scheduleWriteLocked
Schedule ==
  IF over \/ timer # "none"
  THEN UNCHANGED <<timer, pending>>
  ELSE timer' = "armed" /\ pending' = TRUE

\* A write is skipped: nobody is owed anything any more.
Withdraw == asked' = {} /\ promised' = {} /\ due' = {}

\* Only the peers of S stay in memory; what is dropped is not owed any more.
Keep(S) ==
  /\ known' = S
  /\ asked' = asked \intersect S /\ promised' = promised \intersect S /\ due' = due \intersect S

\* writeTimer.Stop() and writeTimer = nil: a fired callback is not stopped
StopTimer == timer' = "none"

-----------------------------------------------------------------------------
(* UpdatePeersToCache: the flags are read first, then the peers are stored *)
(* under the lock of the maps, then a write is requested.  A forbidden     *)
(* channel or community is stored and nothing is requested, a chat makes a *)
(* request and is not in the file, a peer that is known already does       *)
(* neither; whatever is stored, enforceSizeLimit may drop peers.           *)

ReadFlags(u) ==
  /\ at[u] = "idle"
  /\ Go(u, IF off THEN "quiet" ELSE "store")
  /\ UNCHANGED <<mutex, peers, flags, timers, modes, past>>

StorePeer(u) ==
  /\ at[u] \in {"quiet", "store"}
  /\ \E S \in SUBSET (known \union {u}) : Keep(S)
  /\ \/ Go(u, "done")
     \/ at[u] = "store" /\ Go(u, "flag")
  /\ UNCHANGED <<file, mutex, shot, flags, timers, modes, breaks>>

\* Clear
Forget ==
  /\ known # {}
  /\ Keep({})
  /\ UNCHANGED <<file, shot, flags, timers, calls, modes, breaks>>

\* requestWrite: first the flag, then TryLock
SetPending(u) ==
  /\ at[u] = "flag"
  /\ pending' = TRUE
  /\ asked' = asked \union ({u} \intersect known)
  /\ Go(u, "try")
  /\ UNCHANGED <<requested, mutex, peers, timers, modes, promised, due, breaks>>

TryLock(u) ==
  /\ at[u] = "try"
  /\ IF mutex = NoOne
     THEN mutex' = u /\ Go(u, "plan")
     ELSE UNCHANGED mutex /\ Go(u, "ask")
  /\ UNCHANGED <<peers, flags, timers, modes, past>>

PlanWrite(u) ==
  /\ at[u] = "plan"
  /\ Schedule
  /\ LeaveCache(u)
  /\ promised' = promised \union ({u} \intersect asked)
  /\ UNCHANGED <<requested, strays, late, asked, due, breaks, peers, modes>>

\* the compare-and-swap of writeRequested; one that sets it starts a goroutine
AskHelper(u) ==
  /\ at[u] = "ask"
  /\ requested' = TRUE
  /\ Go(u, "done")
  /\ promised' = promised \union ({u} \intersect asked)
  /\ UNCHANGED <<pending, mutex, asked, due, breaks, peers, timers, modes>>

HelperLocks ==
  /\ requested
  /\ at[Helper] = "idle"
  /\ mutex = NoOne
  /\ mutex' = Helper
  /\ Go(Helper, "clear")
  /\ UNCHANGED <<peers, flags, timers, modes, past>>

HelperClears ==
  /\ at[Helper] = "clear"
  /\ requested' = FALSE
  /\ Go(Helper, "plan")
  /\ UNCHANGED <<pending, mutex, peers, timers, modes, past>>

HelperPlans ==
  /\ at[Helper] = "plan"
  /\ Schedule
  /\ Go(Helper, "idle")
  /\ mutex' = NoOne
  /\ UNCHANGED <<requested, strays, late, peers, modes, past>>

-----------------------------------------------------------------------------
(* Timers.  A callback clears writeTimer whatever it points to, so a timer *)
(* that was armed while an older callback waited becomes a stray.          *)

Fire ==
  /\ timer = "armed"
  /\ timer' = "fired"
  /\ late' = late + 1
  /\ UNCHANGED <<strays, peers, flags, calls, modes, past>>

FireStray ==
  /\ strays > 0
  /\ strays' = strays - 1
  /\ late' = late + 1
  /\ UNCHANGED <<timer, peers, flags, calls, modes, past>>

\* Seeded fault: the callback writes without looking whether the cache is closed.
AlarmNeverAsks ==
  /\ late > 0 /\ mutex = NoOne
  /\ late' = late - 1
  /\ timer' = "none"
  /\ strays' = IF timer = "armed" THEN strays + 1 ELSE strays
  /\ mutex' = Alarm /\ Go(Alarm, "check")
  /\ UNCHANGED <<peers, flags, modes, past>>

AlarmRings ==
  /\ late > 0 /\ mutex = NoOne
  /\ late' = late - 1
  /\ timer' = "none"
  /\ strays' = IF timer = "armed" THEN strays + 1 ELSE strays
  /\ IF over THEN UNCHANGED calls ELSE mutex' = Alarm /\ Go(Alarm, "check")
  /\ UNCHANGED <<peers, flags, modes, past>>

TimePasses ==
  /\ recent
  /\ recent' = FALSE
  /\ UNCHANGED <<off, over, sealed, peers, flags, timers, calls, past>>

-----------------------------------------------------------------------------
(* WriteFile and Close.                                                    *)

Lock(h) ==
  /\ h \in Savers \union Closers
  /\ at[h] = "idle"
  /\ mutex = NoOne
  /\ mutex' = h
  /\ Go(h, "enter")
  /\ due' = IF h \in Closers /\ ~ over THEN promised ELSE due
  /\ UNCHANGED <<asked, promised, breaks, peers, flags, timers, modes>>

\* the head of WriteFile
Save(h) ==
  /\ h \in Savers
  /\ at[h] = "enter"
  /\ \/ over /\ LeaveCache(h) /\ UNCHANGED <<pending, timer, past>>
     \/ /\ ~ over /\ off
        /\ LeaveCache(h) /\ pending' = FALSE /\ Withdraw
        /\ UNCHANGED <<timer, breaks>>
     \/ ~ over /\ ~ off /\ recent /\ LeaveCache(h) /\ Schedule /\ UNCHANGED past
     \/ ~ over /\ ~ off /\ ~ recent /\ Go(h, "check") /\ StopTimer
        /\ UNCHANGED <<pending, mutex, past>>
  /\ UNCHANGED <<requested, strays, late, peers, modes>>

\* the head of Close
BeginClose(h) ==
  /\ h \in Closers
  /\ at[h] = "enter"
  /\ IF over
     THEN LeaveCache(h) /\ UNCHANGED <<timer, over>>
     ELSE StopTimer /\ over' = TRUE /\ Go(h, "look") /\ UNCHANGED mutex
  /\ UNCHANGED <<strays, late, recent, off, sealed, peers, flags, past>>

\* writePending.Load() || writeRequested.Load()
LookPending(h) ==
  /\ at[h] = "look"
  /\ Go(h, IF pending THEN "check" ELSE "look again")
  /\ UNCHANGED <<mutex, peers, flags, timers, modes, past>>

LookRequested(h) ==
  /\ at[h] = "look again"
  /\ Go(h, IF requested THEN "check" ELSE "seal")
  /\ UNCHANGED <<mutex, peers, flags, timers, modes, past>>

\* Close closes the storage and returns the error of the write, if any
Seal(h) ==
  /\ h \in Closers
  /\ at[h] = "seal"
  /\ sealed' = IF sealed = "lost" THEN "lost" ELSE "kept"
  /\ LeaveCache(h)
  /\ UNCHANGED <<recent, off, over, peers, flags, timers, past>>

-----------------------------------------------------------------------------
(* writeFileLocked.                                                        *)

\* what follows in the caller
Return(h) == IF h \in Closers THEN Go(h, "seal") /\ UNCHANGED mutex
             ELSE /\ Go(h, IF h = Alarm THEN "idle" ELSE "done")
                  /\ mutex' = NoOne

CheckOff(h) ==
  /\ at[h] = "check"
  /\ IF off
     THEN pending' = FALSE /\ Return(h) /\ Withdraw
     ELSE Go(h, "snap") /\ UNCHANGED <<pending, mutex, asked, promised, due>>
  /\ UNCHANGED <<requested, peers, timers, modes, breaks>>

Snapshot(h) ==
  /\ at[h] = "snap"
  /\ shot' = known
  /\ Go(h, "put")
  /\ UNCHANGED <<known, file, mutex, flags, timers, modes, past>>

PutFile(h) ==
  /\ at[h] = "put"
  /\ \/ file' = shot /\ recent' = TRUE /\ Go(h, "good") /\ UNCHANGED breaks
     \/ /\ breaks < MaxBreaks
        /\ breaks' = breaks + 1
        /\ Go(h, "bad")
        /\ UNCHANGED <<file, recent>>
  /\ UNCHANGED <<known, mutex, shot, off, over, sealed, asked, promised, due,
                 flags, timers>>

Succeed(h) ==
  /\ at[h] = "good"
  /\ pending' = FALSE
  /\ Return(h)
  /\ UNCHANGED <<requested, peers, timers, modes, past>>

\* writePending is set, the timer is armed unless the cache is closed
FailWrite(h) ==
  /\ at[h] = "bad"
  /\ pending' = TRUE
  /\ timer' = IF over \/ timer # "none" THEN timer ELSE "armed"
  /\ sealed' = IF h \in Closers THEN "lost" ELSE sealed
  /\ Return(h)
  /\ UNCHANGED <<requested, strays, late, recent, off, over, peers, past>>

\* Disable, which is for good, and SetWriteFile either way
Switch ==
  /\ off' = ~ off
  /\ UNCHANGED <<recent, over, sealed, peers, flags, timers, calls, past>>

-----------------------------------------------------------------------------
Update(u) == ReadFlags(u) \/ StorePeer(u) \/ SetPending(u) \/ TryLock(u) \/ PlanWrite(u) \/ AskHelper(u)
Help == HelperLocks \/ HelperClears \/ HelperPlans
Write(h) == CheckOff(h) \/ Snapshot(h) \/ PutFile(h) \/ Succeed(h) \/ FailWrite(h)
Finish(h) == BeginClose(h) \/ LookPending(h) \/ LookRequested(h) \/ Seal(h)
Timers == Fire \/ FireStray \/ AlarmRings

\* who holds writeMu goes on
HolderStep ==
  \/ \E u \in Updaters : PlanWrite(u)
  \/ \E h \in Savers : Save(h)
  \/ \E h \in Closers : Finish(h)
  \/ \E h \in Writers : Write(h)

CacheNext ==
  \/ \E u \in Updaters : Update(u)
  \/ Help \/ Timers \/ TimePasses \/ Switch \/ Forget
  \/ \E h \in Savers \union Closers : Lock(h)
  \/ HolderStep

(* Timers fire and callbacks, goroutines and calls that hold the lock go   *)
(* on; nobody has to call anything.                                        *)
CacheFairness ==
  WF_cacheVars(Help) /\ WF_cacheVars(Timers) /\ WF_cacheVars(HolderStep)

CacheSpec == CacheInit /\ [][CacheNext]_cacheVars /\ CacheFairness

-----------------------------------------------------------------------------
CacheTypeOK ==
  /\ known \subseteq Updaters /\ file \subseteq Updaters /\ shot \subseteq Updaters
  /\ asked \subseteq Updaters /\ promised \subseteq Updaters /\ due \subseteq Updaters
  /\ pending \in BOOLEAN /\ requested \in BOOLEAN /\ recent \in BOOLEAN
  /\ off \in BOOLEAN /\ over \in BOOLEAN
  /\ timer \in {"none", "armed", "fired"}
  /\ strays \in Nat /\ late \in Nat
  /\ mutex \in Holders \union {NoOne}
  /\ at \in [Holders -> {"idle", "quiet", "store", "flag", "try", "plan", "ask", "clear",
                         "enter", "look", "look again", "seal", "check", "snap", "put",
                         "good", "bad", "done"}]
  /\ sealed \in {"open", "kept", "lost"}
  /\ breaks \in 0..MaxBreaks

(* A Close that reports no error leaves nothing behind that is owed: a     *)
(* peer for which UpdatePeersToCache had asked for a write and returned    *)
(* when Close took the lock is in the storage, although writePending may   *)
(* have been cleared by a write that had taken its snapshot before         *)
(* (cache.go: requestWrite, writeFileLocked, Close).  Not owed are a       *)
(* forbidden channel, a peer that was evicted or cleared since, and what a *)
(* write has skipped because the cache was disabled or in memory mode.     *)
CloseKeepsAll == sealed = "kept" => due \subseteq file

(* The storage is not written after Close has closed it, by no callback of *)
(* a timer, no goroutine and no WriteFile that was waiting for the lock.   *)
NoWriteAfterClose == [][sealed # "open" => UNCHANGED file]_cacheVars

(* Both: what Close leaves in the storage is all there is to keep.         *)
CloseIsFinal == []CloseKeepsAll /\ NoWriteAfterClose

(* Every peer that is owed to the file, in the sense of CloseKeepsAll, is  *)
(* written in the end, unless the cache is closed, even when writes fail   *)
(* and timers go astray.                                                   *)
PeersAreSaved == []<>(promised \subseteq file \/ over)

(* The peer cache keeps its word: what a call has asked to be written is   *)
(* written, by the timer or at the latest by Close.                        *)
CacheKeepsWord == CloseIsFinal /\ PeersAreSaved
=============================================================================
