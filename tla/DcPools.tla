------------------------------- MODULE DcPools -------------------------------
(***************************************************************************)
(* Where the parts of a download come from (telegram/media.go): fetchPart, *)
(* which learns from the server that the file is in another data centre,   *)
(* and downloadPool, which gives each data centre one pool of connections, *)
(* made by the first that needs it while the others wait for it.           *)
(* The pools of a CDN are made the same way, under keys of their own.      *)
(***************************************************************************)
EXTENDS Naturals, FiniteSets

CONSTANTS
  Getters,   \* goroutines that fetch parts
  Dcs,       \* where the file may be, besides the pool of the download itself
  NoDc,      \* fileDC = 0
  GetTries,  \* attempts of a part
  MaxMoves,  \* bound: how often the file moves
  MaxPools   \* bound: pools made in a behaviour

ASSUME DcPoolsAssumption ==
  /\ NoDc \notin Dcs /\ IsFiniteSet(Getters)
  /\ GetTries \in Nat \ {0} /\ MaxMoves \in Nat /\ MaxPools \in Nat

VARIABLES
  fileDC,
  dcPools,        \* [Dcs -> its pool], 0 for none
  dcPoolPending,  \* the keys of dcPoolPending
  home,           \* the server's: where the file is
  moves,          \* how often it has moved
  getter,         \* [Getters -> where it is]
  seen,           \* [Getters -> the fileDC it has read]
  usedPool,       \* [Getters -> the pool it makes or uses]
  tried,          \* [Getters -> failed attempts]
  openPools,      \* pools made and not closed
  poolsMade,
  settled         \* closeDCPools has run

dcVars == <<fileDC, dcPools, dcPoolPending, home, moves, getter, seen, usedPool, tried, openPools, poolsMade, settled>>
dcRest == <<home, moves, seen, tried, settled>>

(* Not every download gets to its parts. *)
DcInit ==
  /\ fileDC = NoDc /\ dcPools = [d \in Dcs |-> 0] /\ dcPoolPending = {}
  /\ home \in Dcs \union {NoDc} /\ moves = 0
  /\ settled \in BOOLEAN
  /\ getter = [g \in Getters |-> IF settled THEN "gone" ELSE "read"]
  /\ seen = [g \in Getters |-> NoDc] /\ usedPool = [g \in Getters |-> 0]
  /\ tried = [g \in Getters |-> 0]
  /\ openPools = {} /\ poolsMade = 0

GetterGoes(g, from, to) == getter[g] = from /\ getter' = [getter EXCEPT ![g] = to]

-----------------------------------------------------------------------------

(* fileDC.Load: the pool of the download, or that of another centre. *)
ReadDC(g) ==
  /\ GetterGoes(g, "read", IF fileDC = NoDc THEN "send" ELSE "look")
  /\ seen' = [seen EXCEPT ![g] = fileDC] /\ usedPool' = [usedPool EXCEPT ![g] = 0]
  /\ UNCHANGED <<fileDC, dcPools, dcPoolPending, home, moves, tried, openPools, poolsMade, settled>>

(* The loop of downloadPool: the pool is there, or somebody makes it. *)
LookPool(g) ==
  /\ getter[g] = "look"
  /\ \/ /\ dcPools[seen[g]] # 0
        /\ usedPool' = [usedPool EXCEPT ![g] = dcPools[seen[g]]]
        /\ GetterGoes(g, "look", "send") /\ UNCHANGED dcPoolPending
     \/ /\ dcPools[seen[g]] = 0
        /\ GetterGoes(g, "look", IF seen[g] \in dcPoolPending THEN "wait" ELSE "make")
        /\ dcPoolPending' = dcPoolPending \union {seen[g]} /\ UNCHANGED usedPool
  /\ UNCHANGED <<fileDC, dcPools, openPools, poolsMade, dcRest>>

(* A pool that cannot be filled is closed again. *)
MakePool(g) ==
  /\ \/ /\ GetterGoes(g, "make", "store") /\ poolsMade < MaxPools
        /\ poolsMade' = poolsMade + 1
        /\ usedPool' = [usedPool EXCEPT ![g] = poolsMade']
        /\ openPools' = openPools \union {poolsMade'}
     \/ GetterGoes(g, "make", "unmade") /\ UNCHANGED <<poolsMade, usedPool, openPools>>
  /\ UNCHANGED <<fileDC, dcPools, dcPoolPending, dcRest>>

StorePool(g) ==
  /\ GetterGoes(g, "store", "made")
  /\ IF dcPools[seen[g]] = 0
     THEN dcPools' = [dcPools EXCEPT ![seen[g]] = usedPool[g]] /\ UNCHANGED <<openPools, usedPool>>
     ELSE /\ openPools' = openPools \ {usedPool[g]}
          /\ usedPool' = [usedPool EXCEPT ![g] = dcPools[seen[g]]] /\ UNCHANGED dcPools
  /\ UNCHANGED <<fileDC, dcPoolPending, poolsMade, dcRest>>

(* The attempt has failed: another one, or the part is given up. *)
AfterFailure(g) == {"gone"} \union (IF tried[g] + 1 < GetTries THEN {"read"} ELSE {})
CountFailure(g) == tried' = [tried EXCEPT ![g] = @ + 1]

(* The deferred function removes the mark and closes the channel: where g  *)
(* and those who wait for it go.                                           *)
Woken(g, next) ==
  [x \in Getters |-> IF x = g THEN next
                     ELSE IF getter[x] = "wait" /\ seen[x] = seen[g] THEN "look" ELSE getter[x]]

Unmark(g) ==
  /\ dcPoolPending' = dcPoolPending \ {seen[g]}
  /\ \/ getter[g] = "made" /\ getter' = Woken(g, "send") /\ UNCHANGED tried
     \/ /\ getter[g] = "unmade" /\ CountFailure(g)
        /\ \E next \in AfterFailure(g) : getter' = Woken(g, next)
  /\ UNCHANGED <<fileDC, dcPools, home, moves, seen, usedPool, openPools, poolsMade, settled>>

(* The request: the part comes or the error is final, or there is another  *)
(* attempt, perhaps in the centre that FILE_MIGRATE_X names.               *)
SendRequest(g) ==
  /\ \/ GetterGoes(g, "send", "gone") /\ UNCHANGED <<fileDC, tried>>
     \/ /\ \E next \in AfterFailure(g) : GetterGoes(g, "send", next)
        /\ CountFailure(g)
        /\ fileDC' \in {fileDC, IF fileDC = seen[g] /\ home # NoDc THEN home ELSE fileDC}
  /\ UNCHANGED <<dcPools, dcPoolPending, home, moves, seen, usedPool, openPools, poolsMade, settled>>

(* Its context ends while it waits. *)
StopWaiting(g) ==
  /\ GetterGoes(g, "wait", "gone")
  /\ UNCHANGED <<fileDC, dcPools, dcPoolPending, usedPool, openPools, poolsMade, dcRest>>

(* The workers are gone. *)
CloseDCPools ==
  /\ ~settled /\ \A g \in Getters : getter[g] = "gone"
  /\ settled' = TRUE
  /\ openPools' = openPools \ {dcPools[d] : d \in Dcs}
  /\ dcPools' = [d \in Dcs |-> 0]
  /\ UNCHANGED <<fileDC, dcPoolPending, home, moves, getter, seen, usedPool, tried, poolsMade>>

(* The file moves. *)
FileMoves(d) ==
  /\ ~settled /\ moves < MaxMoves /\ d # home
  /\ home' = d /\ moves' = moves + 1
  /\ UNCHANGED <<fileDC, dcPools, dcPoolPending, getter, seen, usedPool, tried, openPools, poolsMade, settled>>

GetterMoves(g) ==
  \/ ReadDC(g) \/ LookPool(g) \/ MakePool(g) \/ StorePool(g) \/ Unmark(g) \/ SendRequest(g)

DcNext ==
  \/ \E g \in Getters : GetterMoves(g) \/ StopWaiting(g)
  \/ CloseDCPools
  \/ \E d \in Dcs : FileMoves(d)

DcFairness == WF_dcVars(CloseDCPools) /\ \A g \in Getters : WF_dcVars(GetterMoves(g))

-----------------------------------------------------------------------------

DcTypeOK ==
  /\ fileDC \in Dcs \union {NoDc} /\ home \in Dcs \union {NoDc} /\ moves \in 0..MaxMoves
  /\ dcPools \in [Dcs -> 0..MaxPools] /\ dcPoolPending \subseteq Dcs
  /\ getter \in [Getters -> {"read", "look", "wait", "make", "store", "made", "unmade", "send", "gone"}]
  /\ seen \in [Getters -> Dcs \union {NoDc}] /\ usedPool \in [Getters -> 0..MaxPools]
  /\ tried \in [Getters -> 0..GetTries]
  /\ openPools \subseteq 1..MaxPools /\ poolsMade \in 0..MaxPools /\ settled \in BOOLEAN

(* Each data centre has one pool, made by one goroutine while the others   *)
(* wait; nobody uses a pool that is closed; and the end closes all.        *)
OnePoolEach ==
  /\ \A g, h \in Getters : g # h /\ seen[g] = seen[h] =>
       ~(getter[g] \in {"make", "store"} /\ getter[h] \in {"make", "store"})
  /\ \A g \in Getters : getter[g] = "send" /\ seen[g] # NoDc => usedPool[g] \in openPools
  /\ \A g \in Getters : getter[g] = "wait" => \E h \in Getters \ {g} :
       seen[h] = seen[g] /\ getter[h] \in {"make", "store", "made", "unmade"}
  /\ settled => openPools = {}
=============================================================================
