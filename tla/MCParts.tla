------------------------------ MODULE MCParts ------------------------------
(***************************************************************************)
(* Components that share no state, checked in one run: each behaviour      *)
(* exercises the one that focus names while the others stay as they are.   *)
(***************************************************************************)
EXTENDS TaskPool, TcpState, CacheFile, Albums, Senders

CONSTANTS m1, m2, m3, g1, g2, g3, e1, x1, x2, u2

VARIABLE focus

(* Which calls use the extra connections in a behaviour. *)
Cast == CASE focus = "transfers" -> {x1, x2} [] focus = "edit" -> {x1, e1} [] OTHER -> {}

(* Which calls on the peer cache are made: two of UpdatePeersToCache, or    *)
(* one and the two of WriteFile; Close in both.                            *)
Absent == IF focus = "cache" THEN Savers ELSE {u2}

(* The groups are alike, so one of each way to divide the pieces will do.  *)
CanonicalGroups == group[m1] = g1 /\ group[m2] \in {g1, g2} /\ (group[m2] = g1 => group[m3] # g3)

(* A component out of focus has one initial state.  The pools that are     *)
(* checked have one goroutine and two places, or two and one.              *)
Still ==
  /\ stage = [t \in Calls |-> IF t \in Cast THEN "begin" ELSE "over"]
  /\ IF focus = "albums" THEN CanonicalGroups ELSE \A m \in Pieces : group[m] = g1
  /\ \A h \in Updaters \union Savers \union Closers :
       at[h] = IF focus \notin {"cache", "save"} \/ h \in Absent THEN "done" ELSE "idle"
  /\ IF focus = "pool" THEN limit + capacity = 3 ELSE limit = 1 /\ capacity = 1

partVars == <<vars, gateVars, cacheVars, albumVars, senderVars, focus>>

PartsInit ==
  /\ focus \in {"pool", "gate", "cache", "save", "albums", "transfers", "edit"}
  /\ Init /\ GateInit /\ CacheInit /\ AlbumsInit /\ SendersInit
  /\ Still

PoolStep == focus = "pool" /\ Next
GateStep == focus = "gate" /\ GateNext
CacheStep == focus \in {"cache", "save"} /\ CacheNext
AlbumStep == focus = "albums" /\ AlbumsNext
SenderStep == focus \in {"transfers", "edit"} /\ SendersNext

PartsNext ==
  /\ UNCHANGED focus
  /\ \/ PoolStep /\ UNCHANGED <<gateVars, cacheVars, albumVars, senderVars>>
     \/ GateStep /\ UNCHANGED <<vars, cacheVars, albumVars, senderVars>>
     \/ CacheStep /\ UNCHANGED <<vars, gateVars, albumVars, senderVars>>
     \/ AlbumStep /\ UNCHANGED <<vars, gateVars, cacheVars, senderVars>>
     \/ SenderStep /\ UNCHANGED <<vars, gateVars, cacheVars, albumVars>>

PartsSpec ==
  /\ PartsInit /\ [][PartsNext]_partVars
  /\ Fairness /\ GateFairness /\ CacheFairness /\ AlbumsFairness /\ SendersFairness

(* Every component keeps its types. *)
PartsTypeOK ==
  /\ TypeOK /\ GateTypeOK /\ CacheTypeOK /\ AlbumsTypeOK /\ SendersTypeOK
=============================================================================
