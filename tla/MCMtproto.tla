----------------------------- MODULE MCMtproto -----------------------------
(***************************************************************************)
(* The client of the protocol: its connection, the ids and salts of its    *)
(* requests and its keys, which share no state in the models.  A behaviour *)
(* exercises the one that focus names while the others stay as they are.   *)
(***************************************************************************)
EXTENDS Connection, Outbox, Keys

CONSTANTS Casts, p1

VARIABLES focus, cast

mtprotoVars == <<vars, outboxVars, keysVars, focus, cast>>

(* Who takes part in a behaviour of the connection: the threads of one     *)
(* cast, several small companies instead of one that is too large.         *)
InCast == \A t \in Threads \ cast : pc[t] = "idle"

MtprotoInit ==
  /\ \/ focus = "connection" /\ cast \in Casts
     \/ focus \in {"outbox", "keys"} /\ cast = {}
  /\ Init /\ OutboxInit /\ KeysInit
  /\ focus # "outbox" => skew = 0
  /\ permKey = p1

ConnectionStep == focus = "connection" /\ Next /\ InCast'
OutboxStep == focus = "outbox" /\ OutboxNext
KeyStep == focus = "keys" /\ KeysNext

MtprotoNext ==
  /\ UNCHANGED <<focus, cast>>
  /\ \/ ConnectionStep /\ UNCHANGED <<outboxVars, keysVars>>
     \/ OutboxStep /\ UNCHANGED <<vars, keysVars>>
     \/ KeyStep /\ UNCHANGED <<vars, outboxVars>>

MtprotoSpec == MtprotoInit /\ [][MtprotoNext]_mtprotoVars

(* Every component keeps its types. *)
MtprotoTypeOK == TypeOK /\ OutboxTypeOK /\ KeysTypeOK
=============================================================================
