-------------------------------- MODULE Keys --------------------------------
(***************************************************************************)
(* Authorization keys with perfect forward secrecy: the permanent key, the *)
(* temporary key that replaces it for the traffic, the one that is being   *)
(* bound and the one before (MTProto.authKey, tempAuthKey,                 *)
(* pendingTempAuthKey, previousTempAuthKey), each with its salt.  The      *)
(* manager (startPFSManager) creates and binds temporary keys, the reader  *)
(* stores the salts that messages bring, and the permanent key changes     *)
(* under both: SwitchDc waits for their end first, an import does not.     *)
(*                                                                         *)
(* A salt is named by the key that the server issued it for: the code      *)
(* never looks at a salt, and which of a key's salts it is matters only to *)
(* Outbox.                                                                 *)
(***************************************************************************)
EXTENDS Naturals

CONSTANTS
  Perms,       \* permanent keys
  Temps,       \* temporary keys, each created once
  NoKey,
  MaxImports   \* bound: changes of the permanent key

ASSUME KeysAssumption ==
  /\ NoKey \notin Perms \union Temps /\ Perms \intersect Temps = {}
  /\ MaxImports \in Nat

VARIABLES
  permKey, permSalt,         \* authKey, serverSalt
  temp, pendingTemp, previousTemp,   \* a key and its salt each
  pfs,       \* what the manager does, and the variables of bindTempAuthKey
  cancelled, \* the manager's context is done
  imports,
  created,   \* temporary keys of which the handshake has taken place
  outdated,   \* those past their expires_at; ageing, in the margin before
  ageing,
  bound,     \* the server's table: <<temporary key, permanent key>>
  mail       \* the message the reader is at: the key it came under, how far it is

keyVars == <<permKey, permSalt, temp, pendingTemp, previousTemp>>
ageVars == <<created, outdated, ageing>>
keysVars == <<keyVars, pfs, cancelled, imports, ageVars, bound, mail>>

AllKeys == Perms \union Temps
Empty == [key |-> NoKey, salt |-> NoKey]
FreshKey(k) == [key |-> k, salt |-> k]
Idle == [at |-> "idle", newKey |-> NoKey, perm |-> NoKey, outer |-> NoKey]
NoMail == [key |-> NoKey, at |-> "none"]

KeysInit ==
  /\ \E p \in Perms : permKey = p /\ permSalt = p
  /\ temp = Empty /\ pendingTemp = Empty /\ previousTemp = Empty
  /\ pfs = Idle /\ cancelled = FALSE /\ imports = 0
  /\ created = {} /\ outdated = {} /\ ageing = {}
  /\ bound = {} /\ mail = NoMail

-----------------------------------------------------------------------------
(* startPFSManager. *)

\* createTempAuthKey up to the end of the handshake on its own connection
CreateTemp(t) ==
  /\ pfs.at = "idle" /\ ~cancelled /\ permKey # NoKey
  /\ temp.key = NoKey \/ temp.key \in ageing
  /\ t \notin created
  /\ created' = created \union {t}
  /\ pfs' = [Idle EXCEPT !.at = "created", !.newKey = t]
  /\ UNCHANGED <<keyVars, cancelled, imports, outdated, ageing, bound, mail>>

\* ... and its end, whether or not the context is done meanwhile
StorePending ==
  /\ pfs.at = "created"
  /\ pendingTemp' = FreshKey(pfs.newKey)
  /\ pfs' = [Idle EXCEPT !.at = "stored"]
  /\ UNCHANGED <<permKey, permSalt, temp, previousTemp, cancelled, imports, ageVars, bound, mail>>

\* bindTempAuthKey reads the keys
BeginBind ==
  /\ pfs.at = "stored"
  /\ pfs' = IF pendingTemp.key = NoKey \/ permKey = NoKey \/ pendingTemp.key \in outdated
            THEN Idle
            ELSE [pfs EXCEPT !.at = "read", !.newKey = pendingTemp.key, !.perm = permKey]
  /\ UNCHANGED <<keyVars, cancelled, imports, ageVars, bound, mail>>

\* sendPacket; keyForRequest takes the pending key, without one the message
\* goes out under the key of the day
SendBind ==
  /\ pfs.at = "read"
  /\ pfs' = IF cancelled THEN Idle
            ELSE [pfs EXCEPT !.at = "sent",
                    !.outer = CASE pendingTemp.key # NoKey -> pendingTemp.key
                                [] pendingTemp.key = NoKey /\ temp.key # NoKey -> temp.key
                                [] OTHER -> permKey]
  /\ UNCHANGED <<keyVars, cancelled, imports, ageVars, bound, mail>>

\* the server binds the key that the message came under
ServerBinds ==
  /\ pfs.at = "sent" /\ pfs.outer = pfs.newKey
  /\ bound' = bound \union {<<pfs.newKey, pfs.perm>>}
  /\ pfs' = [pfs EXCEPT !.at = "bound"]
  /\ UNCHANGED <<keyVars, cancelled, imports, ageVars, mail>>

MayCommit ==
  /\ ~cancelled
  /\ permKey = pfs.perm /\ pendingTemp.key = pfs.newKey
  /\ pendingTemp.key \notin outdated

\* the end of bindTempAuthKey, under authMu
CommitKey ==
  /\ pfs.at = "bound"
  /\ pfs' = Idle
  /\ IF MayCommit
     THEN previousTemp' = temp /\ temp' = pendingTemp /\ pendingTemp' = Empty
     ELSE UNCHANGED <<previousTemp, temp, pendingTemp>>
  /\ UNCHANGED <<permKey, permSalt, cancelled, imports, ageVars, bound, mail>>

\* an error, the timeout of the request, or the context is done
GiveUp ==
  /\ pfs.at \in {"sent", "bound"} \/ (pfs.at = "stored" /\ cancelled)
  /\ pfs' = Idle
  /\ UNCHANGED <<keyVars, cancelled, imports, ageVars, bound, mail>>

-----------------------------------------------------------------------------
(* The permanent key changes. *)

\* stopRoutines: of a loss, a Reconnect, a Disconnect or SwitchDc
CancelManager ==
  /\ ~cancelled
  /\ cancelled' = TRUE
  /\ UNCHANGED <<keyVars, pfs, imports, ageVars, bound, mail>>

\* CreateConnection, once the routines of the last one are gone
StartManager ==
  /\ cancelled /\ pfs.at = "idle"
  /\ permKey # NoKey
  /\ cancelled' = FALSE
  /\ mail' = NoMail
  /\ UNCHANGED <<keyVars, pfs, imports, ageVars, bound>>

\* Seeded fault: the temporary keys stay.
SetAuthKeyOnly(p) == permKey' = p /\ UNCHANGED <<temp, pendingTemp, previousTemp>>

\* SetAuthKey: what belongs to another permanent key goes
SetAuthKey(p) ==
  /\ permKey' = p
  /\ IF p = permKey THEN UNCHANGED <<temp, pendingTemp, previousTemp>>
     ELSE temp' = Empty /\ pendingTemp' = Empty /\ previousTemp' = Empty

\* ImportAuth and LoadSession, at any time; the salt is that of the saved
\* session or stays
Import(p) ==
  /\ imports < MaxImports
  /\ imports' = imports + 1
  /\ SetAuthKey(p)
  /\ permSalt' \in {permSalt, p}
  /\ UNCHANGED <<pfs, cancelled, ageVars, bound, mail>>

\* SwitchDc after Disconnect, which has waited for the routines
ForgetKeys ==
  /\ imports < MaxImports
  /\ cancelled /\ pfs.at = "idle"
  /\ imports' = imports + 1
  /\ permKey' = NoKey /\ permSalt' = NoKey
  /\ temp' = Empty /\ pendingTemp' = Empty /\ previousTemp' = Empty
  /\ mail' = NoMail
  /\ UNCHANGED <<pfs, cancelled, ageVars, bound>>

\* makeAuthKey of the connection that follows
Handshake(p) ==
  /\ permKey = NoKey
  /\ SetAuthKey(p)
  /\ permSalt' = p
  /\ UNCHANGED <<pfs, cancelled, imports, ageVars, bound, mail>>

\* time passes
Age(t) ==
  /\ t \in created \ outdated
  /\ ageing' = ageing \union {t}
  /\ outdated' = IF t \in ageing THEN outdated \union {t} ELSE outdated
  /\ UNCHANGED <<keyVars, pfs, cancelled, imports, created, bound, mail>>

-----------------------------------------------------------------------------
(* new_session_created and bad_server_salt. *)

\* a message under a key that is or was in use, with a salt of that key
ServerSends(k) ==
  /\ mail.at = "none" /\ ~cancelled
  /\ k \in Perms \union created
  /\ mail' = [key |-> k, at |-> "sent"]
  /\ UNCHANGED <<keyVars, pfs, cancelled, imports, ageVars, bound>>

\* AuthKeyForPacket: the message of an unknown key is an error of the reader
Decrypt ==
  /\ mail.at = "sent"
  /\ mail' = IF mail.key \in {permKey, temp.key, pendingTemp.key, previousTemp.key}
             THEN [mail EXCEPT !.at = "decrypted"] ELSE NoMail
  /\ UNCHANGED <<keyVars, pfs, cancelled, imports, ageVars, bound>>

\* updateSalt, by the key of the message, which may be gone by now
UpdateSalt(k) ==
  LET holder == CASE k = pendingTemp.key -> "pending"
                  [] k # pendingTemp.key /\ k = temp.key -> "temp"
                  [] k \notin {pendingTemp.key, temp.key} /\ k = previousTemp.key -> "previous"
                  [] OTHER -> "perm"
      Kept(h, old) == IF holder = h THEN [old EXCEPT !.salt = k] ELSE old
  IN /\ pendingTemp' = Kept("pending", pendingTemp)
     /\ temp' = Kept("temp", temp)
     /\ previousTemp' = Kept("previous", previousTemp)
     /\ permSalt' = IF holder = "perm" THEN k ELSE permSalt

ReadSalt ==
  /\ mail.at = "decrypted"
  /\ UpdateSalt(mail.key)
  /\ mail' = NoMail
  /\ UNCHANGED <<permKey, pfs, cancelled, imports, ageVars, bound>>

KeysNext ==
  \/ \E t \in Temps : CreateTemp(t) \/ Age(t)
  \/ StorePending \/ BeginBind \/ SendBind \/ ServerBinds \/ CommitKey \/ GiveUp
  \/ CancelManager \/ StartManager \/ ForgetKeys
  \/ \E p \in Perms : Import(p) \/ Handshake(p)
  \/ \E k \in AllKeys : ServerSends(k)
  \/ Decrypt \/ ReadSalt

KeysSpec == KeysInit /\ [][KeysNext]_keysVars

-----------------------------------------------------------------------------
KeysTypeOK ==
  /\ permKey \in Perms \union {NoKey} /\ permSalt \in AllKeys \union {NoKey}
  /\ {temp, pendingTemp, previousTemp} \subseteq
       [key : Temps \union {NoKey}, salt : AllKeys \union {NoKey}]
  /\ pfs \in [at : {"idle", "created", "stored", "read", "sent", "bound"},
              newKey : Temps \union {NoKey}, perm : Perms \union {NoKey},
              outer : AllKeys \union {NoKey}]
  /\ cancelled \in BOOLEAN /\ imports \in 0..MaxImports
  /\ created \subseteq Temps /\ ageing \subseteq created /\ outdated \subseteq ageing
  /\ bound \subseteq Temps \X Perms
  /\ mail \in [key : AllKeys \union {NoKey}, at : {"none", "sent", "decrypted"}]

(* The traffic goes under a temporary key only when the server has bound   *)
(* it to the permanent key of now, whatever import or migration happens    *)
(* while the key is created and bound (handshake.go: bindTempAuthKey;      *)
(* network.go: SetAuthKey).                                                *)
TempIsBound == temp.key # NoKey => <<temp.key, permKey>> \in bound

(* A temporary key that is kept has a salt that was issued for it, also    *)
(* when the keys have moved on between the decryption of a message and its *)
(* processing (network.go: updateSalt).                                    *)
SaltIsItsOwn == \A h \in {temp, pendingTemp, previousTemp} : h.salt = h.key

KeysBelong == TempIsBound /\ SaltIsItsOwn
=============================================================================
