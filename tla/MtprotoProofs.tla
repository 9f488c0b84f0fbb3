---------------------------- MODULE MtprotoProofs ----------------------------
(***************************************************************************)
(* Proofs about the keys and the outgoing requests of a client, for any    *)
(* number of permanent and temporary keys, imports, requests, attempts and *)
(* events, and any clock; and, with those of module ConnectionProofs,      *)
(* about the client as a whole.                                            *)
(***************************************************************************)
EXTENDS MCMtproto, ConnectionProofs

(***************************************************************************)
(* The authorization keys (module Keys).  KeysBelong is not inductive:     *)
(* CommitKey needs that the manager has the server's word for the pair of  *)
(* keys it has kept since bindTempAuthKey read them (Promise), and that    *)
(* this pair is still the pair of the day.                                 *)
(***************************************************************************)

Promise ==
  /\ pfs.at \in {"read", "sent"} => pfs.newKey \in Temps /\ pfs.perm \in Perms
  /\ pfs.at = "bound" => <<pfs.newKey, pfs.perm>> \in bound

KeysInv == KeysTypeOK /\ KeysBelong /\ Promise

Held == [key : Temps \union {NoKey}, salt : AllKeys \union {NoKey}]

Mails == [key : AllKeys \union {NoKey}, at : {"none", "sent", "decrypted"}]

Managers == [at : {"idle", "created", "stored", "read", "sent", "bound"},
             newKey : Temps \union {NoKey}, perm : Perms \union {NoKey},
             outer : AllKeys \union {NoKey}]

Ages == created \subseteq Temps /\ ageing \subseteq created /\ outdated \subseteq ageing

LEMMA Blanks ==
  /\ Empty \in Held /\ Empty.key = NoKey /\ Empty.salt = NoKey
  /\ NoMail \in Mails
  /\ Idle \in Managers /\ Idle.at = "idle"
BY DEF Empty, Held, NoMail, Mails, Idle, Managers

(* KeysTypeOK in named parts. *)
LEMMA TypeParts ==
  KeysTypeOK <=>
    /\ permKey \in Perms \union {NoKey} /\ permSalt \in AllKeys \union {NoKey}
    /\ temp \in Held /\ pendingTemp \in Held /\ previousTemp \in Held
    /\ pfs \in Managers /\ cancelled \in BOOLEAN /\ imports \in 0..MaxImports
    /\ Ages /\ bound \subseteq Temps \X Perms /\ mail \in Mails
BY Zenon DEF KeysTypeOK, Held, Managers, Ages, Mails

LEMMA InvStart == KeysInit => KeysInv
<1> SUFFICES ASSUME KeysInit PROVE KeysInv
  OBVIOUS
<1> USE Blanks
<1>1. PICK p \in Perms : permKey = p /\ permSalt = p
  BY DEF KeysInit
<1>2. permKey \in Perms \union {NoKey} /\ permSalt \in AllKeys \union {NoKey}
  BY <1>1 DEF AllKeys
<1>3. Ages /\ cancelled \in BOOLEAN /\ bound \subseteq Temps \X Perms
  BY DEF KeysInit, Ages
<1>6. imports \in 0..MaxImports
  BY KeysAssumption DEF KeysInit
<1>4. KeysTypeOK
  BY <1>2, <1>3, <1>6, TypeParts DEF KeysInit
<1>5. KeysBelong /\ Promise
  BY DEF KeysInit, KeysBelong, TempIsBound, SaltIsItsOwn, Promise
<1> QED BY <1>4, <1>5 DEF KeysInv

-----------------------------------------------------------------------------
Belongs(h) == h \in Held /\ h.salt = h.key

(* What every step has to show: the keys it leaves belong, and the current *)
(* one is bound.                                                           *)
LEMMA KeysMove ==
  ASSUME permKey' \in Perms \union {NoKey}, permSalt' \in AllKeys \union {NoKey},
         Belongs(temp'), Belongs(pendingTemp'), Belongs(previousTemp'), TempIsBound',
         pfs' \in Managers, Promise', cancelled' \in BOOLEAN, imports' \in 0..MaxImports,
         Ages', bound' \subseteq Temps \X Perms, mail' \in Mails
  PROVE  KeysInv'
<1>1. KeysTypeOK'
  BY Zenon DEF KeysTypeOK, Held, Managers, Ages, Mails, Belongs
<1>2. SaltIsItsOwn'
  BY DEF SaltIsItsOwn, Belongs
<1> QED BY <1>1, <1>2 DEF KeysInv, KeysBelong

(* What a state of the invariant has, in the form that KeysMove asks for.  *)
LEMMA Unpacked ==
  ASSUME KeysInv
  PROVE  /\ permKey \in Perms \union {NoKey} /\ permSalt \in AllKeys \union {NoKey}
         /\ Belongs(temp) /\ Belongs(pendingTemp) /\ Belongs(previousTemp)
         /\ TempIsBound /\ Promise
         /\ pfs \in Managers /\ cancelled \in BOOLEAN /\ imports \in 0..MaxImports
         /\ Ages /\ bound \subseteq Temps \X Perms /\ mail \in Mails
<1>1. KeysTypeOK /\ SaltIsItsOwn /\ TempIsBound /\ Promise
  BY DEF KeysInv, KeysBelong
<1>2. temp \in Held /\ pendingTemp \in Held /\ previousTemp \in Held
  BY <1>1, TypeParts
<1>3. Belongs(temp) /\ Belongs(pendingTemp) /\ Belongs(previousTemp)
  BY <1>1, <1>2 DEF SaltIsItsOwn, Belongs
<1> QED BY <1>1, <1>3, TypeParts

(* A manager that is not at it, and one that stays where it is, keep the   *)
(* promise.                                                                *)
LEMMA PromiseKept ==
  /\ Promise /\ pfs' = pfs /\ bound' = bound => Promise'
  /\ pfs'.at \notin {"read", "sent", "bound"} => Promise'
BY DEF Promise

LEMMA StillBound ==
  TempIsBound /\ permKey' = permKey /\ temp' = temp /\ bound \subseteq bound' => TempIsBound'
BY DEF TempIsBound

(* The steps of startPFSManager and bindTempAuthKey up to the server's     *)
(* word: they move the manager alone.                                      *)
LEMMA ManagerAlone ==
  ASSUME KeysInv, UNCHANGED <<keyVars, bound, mail>>,
         pfs' \in Managers, Promise', cancelled' \in BOOLEAN, imports' \in 0..MaxImports, Ages'
  PROVE  KeysInv'
<1>1. /\ permKey' \in Perms \union {NoKey} /\ permSalt' \in AllKeys \union {NoKey}
      /\ temp' = temp /\ pendingTemp' = pendingTemp /\ previousTemp' = previousTemp
      /\ bound' \subseteq Temps \X Perms /\ mail' \in Mails
  BY Unpacked DEF keyVars
<1>2. Belongs(temp') /\ Belongs(pendingTemp') /\ Belongs(previousTemp')
  BY <1>1, Unpacked DEF Belongs
<1>3. TempIsBound'
  BY Unpacked, StillBound DEF keyVars
<1> QED BY <1>1, <1>2, <1>3, KeysMove

-----------------------------------------------------------------------------
(* The manager's steps. *)
LEMMA ManagerSteps ==
  ASSUME KeysInv,
         \/ \E t \in Temps : CreateTemp(t) \/ Age(t)
         \/ BeginBind \/ SendBind \/ GiveUp \/ CancelManager
  PROVE  KeysInv'
<1> USE Unpacked, Blanks
<1>1. ASSUME NEW t \in Temps, CreateTemp(t) PROVE KeysInv'
  <2>1. pfs' \in Managers /\ pfs'.at = "created"
    BY <1>1 DEF CreateTemp, Idle, Managers
  <2>2. Ages'
    BY <1>1 DEF CreateTemp, Ages
  <2> QED BY <1>1, <2>1, <2>2, ManagerAlone, PromiseKept DEF CreateTemp
<1>2. ASSUME NEW t \in Temps, Age(t) PROVE KeysInv'
  <2>1. Ages'
    BY <1>2 DEF Age, Ages
  <2> QED BY <1>2, <2>1, ManagerAlone, PromiseKept DEF Age
<1>3. CASE BeginBind
  <2>1. pfs' \in Managers /\ Promise'
    <3>1. CASE pfs' = Idle
      BY <3>1, PromiseKept
    <3>2. CASE pendingTemp.key # NoKey /\ permKey # NoKey
               /\ pfs' = [pfs EXCEPT !.at = "read", !.newKey = pendingTemp.key, !.perm = permKey]
      BY <3>2 DEF Managers, Belongs, Held, Promise
    <3> QED BY <1>3, <3>1, <3>2 DEF BeginBind
  <2>2. Ages'
    BY <1>3 DEF BeginBind, Ages, ageVars
  <2> QED BY <1>3, <2>1, <2>2, ManagerAlone DEF BeginBind
<1>4. CASE SendBind
  <2>1. pfs' \in Managers /\ Promise'
    <3>1. CASE pfs' = Idle
      BY <3>1, PromiseKept
    <3>2. CASE ~cancelled
      <4>1. PICK o \in AllKeys \union {NoKey} : pfs' = [pfs EXCEPT !.at = "sent", !.outer = o]
        BY <1>4, <3>2 DEF SendBind, Belongs, Held, AllKeys
      <4> QED BY <1>4, <4>1 DEF SendBind, Managers, Promise
    <3> QED BY <1>4, <3>1, <3>2 DEF SendBind
  <2>2. Ages'
    BY <1>4 DEF SendBind, Ages, ageVars
  <2> QED BY <1>4, <2>1, <2>2, ManagerAlone DEF SendBind
<1>5. CASE GiveUp
  <2>1. Ages'
    BY <1>5 DEF GiveUp, Ages, ageVars
  <2> QED BY <1>5, <2>1, ManagerAlone, PromiseKept DEF GiveUp
<1>6. CASE CancelManager
  <2>1. Ages'
    BY <1>6 DEF CancelManager, Ages, ageVars
  <2> QED BY <1>6, <2>1, ManagerAlone, PromiseKept DEF CancelManager
<1> QED BY <1>1, <1>2, <1>3, <1>4, <1>5, <1>6

(* The handshake of a temporary key brings the key together with its salt. *)
LEMMA PendingStep == KeysInv /\ StorePending => KeysInv'
<1> SUFFICES ASSUME KeysInv, StorePending PROVE KeysInv'
  OBVIOUS
<1> USE Unpacked
<1>1. FreshKey(pfs.newKey) \in Held /\ FreshKey(pfs.newKey).salt = FreshKey(pfs.newKey).key
  BY DEF FreshKey, Held, Managers, AllKeys
<1>2. Belongs(temp') /\ Belongs(pendingTemp') /\ Belongs(previousTemp')
  BY <1>1 DEF StorePending, Belongs
<1>3. pfs' \in Managers /\ Promise'
  BY PromiseKept DEF StorePending, Idle, Managers
<1>4. TempIsBound'
  BY StillBound DEF StorePending
<1>5. Ages'
  BY DEF StorePending, Ages, ageVars
<1> QED BY <1>2, <1>3, <1>4, <1>5, KeysMove DEF StorePending

(* The server's word is what the manager keeps as its promise.             *)
LEMMA ServerStep == KeysInv /\ ServerBinds => KeysInv'
<1> SUFFICES ASSUME KeysInv, ServerBinds PROVE KeysInv'
  OBVIOUS
<1> USE Unpacked
<1>1. bound' \subseteq Temps \X Perms
  <2>1. pfs.newKey \in Temps /\ pfs.perm \in Perms
    BY DEF ServerBinds, Promise
  <2> QED BY <2>1 DEF ServerBinds
<1>2. pfs' \in Managers /\ Promise'
  BY DEF ServerBinds, Managers, Promise
<1>3. Belongs(temp') /\ Belongs(pendingTemp') /\ Belongs(previousTemp')
  BY DEF ServerBinds, keyVars, Belongs
<1>4. TempIsBound'
  BY StillBound DEF ServerBinds, keyVars
<1>5. Ages'
  BY DEF ServerBinds, Ages, ageVars
<1> QED BY <1>1, <1>2, <1>3, <1>4, <1>5, KeysMove DEF ServerBinds, keyVars

(* The key is installed as the server bound it, to the key of the day.     *)
LEMMA CommitStep == KeysInv /\ CommitKey => KeysInv'
<1> SUFFICES ASSUME KeysInv, CommitKey PROVE KeysInv'
  OBVIOUS
<1> USE Unpacked, Blanks
<1>1. Belongs(temp') /\ Belongs(pendingTemp') /\ Belongs(previousTemp')
  BY DEF CommitKey, Belongs
<1>2. TempIsBound'
  <2>1. CASE MayCommit
    BY <2>1 DEF CommitKey, MayCommit, TempIsBound, Promise
  <2>2. CASE ~MayCommit
    BY <2>2, StillBound DEF CommitKey
  <2> QED BY <2>1, <2>2
<1>3. pfs' \in Managers /\ Promise'
  BY PromiseKept DEF CommitKey
<1>4. Ages'
  BY DEF CommitKey, Ages, ageVars
<1> QED BY <1>1, <1>2, <1>3, <1>4, KeysMove DEF CommitKey

-----------------------------------------------------------------------------
(* A change of the permanent key takes the temporary keys with it, under   *)
(* the manager if need be.                                                 *)
LEMMA NewPermanent ==
  ASSUME KeysInv, NEW p \in Perms, SetAuthKey(p)
  PROVE  /\ permKey' \in Perms
         /\ Belongs(temp') /\ Belongs(pendingTemp') /\ Belongs(previousTemp')
         /\ bound' = bound => TempIsBound'
<1> USE Unpacked, Blanks
<1>1. CASE p = permKey
  BY <1>1 DEF SetAuthKey, Belongs, TempIsBound
<1>2. CASE p # permKey
  BY <1>2 DEF SetAuthKey, Belongs, TempIsBound
<1> QED BY <1>1, <1>2

LEMMA PermanentSteps ==
  ASSUME KeysInv, ForgetKeys \/ StartManager \/ \E p \in Perms : Import(p) \/ Handshake(p)
  PROVE  KeysInv'
<1> USE Unpacked, Blanks
<1>1. ASSUME NEW p \in Perms, Import(p) PROVE KeysInv'
  <2>1. SetAuthKey(p)
    BY <1>1 DEF Import
  <2>2. imports' \in 0..MaxImports
    BY <1>1, KeysAssumption DEF Import
  <2>3. permSalt' \in AllKeys \union {NoKey}
    BY <1>1 DEF Import, AllKeys
  <2>4. Ages' /\ Promise'
    BY <1>1, PromiseKept DEF Import, Ages, ageVars
  <2> QED BY <1>1, <2>1, <2>2, <2>3, <2>4, NewPermanent, KeysMove DEF Import
<1>2. ASSUME NEW p \in Perms, Handshake(p) PROVE KeysInv'
  <2>1. SetAuthKey(p) /\ permSalt' \in AllKeys \union {NoKey}
    BY <1>2 DEF Handshake, AllKeys
  <2>2. Ages' /\ Promise'
    BY <1>2, PromiseKept DEF Handshake, Ages, ageVars
  <2> QED BY <1>2, <2>1, <2>2, NewPermanent, KeysMove DEF Handshake
<1>3. CASE ForgetKeys
  <2>1. imports' \in 0..MaxImports
    BY <1>3, KeysAssumption DEF ForgetKeys
  <2>2. Belongs(temp') /\ Belongs(pendingTemp') /\ Belongs(previousTemp') /\ TempIsBound'
    BY <1>3 DEF ForgetKeys, Belongs, TempIsBound
  <2>3. Ages' /\ Promise'
    BY <1>3, PromiseKept DEF ForgetKeys, Ages, ageVars
  <2> QED BY <1>3, <2>1, <2>2, <2>3, KeysMove DEF ForgetKeys
<1>4. CASE StartManager
  <2>1. Belongs(temp') /\ Belongs(pendingTemp') /\ Belongs(previousTemp')
    BY <1>4 DEF StartManager, keyVars, Belongs
  <2>2. TempIsBound' /\ Promise'
    BY <1>4, StillBound, PromiseKept DEF StartManager, keyVars
  <2>3. Ages'
    BY <1>4 DEF StartManager, Ages, ageVars
  <2> QED BY <1>4, <2>1, <2>2, <2>3, KeysMove DEF StartManager, keyVars
<1> QED BY <1>1, <1>2, <1>3, <1>4

-----------------------------------------------------------------------------
(* The messages that bring salts.                                          *)
LEMMA MailSteps ==
  ASSUME KeysInv, Decrypt \/ \E k \in AllKeys : ServerSends(k)
  PROVE  KeysInv'
<1> USE Unpacked, Blanks
<1>1. mail' \in Mails
  <2>1. ASSUME NEW k \in AllKeys, ServerSends(k) PROVE mail' \in Mails
    BY <2>1 DEF ServerSends, Mails
  <2>2. CASE Decrypt
    BY <2>2 DEF Decrypt, Mails
  <2> QED BY <2>1, <2>2
<1>2. UNCHANGED <<keyVars, pfs, cancelled, imports, ageVars, bound>>
  BY DEF Decrypt, ServerSends
<1>3. Belongs(temp') /\ Belongs(pendingTemp') /\ Belongs(previousTemp')
  BY <1>2 DEF keyVars, Belongs
<1>4. TempIsBound' /\ Promise'
  BY <1>2, StillBound, PromiseKept DEF keyVars
<1>5. Ages'
  BY <1>2 DEF Ages, ageVars
<1> QED BY <1>1, <1>2, <1>3, <1>4, <1>5, KeysMove DEF keyVars

(* updateSalt gives a salt to the key that it was issued for and to no     *)
(* other temporary key, whichever keys the client holds by then.           *)
LEMMA SaltFinds ==
  ASSUME KeysInv, NEW k \in AllKeys \union {NoKey}, UpdateSalt(k)
  PROVE  /\ permSalt' \in AllKeys \union {NoKey}
         /\ Belongs(temp') /\ Belongs(pendingTemp') /\ Belongs(previousTemp')
         /\ temp'.key = temp.key
<1> USE Unpacked
<1> DEFINE Salted(h) == [h EXCEPT !.salt = k]
<1>1. ASSUME NEW h, Belongs(h), h.key = k
      PROVE  Belongs(Salted(h)) /\ Salted(h).key = h.key
  BY <1>1 DEF Belongs, Held
<1>2. pendingTemp' = pendingTemp \/ (k = pendingTemp.key /\ pendingTemp' = Salted(pendingTemp))
  BY DEF UpdateSalt
<1>3. temp' = temp \/ (k = temp.key /\ temp' = Salted(temp))
  BY DEF UpdateSalt
<1>4. previousTemp' = previousTemp \/ (k = previousTemp.key /\ previousTemp' = Salted(previousTemp))
  BY DEF UpdateSalt
<1>5. permSalt' \in {k, permSalt}
  BY DEF UpdateSalt
<1> HIDE DEF Salted
<1>6. Belongs(pendingTemp')
  BY <1>1, <1>2 DEF Belongs
<1>7. Belongs(temp') /\ temp'.key = temp.key
  BY <1>1, <1>3 DEF Belongs
<1>8. Belongs(previousTemp')
  BY <1>1, <1>4 DEF Belongs
<1> QED BY <1>5, <1>6, <1>7, <1>8

LEMMA SaltStep == KeysInv /\ ReadSalt => KeysInv'
<1> SUFFICES ASSUME KeysInv, ReadSalt PROVE KeysInv'
  OBVIOUS
<1> USE Unpacked, Blanks
<1>1. PICK k \in AllKeys \union {NoKey} : k = mail.key
  BY DEF Mails
<1>2. UpdateSalt(k)
  BY <1>1 DEF ReadSalt
<1>3. TempIsBound'
  BY <1>2, SaltFinds DEF ReadSalt, TempIsBound
<1>4. Ages' /\ Promise'
  BY PromiseKept DEF ReadSalt, Ages, ageVars
<1> QED BY <1>2, <1>3, <1>4, SaltFinds, KeysMove DEF ReadSalt

-----------------------------------------------------------------------------
LEMMA InvStep == KeysInv /\ [KeysNext]_keysVars => KeysInv'
<1> SUFFICES ASSUME KeysInv, [KeysNext]_keysVars PROVE KeysInv'
  OBVIOUS
<1>1. CASE KeysNext
  BY <1>1, ManagerSteps, PendingStep, ServerStep, CommitStep, PermanentSteps, MailSteps, SaltStep
     DEF KeysNext
<1>2. CASE UNCHANGED keysVars
  <2>1. Ages' /\ Promise'
    BY <1>2, Unpacked, PromiseKept DEF keysVars, Ages, ageVars
  <2> QED BY <1>2, <2>1, Unpacked, ManagerAlone DEF keysVars
<1> QED BY <1>1, <1>2

(* The inductive invariant holds in every reachable state.                 *)
THEOREM KeysInvariant == KeysSpec => []KeysInv
<1>1. KeysInit => KeysInv
  BY InvStart
<1>2. KeysInv /\ [KeysNext]_keysVars => KeysInv'
  BY InvStep
<1> QED BY <1>1, <1>2, PTL DEF KeysSpec

(* Every key that carries traffic is bound to the permanent key of now and *)
(* every salt that is kept belongs to its key: bindTempAuthKey checks both *)
(* keys again under authMu, and SetAuthKey drops what it derives from.     *)
THEOREM KeysBelongAlways == KeysSpec => []KeysBelong
<1>1. KeysInv => KeysBelong
  BY DEF KeysInv
<1> QED BY <1>1, KeysInvariant, PTL

-----------------------------------------------------------------------------
(***************************************************************************)
(* Outgoing requests (module Outbox).  Three arguments share an invariant: *)
(* a message under way is that of a request that still waits for it and    *)
(* was not executed on this connection (OnItsWay, Once); until the offset  *)
(* is corrected ids and sequence numbers of what was sent ascend together  *)
(* (InStep); and every refusal was owed by a wrong clock or teaches a      *)
(* newer salt, which the account of Paid adds up.                          *)
(***************************************************************************)

Preparing(r) == phase[r] \in {"salt", "write"}
Awaits(r) == phase[r] = "wait" /\ channel[r] = "open"

(* Who has an id and has not written its message holds writeMu.            *)
Locked == \A r \in Requests : Preparing(r) => writeMu = r

(* A message under way is that of a request that waits for its answer, and *)
(* the server has not executed this request on this connection.            *)
Waited(m) == Awaits(m.from) /\ message[m.from] = m /\ executed[m.from] <= line

OnItsWay ==
  /\ \A i \in 1..Len(outgoing) : Waited(outgoing[i])
  /\ \A i, j \in 1..Len(outgoing) : outgoing[i].from = outgoing[j].from => i = j

Numbered ==
  /\ \A r \in Requests :
       /\ message[r].from = r /\ message[r].order <= issued
       /\ channel[r] = "open" => message[r].order > 0
       /\ Preparing(r) => message[r].order = issued
       /\ Preparing(r) /\ via[r] = line => channel[r] = "open"
       /\ phase[r] = "salt" => currentSeqNo < issued
  /\ \A q, r \in Requests : message[q].order = message[r].order => q = r \/ message[q].order = 0

(* What comes in for a request that waits: the message has left, and what  *)
(* the server found wrong with it is wrong with it.                        *)
Answers(m, r) == channel[r] = "open" /\ m.order = message[r].order

Rightly(m, r) ==
  /\ phase[r] = "wait"
  /\ \A j \in 1..Len(outgoing) : outgoing[j].from # r
  /\ m.kind # "result" => executed[r] <= line
  /\ m.kind = "time" => message[r].second \notin -Window..Window
  /\ m.kind = "salt" => message[r].salt < m.salt

Answered ==
  \A i \in 1..Len(incoming) :
    /\ incoming[i].order <= issued
    /\ incoming[i].kind = "session" => incoming[i].order = 0
    /\ \A r \in Requests : Answers(incoming[i], r) => Rightly(incoming[i], r)

Once ==
  \A r \in Requests :
    /\ executed[r] <= 1 + line
    /\ phase[r] \in {"idle", "salt", "write"} => executed[r] <= line
    /\ phase[r] = "wait" /\ channel[r] = "again" => executed[r] <= line

(* The messages the server has accepted or may still accept; while the     *)
(* offset is as it was, their ids and their sequence numbers agree.        *)
Sent == seen \union {outgoing[i] : i \in 1..Len(outgoing)}

Fit(a, b) ==
  /\ a.order < b.order => a.second <= b.second /\ a.seq < b.seq
  /\ a.order = b.order => a.second = b.second

Older(m) == m.order <= issued /\ m.second <= lastSecond /\ m.seq < 2 * currentSeqNo

LastOne(r) ==
  /\ Preparing(r) => message[r].second = lastSecond /\ \A m \in Sent : m.order < issued
  /\ phase[r] = "write" => message[r].seq = 2 * currentSeqNo - 1 /\ \A m \in Sent : m.seq < message[r].seq

Uncorrected == timeOffset = 0 /\ lastOffset = 0
AllFit == \A m \in Sent : Older(m) /\ \A n \in Sent : Fit(m, n)
NewestFits == \A r \in Requests : LastOne(r)
NoneRefused ==
  /\ \A r \in Requests : channel[r] # "refused" /\ phase[r] # "failed"
  /\ \A i \in 1..Len(incoming) : incoming[i].kind # "seq"

InStep == corrected \/ (Uncorrected /\ AllFit /\ NewestFits /\ NoneRefused)

Salted ==
  /\ \A r \in Requests : message[r].salt <= serverSalt
  /\ \A i \in 1..Len(incoming) : serverSalt <= incoming[i].salt /\ incoming[i].salt <= newestSalt
  /\ \A i, j \in 1..Len(incoming) : i <= j => incoming[i].salt <= incoming[j].salt

Late(r) == (Preparing(r) \/ Awaits(r)) /\ message[r].second \notin -Window..Window
Sealed(r) == phase[r] = "write" \/ Awaits(r)
Owes(r) == IF Late(r) \/ ~ InTime THEN 1 ELSE 0
Knows(r) == IF Sealed(r) THEN message[r].salt ELSE serverSalt

Ahead == lastSecond > Window => skew + lastOffset >= lastSecond /\ timeOffset <= lastOffset
Paid == beyond \/ (Ahead /\ \A r \in Requests : refusals[r] + Owes(r) <= steps + Knows(r))

(* OutboxTypeOK in parts: numbers, marks, tables by request, messages.     *)
Phases == {"idle", "salt", "write", "wait", "done", "failed", "exhausted"}
States == {"none", "open", "again", "answer", "refused"}
Replies == [kind : {"time", "salt", "seq", "result", "session"}, order : Nat, salt : Nat]

Numbers ==
  /\ skew \in Int /\ timeOffset \in Int /\ lastSecond \in Int /\ lastOffset \in Int
  /\ issued \in Nat /\ currentSeqNo \in 0..issued
  /\ serverSalt \in 0..newestSalt /\ newestSalt \in 0..MaxEvents
  /\ line \in Nat /\ steps \in Nat /\ notices \in 0..MaxEvents

Marks ==
  /\ skew \in Skews /\ corrected \in BOOLEAN /\ beyond \in BOOLEAN
  /\ writeMu \in Requests \union {Nobody}

Tables ==
  /\ phase \in [Requests -> Phases] /\ channel \in [Requests -> States]
  /\ tries \in [Requests -> 0..Attempts] /\ via \in [Requests -> 0..line]
  /\ executed \in [Requests -> Nat] /\ refusals \in [Requests -> Nat]

Post ==
  /\ message \in [Requests -> Messages] /\ seen \subseteq Messages
  /\ outgoing \in Seq(Messages) /\ incoming \in Seq(Replies)

OutboxInv ==
  /\ Numbers /\ Marks /\ Tables /\ Post
  /\ Locked /\ OnItsWay /\ Numbered /\ Answered /\ Once /\ InStep /\ Salted /\ Paid

LEMMA OutboxParts == OutboxTypeOK <=> Numbers /\ Marks /\ Tables /\ Post
BY OutboxAssumption
   DEF OutboxTypeOK, Numbers, Marks, Tables, Post, Phases, States, Replies

(* The same, entry by entry.                                               *)
Fields ==
  /\ \A q \in Requests :
       /\ message[q].from \in Requests /\ message[q].second \in Int /\ message[q].order \in Nat
       /\ message[q].seq \in Nat /\ message[q].salt \in Nat
       /\ executed[q] \in Nat /\ refusals[q] \in Nat /\ via[q] \in 0..line
  /\ Len(outgoing) \in Nat /\ Len(incoming) \in Nat
  /\ \A i \in 1..Len(outgoing) : outgoing[i] \in Messages
  /\ \A i \in 1..Len(incoming) :
       incoming[i] \in Replies /\ incoming[i].order \in Nat /\ incoming[i].salt \in Nat
  /\ \A m \in Sent :
       m.from \in Requests /\ m.second \in Int /\ m.order \in Nat /\ m.seq \in Nat /\ m.salt \in Nat

LEMMA EachField == Tables /\ Post => Fields
<1> SUFFICES ASSUME Tables, Post PROVE Fields
  OBVIOUS
<1>1. /\ Len(outgoing) \in Nat /\ Len(incoming) \in Nat
      /\ \A i \in 1..Len(outgoing) : outgoing[i] \in Messages
      /\ \A i \in 1..Len(incoming) : incoming[i] \in Replies
  BY DEF Post
<1>2. \A q \in Requests :
        /\ message[q] \in Messages /\ executed[q] \in Nat /\ refusals[q] \in Nat /\ via[q] \in 0..line
  BY DEF Tables, Post
<1>3. Sent \subseteq Messages
  BY <1>1 DEF Sent, Post
<1> QED BY <1>1, <1>2, <1>3 DEF Fields, Messages, Replies

LEMMA AppendFacts ==
  ASSUME NEW S, NEW q \in Seq(S), NEW e \in S
  PROVE  /\ Append(q, e) \in Seq(S) /\ Len(Append(q, e)) = Len(q) + 1 /\ Len(q) \in Nat
         /\ Append(q, e)[Len(q) + 1] = e
         /\ \A i \in 1..Len(q) : Append(q, e)[i] = q[i]
OBVIOUS

LEMMA TailFacts ==
  ASSUME NEW S, NEW q \in Seq(S), q # <<>>
  PROVE  /\ Tail(q) \in Seq(S) /\ Len(q) \in Nat \ {0} /\ Len(Tail(q)) = Len(q) - 1
         /\ Head(q) = q[1] /\ Head(q) \in S
         /\ \A i \in 1..Len(Tail(q)) : Tail(q)[i] = q[i + 1]
OBVIOUS

(* All that a step of request r leaves alone.                              *)
Alone(r) ==
  \A q \in Requests \ {r} :
    /\ phase'[q] = phase[q] /\ channel'[q] = channel[q]
    /\ message'[q] = message[q] /\ via'[q] = via[q]

LEMMA FieldsAfter == Tables' /\ Post' => Fields'
<1>1. Tables /\ Post => Fields
  BY EachField
<1> QED BY <1>1, PTL

LEMMA SentStays ==
  ASSUME outgoing' = outgoing, seen' = seen
  PROVE  Sent' = Sent
BY DEF Sent

(* Without a new refusal, what is owed and what is known decide.           *)
LEMMA PaidMove ==
  ASSUME Numbers, Numbers', Fields, Fields', Paid,
         beyond' = beyond, Ahead => Ahead', steps' = steps, refusals' = refusals,
         \A q \in Requests : Owes(q)' <= Owes(q) /\ Knows(q) <= Knows(q)'
  PROVE  Paid'
<1>1. CASE beyond
  BY <1>1 DEF Paid
<1>2. CASE ~ beyond
  <2>1. ASSUME NEW q \in Requests PROVE (refusals[q] + Owes(q) <= steps + Knows(q))'
    <3>0. Owes(q) \in Nat /\ Owes(q)' \in Nat
      BY DEF Owes
    <3>1. /\ Owes(q) \in Nat /\ Owes(q)' \in Nat /\ Knows(q) \in Nat /\ Knows(q)' \in Nat
      <4>1. Knows(q) \in Nat
        BY DEF Knows, Fields, Numbers
      <4>2. Knows(q)' \in Nat
        BY DEF Knows, Fields, Numbers
      <4> QED BY <3>0, <4>1, <4>2
    <3>2. refusals[q] \in Nat /\ steps \in Nat /\ refusals[q] + Owes(q) <= steps + Knows(q)
      BY <1>2 DEF Paid, Fields, Numbers
    <3>3. Owes(q)' <= Owes(q) /\ Knows(q) <= Knows(q)'
      OBVIOUS
    <3>4. refusals'[q] = refusals[q] /\ steps' = steps
      OBVIOUS
    <3> HIDE DEF Owes, Knows
    <3> QED BY ONLY <3>1, <3>2, <3>3, <3>4
  <2> QED BY <1>2, <2>1 DEF Paid
<1> QED BY <1>1, <1>2

-----------------------------------------------------------------------------
LEMMA NewIdKeeps ==
  ASSUME OutboxInv, NEW r \in Requests, NewId(r)
  PROVE  OutboxInv'
<1>0. /\ Numbers /\ Marks /\ Tables /\ Post /\ Fields
      /\ Locked /\ OnItsWay /\ Numbered /\ Answered /\ Once /\ InStep /\ Salted /\ Paid
  BY EachField DEF OutboxInv
<1>s. NewSecond \in Int
  BY <1>0 DEF NewSecond, Numbers
<1>1. /\ phase[r] = "idle" /\ phase'[r] = "salt" /\ channel'[r] = "open" /\ via'[r] = line
      /\ message'[r] = [from |-> r, second |-> NewSecond, order |-> issued + 1, seq |-> 0, salt |-> 0]
      /\ writeMu = Nobody /\ writeMu' = r /\ Alone(r)
      /\ tries[r] < Attempts /\ tries' = [tries EXCEPT ![r] = @ + 1]
      /\ lastSecond' = NewSecond /\ lastOffset' = timeOffset /\ issued' = issued + 1
      /\ UNCHANGED <<currentSeqNo, clock, network, server, learned>>
  BY <1>0 DEF NewId, GiveId, Enter, Blank, Alone, Tables, Post
<1>u. /\ UNCHANGED <<currentSeqNo, skew, steps, beyond, line, outgoing, incoming, newestSalt, seen,
                     executed, notices, timeOffset, serverSalt, refusals, corrected>>
      /\ Sent' = Sent
  BY <1>1, SentStays DEF clock, network, server, learned
<1>m. /\ message'[r].from = r /\ message'[r].second = NewSecond /\ message'[r].order = issued + 1
      /\ message'[r].seq = 0 /\ message'[r].salt = 0
  BY <1>1
<1>2. Numbers'
  BY <1>0, <1>s, <1>1, <1>u DEF Numbers
<1>3. Marks' /\ Tables'
  <2>1. Marks'
    BY <1>0, <1>1, <1>u DEF Marks
  <2>2. phase' \in [Requests -> Phases] /\ channel' \in [Requests -> States]
    BY <1>0 DEF NewId, GiveId, Enter, Tables, Phases, States
  <2>3. tries' \in [Requests -> 0..Attempts] /\ via' \in [Requests -> 0..line]
    BY <1>0, OutboxAssumption DEF NewId, GiveId, Tables, Numbers
  <2> QED BY <1>0, <1>u, <2>1, <2>2, <2>3 DEF Tables
<1>4. Post'
  <2>1. [from |-> r, second |-> NewSecond, order |-> issued + 1, seq |-> 0, salt |-> 0] \in Messages
    BY <1>0, <1>s DEF Messages, Numbers
  <2>2. message' \in [Requests -> Messages]
    BY <1>0, <2>1 DEF NewId, GiveId, Blank, Post
  <2> QED BY <1>0, <1>u, <2>2 DEF Post
<1>f. Fields'
  BY <1>3, <1>4, FieldsAfter
<1> HIDE DEF NewId
<1>5. Locked'
  BY <1>0, <1>1, OutboxAssumption DEF Locked, Preparing, Alone
<1>6. OnItsWay'
  <2>1. \A i \in 1..Len(outgoing) : outgoing[i].from \in Requests \ {r}
    BY <1>0, <1>1 DEF OnItsWay, Waited, Awaits, Fields, Messages
  <2> QED BY <1>0, <1>1, <1>u, <2>1 DEF OnItsWay, Waited, Awaits, Alone
<1>7. Numbered'
  <2>1. \A q \in Requests \ {r} : ~ Preparing(q)
    BY <1>0, <1>1, OutboxAssumption DEF Locked
  <2>2. \A q \in Requests \ {r} : message'[q] = message[q] /\ message[q].order < message'[r].order
    BY <1>0, <1>1, <1>m DEF Numbered, Alone, Numbers, Fields
  <2>3. ASSUME NEW q \in Requests
        PROVE  /\ message'[q].from = q /\ message'[q].order <= issued'
               /\ channel'[q] = "open" => message'[q].order > 0
               /\ Preparing(q)' => message'[q].order = issued'
               /\ Preparing(q)' /\ via'[q] = line' => channel'[q] = "open"
               /\ phase'[q] = "salt" => currentSeqNo' < issued'
    <3>1. CASE q = r
      BY <3>1, <1>0, <1>1, <1>m, <1>u DEF Numbers
    <3>2. CASE q # r
      <4>1. /\ phase'[q] = phase[q] /\ channel'[q] = channel[q] /\ message'[q] = message[q]
            /\ message[q].order \in Nat /\ issued \in Nat /\ issued' = issued + 1 /\ ~ Preparing(q)
        BY <3>2, <2>1, <2>2, <1>0, <1>1 DEF Alone, Numbers, Fields
      <4> QED BY <4>1, <1>0 DEF Numbered, Preparing
    <3> QED BY <3>1, <3>2
  <2>4. ASSUME NEW q \in Requests, NEW s \in Requests, message'[q].order = message'[s].order
        PROVE  q = s \/ message'[q].order = 0
    <3>1. \A p \in Requests \ {r} : message'[p].order \in Nat /\ message'[p].order # message'[r].order
      BY <2>2, <1>0, <1>m DEF Fields, Numbers
    <3>2. q = r <=> s = r
      BY <3>1, <2>4
    <3> QED BY <3>2, <2>2, <2>4, <1>0 DEF Numbered
  <2> QED BY <2>3, <2>4 DEF Numbered
<1>8. Answered'
  <2>1. ASSUME NEW i \in 1..Len(incoming)
        PROVE  incoming[i].order <= issued' /\ incoming[i].order # message'[r].order
    BY <1>0, <1>1, <1>m DEF Answered, Numbers, Fields
  <2>2. ASSUME NEW i \in 1..Len(incoming), NEW q \in Requests, Answers(incoming[i], q)'
        PROVE  Rightly(incoming[i], q)'
    <3>1. q # r
      BY <2>1, <2>2, <1>u DEF Answers
    <3> QED BY <2>2, <3>1, <1>0, <1>1, <1>u DEF Answered, Answers, Rightly, Alone
  <2> QED BY <2>1, <2>2, <1>0, <1>u DEF Answered
<1>9. Once'
  BY <1>0, <1>1, <1>u DEF Once, Alone
<1>10. InStep'
  <2>1. CASE corrected
    BY <2>1, <1>u DEF InStep
  <2>2. CASE ~ corrected
    <3>1. Uncorrected /\ AllFit /\ NoneRefused
      BY <1>0, <2>2 DEF InStep
    <3>2. lastSecond <= NewSecond /\ issued < issued'
      BY <3>1, <1>0, <1>1 DEF Uncorrected, NewSecond, Numbers
    <3>3. AllFit'
      BY <3>1, <3>2, <1>0, <1>1, <1>s, <1>u DEF AllFit, Older, Fit, Fields, Numbers
    <3>4. \A q \in Requests \ {r} : ~ Preparing(q)
      BY <1>0, <1>1, OutboxAssumption DEF Locked
    <3>5. NewestFits'
      BY <3>1, <3>4, <1>0, <1>1, <1>m, <1>u DEF AllFit, Older, NewestFits, LastOne, Preparing, Alone, Fields, Numbers
    <3>6. NoneRefused'
      BY <3>1, <1>1, <1>u DEF NoneRefused, Alone
    <3> QED BY <3>1, <3>3, <3>5, <3>6, <1>1, <1>u DEF InStep, Uncorrected
  <2> QED BY <2>1, <2>2
<1>11. Salted'
  BY <1>0, <1>1, <1>u, <1>m DEF Salted, Alone, Numbers
<1>12. Paid'
  <2>1. CASE beyond
    BY <2>1, <1>u DEF Paid
  <2>2. CASE ~ beyond
    <3>1. Ahead
      BY <2>2, <1>0 DEF Paid
    <3>2. Ahead'
      BY <3>1, <1>0, <1>1, <1>u DEF Ahead, NewSecond, Numbers
    <3>3. NewSecond \notin -Window..Window => ~ InTime
      BY <3>1, <1>0, OutboxAssumption DEF Ahead, NewSecond, InTime, Numbers
    <3>4. InTime' = InTime
      BY <1>u DEF InTime
    <3>5. ASSUME NEW q \in Requests PROVE Owes(q)' <= Owes(q) /\ Knows(q) <= Knows(q)'
      <4>1. CASE q = r
        <5>1. Owes(q)' <= Owes(q)
          BY <4>1, <1>1, <1>m, <1>u, <3>3, <3>4 DEF Owes, Late, Preparing, Awaits
        <5>2. Knows(q) = serverSalt /\ Knows(q)' = serverSalt
          BY <4>1, <1>1, <1>u DEF Knows, Sealed, Awaits
        <5> QED BY <5>1, <5>2, <1>0 DEF Numbers
      <4>2. CASE q # r
        <5>1. Owes(q)' = Owes(q) /\ Knows(q)' = Knows(q)
          BY <4>2, <1>1, <1>u, <3>4 DEF Owes, Knows, Late, Sealed, Preparing, Awaits, Alone
        <5> QED BY <5>1, <1>0 DEF Owes, Knows, Fields, Numbers
      <4> QED BY <4>1, <4>2
    <3> QED BY <3>2, <3>5, <1>0, <1>2, <1>3, <1>4, <1>u, <1>f, PaidMove
  <2> QED BY <2>1, <2>2
<1> QED BY <1>2, <1>3, <1>4, <1>5, <1>6, <1>7, <1>8, <1>9, <1>10, <1>11, <1>12 DEF OutboxInv

LEMMA SaltAndSeqKeeps ==
  ASSUME OutboxInv, NEW r \in Requests, SaltAndSeq(r)
  PROVE  OutboxInv'
<1>0. /\ Numbers /\ Marks /\ Tables /\ Post /\ Fields
      /\ Locked /\ OnItsWay /\ Numbered /\ Answered /\ Once /\ InStep /\ Salted /\ Paid
  BY EachField DEF OutboxInv
<1>1. /\ phase[r] = "salt" /\ phase'[r] = "write" /\ Alone(r)
      /\ message'[r].from = message[r].from /\ message'[r].second = message[r].second
      /\ message'[r].order = message[r].order /\ message'[r].salt = serverSalt
      /\ message'[r].seq = 2 * currentSeqNo + 1
      /\ currentSeqNo' = currentSeqNo + 1
      /\ UNCHANGED <<tries, via, writeMu, lastSecond, lastOffset, issued, channel>>
      /\ UNCHANGED <<clock, network, server, learned>>
  BY <1>0 DEF SaltAndSeq, Enter, Alone, Tables, Post, Messages
<1>u. /\ UNCHANGED <<skew, steps, beyond, line, outgoing, incoming, newestSalt, seen,
                     executed, notices, timeOffset, serverSalt, refusals, corrected>>
      /\ Sent' = Sent
  BY <1>1, SentStays DEF clock, network, server, learned
<1>n. writeMu = r /\ \A q \in Requests \ {r} : ~ Preparing(q) /\ ~ Preparing(q)'
  BY <1>0, <1>1 DEF Locked, Preparing, Alone
<1>a. message[r].order = issued
  BY <1>0, <1>1 DEF Numbered, Preparing
<1>2. Numbers'
  <2>1. currentSeqNo' \in 0..issued'
    BY <1>0, <1>1 DEF Numbers, Numbered
  <2> QED BY <2>1, <1>0, <1>1, <1>u DEF Numbers
<1>3. Marks' /\ Tables'
  <2>1. phase' \in [Requests -> Phases]
    BY <1>0 DEF SaltAndSeq, Enter, Tables, Phases
  <2> QED BY <1>0, <1>1, <1>u, <2>1 DEF Tables, Marks
<1>4. Post'
  <2>1. message' \in [Requests -> Messages]
    <3> DEFINE new == [message[r] EXCEPT !.salt = serverSalt, !.seq = 2 * currentSeqNo + 1]
    <3>1. new \in Messages
      <4>1. message[r] \in Messages /\ serverSalt \in Nat /\ 2 * currentSeqNo + 1 \in Nat
        BY <1>0 DEF Post, Numbers
      <4> QED BY <4>1 DEF Messages
    <3>2. message' = [message EXCEPT ![r] = new]
      BY <1>0 DEF SaltAndSeq, Post, Messages
    <3> HIDE DEF new
    <3> QED BY <3>1, <3>2, <1>0 DEF Post
  <2> QED BY <1>0, <1>u, <2>1 DEF Post
<1>f. Fields'
  BY <1>3, <1>4, FieldsAfter
<1>5. Locked'
  BY <1>n, <1>1 DEF Locked
<1>6. OnItsWay'
  <2>1. \A i \in 1..Len(outgoing) : outgoing[i].from \in Requests \ {r}
    BY <1>0, <1>1 DEF OnItsWay, Waited, Awaits, Fields, Messages
  <2> QED BY <1>0, <1>1, <1>u, <2>1 DEF OnItsWay, Waited, Awaits, Alone
<1>7. Numbered'
  <2>1. \A q \in Requests : message'[q].from = message[q].from /\ message'[q].order = message[q].order
    BY <1>1 DEF Alone
  <2>2. \A q \in Requests : Preparing(q)' <=> Preparing(q)
    BY <1>1 DEF Preparing, Alone
  <2>3. \A q \in Requests : phase'[q] # "salt"
    BY <1>1, <1>n DEF Preparing
  <2> QED BY <2>1, <2>2, <2>3, <1>0, <1>1, <1>u DEF Numbered
<1>8. Answered'
  <2>1. \A q \in Requests : message'[q].order = message[q].order
    BY <1>1 DEF Alone
  <2>2. ASSUME NEW i \in 1..Len(incoming), NEW q \in Requests, Answers(incoming[i], q)'
        PROVE  Rightly(incoming[i], q)'
    <3>1. Rightly(incoming[i], q)
      BY <2>1, <2>2, <1>0, <1>1, <1>u DEF Answers, Answered
    <3>2. q # r
      BY <3>1, <1>1 DEF Rightly
    <3> QED BY <3>1, <3>2, <1>1, <1>u DEF Rightly, Alone
  <2> QED BY <2>2, <1>0, <1>1, <1>u DEF Answered
<1>9. Once'
  BY <1>0, <1>1, <1>u DEF Once, Alone
<1>10. InStep'
  <2>1. CASE corrected
    BY <2>1, <1>u DEF InStep
  <2>2. CASE ~ corrected
    <3>1. Uncorrected /\ AllFit /\ NewestFits /\ NoneRefused
      BY <1>0, <2>2 DEF InStep
    <3>2. currentSeqNo \in Nat
      BY <1>0 DEF Numbers
    <3>3. AllFit'
      BY <3>1, <3>2, <1>0, <1>1, <1>u DEF AllFit, Older, Fit, Fields
    <3>4. NewestFits'
      BY <3>1, <3>2, <1>n, <1>0, <1>1, <1>u DEF AllFit, Older, NewestFits, LastOne, Preparing, Fields
    <3>5. NoneRefused'
      BY <3>1, <1>1, <1>u DEF NoneRefused, Alone
    <3> QED BY <3>1, <3>3, <3>4, <3>5, <1>1, <1>u DEF InStep, Uncorrected
  <2> QED BY <2>1, <2>2
<1>11. Salted'
  BY <1>0, <1>1, <1>u DEF Salted, Alone, Numbers
<1>12. Paid'
  <2>1. Ahead => Ahead'
    BY <1>1, <1>u DEF Ahead
  <2>2. ASSUME NEW q \in Requests PROVE Owes(q)' <= Owes(q) /\ Knows(q) <= Knows(q)'
    <3>1. Owes(q)' = Owes(q)
      BY <1>1, <1>u DEF Owes, Late, Preparing, Awaits, Alone, InTime
    <3>2. Knows(q)' = Knows(q)
      BY <1>1, <1>u DEF Knows, Sealed, Awaits, Alone
    <3> QED BY <3>1, <3>2, <1>0 DEF Owes, Knows, Fields, Numbers
  <2> QED BY <2>1, <2>2, <1>0, <1>2, <1>f, <1>u, PaidMove
<1> QED BY <1>2, <1>3, <1>4, <1>5, <1>6, <1>7, <1>8, <1>9, <1>10, <1>11, <1>12 DEF OutboxInv

LEMMA PutKeeps ==
  ASSUME OutboxInv, NEW r \in Requests, Put(r)
  PROVE  OutboxInv'
<1>0. /\ Numbers /\ Marks /\ Tables /\ Post /\ Fields
      /\ Locked /\ OnItsWay /\ Numbered /\ Answered /\ Once /\ InStep /\ Salted /\ Paid
  BY EachField DEF OutboxInv
<1>1. /\ phase[r] = "write" /\ phase'[r] \in {"wait", "idle", "exhausted"}
      /\ writeMu' = Nobody /\ Alone(r) /\ message' = message
      /\ UNCHANGED <<tries, message, via, line, incoming, clock, generator, server, learned>>
  BY <1>0 DEF Put, Enter, NextTry, Alone, Tables
<1>u. UNCHANGED <<tries, message, via, line, incoming, skew, steps, beyond, lastSecond, lastOffset,
                  issued, currentSeqNo, newestSalt, seen, executed, notices, timeOffset, serverSalt,
                  refusals, corrected>>
  BY <1>1 DEF clock, generator, server, learned
<1>w. \/ /\ via[r] = line /\ phase'[r] = "wait" /\ channel' = channel /\ channel[r] = "open"
         /\ outgoing' = Append(outgoing, message[r])
      \/ /\ phase'[r] \in {"idle", "exhausted"} /\ channel'[r] = "none" /\ outgoing' = outgoing
  <2>1. CASE via[r] = line
    BY <2>1, <1>0, <1>1 DEF Put, Enter, Tables, Numbered, Preparing
  <2>2. CASE via[r] # line
    BY <2>2, <1>0 DEF Put, Enter, NextTry, Tables
  <2> QED BY <2>1, <2>2
<1>n. \A q \in Requests : ~ Preparing(q)'
  <2>1. \A q \in Requests \ {r} : ~ Preparing(q)
    BY <1>0, <1>1 DEF Locked, Preparing
  <2> QED BY <2>1, <1>1 DEF Preparing, Alone
<1>q. /\ message[r] \in Messages /\ message[r].from = r
      /\ \A i \in 1..Len(outgoing) : outgoing[i].from \in Requests \ {r}
  BY <1>0, <1>1 DEF OnItsWay, Waited, Awaits, Fields, Messages, Post, Numbered
<1>a. outgoing \in Seq(Messages) /\ message[r] \in Messages
  BY <1>0, <1>q DEF Post
<1>p. outgoing' = outgoing \/
      /\ phase'[r] = "wait" /\ channel'[r] = "open"
      /\ outgoing' \in Seq(Messages) /\ Len(outgoing') = Len(outgoing) + 1
      /\ outgoing'[Len(outgoing) + 1] = message[r]
      /\ \A i \in 1..Len(outgoing) : outgoing'[i] = outgoing[i]
  BY <1>a, <1>w, AppendFacts
<1>2. Numbers'
  BY <1>0, <1>u DEF Numbers
<1>3. Marks' /\ Tables'
  <2>1. phase' \in [Requests -> Phases] /\ channel' \in [Requests -> States]
    BY <1>0 DEF Put, Enter, NextTry, Tables, Phases, States
  <2> QED BY <1>0, <1>1, <1>u, <2>1 DEF Tables, Marks
<1>4. Post'
  BY <1>0, <1>u, <1>p DEF Post
<1>f. Fields'
  BY <1>3, <1>4, FieldsAfter
<1>5. Locked'
  BY <1>n DEF Locked
<1>6. OnItsWay'
  <2>1. ASSUME NEW m, m.from \in Requests \ {r}, Waited(m) PROVE Waited(m)'
    BY <2>1, <1>1, <1>u DEF Waited, Awaits, Alone
  <2>2. CASE outgoing' = outgoing
    BY <2>1, <2>2, <1>0, <1>q DEF OnItsWay
  <2>3. CASE outgoing' # outgoing
    <3>1. ASSUME NEW m, m = message[r] PROVE Waited(m)'
      BY <2>3, <3>1, <1>0, <1>1, <1>p, <1>q, <1>u DEF Waited, Awaits, Once
    <3>2. \A i \in 1..Len(outgoing') : i = Len(outgoing) + 1 \/ i \in 1..Len(outgoing)
      BY <2>3, <1>p, <1>0 DEF Fields
    <3>3. ASSUME NEW i \in 1..Len(outgoing') PROVE Waited(outgoing[i])'
      <4>1. PICK m : m = outgoing'[i]
        OBVIOUS
      <4>2. Waited(m)'
        <5>1. CASE i = Len(outgoing) + 1
          BY <5>1, <4>1, <3>1, <2>3, <1>p
        <5>2. CASE i \in 1..Len(outgoing)
          BY <5>2, <4>1, <2>1, <2>3, <1>p, <1>q, <1>0 DEF OnItsWay
        <5> QED BY <5>1, <5>2, <3>2
      <4> QED BY <4>1, <4>2 DEF Waited, Awaits
    <3>4. \A i, j \in 1..Len(outgoing') : outgoing'[i].from = outgoing'[j].from => i = j
      BY <2>3, <3>2, <1>p, <1>q, <1>0 DEF OnItsWay
    <3> QED BY <3>3, <3>4 DEF OnItsWay
  <2> QED BY <2>2, <2>3
<1>7. Numbered'
  <2>1. \A q \in Requests : channel'[q] = "open" => channel[q] = "open"
    BY <1>1, <1>w DEF Alone
  <2> QED BY <2>1, <1>n, <1>0, <1>u DEF Numbered, Preparing
<1>8. Answered'
  <2>1. ASSUME NEW i \in 1..Len(incoming), NEW q \in Requests, Answers(incoming[i], q)'
        PROVE  Rightly(incoming[i], q)'
    <3>1. Answers(incoming[i], q)
      BY <2>1, <1>1, <1>u, <1>w DEF Answers, Alone
    <3>2. Rightly(incoming[i], q)
      BY <3>1, <1>0 DEF Answered
    <3>3. q # r
      BY <3>2, <1>1 DEF Rightly
    <3>4. \A j \in 1..Len(outgoing') : outgoing'[j].from # q
      BY <3>2, <3>3, <1>p, <1>q, <1>0 DEF Rightly, Fields
    <3> QED BY <3>2, <3>3, <3>4, <1>1, <1>u DEF Rightly, Alone
  <2> QED BY <2>1, <1>0, <1>u DEF Answered
<1>9. Once'
  <2>1. ASSUME NEW q \in Requests
        PROVE  /\ phase'[q] \in {"idle", "salt", "write"} => executed[q] <= line
               /\ phase'[q] = "wait" /\ channel'[q] = "again" => executed[q] <= line
    BY <1>0, <1>1 DEF Once, Alone
  <2> QED BY <2>1, <1>0, <1>u DEF Once
<1>10. InStep'
  <2>1. CASE corrected
    BY <2>1, <1>u DEF InStep
  <2>2. CASE ~ corrected
    <3>1. Uncorrected /\ AllFit /\ NewestFits /\ NoneRefused
      BY <1>0, <2>2 DEF InStep
    <3>2. Sent' \subseteq Sent \union {message[r]}
      BY <1>p, <1>u, <1>0 DEF Sent, Fields
    <3>3. LastOne(r) /\ message[r].order = issued
      BY <3>1, <1>0, <1>1 DEF NewestFits, Numbered, Preparing
    <3>4. /\ message[r].second = lastSecond /\ message[r].seq = 2 * currentSeqNo - 1
          /\ \A m \in Sent : m.order < issued /\ m.seq < message[r].seq
      BY <3>3, <1>1 DEF LastOne, Preparing
    <3>5. /\ currentSeqNo \in Nat /\ issued \in Nat /\ lastSecond \in Int
          /\ message[r].order \in Nat /\ message[r].seq \in Nat
      BY <1>0 DEF Numbers, Fields
    <3>6. \A m \in Sent \union {message[r]} : Older(m)
      BY <3>1, <3>3, <3>4, <3>5 DEF AllFit, Older
    <3>7. \A m, n \in Sent \union {message[r]} : Fit(m, n)
      BY <3>1, <3>3, <3>4, <3>5, <1>0 DEF AllFit, Older, Fit, Fields
    <3>8. AllFit'
      BY <3>2, <3>6, <3>7, <1>u DEF AllFit, Older, Fit
    <3>9. NewestFits'
      BY <1>n, <1>1 DEF NewestFits, LastOne, Preparing
    <3>10. NoneRefused'
      BY <3>1, <1>1, <1>u, <1>w DEF NoneRefused, Alone
    <3> QED BY <3>1, <3>8, <3>9, <3>10, <1>u DEF InStep, Uncorrected
  <2> QED BY <2>1, <2>2
<1>11. Salted'
  BY <1>0, <1>u DEF Salted
<1>12. Paid'
  <2>1. Ahead => Ahead'
    BY <1>u DEF Ahead
  <2>2. ASSUME NEW q \in Requests PROVE Owes(q)' <= Owes(q) /\ Knows(q) <= Knows(q)'
    <3>1. CASE q = r
      <4>1. Late(q)' => Late(q)
        BY <3>1, <1>1, <1>n DEF Late, Preparing, Awaits
      <4>2. Owes(q)' <= Owes(q)
        BY <4>1, <1>u DEF Owes, InTime
      <4>3. Knows(q) = message[r].salt /\ Knows(q)' \in {message[r].salt, serverSalt}
        BY <3>1, <1>1, <1>u DEF Knows, Sealed
      <4> QED BY <4>2, <4>3, <1>0 DEF Salted, Fields, Numbers
    <3>2. CASE q # r
      <4>1. Owes(q)' = Owes(q) /\ Knows(q)' = Knows(q)
        BY <3>2, <1>1, <1>u DEF Owes, Late, Preparing, Awaits, Alone, InTime, Knows, Sealed
      <4> QED BY <4>1, <1>0 DEF Owes, Knows, Fields, Numbers
    <3> QED BY <3>1, <3>2
  <2> QED BY <2>1, <2>2, <1>0, <1>2, <1>f, <1>u, PaidMove
<1> QED BY <1>2, <1>3, <1>4, <1>5, <1>6, <1>7, <1>8, <1>9, <1>10, <1>11, <1>12 DEF OutboxInv

LEMMA TakeAnswerKeeps ==
  ASSUME OutboxInv, NEW r \in Requests, TakeAnswer(r)
  PROVE  OutboxInv'
<1>0. /\ Numbers /\ Marks /\ Tables /\ Post /\ Fields
      /\ Locked /\ OnItsWay /\ Numbered /\ Answered /\ Once /\ InStep /\ Salted /\ Paid
  BY EachField DEF OutboxInv
<1>1. /\ phase[r] = "wait" /\ phase'[r] \in {"done", "failed", "idle", "exhausted"}
      /\ phase'[r] = "idle" => channel[r] = "again"
      /\ phase'[r] = "failed" => channel[r] = "refused"
      /\ channel[r] \in {"answer", "refused", "again"} /\ channel'[r] = "none"
      /\ Alone(r) /\ message' = message
      /\ UNCHANGED <<tries, message, via, writeMu, clock, generator, network, server, learned>>
  <2>1. /\ phase[r] = "wait" /\ channel[r] \in {"answer", "refused", "again"}
        /\ channel' = [channel EXCEPT ![r] = "none"]
        /\ UNCHANGED <<tries, message, via, writeMu, clock, generator, network, server, learned>>
    BY DEF TakeAnswer
  <2>2. \E p \in {"done", "failed", "idle", "exhausted"} :
          /\ Enter(r, p) /\ (p = "idle" => channel[r] = "again") /\ (p = "failed" => channel[r] = "refused")
    <3>1. CASE channel[r] = "answer"
      BY <3>1 DEF TakeAnswer
    <3>2. CASE channel[r] = "refused"
      BY <3>2 DEF TakeAnswer
    <3>3. CASE channel[r] = "again"
      BY <3>3 DEF TakeAnswer, NextTry
    <3> QED BY <2>1, <3>1, <3>2, <3>3
  <2> QED BY <2>1, <2>2, <1>0 DEF Enter, Alone, Tables
<1>u. /\ UNCHANGED <<tries, message, via, writeMu, line, outgoing, incoming, skew, steps, beyond,
                     lastSecond, lastOffset, issued, currentSeqNo, newestSalt, seen, executed,
                     notices, timeOffset, serverSalt, refusals, corrected>>
      /\ Sent' = Sent
  BY <1>1, SentStays DEF clock, generator, network, server, learned
<1>p. \A q \in Requests : Preparing(q)' <=> Preparing(q) /\ q # r
  BY <1>1 DEF Preparing, Alone
<1>2. Numbers'
  BY <1>0, <1>u DEF Numbers
<1>3. Marks' /\ Tables'
  <2>1. phase' \in [Requests -> Phases] /\ channel' \in [Requests -> States]
    BY <1>0 DEF TakeAnswer, Enter, NextTry, Tables, Phases, States
  <2> QED BY <1>0, <1>1, <1>u, <2>1 DEF Tables, Marks
<1>4. Post'
  BY <1>0, <1>u DEF Post
<1>f. Fields'
  BY <1>3, <1>4, FieldsAfter
<1>5. Locked'
  BY <1>0, <1>p, <1>u DEF Locked
<1>6. OnItsWay'
  <2>1. \A i \in 1..Len(outgoing) : outgoing[i].from \in Requests \ {r}
    BY <1>0, <1>1 DEF OnItsWay, Waited, Awaits, Fields, Messages
  <2> QED BY <1>0, <1>1, <1>u, <2>1 DEF OnItsWay, Waited, Awaits, Alone
<1>7. Numbered'
  <2>1. \A q \in Requests :
          /\ channel'[q] = "open" => channel[q] = "open"
          /\ phase'[q] = "salt" => phase[q] = "salt"
          /\ Preparing(q)' => Preparing(q) /\ channel'[q] = channel[q]
    BY <1>1, <1>p DEF Alone
  <2> QED BY <2>1, <1>0, <1>u DEF Numbered
<1>8. Answered'
  <2>1. ASSUME NEW i \in 1..Len(incoming), NEW q \in Requests, Answers(incoming[i], q)'
        PROVE  Rightly(incoming[i], q)'
    <3>1. q # r
      BY <2>1, <1>1 DEF Answers
    <3>2. Rightly(incoming[i], q)
      BY <2>1, <3>1, <1>0, <1>1, <1>u DEF Answers, Alone, Answered
    <3> QED BY <3>1, <3>2, <1>1, <1>u DEF Rightly, Alone
  <2> QED BY <2>1, <1>0, <1>u DEF Answered
<1>9. Once'
  BY <1>0, <1>1, <1>u DEF Once, Alone
<1>10. InStep'
  <2>1. CASE corrected
    BY <2>1, <1>u DEF InStep
  <2>2. CASE ~ corrected
    <3>1. Uncorrected /\ AllFit /\ NewestFits /\ NoneRefused
      BY <1>0, <2>2 DEF InStep
    <3>2. AllFit'
      BY <3>1, <1>u DEF AllFit, Older, Fit
    <3>3. NewestFits'
      <4>1. \A q \in Requests : phase'[q] = "write" => phase[q] = "write"
        BY <1>1 DEF Alone
      <4> QED BY <3>1, <4>1, <1>p, <1>u DEF NewestFits, LastOne
    <3>4. NoneRefused'
      BY <3>1, <1>1, <1>u DEF NoneRefused, Alone
    <3> QED BY <3>1, <3>2, <3>3, <3>4, <1>u DEF InStep, Uncorrected
  <2> QED BY <2>1, <2>2
<1>11. Salted'
  BY <1>0, <1>u DEF Salted
<1>12. Paid'
  <2>1. Ahead => Ahead'
    BY <1>u DEF Ahead
  <2>2. ASSUME NEW q \in Requests PROVE Owes(q)' <= Owes(q) /\ Knows(q) <= Knows(q)'
    <3>1. (Late(q)' => Late(q)) /\ (Sealed(q)' <=> Sealed(q))
      BY <1>1, <1>p, <1>u DEF Late, Awaits, Sealed, Alone
    <3>2. Owes(q)' <= Owes(q)
      BY <3>1, <1>u DEF Owes, InTime
    <3>3. Knows(q)' = Knows(q) /\ Knows(q) \in Nat
      BY <3>1, <1>u, <1>0 DEF Knows, Fields, Numbers
    <3> QED BY <3>2, <3>3
  <2> QED BY <2>1, <2>2, <1>0, <1>2, <1>f, <1>u, PaidMove
<1> QED BY <1>2, <1>3, <1>4, <1>5, <1>6, <1>7, <1>8, <1>9, <1>10, <1>11, <1>12 DEF OutboxInv

-----------------------------------------------------------------------------
(* The server.                                                             *)

LEMMA ServerReadsKeeps ==
  ASSUME OutboxInv, ServerReads
  PROVE  OutboxInv'
<1> DEFINE m == Head(outgoing)
           r == m.from
           reply == [kind |-> Judge(m), order |-> m.order, salt |-> newestSalt]
<1>0. /\ Numbers /\ Marks /\ Tables /\ Post /\ Fields
      /\ Locked /\ OnItsWay /\ Numbered /\ Answered /\ Once /\ InStep /\ Salted /\ Paid
  BY EachField DEF OutboxInv
<1>1. /\ outgoing # <<>> /\ outgoing' = Tail(outgoing) /\ incoming' = Append(incoming, reply)
      /\ \/ Judge(m) = "result" /\ seen' = seen \union {m} /\ executed' = [executed EXCEPT ![r] = @ + 1]
         \/ Judge(m) # "result" /\ seen' = seen /\ executed' = executed
      /\ UNCHANGED <<newestSalt, notices, line, callers, channel, clock, generator, learned>>
  BY DEF ServerReads
<1>u. UNCHANGED <<phase, tries, message, via, writeMu, channel, line, skew, steps, beyond, lastSecond,
                  lastOffset, issued, currentSeqNo, newestSalt, notices, timeOffset, serverSalt,
                  refusals, corrected>>
  BY <1>1 DEF callers, clock, generator, learned
<1>o. /\ m = outgoing[1] /\ m \in Messages /\ 1 \in 1..Len(outgoing) /\ Len(outgoing') = Len(outgoing) - 1
      /\ outgoing' \in Seq(Messages) /\ \A i \in 1..Len(outgoing') : outgoing'[i] = outgoing[i + 1]
  BY <1>0, <1>1, TailFacts DEF Post
<1>j. /\ Judge(m) \in {"time", "salt", "seq", "result"}
      /\ Judge(m) = "time" => m.second \notin -Window..Window
      /\ Judge(m) = "salt" => m.salt # newestSalt
      /\ Judge(m) = "seq" => Contradicts(m)
  <2>1. m.second \in Int /\ Window \in Nat
    BY <1>o, OutboxAssumption DEF Messages
  <2> HIDE DEF m
  <2> QED BY <2>1 DEF Judge
<1>r. /\ r \in Requests /\ Awaits(r) /\ message[r] = m /\ executed[r] <= line
      /\ m.order \in Nat /\ m.order > 0 /\ m.order <= issued
  <2>1. r \in Requests /\ Waited(outgoing[1])
    BY <1>0, <1>o DEF OnItsWay, Messages
  <2>2. Awaits(r) /\ message[r] = m /\ executed[r] <= line
    BY <2>1, <1>o DEF Waited
  <2>3. message[r].order \in Nat /\ message[r].order > 0 /\ message[r].order <= issued
    BY <2>1, <2>2, <1>0 DEF Awaits, Numbered, Fields
  <2> HIDE DEF r
  <2> QED BY <2>1, <2>2, <2>3
<1>i. /\ reply \in Replies
      /\ incoming' \in Seq(Replies) /\ Len(incoming') = Len(incoming) + 1
      /\ incoming'[Len(incoming) + 1] = reply
      /\ \A i \in 1..Len(incoming) : incoming'[i] = incoming[i]
  <2>1. reply \in Replies
    BY <1>j, <1>r, <1>0 DEF Replies, Numbers
  <2> HIDE DEF reply
  <2> QED BY <2>1, <1>0, <1>1, AppendFacts DEF Post
<1>k. reply.kind = Judge(m) /\ reply.order = m.order /\ reply.salt = newestSalt
  OBVIOUS
<1>l. \A i \in 1..Len(incoming') : i \in 1..Len(incoming) \/ (i = Len(incoming) + 1 /\ incoming'[i] = reply)
  BY <1>i, <1>0 DEF Fields
<1>s. \A i \in 1..Len(outgoing') : i + 1 \in 1..Len(outgoing) /\ i + 1 # 1
  BY <1>o, <1>0 DEF Fields
<1>t. Sent' \subseteq Sent
  <2>1. m \in Sent
    BY <1>o DEF Sent
  <2>2. seen' \subseteq Sent
    BY <1>1, <2>1 DEF Sent
  <2>3. \A i \in 1..Len(outgoing') : outgoing'[i] \in Sent
    BY <1>o, <1>s DEF Sent
  <2> QED BY <2>2, <2>3 DEF Sent
<1>e. \A q \in Requests : q # r => executed'[q] = executed[q]
  BY <1>1, <1>0 DEF Tables
<1>x. executed'[r] = executed[r] \/ (reply.kind = "result" /\ executed'[r] = executed[r] + 1)
  BY <1>1, <1>r, <1>k, <1>0 DEF Tables
<1>2. Numbers'
  BY <1>0, <1>u DEF Numbers
<1>3. Marks' /\ Tables'
  <2>1. executed' \in [Requests -> Nat]
    BY <1>0, <1>1 DEF Tables
  <2> QED BY <1>0, <1>u, <2>1 DEF Tables, Marks
<1>4. Post'
  <2>1. seen' \subseteq Messages
    BY <1>0, <1>1, <1>o DEF Post
  <2> QED BY <1>0, <1>u, <1>o, <1>i, <2>1 DEF Post
<1> HIDE DEF m, r, reply
<1>5. Locked'
  BY <1>0, <1>u DEF Locked, Preparing
<1>n. \A i \in 1..Len(outgoing') : outgoing'[i].from # r /\ outgoing'[i].from \in Requests
  BY <1>0, <1>o, <1>s DEF OnItsWay, Fields, Messages, r
<1>6. OnItsWay'
  <2>1. ASSUME NEW a, a.from \in Requests, a.from # r, Waited(a) PROVE Waited(a)'
    BY <2>1, <1>e, <1>u DEF Waited, Awaits
  <2>2. ASSUME NEW i \in 1..Len(outgoing') PROVE Waited(outgoing[i])'
    <3>1. PICK a : a = outgoing'[i]
      OBVIOUS
    <3>2. Waited(a)
      BY <3>1, <1>0, <1>o, <1>s DEF OnItsWay
    <3>3. Waited(a)'
      BY <3>1, <3>2, <2>1, <1>n
    <3> QED BY <3>1, <3>3 DEF Waited, Awaits
  <2>3. ASSUME NEW i \in 1..Len(outgoing'), NEW j \in 1..Len(outgoing'),
               outgoing'[i].from = outgoing'[j].from
        PROVE  i = j
    <3>1. i + 1 = j + 1
      BY <2>3, <1>0, <1>o, <1>s DEF OnItsWay
    <3>2. i \in Int /\ j \in Int
      OBVIOUS
    <3> QED BY <3>1, <3>2
  <2> QED BY <2>2, <2>3 DEF OnItsWay
<1>7. Numbered'
  BY <1>0, <1>u DEF Numbered, Preparing
<1>8. Answered'
  <2>1. ASSUME NEW a, a.order <= issued, a.kind = "session" => a.order = 0,
               NEW q \in Requests, Answers(a, q), q # r, Rightly(a, q)
        PROVE  Rightly(a, q)'
    BY <2>1, <1>o, <1>s, <1>e, <1>u DEF Rightly
  <2>2. ASSUME NEW i \in 1..Len(incoming), NEW q \in Requests, Answers(incoming[i], q)
        PROVE  q # r
    BY <2>2, <1>0, <1>o DEF Answered, Rightly, r
  <2>3. ASSUME NEW a, a = reply, NEW q \in Requests, Answers(a, q)
        PROVE  Rightly(a, q)'
    <3>1. q = r
      <4>1. message[q].order = message[r].order /\ message[q].order # 0
        BY <2>3, <1>k, <1>r DEF Answers
      <4> QED BY <4>1, <1>0, <1>r DEF Numbered
    <3>2. a.kind = "salt" => message[r].salt < a.salt
      BY <2>3, <1>j, <1>k, <1>r, <1>0 DEF Salted, Numbers, Fields
    <3>3. a.kind # "result" => executed'[r] <= line
      BY <2>3, <1>x, <1>r
    <3>4. a.kind = "time" => message[r].second \notin -Window..Window
      BY <2>3, <1>j, <1>k, <1>r
    <3>5. phase[r] = "wait" /\ \A j \in 1..Len(outgoing') : outgoing'[j].from # r
      BY <1>n, <1>r DEF Awaits
    <3> QED BY <3>1, <3>2, <3>3, <3>4, <3>5, <1>u DEF Rightly
  <2>4. ASSUME NEW i \in 1..Len(incoming'), NEW a, a = incoming'[i]
        PROVE  /\ a.order <= issued /\ (a.kind = "session" => a.order = 0)
               /\ \A q \in Requests : Answers(a, q) => Rightly(a, q)'
    <3>1. CASE i \in 1..Len(incoming)
      <4>1. a = incoming[i]
        BY <3>1, <2>4, <1>i
      <4>2. /\ a.order <= issued /\ (a.kind = "session" => a.order = 0)
            /\ \A q \in Requests : Answers(a, q) => Rightly(a, q) /\ q # r
        BY <3>1, <4>1, <2>2, <1>0 DEF Answered
      <4> QED BY <4>2, <2>1
    <3>2. CASE a = reply
      BY <3>2, <2>3, <1>j, <1>k, <1>r
    <3> QED BY <2>4, <3>1, <3>2, <1>l
  <2> QED BY <2>4, <1>u DEF Answered, Answers, Rightly
<1>9. Once'
  <2>1. ASSUME NEW q \in Requests
        PROVE  /\ executed'[q] <= 1 + line
               /\ phase[q] \in {"idle", "salt", "write"} => executed'[q] <= line
               /\ phase[q] = "wait" /\ channel[q] = "again" => executed'[q] <= line
    <3>1. CASE q = r
      BY <3>1, <1>x, <1>r, <1>0 DEF Awaits, Fields, Numbers
    <3>2. CASE q # r
      BY <3>2, <1>e, <1>0 DEF Once
    <3> QED BY <3>1, <3>2
  <2> QED BY <2>1, <1>u DEF Once
<1>10. InStep'
  <2>1. CASE corrected
    BY <2>1, <1>u DEF InStep
  <2>2. CASE ~ corrected
    <3>1. Uncorrected /\ AllFit /\ NewestFits /\ NoneRefused
      BY <1>0, <2>2 DEF InStep
    <3>2. AllFit'
      BY <3>1, <1>t, <1>u DEF AllFit, Older, Fit
    <3>3. NewestFits'
      BY <3>1, <1>t, <1>u DEF NewestFits, LastOne, Preparing
    <3>4. ~ Contradicts(m)
      <4>1. seen \subseteq Sent /\ m \in Sent
        BY <1>o DEF Sent
      <4>2. \A s \in seen : Fit(s, m) /\ Fit(m, s)
        BY <3>1, <4>1 DEF AllFit
      <4> QED BY <4>1, <4>2, <1>0 DEF Contradicts, Before, Fit, Fields
    <3>5. NoneRefused'
      BY <3>1, <3>4, <1>j, <1>k, <1>i, <1>l, <1>u DEF NoneRefused
    <3> QED BY <3>1, <3>2, <3>3, <3>5, <1>u DEF InStep, Uncorrected
  <2> QED BY <2>1, <2>2
<1>11. Salted'
  <2>1. \A i \in 1..Len(incoming') : serverSalt <= incoming'[i].salt /\ incoming'[i].salt <= newestSalt
    BY <1>0, <1>i, <1>k, <1>l DEF Salted, Numbers
  <2>2. ASSUME NEW i \in 1..Len(incoming'), NEW j \in 1..Len(incoming'), i <= j
        PROVE  incoming'[i].salt <= incoming'[j].salt
    <3>1. CASE j \in 1..Len(incoming)
      BY <3>1, <2>2, <1>0, <1>i, <1>l DEF Salted, Fields
    <3>2. CASE incoming'[j] = reply
      BY <3>2, <2>1, <1>k
    <3> QED BY <3>1, <3>2, <1>l
  <2> QED BY <2>1, <2>2, <1>0, <1>u DEF Salted
<1>12. Paid'
  BY <1>0, <1>u DEF Paid, Ahead, Owes, Late, Preparing, Awaits, InTime, Knows, Sealed
<1> QED BY <1>2, <1>3, <1>4, <1>5, <1>6, <1>7, <1>8, <1>9, <1>10, <1>11, <1>12 DEF OutboxInv

LEMMA ServerChangesSaltKeeps ==
  ASSUME OutboxInv, ServerChangesSalt
  PROVE  OutboxInv'
<1>0. /\ Numbers /\ Marks /\ Tables /\ Post /\ Fields
      /\ Locked /\ OnItsWay /\ Numbered /\ Answered /\ Once /\ InStep /\ Salted /\ Paid
  BY EachField DEF OutboxInv
<1>1. /\ newestSalt' = newestSalt + 1 /\ steps + newestSalt + notices + line < MaxEvents
      /\ UNCHANGED <<seen, executed, notices, network, callers, channel, clock, generator, learned>>
  BY DEF ServerChangesSalt, More
<1>u. /\ UNCHANGED <<phase, tries, message, via, writeMu, channel, line, outgoing, incoming, skew,
                     steps, beyond, lastSecond, lastOffset, issued, currentSeqNo, seen, executed,
                     notices, timeOffset, serverSalt, refusals, corrected>>
      /\ Sent' = Sent
  BY <1>1, SentStays DEF network, callers, clock, generator, learned
<1>2. Numbers'
  BY <1>0, <1>1, <1>u, OutboxAssumption DEF Numbers
<1>3. Marks' /\ Tables' /\ Post'
  BY <1>0, <1>u DEF Marks, Tables, Post
<1>4. Locked' /\ OnItsWay' /\ Numbered' /\ Once'
  BY <1>0, <1>u DEF Locked, Preparing, OnItsWay, Waited, Awaits, Numbered, Once
<1>5. Answered'
  BY <1>0, <1>u DEF Answered, Answers, Rightly
<1>6. InStep'
  BY <1>0, <1>u DEF InStep, Uncorrected, AllFit, Older, Fit, NewestFits, LastOne, Preparing, NoneRefused
<1>7. Salted'
  BY <1>0, <1>1, <1>u DEF Salted, Fields, Numbers
<1>8. Paid'
  BY <1>0, <1>u DEF Paid, Ahead, Owes, Late, Preparing, Awaits, InTime, Knows, Sealed
<1> QED BY <1>2, <1>3, <1>4, <1>5, <1>6, <1>7, <1>8 DEF OutboxInv

LEMMA ServerForgetsKeeps ==
  ASSUME OutboxInv, ServerForgets
  PROVE  OutboxInv'
<1> DEFINE note == [kind |-> "session", order |-> 0, salt |-> newestSalt]
<1>0. /\ Numbers /\ Marks /\ Tables /\ Post /\ Fields
      /\ Locked /\ OnItsWay /\ Numbered /\ Answered /\ Once /\ InStep /\ Salted /\ Paid
  BY EachField DEF OutboxInv
<1>1. /\ notices' = notices + 1 /\ steps + newestSalt + notices + line < MaxEvents
      /\ seen' = {} /\ incoming' = Append(incoming, note)
      /\ UNCHANGED <<newestSalt, executed, line, outgoing, callers, channel, clock, generator, learned>>
  BY DEF ServerForgets, More
<1>u. UNCHANGED <<phase, tries, message, via, writeMu, channel, line, outgoing, skew, steps, beyond,
                  lastSecond, lastOffset, issued, currentSeqNo, newestSalt, executed, timeOffset,
                  serverSalt, refusals, corrected>>
  BY <1>1 DEF callers, clock, generator, learned
<1>k. note \in Replies /\ note.kind = "session" /\ note.order = 0 /\ note.salt = newestSalt
  BY <1>0 DEF Replies, Numbers
<1> HIDE DEF note
<1>i. /\ incoming' \in Seq(Replies) /\ Len(incoming') = Len(incoming) + 1
      /\ incoming'[Len(incoming) + 1] = note
      /\ \A i \in 1..Len(incoming) : incoming'[i] = incoming[i]
  BY <1>k, <1>0, <1>1, AppendFacts DEF Post
<1>l. \A i \in 1..Len(incoming') : i \in 1..Len(incoming) \/ (i = Len(incoming) + 1 /\ incoming'[i] = note)
  BY <1>i, <1>0 DEF Fields
<1>t. Sent' \subseteq Sent
  BY <1>1, <1>u DEF Sent
<1>2. Numbers'
  BY <1>0, <1>1, <1>u, OutboxAssumption DEF Numbers
<1>3. Marks' /\ Tables' /\ Post'
  BY <1>0, <1>1, <1>u, <1>i DEF Marks, Tables, Post
<1>4. Locked' /\ OnItsWay' /\ Numbered' /\ Once'
  BY <1>0, <1>u DEF Locked, Preparing, OnItsWay, Waited, Awaits, Numbered, Once
<1>5. Answered'
  <2>1. ASSUME NEW i \in 1..Len(incoming'), NEW a, a = incoming'[i]
        PROVE  /\ a.order <= issued /\ (a.kind = "session" => a.order = 0)
               /\ \A q \in Requests : Answers(a, q) => Rightly(a, q)
    <3>1. CASE i \in 1..Len(incoming)
      BY <3>1, <2>1, <1>i, <1>0 DEF Answered
    <3>2. CASE a = note
      <4>1. \A q \in Requests : ~ Answers(a, q)
        BY <3>2, <1>k, <1>0 DEF Answers, Numbered, Fields
      <4> QED BY <3>2, <4>1, <1>k, <1>0 DEF Numbers
    <3> QED BY <3>1, <3>2, <2>1, <1>l
  <2> QED BY <2>1, <1>u DEF Answered, Answers, Rightly
<1>6. InStep'
  <2>1. CASE corrected
    BY <2>1, <1>u DEF InStep
  <2>2. CASE ~ corrected
    <3>1. Uncorrected /\ AllFit /\ NewestFits /\ NoneRefused
      BY <1>0, <2>2 DEF InStep
    <3>2. AllFit'
      BY <3>1, <1>t, <1>u DEF AllFit, Older, Fit
    <3>3. NewestFits'
      BY <3>1, <1>t, <1>u DEF NewestFits, LastOne, Preparing
    <3>4. NoneRefused'
      BY <3>1, <1>k, <1>i, <1>l, <1>u DEF NoneRefused
    <3> QED BY <3>1, <3>2, <3>3, <3>4, <1>u DEF InStep, Uncorrected
  <2> QED BY <2>1, <2>2
<1>7. Salted'
  <2>1. \A i \in 1..Len(incoming') : serverSalt <= incoming'[i].salt /\ incoming'[i].salt <= newestSalt
    BY <1>0, <1>i, <1>k, <1>l DEF Salted, Numbers
  <2>2. ASSUME NEW i \in 1..Len(incoming'), NEW j \in 1..Len(incoming'), i <= j
        PROVE  incoming'[i].salt <= incoming'[j].salt
    <3>1. CASE j \in 1..Len(incoming)
      BY <3>1, <2>2, <1>0, <1>i, <1>l DEF Salted, Fields
    <3>2. CASE incoming'[j] = note
      BY <3>2, <2>1, <1>k
    <3> QED BY <3>1, <3>2, <1>l
  <2> QED BY <2>1, <2>2, <1>0, <1>u DEF Salted
<1>8. Paid'
  BY <1>0, <1>u DEF Paid, Ahead, Owes, Late, Preparing, Awaits, InTime, Knows, Sealed
<1> QED BY <1>2, <1>3, <1>4, <1>5, <1>6, <1>7, <1>8 DEF OutboxInv

-----------------------------------------------------------------------------
(* A new connection, the clock, and the reader.                            *)

LEMMA NewLineKeeps ==
  ASSUME OutboxInv, NewLine, UNCHANGED <<callers, clock, generator, server, learned>>
  PROVE  OutboxInv'
<1>0. /\ Numbers /\ Marks /\ Tables /\ Post /\ Fields
      /\ Locked /\ OnItsWay /\ Numbered /\ Answered /\ Once /\ InStep /\ Salted /\ Paid
  BY EachField DEF OutboxInv
<1>1. /\ line' = line + 1 /\ outgoing' = <<>> /\ incoming' = <<>>
      /\ channel' = [q \in Requests |-> IF channel[q] = "open" THEN "again" ELSE channel[q]]
  BY DEF NewLine
<1>u. UNCHANGED <<phase, tries, message, via, writeMu, skew, steps, beyond, lastSecond, lastOffset,
                  issued, currentSeqNo, newestSalt, seen, executed, notices, timeOffset, serverSalt,
                  refusals, corrected>>
  BY DEF callers, clock, generator, server, learned
<1>c. \A q \in Requests :
        /\ channel'[q] # "open" /\ (channel'[q] = "refused" => channel[q] = "refused")
        /\ channel'[q] \in States
  BY <1>0, <1>1 DEF Tables, States
<1>l. Len(outgoing') = 0 /\ Len(incoming') = 0
  BY <1>1
<1>t. Sent' \subseteq Sent
  BY <1>l, <1>u DEF Sent
<1>2. Numbers'
  BY <1>0, <1>1, <1>u DEF Numbers
<1>3. Marks' /\ Tables'
  <2>1. channel' \in [Requests -> States]
    BY <1>1, <1>c
  <2>2. via' \in [Requests -> 0..line']
    BY <1>0, <1>1, <1>u DEF Tables, Numbers
  <2> QED BY <1>0, <1>u, <2>1, <2>2 DEF Tables, Marks
<1>4. Post'
  BY <1>0, <1>1, <1>u DEF Post
<1>f. Fields'
  BY <1>3, <1>4, FieldsAfter
<1>5. Locked'
  BY <1>0, <1>u DEF Locked, Preparing
<1>6. OnItsWay' /\ Answered'
  BY <1>l DEF OnItsWay, Answered
<1>7. Numbered'
  <2>1. \A q \in Requests : via'[q] # line'
    BY <1>0, <1>1, <1>u DEF Fields, Numbers
  <2> QED BY <2>1, <1>0, <1>c, <1>u DEF Numbered, Preparing
<1>8. Once'
  <2>1. line \in Nat /\ \A q \in Requests : executed[q] \in Nat /\ executed[q] <= 1 + line
    BY <1>0 DEF Once, Fields, Numbers
  <2>2. \A q \in Requests :
          /\ executed'[q] <= line' /\ executed'[q] <= 1 + line'
          /\ phase'[q] \in {"idle", "salt", "write"} => executed'[q] <= line'
    BY <2>1, <1>1, <1>u
  <2> QED BY <2>2 DEF Once
<1>9. InStep'
  <2>1. CASE corrected
    BY <2>1, <1>u DEF InStep
  <2>2. CASE ~ corrected
    <3>1. Uncorrected /\ AllFit /\ NewestFits /\ NoneRefused
      BY <1>0, <2>2 DEF InStep
    <3>2. AllFit'
      BY <3>1, <1>t, <1>u DEF AllFit, Older, Fit
    <3>3. NewestFits'
      BY <3>1, <1>t, <1>u DEF NewestFits, LastOne, Preparing
    <3>4. NoneRefused'
      BY <3>1, <1>c, <1>l, <1>u DEF NoneRefused
    <3> QED BY <3>1, <3>2, <3>3, <3>4, <1>u DEF InStep, Uncorrected
  <2> QED BY <2>1, <2>2
<1>10. Salted'
  BY <1>0, <1>l, <1>u DEF Salted
<1>11. Paid'
  <2>1. Ahead => Ahead'
    BY <1>u DEF Ahead
  <2>2. ASSUME NEW q \in Requests PROVE Owes(q)' <= Owes(q) /\ Knows(q) <= Knows(q)'
    <3>1. (Late(q)' => Late(q)) /\ (Sealed(q)' => Sealed(q))
      BY <1>c, <1>u DEF Late, Preparing, Awaits, Sealed
    <3>2. Owes(q)' <= Owes(q)
      BY <3>1, <1>u DEF Owes, InTime
    <3>3. Knows(q) <= Knows(q)'
      BY <3>1, <1>0, <1>u DEF Knows, Salted, Fields, Numbers
    <3> QED BY <3>2, <3>3
  <2> QED BY <2>1, <2>2, <1>0, <1>2, <1>f, <1>u, PaidMove
<1> QED BY <1>2, <1>3, <1>4, <1>5, <1>6, <1>7, <1>8, <1>9, <1>10, <1>11 DEF OutboxInv

LEMMA ClockStepsKeeps ==
  ASSUME OutboxInv, ClockSteps
  PROVE  OutboxInv'
<1>0. /\ Numbers /\ Marks /\ Tables /\ Post /\ Fields
      /\ Locked /\ OnItsWay /\ Numbered /\ Answered /\ Once /\ InStep /\ Salted /\ Paid
  BY EachField DEF OutboxInv
<1>1. /\ steps' = steps + 1 /\ skew' \in Skews
      /\ beyond' = (beyond \/ (lastSecond > Window /\ skew' + timeOffset < lastSecond))
      /\ UNCHANGED <<callers, channel, network, generator, server, learned>>
  BY DEF ClockSteps
<1>u. /\ UNCHANGED <<phase, tries, message, via, writeMu, channel, line, outgoing, incoming, lastSecond,
                     lastOffset, issued, currentSeqNo, newestSalt, seen, executed, notices, timeOffset,
                     serverSalt, refusals, corrected>>
      /\ Sent' = Sent
  BY <1>1, SentStays DEF callers, network, generator, server, learned
<1>2. Numbers'
  BY <1>0, <1>1, <1>u, OutboxAssumption DEF Numbers
<1>3. Marks'
  <2>1. beyond' \in BOOLEAN
    BY <1>1
  <2> QED BY <2>1, <1>0, <1>1, <1>u DEF Marks
<1>4. Tables' /\ Post'
  BY <1>0, <1>u DEF Tables, Post
<1>5. Locked' /\ OnItsWay' /\ Numbered' /\ Once'
  BY <1>0, <1>u DEF Locked, Preparing, OnItsWay, Waited, Awaits, Numbered, Once
<1>6. Answered'
  BY <1>0, <1>u DEF Answered, Answers, Rightly
<1>7. InStep'
  BY <1>0, <1>u DEF InStep, Uncorrected, AllFit, Older, Fit, NewestFits, LastOne, Preparing, NoneRefused
<1>8. Salted'
  BY <1>0, <1>u DEF Salted
<1>9. Paid'
  <2>1. CASE beyond'
    BY <2>1 DEF Paid
  <2>2. CASE ~ beyond'
    <3>1. Ahead /\ ~ (lastSecond > Window /\ skew' + timeOffset < lastSecond)
      BY <2>2, <1>0, <1>1 DEF Paid
    <3>2. Ahead'
      <4>1. /\ lastSecond > Window => timeOffset <= lastOffset
            /\ lastSecond > Window => ~ (skew' + timeOffset < lastSecond)
        BY <3>1 DEF Ahead
      <4>2. skew' \in Int /\ timeOffset \in Int /\ lastOffset \in Int /\ lastSecond \in Int
        BY <1>0, <1>2 DEF Numbers
      <4>3. lastSecond > Window => skew' + lastOffset >= lastSecond /\ timeOffset <= lastOffset
        <5>1. ASSUME NEW a \in Int, NEW b \in Int, NEW c \in Int, NEW d \in Int,
                     ~ (a + b < d), b <= c
              PROVE  a + c >= d
          BY <5>1
        <5> QED BY <4>1, <4>2, <5>1
      <4> QED BY <4>3, <1>u DEF Ahead
    <3>3. ASSUME NEW q \in Requests PROVE (refusals[q] + Owes(q) <= steps + Knows(q))'
      <4>1. refusals[q] + Owes(q) <= steps + Knows(q) /\ refusals'[q] = refusals[q] /\ refusals[q] \in Nat
        BY <2>2, <1>0, <1>1, <1>u DEF Paid, Fields
      <4>2. Owes(q) \in {0, 1} /\ Owes(q)' \in {0, 1}
        BY DEF Owes
      <4>3. Knows(q)' = Knows(q) /\ Knows(q) \in Nat
        BY <1>u, <1>0 DEF Knows, Sealed, Awaits, Fields, Numbers
      <4>4. steps \in Nat /\ steps' = steps + 1
        BY <1>0, <1>1 DEF Numbers
      <4> HIDE DEF Owes, Knows
      <4> QED BY ONLY <4>1, <4>2, <4>3, <4>4
    <3> QED BY <3>2, <3>3 DEF Paid
  <2> QED BY <2>1, <2>2
<1> QED BY <1>2, <1>3, <1>4, <1>5, <1>6, <1>7, <1>8, <1>9 DEF OutboxInv

(* All that the reader does with a message, apart from what the refusals   *)
(* are paid with.                                                          *)
Read(m, what) ==
  /\ incoming # <<>> /\ m = Head(incoming) /\ incoming' = Tail(incoming)
  /\ what \in {"again", "answer", "refused"} /\ WakeWith(m, what)
  /\ what = "again" => m.kind # "result"
  /\ what = "refused" => m.kind = "seq"
  /\ serverSalt' \in {serverSalt, m.salt}
  /\ refusals' \in [Requests -> Nat] /\ timeOffset' \in Int
  /\ corrected' = (corrected \/ timeOffset' # timeOffset)
  /\ UNCHANGED <<line, outgoing, callers, clock, generator, server>>

LEMMA WokenRightly ==
  ASSUME Post, Answered, NEW m, incoming # <<>>, m = Head(incoming)
  PROVE  /\ m = incoming[1] /\ 1 \in 1..Len(incoming) /\ m \in Replies
         /\ \A q \in Waiting(m) : q \in Requests /\ Rightly(m, q) /\ channel[q] = "open"
<1>1. m = incoming[1] /\ 1 \in 1..Len(incoming) /\ m \in Replies
  BY TailFacts DEF Post
<1>2. ASSUME NEW q \in Requests, Answers(m, q) PROVE Rightly(m, q)
  BY <1>1, <1>2 DEF Answered
<1>3. \A q \in Waiting(m) : q \in Requests /\ Answers(m, q) /\ channel[q] = "open"
  BY DEF Waiting, Answers
<1> QED BY <1>1, <1>2, <1>3

LEMMA ReadKeeps ==
  ASSUME OutboxInv, NEW m, NEW what, Read(m, what), Paid'
  PROVE  OutboxInv'
<1>0. /\ Numbers /\ Marks /\ Tables /\ Post /\ Fields
      /\ Locked /\ OnItsWay /\ Numbered /\ Answered /\ Once /\ InStep /\ Salted /\ Paid
  BY EachField DEF OutboxInv
<1>1. /\ incoming # <<>> /\ m = Head(incoming) /\ incoming' = Tail(incoming)
      /\ what \in {"again", "answer", "refused"}
      /\ channel' = [q \in Requests |-> IF q \in Waiting(m) THEN what ELSE channel[q]]
      /\ what = "again" => m.kind # "result"
      /\ what = "refused" => m.kind = "seq"
      /\ serverSalt' \in {serverSalt, m.salt}
      /\ refusals' \in [Requests -> Nat] /\ timeOffset' \in Int
      /\ corrected' = (corrected \/ timeOffset' # timeOffset)
  BY DEF Read, WakeWith
<1>u. /\ UNCHANGED <<phase, tries, message, via, writeMu, line, outgoing, skew, steps, beyond, lastSecond,
                     lastOffset, issued, currentSeqNo, newestSalt, seen, executed, notices>>
      /\ Sent' = Sent
  BY SentStays DEF Read, callers, clock, generator, server
<1>i. /\ incoming' \in Seq(Replies) /\ Len(incoming') = Len(incoming) - 1
      /\ \A i \in 1..Len(incoming') : incoming'[i] = incoming[i + 1]
  BY <1>0, <1>1, TailFacts DEF Post
<1>s. \A i \in 1..Len(incoming') : i + 1 \in 1..Len(incoming)
  BY <1>i, <1>0 DEF Fields
<1>w. /\ m = incoming[1] /\ 1 \in 1..Len(incoming) /\ m \in Replies
      /\ \A q \in Waiting(m) : q \in Requests /\ Rightly(m, q) /\ channel[q] = "open"
  BY <1>0, <1>1, WokenRightly
<1>c. \A q \in Requests :
        /\ q \in Waiting(m) => channel'[q] = what
        /\ q \notin Waiting(m) => channel'[q] = channel[q]
  BY <1>1
<1>v. /\ serverSalt' \in Nat /\ serverSalt <= serverSalt' /\ serverSalt' <= newestSalt
      /\ \A i \in 1..Len(incoming') : serverSalt' <= incoming'[i].salt
  <2>1. /\ m.salt \in Nat /\ serverSalt \in Nat /\ newestSalt \in Nat
        /\ serverSalt <= m.salt /\ m.salt <= newestSalt /\ serverSalt <= newestSalt
    BY <1>w, <1>0 DEF Salted, Fields, Numbers
  <2>2. ASSUME NEW i \in 1..Len(incoming')
        PROVE  m.salt <= incoming'[i].salt /\ serverSalt <= incoming'[i].salt
    BY <1>0, <1>i, <1>s, <1>w DEF Salted
  <2> QED BY <2>1, <2>2, <1>1
<1>2. Numbers'
  BY <1>0, <1>1, <1>u, <1>v DEF Numbers
<1>3. Marks' /\ Tables'
  <2>1. corrected' \in BOOLEAN
    BY <1>1, <1>0 DEF Marks
  <2>2. channel' \in [Requests -> States]
    BY <1>0, <1>1 DEF Tables, States
  <2> QED BY <1>0, <1>1, <1>u, <2>1, <2>2 DEF Tables, Marks
<1>4. Post'
  BY <1>0, <1>u, <1>i DEF Post
<1>5. Locked'
  BY <1>0, <1>u DEF Locked, Preparing
<1>6. OnItsWay'
  <2>1. ASSUME NEW i \in 1..Len(outgoing)
        PROVE  outgoing[i].from \in Requests /\ channel'[outgoing[i].from] = channel[outgoing[i].from]
    <3>1. outgoing[i].from \in Requests
      BY <1>0 DEF Fields, Messages
    <3>2. outgoing[i].from \notin Waiting(m)
      BY <1>w DEF Rightly
    <3> QED BY <3>1, <3>2, <1>c
  <2>2. ASSUME NEW a, Waited(a), channel'[a.from] = channel[a.from] PROVE Waited(a)'
    BY <2>2, <1>u DEF Waited, Awaits
  <2> QED BY <2>1, <2>2, <1>0, <1>u DEF OnItsWay
<1>7. Numbered'
  <2>1. \A q \in Requests : channel'[q] = "open" => channel[q] = "open"
    BY <1>1, <1>c
  <2>2. \A q \in Requests : Preparing(q) => channel'[q] = channel[q]
    BY <1>c, <1>w DEF Rightly, Preparing
  <2> QED BY <2>1, <2>2, <1>0, <1>u DEF Numbered, Preparing
<1>8. Answered'
  <2>1. ASSUME NEW i \in 1..Len(incoming'), NEW a, a = incoming'[i]
        PROVE  /\ a.order <= issued /\ (a.kind = "session" => a.order = 0)
               /\ \A q \in Requests : Answers(a, q) => Rightly(a, q)
    BY <2>1, <1>0, <1>i, <1>s DEF Answered
  <2>2. \A q \in Requests : channel'[q] = "open" => channel[q] = "open"
    BY <1>1, <1>c
  <2> QED BY <2>1, <2>2, <1>u DEF Answered, Answers, Rightly
<1>9. Once'
  <2>1. ASSUME NEW q \in Requests, phase[q] = "wait", channel'[q] = "again"
        PROVE  executed[q] <= line
    <3>1. CASE q \in Waiting(m)
      BY <3>1, <2>1, <1>1, <1>c, <1>w DEF Rightly
    <3>2. CASE q \notin Waiting(m)
      BY <3>2, <2>1, <1>c, <1>0 DEF Once
    <3> QED BY <3>1, <3>2
  <2> QED BY <2>1, <1>0, <1>u DEF Once
<1>10. InStep'
  <2>1. CASE corrected'
    BY <2>1 DEF InStep
  <2>2. CASE ~ corrected'
    <3>1. timeOffset' = timeOffset /\ ~ corrected
      BY <2>2, <1>1
    <3>2. Uncorrected /\ AllFit /\ NewestFits /\ NoneRefused
      BY <3>1, <1>0 DEF InStep
    <3>3. AllFit' /\ NewestFits'
      BY <3>2, <1>u DEF AllFit, Older, Fit, NewestFits, LastOne, Preparing
    <3>4. m.kind # "seq"
      BY <3>2, <1>w DEF NoneRefused
    <3>5. NoneRefused'
      BY <3>2, <3>4, <1>1, <1>c, <1>i, <1>s, <1>u DEF NoneRefused
    <3> QED BY <3>1, <3>2, <3>3, <3>5, <1>u DEF InStep, Uncorrected
  <2> QED BY <2>1, <2>2
<1>11. Salted'
  <2>1. \A q \in Requests : message'[q].salt <= serverSalt'
    BY <1>0, <1>u, <1>v DEF Salted, Fields, Numbers
  <2>2. \A i \in 1..Len(incoming') : incoming'[i].salt <= newestSalt'
    BY <1>0, <1>u, <1>i, <1>s DEF Salted
  <2>3. ASSUME NEW i \in 1..Len(incoming'), NEW j \in 1..Len(incoming'), i <= j
        PROVE  incoming'[i].salt <= incoming'[j].salt
    <3>1. i + 1 <= j + 1 /\ i + 1 \in 1..Len(incoming) /\ j + 1 \in 1..Len(incoming)
      BY <2>3, <1>s
    <3> QED BY <3>1, <1>0, <1>i DEF Salted
  <2> QED BY <2>1, <2>2, <2>3, <1>v DEF Salted
<1> QED BY <1>2, <1>3, <1>4, <1>5, <1>6, <1>7, <1>8, <1>9, <1>10, <1>11 DEF OutboxInv

(* What a request owes after its message was read: the account is even     *)
(* when every refusal counted now was owed, or taught a newer salt.        *)
LEMMA ReadPaid ==
  ASSUME OutboxInv, NEW m, NEW what, Read(m, what), Ahead => Ahead',
         \A q \in Requests \ Waiting(m) : refusals'[q] = refusals[q],
         \A q \in Waiting(m) :
           \/ refusals'[q] = refusals[q]
           \/ refusals'[q] = refusals[q] + 1 /\ Owes(q) = 1 /\ Owes(q)' = 0
           \/ refusals'[q] = refusals[q] + 1 /\ message[q].salt < serverSalt',
         InTime' \/ InTime' = InTime
  PROVE  Paid'
<1>0. /\ Numbers /\ Marks /\ Tables /\ Post /\ Fields
      /\ Locked /\ OnItsWay /\ Numbered /\ Answered /\ Once /\ InStep /\ Salted /\ Paid
  BY EachField DEF OutboxInv
<1>u. UNCHANGED <<phase, message, skew, steps, beyond>>
  BY DEF Read, callers, clock
<1>w. /\ m = incoming[1] /\ 1 \in 1..Len(incoming) /\ m \in Replies
      /\ \A q \in Waiting(m) : q \in Requests /\ Rightly(m, q) /\ channel[q] = "open"
  BY <1>0, WokenRightly DEF Read
<1>c. \A q \in Requests :
        /\ q \in Waiting(m) => channel'[q] # "open"
        /\ q \notin Waiting(m) => channel'[q] = channel[q]
  BY DEF Read, WakeWith
<1>v. serverSalt \in Nat /\ serverSalt' \in Nat /\ serverSalt <= serverSalt'
  BY <1>w, <1>0 DEF Read, Salted, Fields, Numbers
<1>1. CASE beyond
  BY <1>1, <1>u DEF Paid
<1>2. CASE ~ beyond
  <2>1. Ahead'
    BY <1>2, <1>0 DEF Paid
  <2>2. ASSUME NEW q \in Requests PROVE (refusals[q] + Owes(q) <= steps + Knows(q))'
    <3>1. /\ refusals[q] + Owes(q) <= steps + Knows(q) /\ refusals[q] \in Nat
          /\ steps \in Nat /\ steps' = steps
      BY <1>2, <1>0, <1>u DEF Paid, Fields, Numbers
    <3>2. Owes(q) \in {0, 1} /\ Owes(q)' \in {0, 1}
      BY DEF Owes
    <3>3. Owes(q)' <= Owes(q)
      <4>1. Late(q)' => Late(q)
        BY <1>c, <1>u DEF Late, Preparing, Awaits
      <4> QED BY <4>1 DEF Owes
    <3>4. Knows(q) \in Nat /\ Knows(q)' \in Nat /\ message[q].salt \in Nat
      BY <1>0, <1>u, <1>v DEF Knows, Fields, Numbers
    <3>5. Knows(q) <= Knows(q)'
      <4>1. Sealed(q)' => Sealed(q)
        BY <1>c, <1>u DEF Sealed, Awaits
      <4> QED BY <4>1, <1>u, <1>v, <1>0 DEF Knows, Salted, Fields
    <3>6. CASE refusals'[q] = refusals[q]
      <4> HIDE DEF Owes, Knows
      <4> QED BY <3>1, <3>2, <3>3, <3>4, <3>5, <3>6
    <3>7. CASE refusals'[q] = refusals[q] + 1 /\ Owes(q) = 1 /\ Owes(q)' = 0
      <4> HIDE DEF Owes, Knows
      <4> QED BY <3>1, <3>4, <3>5, <3>7
    <3>8. CASE q \in Waiting(m) /\ refusals'[q] = refusals[q] + 1 /\ message[q].salt < serverSalt'
      <4>1. Knows(q) = message[q].salt /\ Knows(q)' = serverSalt'
        BY <3>8, <1>w, <1>c, <1>u DEF Knows, Sealed, Awaits, Rightly
      <4> HIDE DEF Owes, Knows
      <4> QED BY <4>1, <3>1, <3>2, <3>3, <3>4, <3>8, <1>v
    <3> QED BY <3>6, <3>7, <3>8
  <2> QED BY <2>1, <2>2 DEF Paid
<1> QED BY <1>1, <1>2

LEMMA ReaderReadsKeeps ==
  ASSUME OutboxInv, ReaderReads
  PROVE  OutboxInv'
<1>0. /\ Numbers /\ Marks /\ Tables /\ Post /\ Fields
      /\ Answered /\ Salted /\ Paid
  BY EachField DEF OutboxInv
<1>1. PICK m : m = Head(incoming)
  OBVIOUS
<1>2. /\ incoming # <<>> /\ incoming' = Tail(incoming)
      /\ UNCHANGED <<line, outgoing, callers, clock, generator, server>>
  BY DEF ReaderReads
<1>3. \/ LearnTime(m) \/ LearnSalt(m) \/ Deliver(m)
      \/ Waiting(m) = {} /\ Notice(m)
  BY <1>1 DEF ReaderReads
<1>u. UNCHANGED <<phase, message, skew, steps, beyond, lastSecond, lastOffset>>
  BY <1>2 DEF callers, clock, generator
<1>w. /\ m = incoming[1] /\ 1 \in 1..Len(incoming) /\ m \in Replies
      /\ \A q \in Waiting(m) : q \in Requests /\ Rightly(m, q) /\ channel[q] = "open"
  BY <1>0, <1>1, <1>2, WokenRightly
<1>t. refusals \in [Requests -> Nat] /\ timeOffset \in Int /\ corrected \in BOOLEAN
  BY <1>0 DEF Tables, Numbers, Marks
<1>4. CASE LearnTime(m)
  <2>1. PICK delay \in {0, 1} : timeOffset' = -skew - delay
    BY <1>4 DEF LearnTime
  <2>2. /\ m.kind = "time" /\ corrected' = (corrected \/ timeOffset' # timeOffset)
        /\ WakeWith(m, "again") /\ CountRefusal(m) /\ serverSalt' = serverSalt
    BY <1>4 DEF LearnTime
  <2>3. timeOffset' \in Int /\ InTime'
    BY <2>1, <1>0, <1>u, OutboxAssumption DEF InTime, Numbers
  <2>4. Read(m, "again")
    BY <2>2, <2>3, <1>1, <1>2, <1>t DEF Read, CountRefusal
  <2>5. Ahead => Ahead'
    BY <2>1, <1>0, <1>u, OutboxAssumption DEF Ahead, Numbers
  <2>6. ASSUME NEW q \in Waiting(m)
        PROVE  refusals'[q] = refusals[q] + 1 /\ Owes(q) = 1 /\ Owes(q)' = 0
    <3>1. q \in Requests /\ phase[q] = "wait" /\ channel[q] = "open" /\ channel'[q] = "again"
      BY <2>2, <2>6, <1>w DEF WakeWith, Rightly
    <3>2. message[q].second \notin -Window..Window
      BY <2>2, <2>6, <1>w DEF Rightly
    <3>3. Late(q) /\ ~ Late(q)'
      BY <3>1, <3>2, <1>u DEF Late, Preparing, Awaits
    <3> QED BY <2>2, <2>3, <2>6, <3>1, <3>3 DEF Owes, CountRefusal
  <2>7. \A q \in Requests \ Waiting(m) : refusals'[q] = refusals[q]
    BY <2>2 DEF CountRefusal
  <2>8. Paid'
    BY <2>3, <2>4, <2>5, <2>6, <2>7, ReadPaid
  <2> QED BY <2>4, <2>8, ReadKeeps
<1>5. CASE LearnSalt(m)
  <2>1. /\ m.kind = "salt" /\ serverSalt' = m.salt /\ WakeWith(m, "again") /\ CountRefusal(m)
        /\ timeOffset' = timeOffset /\ corrected' = corrected
    BY <1>5 DEF LearnSalt
  <2>2. Read(m, "again")
    BY <2>1, <1>1, <1>2, <1>t DEF Read, CountRefusal
  <2>3. (Ahead => Ahead') /\ InTime' = InTime
    BY <2>1, <1>u DEF Ahead, InTime
  <2>4. ASSUME NEW q \in Waiting(m)
        PROVE  refusals'[q] = refusals[q] + 1 /\ message[q].salt < serverSalt'
    BY <2>1, <2>4, <1>w DEF CountRefusal, Rightly
  <2>5. \A q \in Requests \ Waiting(m) : refusals'[q] = refusals[q]
    BY <2>1 DEF CountRefusal
  <2>6. Paid'
    BY <2>2, <2>3, <2>4, <2>5, ReadPaid
  <2> QED BY <2>2, <2>6, ReadKeeps
<1>6. CASE Deliver(m)
  <2>1. PICK what \in {"refused", "answer"} :
          WakeWith(m, what) /\ (what = "refused" => m.kind = "seq")
    <3>1. CASE m.kind = "seq"
      BY <3>1, <1>6 DEF Deliver
    <3>2. CASE m.kind # "seq"
      BY <3>2, <1>6 DEF Deliver
    <3> QED BY <3>1, <3>2
  <2>2. UNCHANGED <<timeOffset, serverSalt, refusals, corrected>>
    BY <1>6 DEF Deliver, learned
  <2>3. Read(m, what)
    BY <2>1, <2>2, <1>1, <1>2, <1>t DEF Read
  <2>4. (Ahead => Ahead') /\ InTime' = InTime /\ \A q \in Requests : refusals'[q] = refusals[q]
    BY <2>2, <1>u DEF Ahead, InTime
  <2>5. Paid'
    BY <2>3, <2>4, <1>w, ReadPaid
  <2> QED BY <2>3, <2>5, ReadKeeps
<1>7. CASE Waiting(m) = {} /\ Notice(m)
  <2>1. UNCHANGED <<timeOffset, refusals, corrected, channel>> /\ serverSalt' \in {serverSalt, m.salt}
    BY <1>7 DEF Notice
  <2>2. WakeWith(m, "answer")
    BY <2>1, <1>7, <1>0 DEF WakeWith, Tables
  <2>3. Read(m, "answer")
    BY <2>1, <2>2, <1>1, <1>2, <1>t DEF Read
  <2>4. (Ahead => Ahead') /\ InTime' = InTime /\ \A q \in Requests : refusals'[q] = refusals[q]
    BY <2>1, <1>u DEF Ahead, InTime
  <2>5. Paid'
    BY <2>3, <2>4, <1>w, ReadPaid
  <2> QED BY <2>3, <2>5, ReadKeeps
<1> QED BY <1>3, <1>4, <1>5, <1>6, <1>7

-----------------------------------------------------------------------------
LEMMA OutboxStart == OutboxInit => OutboxInv
<1> SUFFICES ASSUME OutboxInit PROVE OutboxInv
  OBVIOUS
<1>1. /\ skew \in Skews /\ steps \in {0, 1} /\ (skew # 0 => steps = 1)
      /\ timeOffset = 0 /\ lastSecond = -1 /\ lastOffset = 0 /\ issued = 0 /\ currentSeqNo = 0
      /\ serverSalt = 0 /\ newestSalt = 0 /\ line = 0 /\ outgoing = <<>> /\ incoming = <<>>
      /\ seen = {} /\ notices = 0 /\ corrected = FALSE /\ beyond = FALSE /\ writeMu = Nobody
  BY DEF OutboxInit
<1>2. \A q \in Requests :
        /\ phase[q] = "idle" /\ tries[q] = 0 /\ via[q] = 0 /\ channel[q] = "none"
        /\ executed[q] = 0 /\ refusals[q] = 0
        /\ message[q].from = q /\ message[q].order = 0 /\ message[q].salt = 0
  BY DEF OutboxInit, Blank
<1>3. Numbers /\ Marks
  <2>1. skew \in Int /\ steps \in Nat
    BY <1>1, OutboxAssumption
  <2>2. Numbers
    BY <2>1, <1>1, OutboxAssumption DEF Numbers
  <2>3. corrected \in BOOLEAN /\ beyond \in BOOLEAN
    BY <1>1
  <2> QED BY <2>2, <2>3, <1>1 DEF Marks
<1>4. Tables
  BY <1>1, OutboxAssumption DEF OutboxInit, Tables, Phases, States
<1>5. Post
  <2>1. \A q \in Requests : Blank(q) \in Messages
    BY DEF Blank, Messages
  <2>2. message \in [Requests -> Messages]
    BY <2>1 DEF OutboxInit
  <2> QED BY <1>1, <2>2 DEF Post
<1>6. Len(outgoing) = 0 /\ Len(incoming) = 0 /\ Sent = {}
  BY <1>1 DEF Sent
<1>p. \A q \in Requests : ~ Preparing(q) /\ ~ Sealed(q) /\ ~ Late(q)
  BY <1>2 DEF Preparing, Sealed, Awaits, Late
<1>7. Locked /\ OnItsWay /\ Answered /\ Once
  <2>1. Locked
    BY <1>p DEF Locked
  <2>2. OnItsWay /\ Answered
    BY <1>6 DEF OnItsWay, Answered
  <2>3. Once
    BY <1>1, <1>2 DEF Once
  <2> QED BY <2>1, <2>2, <2>3
<1>8. Numbered /\ Salted
  <2>1. Numbered
    BY <1>1, <1>2, <1>p DEF Numbered
  <2>2. Salted
    BY <1>1, <1>2, <1>6 DEF Salted
  <2> QED BY <2>1, <2>2
<1>9. InStep
  <2>1. Uncorrected /\ AllFit
    BY <1>1, <1>6 DEF Uncorrected, AllFit
  <2>2. NewestFits
    BY <1>2, <1>p DEF NewestFits, LastOne
  <2>3. NoneRefused
    BY <1>2, <1>6 DEF NoneRefused
  <2> QED BY <2>1, <2>2, <2>3 DEF InStep
<1>10. Paid
  <2>1. Ahead
    BY <1>1, OutboxAssumption DEF Ahead
  <2>2. ASSUME NEW q \in Requests PROVE Owes(q) <= steps /\ Knows(q) = 0
    <3>2. ~ InTime => steps = 1
      BY <1>1, OutboxAssumption DEF InTime
    <3> QED BY <3>2, <1>1, <1>p DEF Owes, Knows
  <2>3. \A q \in Requests : Owes(q) \in {0, 1}
    BY DEF Owes
  <2> HIDE DEF Owes, Knows
  <2>4. \A q \in Requests : refusals[q] + Owes(q) <= steps + Knows(q)
    BY <2>2, <2>3, <1>1, <1>2
  <2> QED BY <2>1, <2>4 DEF Paid
<1> QED BY <1>3, <1>4, <1>5, <1>7, <1>8, <1>9, <1>10 DEF OutboxInv

LEMMA OutboxStill == OutboxInv /\ UNCHANGED outboxVars => OutboxInv'
<1> SUFFICES ASSUME OutboxInv, UNCHANGED outboxVars PROVE OutboxInv'
  OBVIOUS
<1>u. /\ UNCHANGED <<phase, tries, message, via, writeMu, channel, line, outgoing, incoming, skew, steps,
                     beyond, lastSecond, lastOffset, issued, currentSeqNo, newestSalt, seen, executed,
                     notices, timeOffset, serverSalt, refusals, corrected>>
      /\ Sent' = Sent
  BY SentStays DEF outboxVars, clock, generator, callers, network, server, learned
<1>1. Numbers' /\ Marks' /\ Tables' /\ Post'
  BY <1>u DEF OutboxInv, Numbers, Marks, Tables, Post
<1>2. Locked' /\ OnItsWay' /\ Numbered' /\ Once' /\ Salted'
  BY <1>u DEF OutboxInv, Locked, Preparing, OnItsWay, Waited, Awaits, Numbered, Once, Salted
<1>3. Answered'
  BY <1>u DEF OutboxInv, Answered, Answers, Rightly
<1>4. InStep'
  BY <1>u DEF OutboxInv, InStep, Uncorrected, AllFit, Older, Fit, NewestFits, LastOne, Preparing, NoneRefused
<1>5. Paid'
  BY <1>u DEF OutboxInv, Paid, Ahead, Owes, Late, Preparing, Awaits, InTime, Knows, Sealed
<1> QED BY <1>1, <1>2, <1>3, <1>4, <1>5 DEF OutboxInv

LEMMA OutboxKept == OutboxInv /\ [OutboxNext]_outboxVars => OutboxInv'
<1>1. ASSUME OutboxInv, NEW r \in Requests, Send(r) PROVE OutboxInv'
  BY <1>1, NewIdKeeps, SaltAndSeqKeeps, PutKeeps, TakeAnswerKeeps DEF Send
<1>2. ASSUME OutboxInv, ServerReads \/ ServerChangesSalt \/ ServerForgets PROVE OutboxInv'
  BY <1>2, ServerReadsKeeps, ServerChangesSaltKeeps, ServerForgetsKeeps
<1>3. ASSUME OutboxInv, ReaderReads \/ ReaderRefuses \/ LineBreaks \/ ClockSteps PROVE OutboxInv'
  BY <1>3, ReaderReadsKeeps, NewLineKeeps, ClockStepsKeeps DEF ReaderRefuses, LineBreaks
<1> QED BY <1>1, <1>2, <1>3, OutboxStill DEF OutboxNext

LEMMA OutboxAlways == OutboxSpec => []OutboxInv
BY OutboxStart, OutboxKept, PTL DEF OutboxSpec

(* Ids, sequence numbers, salts and the messages under way are what they   *)
(* are typed to be.                                                        *)
THEOREM OutboxTypes == OutboxSpec => []OutboxTypeOK
<1>1. OutboxInv => OutboxTypeOK
  BY OutboxParts DEF OutboxInv
<1> QED BY <1>1, OutboxAlways, PTL

LEMMA SentMeans == OutboxInv => SentForCause
<1> SUFFICES ASSUME OutboxInv PROVE SentForCause
  OBVIOUS
<1>1. ExecutedOnce
  BY DEF OutboxInv, Once, ExecutedOnce
<1>2. OutOfStepByCorrection
  BY DEF OutboxInv, InStep, NoneRefused, OutOfStepByCorrection
<1> QED BY <1>1, <1>2 DEF SentForCause

(* A refusal wakes only the request it is about, so that without a loss of *)
(* the connection nothing is executed twice; and as long as the offset has *)
(* not been changed no request fails for its sequence number, whatever     *)
(* salts, clock steps and new sessions come in between                     *)
(* (network.go: sendPacket; utils.go: NewMsgIDGenerator).                  *)
THEOREM SentForCauseAlways == OutboxSpec => []SentForCause
BY SentMeans, OutboxAlways, PTL

LEMMA RefusedMeans == OutboxInv => RefusedForCauseOrStuck
<1> SUFFICES ASSUME OutboxInv, ~ beyond PROVE RefusedForCause
  BY DEF RefusedForCauseOrStuck
<1>0. Numbers /\ Tables /\ Post /\ Fields /\ Salted /\ Paid
  BY EachField DEF OutboxInv
<1>1. ASSUME NEW r \in Requests PROVE refusals[r] <= steps + newestSalt
  <2>1. refusals[r] + Owes(r) <= steps + Knows(r)
    BY <1>0 DEF Paid
  <2>2. Owes(r) \in Nat
    BY DEF Owes
  <2>3. Knows(r) \in Nat /\ Knows(r) <= newestSalt
    BY <1>0 DEF Knows, Salted, Fields, Numbers
  <2>4. refusals[r] \in Nat /\ steps \in Nat /\ newestSalt \in Nat
    BY <1>0 DEF Fields, Numbers
  <2> HIDE DEF Owes, Knows
  <2> QED BY <2>1, <2>2, <2>3, <2>4
<1> QED BY <1>1 DEF RefusedForCause

(* A request is refused at most once for each step of the clock and each   *)
(* new salt, unless the clock was put back behind an id that is too high:  *)
(* each refusal was owed by a wrong clock or teaches a newer salt          *)
(* (mtproto.go: processResponse, bad_msg_notification and bad_server_salt).*)
THEOREM RefusedForCauseAlways == OutboxSpec => []RefusedForCauseOrStuck
BY RefusedMeans, OutboxAlways, PTL

(***************************************************************************)
(* The client as a whole.                                                  *)
(***************************************************************************)

ClientInv == CareInv /\ OutboxInv /\ KeysInv

LEMMA ClientStart == MtprotoInit => ClientInv
BY CareInit, OutboxStart, InvStart DEF MtprotoInit, ClientInv

LEMMA ClientStep == ClientInv /\ [MtprotoNext]_mtprotoVars => ClientInv'
<1> SUFFICES ASSUME ClientInv, [MtprotoNext]_mtprotoVars PROVE ClientInv'
  OBVIOUS
<1>1. [Next]_vars /\ [OutboxNext]_outboxVars /\ [KeysNext]_keysVars
  BY DEF MtprotoNext, ConnectionStep, OutboxStep, KeyStep, mtprotoVars
<1> QED BY <1>1, CareStep, OutboxKept, InvStep DEF ClientInv

LEMMA ClientAlways == MtprotoSpec => []ClientInv
BY ClientStart, ClientStep, PTL DEF MtprotoSpec

(* Every component of the client keeps its types (property MtprotoTypeOK). *)
THEOREM MtprotoTypes == MtprotoSpec => []MtprotoTypeOK
<1>1. CareInv => TypeOK
  BY TypeMeans DEF CareInv
<1>2. OutboxInv => OutboxTypeOK
  BY OutboxParts DEF OutboxInv
<1>3. KeysInv => KeysTypeOK
  BY DEF KeysInv
<1>4. ClientInv => MtprotoTypeOK
  BY <1>1, <1>2, <1>3 DEF ClientInv, MtprotoTypeOK
<1> QED BY <1>4, ClientAlways, PTL

(* What is proved of the components holds of the client they make up.      *)
THEOREM ClientIsSafe ==
  MtprotoSpec => [](/\ SomebodyCares /\ StrandedOnlyByFailure /\ OneReader
                    /\ SentForCause /\ RefusedForCauseOrStuck /\ KeysBelong)
<1>1. CareInv => SomebodyCares /\ StrandedOnlyByFailure /\ OneReader
  BY CareMeans, CareStrands, SafeMeans DEF CareInv, TypeInv
<1>2. OutboxInv => SentForCause
  BY SentMeans
<1>3. OutboxInv => RefusedForCauseOrStuck
  BY RefusedMeans
<1>4. ClientInv => /\ SomebodyCares /\ StrandedOnlyByFailure /\ OneReader
                   /\ SentForCause /\ RefusedForCauseOrStuck /\ KeysBelong
  BY <1>1, <1>2, <1>3 DEF ClientInv, KeysInv
<1> QED BY <1>4, ClientAlways, PTL
=============================================================================
