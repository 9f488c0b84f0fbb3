----------------------------- MODULE SecretChat -----------------------------
(***************************************************************************)
(* A secret chat (telegram/secret_chats.go, telegram/e2e/secret_chat.go)   *)
(* between its originator and a partner, both running this code, with the  *)
(* server between them.  On each side there are                            *)
(*                                                                         *)
(*   users      goroutines in SendSecretMessage and its kin                *)
(*   a handler  the pool of one that runs HandleSecretChatUpdate           *)
(*                                                                         *)
(* and on the partner's side Acceptors, calls of AcceptSecretChat: the     *)
(* update that asks for one may be delivered more than once.  A chat       *)
(* object of the partner is named after the call that made it, and so is   *)
(* the key it shares with the originator, if the server takes it.          *)
(*                                                                         *)
(* The server keeps for each side a log of updates.  They are delivered    *)
(* in order (qts), but any of them may be delivered again, or too early.   *)
(* A request may fail before or after the server has carried it out.       *)
(***************************************************************************)
EXTENDS Naturals, Sequences, FiniteSets

CONSTANTS
  Origin,                          \* the originator's chat object
  OriginUsers, PartnerUsers,       \* threads that send
  OriginHandler, PartnerHandler,
  Acceptors,
  MaxSay,                          \* bound: messages that users begin, per chat
  MaxFaults,                       \* bound: requests that fail
  MaxReplays,                      \* bound: updates delivered again or early
  None

Chats    == {Origin} \union Acceptors
Handlers == {OriginHandler, PartnerHandler}
Users    == OriginUsers \union PartnerUsers
Threads  == Users \union Handlers \union Acceptors
Sides    == {"origin", "partner"}

ASSUME SecretChatAssumption ==
  /\ None \notin Threads /\ None # Origin /\ Origin \notin Threads
  /\ IsFiniteSet(Threads)
  /\ OriginHandler # PartnerHandler
  /\ Users \cap Handlers = {} /\ Users \cap Acceptors = {} /\ Handlers \cap Acceptors = {}
  /\ OriginUsers \cap PartnerUsers = {}
  /\ MaxSay \in Nat /\ MaxFaults \in Nat /\ MaxReplays \in Nat

VARIABLES
  stage,      \* [Chats -> State of the chat object]
  key,        \* [Chats -> the shared key, named after the partner's chat]
  out, in,    \* OutSeqNoCounter, InSeqNoCounter
  ack,        \* remoteAck
  listed,     \* [Sides -> the chat that the manager lists under the real id; until
              \* UpdateChatID the originator's is listed under a temporary one]
  sends,      \* secretSends: [Chats -> its lock, named after the thread that made it]
  users,      \* [Chats -> [Threads -> users of the lock]]
  holder,     \* [Chats -> [Threads -> who holds the mutex of the lock]]
  pc,         \* [Threads -> next step]
  chat,       \* [Threads -> the chat object it works on]
  lock,       \* [Threads -> the lock that lockSecretSend gave it]
  draft,      \* [Threads -> the message it sends or handles]
  asking,     \* where RequestSecretChat is
  leaving,    \* the sides inside DiscardSecretChat
  status,     \* the server's view of the chat
  accepted,   \* the key that the server took
  log,        \* [Sides -> the updates for this side]
  next,       \* [Sides -> how many of them were delivered in order]
  faults, replays,
  said,       \* history: [Chats -> numbers taken]
  heard,      \* history: [Chats -> messages accepted, by what they were when said]
  broken      \* history: a number never reached the server, or an update found no chat

chatVars == <<stage, key, out, in, ack>>
lockVars == <<sends, users, holder, lock>>
callVars == <<asking, leaving>>
servVars == <<status, accepted, log>>
netVars  == <<next, faults, replays>>
histVars == <<said, heard, broken>>
vars == <<chatVars, listed, lockVars, pc, chat, draft, callVars, servVars, netVars, histVars>>

SideOf(t) == IF t \in OriginUsers \union {OriginHandler, Origin} THEN "origin" ELSE "partner"
Other(s)  == IF s = "origin" THEN "partner" ELSE "origin"

Blank == [kind |-> "none", key |-> None, out |-> 0, in |-> 0, id |-> 0]
Note(k, n) == [Blank EXCEPT !.kind = k, !.key = n]

Init ==
  /\ stage = [c \in Chats |-> "none"] /\ key = [c \in Chats |-> None]
  /\ out = [c \in Chats |-> 0] /\ in = [c \in Chats |-> 0] /\ ack = [c \in Chats |-> 0]
  /\ listed = [s \in Sides |-> None]
  /\ sends = [c \in Chats |-> None]
  /\ users = [c \in Chats |-> [t \in Threads |-> 0]]
  /\ holder = [c \in Chats |-> [t \in Threads |-> None]]
  /\ pc = [t \in Threads |-> "idle"]
  /\ chat = [t \in Threads |-> None] /\ lock = [t \in Threads |-> None]
  /\ draft = [t \in Threads |-> Blank]
  /\ asking = "idle" /\ leaving = {}
  /\ status = "none" /\ accepted = None
  /\ log = [s \in Sides |-> <<>>] /\ next = [s \in Sides |-> 0]
  /\ faults = 0 /\ replays = 0
  /\ said = [c \in Chats |-> 0] /\ heard = [c \in Chats |-> <<>>] /\ broken = FALSE

-----------------------------------------------------------------------------

At(t, l)   == pc[t] = l
Goto(t, l) == pc' = [pc EXCEPT ![t] = l]

Tell(s, m) == log' = [log EXCEPT ![s] = Append(@, m)]

Fault == faults < MaxFaults /\ faults' = faults + 1 /\ UNCHANGED <<next, replays>>

(* RemoveSecretChat(id): whatever the manager lists under the real id. *)
Remove(s) ==
  /\ stage' = [c \in Chats |-> IF c = listed[s] THEN "discarded" ELSE stage[c]]
  /\ listed' = [listed EXCEPT ![s] = None]

(* Sequence numbers on the wire: x is 0 for the originator, 1 for the      *)
(* partner.                                                                *)
X(c) == IF c = Origin THEN 0 ELSE 1
WireOut(c, n) == 2 * n - 1 - X(c)
WireIn(c, n)  == 2 * n + X(c)

-----------------------------------------------------------------------------
(* RequestSecretChat.                                                      *)

CreateChat ==
  /\ asking = "idle"
  /\ stage' = [stage EXCEPT ![Origin] = "requested"]
  /\ asking' = "request"
  /\ UNCHANGED <<key, out, in, ack, listed, lockVars, pc, chat, draft, leaving, servVars, netVars, histVars>>

(* MessagesRequestEncryption.  When it fails the chat is removed, which is *)
(* still listed under its temporary id, even if the server has it.         *)
AskRequest ==
  /\ asking = "request"
  /\ \/ status' = "asked" /\ asking' = "rename" /\ UNCHANGED <<stage, netVars>>
     \/ Fault /\ status' \in {"asked", "none"} /\ asking' = "done" /\ stage' = [stage EXCEPT ![Origin] = "discarded"]
  /\ UNCHANGED <<key, out, in, ack, listed, lockVars, pc, chat, draft, leaving, accepted, log, histVars>>

(* UpdateChatID *)
RenameChat ==
  /\ asking = "rename"
  /\ asking' = "done"
  /\ listed' = [listed EXCEPT !["origin"] = Origin]
  /\ UNCHANGED <<chatVars, lockVars, pc, chat, draft, leaving, servVars, netVars, histVars>>

-----------------------------------------------------------------------------
(* AcceptSecretChat, call a.                                               *)

AcceptChat(a) ==
  /\ a \in Acceptors /\ At(a, "idle") /\ stage[a] = "none"
  /\ status # "none"
  /\ stage' = [stage EXCEPT ![a] = "ready"]
  /\ key' = [key EXCEPT ![a] = a]
  /\ listed' = [listed EXCEPT !["partner"] = a]
  /\ Goto(a, "accept")
  /\ UNCHANGED <<out, in, ack, lockVars, chat, draft, callVars, servVars, netVars, histVars>>

(* MessagesAcceptEncryption.  The server takes the first. *)
AskAccept(a) ==
  /\ a \in Acceptors /\ At(a, "accept")
  /\ \/ /\ status = "asked"
        /\ status' = "accepted" /\ accepted' = a
        /\ Tell("origin", Note("agreed", a))
        /\ \/ Goto(a, "notify") /\ UNCHANGED netVars
           \/ Goto(a, "drop") /\ Fault
     \/ status # "asked" /\ Goto(a, "drop") /\ UNCHANGED <<servVars, netVars>>
     \/ Goto(a, "drop") /\ Fault /\ UNCHANGED servVars
  /\ UNCHANGED <<chatVars, listed, lockVars, chat, draft, callVars, histVars>>

DropChat(a) ==
  /\ a \in Acceptors /\ At(a, "drop")
  /\ Remove("partner")
  /\ Goto(a, "idle")
  /\ UNCHANGED <<key, out, in, ack, lockVars, chat, draft, callVars, servVars, netVars, histVars>>

-----------------------------------------------------------------------------
(* DiscardSecretChat: ask the server, then forget the chat.                *)

AskDiscard(s) ==
  /\ s \notin leaving /\ listed[s] # None
  /\ status \in {"asked", "accepted"}
  /\ status' = "closed"
  /\ Tell(Other(s), Note("discarded", None))
  /\ leaving' = leaving \union {s}
  /\ UNCHANGED <<chatVars, listed, lockVars, pc, chat, draft, asking, accepted, netVars, histVars>>

ForgetChat(s) ==
  /\ s \in leaving
  /\ leaving' = leaving \ {s}
  /\ Remove(s)
  /\ UNCHANGED <<key, out, in, ack, lockVars, pc, chat, draft, asking, servVars, netVars, histVars>>

-----------------------------------------------------------------------------
(* SendSecretMessage, sendSecretService, SendSecretFile: one numbered      *)
(* message of thread t, a user or a call that announces the layer.         *)

FindChat(t) ==
  LET c == listed[SideOf(t)] IN
  /\ \/ t \in Users /\ At(t, "idle") /\ c # None /\ said[c] < MaxSay
     \/ At(t, "notify")
  /\ chat' = [chat EXCEPT ![t] = c]
  /\ Goto(t, IF c = None THEN "idle" ELSE "enter")
  /\ UNCHANGED <<chatVars, listed, lockVars, draft, callVars, servVars, netVars, histVars>>

(* Seeded fault: nobody counts the users. *)
EnterLockUncounted(t) ==
  LET c == chat[t]
      l == IF sends[c] = None THEN t ELSE sends[c]
  IN
  /\ At(t, "enter")
  /\ sends' = [sends EXCEPT ![c] = l]
  /\ lock' = [lock EXCEPT ![t] = l]
  /\ Goto(t, "take")
  /\ UNCHANGED <<chatVars, listed, users, holder, chat, draft, callVars, servVars, netVars, histVars>>

(* lockSecretSend: get the chat's lock, or make it, and be one of its users. *)
EnterLock(t) ==
  LET c == chat[t]
      l == IF sends[c] = None THEN t ELSE sends[c]
  IN
  /\ At(t, "enter")
  /\ sends' = [sends EXCEPT ![c] = l]
  /\ users' = [users EXCEPT ![c][l] = (IF sends[c] = None THEN 0 ELSE @) + 1]
  /\ holder' = [holder EXCEPT ![c][l] = IF sends[c] = None THEN None ELSE @]
  /\ lock' = [lock EXCEPT ![t] = l]
  /\ Goto(t, "take")
  /\ UNCHANGED <<chatVars, listed, chat, draft, callVars, servVars, netVars, histVars>>

(* Take the mutex, and read how many messages came in. *)
TakeLock(t) ==
  LET c == chat[t] IN
  /\ At(t, "take") /\ holder[c][lock[t]] = None
  /\ holder' = [holder EXCEPT ![c][lock[t]] = t]
  /\ draft' = [draft EXCEPT ![t] = [Note("text", None) EXCEPT !.in = WireIn(c, in[c])]]
  /\ Goto(t, "number")
  /\ UNCHANGED <<chatVars, listed, sends, users, lock, chat, callVars, servVars, netVars, histVars>>

(* NextOutSeqNo *)
TakeNumber(t) ==
  LET c == chat[t] IN
  /\ At(t, "number")
  /\ out' = [out EXCEPT ![c] = @ + 1]
  /\ said' = [said EXCEPT ![c] = @ + 1]
  /\ draft' = [draft EXCEPT ![t].out = WireOut(c, out[c] + 1), ![t].id = said[c] + 1]
  /\ Goto(t, "seal")
  /\ UNCHANGED <<stage, key, in, ack, listed, lockVars, chat, callVars, servVars, netVars, heard, broken>>

(* EncryptMessage.  The number of a message that cannot be encrypted is    *)
(* lost, and so is that of one that the server does not take.              *)
Seal(t) ==
  LET c == chat[t] IN
  /\ At(t, "seal")
  /\ \/ /\ stage[c] = "ready"
        /\ draft' = [draft EXCEPT ![t].key = key[c]]
        /\ Goto(t, "post") /\ UNCHANGED broken
     \/ /\ stage[c] # "ready"
        /\ Goto(t, "unlock") /\ broken' = TRUE /\ UNCHANGED draft
  /\ UNCHANGED <<chatVars, listed, lockVars, chat, callVars, servVars, netVars, said, heard>>

(* MessagesSendEncrypted *)
Post(t) ==
  /\ At(t, "post")
  /\ \/ /\ status = "accepted"
        /\ Tell(Other(SideOf(t)), draft[t])
        /\ UNCHANGED broken
        /\ Fault \/ UNCHANGED netVars
     \/ /\ broken' = TRUE
        /\ UNCHANGED log
        /\ Fault \/ (status # "accepted" /\ UNCHANGED netVars)
  /\ Goto(t, "unlock")
  /\ UNCHANGED <<chatVars, listed, lockVars, chat, draft, callVars, status, accepted, said, heard>>

FreeLock(t) ==
  /\ At(t, "unlock")
  /\ holder' = [holder EXCEPT ![chat[t]][lock[t]] = None]
  /\ draft' = [draft EXCEPT ![t] = Blank]
  /\ Goto(t, "leave")
  /\ UNCHANGED <<chatVars, listed, sends, users, lock, chat, callVars, servVars, netVars, histVars>>

(* Seeded fault: whoever leaves takes the entry off. *)
LeaveLockAlone(t) ==
  LET c == chat[t] IN
  /\ At(t, "leave")
  /\ users' = [users EXCEPT ![c][lock[t]] = @ - 1]
  /\ sends' = [sends EXCEPT ![c] = None]
  /\ lock' = [lock EXCEPT ![t] = None] /\ chat' = [chat EXCEPT ![t] = None]
  /\ Goto(t, "idle")
  /\ UNCHANGED <<chatVars, listed, holder, draft, callVars, servVars, netVars, histVars>>

(* The last user of the lock takes it off the map. *)
LeaveLock(t) ==
  LET c == chat[t]
      n == users[c][lock[t]] - 1
  IN
  /\ At(t, "leave")
  /\ users' = [users EXCEPT ![c][lock[t]] = n]
  /\ sends' = [sends EXCEPT ![c] = IF n = 0 THEN None ELSE @]
  /\ lock' = [lock EXCEPT ![t] = None] /\ chat' = [chat EXCEPT ![t] = None]
  /\ Goto(t, "idle")
  /\ UNCHANGED <<chatVars, listed, holder, draft, callVars, servVars, netVars, histVars>>

-----------------------------------------------------------------------------
(* HandleSecretChatUpdate, run by handler h.                               *)

(* The next update of the log, or one that comes at the wrong time. *)
Deliver(h) ==
  LET s == SideOf(h) IN
  /\ h \in Handlers /\ At(h, "idle")
  /\ next[s] < Len(log[s])
  /\ next' = [next EXCEPT ![s] = @ + 1]
  /\ draft' = [draft EXCEPT ![h] = log[s][next[s] + 1]]
  /\ Goto(h, "handle")
  /\ UNCHANGED <<chatVars, listed, lockVars, chat, callVars, servVars, faults, replays, histVars>>

Replay(h) ==
  /\ h \in Handlers /\ At(h, "idle") /\ replays < MaxReplays
  /\ \E i \in 1 .. Len(log[SideOf(h)]) :
        draft' = [draft EXCEPT ![h] = log[SideOf(h)][i]]
  /\ replays' = replays + 1
  /\ Goto(h, "handle")
  /\ UNCHANGED <<chatVars, listed, lockVars, chat, callVars, servVars, next, faults, histVars>>

(* EncryptedChatDiscarded *)
HandleDiscarded(h) ==
  /\ At(h, "handle") /\ draft[h].kind = "discarded"
  /\ Remove(SideOf(h))
  /\ draft' = [draft EXCEPT ![h] = Blank]
  /\ Goto(h, "idle")
  /\ UNCHANGED <<key, out, in, ack, lockVars, chat, callVars, servVars, netVars, histVars>>

(* Seeded fault: the chat is looked up under its temporary id, the one it  *)
(* was created with, and never found.                                      *)
LookupByOldId(h) ==
  /\ At(h, "handle") /\ draft[h].kind # "discarded"
  /\ Goto(h, "idle") /\ draft' = [draft EXCEPT ![h] = Blank] /\ chat' = [chat EXCEPT ![h] = None]
  /\ UNCHANGED <<chatVars, listed, lockVars, callVars, servVars, netVars, histVars>>

(* The other updates are for a chat that the manager lists, or for none. *)
Lookup(h) ==
  LET c == listed[SideOf(h)] IN
  /\ At(h, "handle") /\ draft[h].kind # "discarded"
  /\ \/ /\ c = None
        /\ Goto(h, "idle") /\ draft' = [draft EXCEPT ![h] = Blank] /\ broken' = TRUE
     \/ c # None /\ Goto(h, draft[h].kind) /\ UNCHANGED <<draft, broken>>
  /\ chat' = [chat EXCEPT ![h] = c]
  /\ UNCHANGED <<chatVars, listed, lockVars, callVars, servVars, netVars, said, heard>>

(* CompleteKeyExchange, on the chat that is listed now.  Then the layer is *)
(* announced.  Only DiscardSecretChat takes a chat off the list, once the  *)
(* server has closed it: the discard and the removal with which the code   *)
(* answers a missing chat (secret_chats.go:383) then change nothing.       *)
CompleteKeyExchange(h) ==
  LET c == listed[SideOf(h)] IN
  /\ At(h, "agreed")
  /\ \/ /\ c # None
        /\ stage' = [stage EXCEPT ![c] = "ready"]
        /\ key' = [key EXCEPT ![c] = draft[h].key]
        /\ Goto(h, "notify")
     \/ c = None /\ Goto(h, "idle") /\ UNCHANGED <<stage, key>>
  /\ chat' = [chat EXCEPT ![h] = None] /\ draft' = [draft EXCEPT ![h] = Blank]
  /\ UNCHANGED <<out, in, ack, listed, lockVars, callVars, servVars, netVars, histVars>>

(* decryptSecretMessage looks the chat up again. *)
Opens(c, m) == c # None /\ key[c] = m.key /\ stage[c] = "ready"

Open(h) ==
  LET can == Opens(listed[SideOf(h)], draft[h]) IN
  /\ At(h, "text")
  /\ \/ can /\ Goto(h, "layer") /\ UNCHANGED <<chat, draft>>
     \/ /\ ~can
        /\ Goto(h, "idle")
        /\ chat' = [chat EXCEPT ![h] = None] /\ draft' = [draft EXCEPT ![h] = Blank]
  /\ UNCHANGED <<chatVars, listed, lockVars, callVars, servVars, netVars, histVars>>

(* Seeded fault: neither the acknowledged count nor the place is checked. *)
FitsAnyPlace(c, m) ==
  /\ stage[c] = "ready"
  /\ m.out % 2 = X(c) /\ m.in % 2 = 1 - X(c)

(* AcceptIncomingLayer: the acknowledged count is x, of those that this    *)
(* side numbered and not less than before, and the message is the next.    *)
Fits(c, m) ==
  LET acked == (m.in - (1 - X(c))) \div 2 IN
  /\ stage[c] = "ready"
  /\ m.out % 2 = X(c) /\ m.in % 2 = 1 - X(c)
  /\ ack[c] <= acked /\ acked <= out[c]
  /\ m.out = 2 * in[c] + X(c)

AcceptLayer(h) ==
  LET c == chat[h]
      m == draft[h]
  IN
  /\ At(h, "layer")
  /\ \/ /\ Fits(c, m)
        /\ in' = [in EXCEPT ![c] = @ + 1]
        /\ ack' = [ack EXCEPT ![c] = (m.in - (1 - X(c))) \div 2]
        /\ heard' = [heard EXCEPT ![c] = Append(@, m.id)]
     \/ ~Fits(c, m) /\ UNCHANGED <<in, ack, heard>>
  /\ chat' = [chat EXCEPT ![h] = None] /\ draft' = [draft EXCEPT ![h] = Blank]
  /\ Goto(h, "idle")
  /\ UNCHANGED <<stage, key, out, listed, lockVars, callVars, servVars, netVars, said, broken>>

-----------------------------------------------------------------------------

SendStep(t) ==
  \/ FindChat(t)   \/ EnterLock(t) \/ TakeLock(t) \/ TakeNumber(t)
  \/ Seal(t)       \/ Post(t)      \/ FreeLock(t) \/ LeaveLock(t)

HandleStep(h) ==
  \/ HandleDiscarded(h) \/ Lookup(h) \/ CompleteKeyExchange(h) \/ Open(h) \/ AcceptLayer(h)

Request == CreateChat \/ AskRequest \/ RenameChat

Accept(a) == AcceptChat(a) \/ AskAccept(a) \/ DropChat(a)

Discard(s) == AskDiscard(s) \/ ForgetChat(s)

Next ==
  \/ \E t \in Threads : SendStep(t)
  \/ \E h \in Handlers : Deliver(h) \/ Replay(h) \/ HandleStep(h)
  \/ Request
  \/ \E a \in Acceptors : Accept(a)
  \/ \E s \in Sides : Discard(s)

Spec == Init /\ [][Next]_vars

(* A goroutine that has begun goes on, and the gaps in the update log are  *)
(* fetched.  Users need not begin anything.                                *)
Running(t) ==
  \/ ~At(t, "idle") /\ SendStep(t)
  \/ t \in Handlers /\ (Deliver(t) \/ HandleStep(t))
  \/ t \in Acceptors /\ (AskAccept(t) \/ DropChat(t))

(* No more than this is needed of them: not all stand still for ever.      *)
Fairness ==
  WF_vars(\/ \E t \in Threads : Running(t)
          \/ AskRequest \/ RenameChat
          \/ \E s \in Sides : ForgetChat(s))

-----------------------------------------------------------------------------

Labels == {"idle", "accept", "drop", "notify", "enter", "take", "number", "seal", "post",
           "unlock", "leave", "handle", "agreed", "text", "layer"}

Drafts == [kind : {"none", "agreed", "discarded", "text"}, key : Acceptors \union {None},
           out : Nat, in : Nat, id : Nat]

(* Every variable keeps its kind; the users of a lock are never fewer than *)
(* none.                                                                   *)
TypeOK ==
  /\ stage \in [Chats -> {"none", "requested", "ready", "discarded"}]
  /\ key \in [Chats -> Acceptors \union {None}]
  /\ out \in [Chats -> Nat] /\ in \in [Chats -> Nat] /\ ack \in [Chats -> Nat]
  /\ listed \in [Sides -> Chats \union {None}]
  /\ sends \in [Chats -> Threads \union {None}]
  /\ users \in [Chats -> [Threads -> Nat]]
  /\ holder \in [Chats -> [Threads -> Threads \union {None}]]
  /\ pc \in [Threads -> Labels]
  /\ chat \in [Threads -> Chats \union {None}]
  /\ lock \in [Threads -> Threads \union {None}]
  /\ draft \in [Threads -> Drafts]
  /\ asking \in {"idle", "request", "rename", "done"} /\ leaving \subseteq Sides
  /\ status \in {"none", "asked", "accepted", "closed"}
  /\ accepted \in Acceptors \union {None}
  /\ log \in [Sides -> Seq(Drafts)] /\ next \in [Sides -> Nat]
  /\ faults \in Nat /\ replays \in Nat
  /\ said \in [Chats -> Nat] /\ heard \in [Chats -> Seq(Nat)] /\ broken \in BOOLEAN

(* Between the number it takes and the request that carries it, a thread   *)
(* has the chat to itself: the server gets the messages in the order of    *)
(* their numbers, although the entry of the lock comes and goes with its   *)
(* users (lockSecretSend).                                                 *)
OneSender ==
  \A t, u \in Threads :
     /\ t # u /\ chat[t] = chat[u]
     /\ pc[t] \in {"number", "seal", "post", "unlock"}
     => pc[u] \notin {"number", "seal", "post", "unlock"}

(* In both directions the chat is a SecureLine: whatever is sent twice,    *)
(* too early or not at all, a side hears the messages of the other from    *)
(* the first on, in order, each once (AcceptIncomingLayer).                *)
ToPartner == INSTANCE SecureLine WITH
  said  <- said[Origin],
  heard <- IF accepted = None THEN <<>> ELSE heard[accepted]

ToOrigin == INSTANCE SecureLine WITH
  said  <- IF accepted = None THEN 0 ELSE said[accepted],
  heard <- heard[Origin]

IsLine == ToPartner!Spec /\ ToOrigin!Spec

(* What the chat cannot survive: a number that never reached the server,   *)
(* an update that comes before UpdateChatID has listed the chat under the  *)
(* id by which it is looked up, and the end of the chat on either side.    *)
Over ==
  \/ broken \/ status = "closed"
  \/ \E c \in Chats : stage[c] = "discarded"

(* In the end every message that the server took is heard, unless the chat *)
(* was over.                                                               *)
AllHeard ==
  \A s \in Sides : \A k \in 1 .. Len(log[s]) :
     log[s][k].kind = "text" =>
       \E c \in Chats : SideOf(c) = s /\ log[s][k].id <= Len(heard[c])

Arrives == <>[](AllHeard \/ Over)
=============================================================================
