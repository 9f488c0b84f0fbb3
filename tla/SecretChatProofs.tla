-------------------------- MODULE SecretChatProofs --------------------------
(* Proofs about SecretChat: at most one sender of a chat is between its    *)
(* number and its request, and both directions are a SecureLine, for any   *)
(* number of users, acceptors, messages, faults and replays.               *)
EXTENDS SecretChat, TLAPS, FiniteSetTheorems

Held    == {"number", "seal", "post", "unlock"}
Entered == {"take", "leave"} \union Held

(* The threads that count as users of lock l of chat c. *)
Inside(c, l) == {t \in Threads : pc[t] \in Entered /\ chat[t] = c /\ lock[t] = l}

(* A lock that somebody uses is the one on the map, counts who uses it,    *)
(* and is held by the one who is past it.                                  *)
LockInv ==
  /\ \A t \in Threads : pc[t] \in Entered \union {"enter"} => chat[t] \in Chats
  /\ \A t \in Threads : pc[t] \in Entered => lock[t] \in Threads /\ sends[chat[t]] = lock[t]
  /\ \A t \in Threads : pc[t] \in Held => holder[chat[t]][lock[t]] = t
  /\ \A c \in Chats : \A l \in Threads :
       sends[c] = l => users[c][l] = Cardinality(Inside(c, l))

(* Each side works on its own chats, with the key of the acceptor that the *)
(* server took.                                                            *)
SideInv ==
  /\ listed["origin"] \in {Origin, None} /\ listed["partner"] \in Acceptors \union {None}
  /\ \A t \in Threads : chat[t] # None => (chat[t] = Origin <=> SideOf(t) = "origin")
  /\ \A h \in Handlers : pc[h] \in {"agreed", "text", "layer"} => chat[h] \in Chats
  /\ \A a \in Acceptors : stage[a] = "ready" => key[a] = a
  /\ key[Origin] # None => key[Origin] = accepted
  /\ asking \in {"idle", "request"} => status = "none"
  /\ status \in {"none", "asked"} => accepted = None
  /\ status = "accepted" => accepted # None

(* An update for side s is what it seems: a text has the place of what was *)
(* said, by the chat of its key if it comes from the partner.              *)
Fine(s, m) ==
  /\ m.kind \in {"agreed", "discarded", "text"}
  /\ m.kind = "agreed" => s = "origin" /\ accepted # None /\ m.key = accepted
  /\ m.kind = "text" =>
       /\ accepted # None
       /\ s = "partner" => m.out = WireOut(Origin, m.id) /\ m.id <= said[Origin]
       /\ s = "origin" =>
            m.key \in Acceptors /\ m.out = WireOut(m.key, m.id) /\ m.id <= said[m.key]

(* What handler h has in hand, from the update's arrival to its end. *)
InHand == {"handle", "agreed", "text", "layer"}

Mail(h) ==
  /\ pc[h] \in InHand => Fine(SideOf(h), draft[h])
  /\ pc[h] = "agreed" => draft[h].kind = "agreed"
  /\ pc[h] \in {"text", "layer"} => draft[h].kind = "text"
  /\ pc[h] = "layer" /\ SideOf(h) = "origin" => draft[h].key = accepted

MailInv ==
  /\ \A s \in Sides : \A i \in 1 .. Len(log[s]) : Fine(s, log[s][i])
  /\ \A h \in Handlers : Mail(h)

(* The numbers that a chat takes, and those that it has heard. *)
CountInv ==
  /\ \A c \in Chats : out[c] = said[c]
  /\ \A t \in Threads : pc[t] \in {"number", "seal", "post"} => draft[t].kind = "text"
  /\ \A t \in Threads : pc[t] \in {"seal", "post"} =>
       /\ draft[t].out = WireOut(chat[t], draft[t].id) /\ draft[t].id <= said[chat[t]]
       /\ pc[t] = "post" /\ chat[t] \in Acceptors => draft[t].key = chat[t]
  /\ \A c \in Chats : Len(heard[c]) = in[c]
  /\ accepted = None => \A a \in Acceptors : in[a] = 0

IInv == TypeOK /\ LockInv /\ SideInv /\ MailInv /\ CountInv

-----------------------------------------------------------------------------

LEMMA SideFacts ==
  /\ \A s \in Sides : Other(s) \in Sides /\ Other(s) # s
  /\ \A t \in Threads : SideOf(t) \in Sides
  /\ SideOf(OriginHandler) = "origin" /\ SideOf(PartnerHandler) = "partner"
  /\ \A a \in Acceptors : SideOf(a) = "partner"
  /\ Origin \notin Acceptors /\ None \notin Chats /\ Origin \in Chats /\ Acceptors \subseteq Chats
  /\ Handlers \subseteq Threads /\ Acceptors \subseteq Threads /\ None \notin Threads
BY SecretChatAssumption DEF Sides, Other, SideOf, Threads, Chats, Handlers, Users

LEMMA DraftTyped ==
  /\ Blank \in Drafts
  /\ \A k \in {"agreed", "discarded", "text"}, n \in Acceptors \union {None} : Note(k, n) \in Drafts
  /\ \A d \in Drafts, n \in Nat : [d EXCEPT !.in = n] \in Drafts
  /\ \A d \in Drafts, n \in Acceptors \union {None} : [d EXCEPT !.key = n] \in Drafts
  /\ \A d \in Drafts, n, m \in Nat : [d EXCEPT !.out = n, !.id = m] \in Drafts
BY DEF Blank, Note, Drafts

LEMMA WireTyped ==
  ASSUME NEW c, NEW n \in Nat
  PROVE  WireIn(c, n) \in Nat /\ WireOut(c, n + 1) \in Nat /\ X(c) \in {0, 1}
BY DEF WireIn, WireOut, X

(* TypeOK, in the parts that a step changes. *)
ChatType ==
  /\ stage \in [Chats -> {"none", "requested", "ready", "discarded"}]
  /\ key \in [Chats -> Acceptors \union {None}]
  /\ out \in [Chats -> Nat] /\ in \in [Chats -> Nat] /\ ack \in [Chats -> Nat]
ListType == listed \in [Sides -> Chats \union {None}]
LockType ==
  /\ sends \in [Chats -> Threads \union {None}]
  /\ users \in [Chats -> [Threads -> Nat]]
  /\ holder \in [Chats -> [Threads -> Threads \union {None}]]
  /\ lock \in [Threads -> Threads \union {None}]
PcType == pc \in [Threads -> Labels]
OnType == chat \in [Threads -> Chats \union {None}]
DraftType == draft \in [Threads -> Drafts]
CallType ==
  /\ asking \in {"idle", "request", "rename", "done"} /\ leaving \subseteq Sides
  /\ status \in {"none", "asked", "accepted", "closed"}
  /\ accepted \in Acceptors \union {None}
LogType == log \in [Sides -> Seq(Drafts)] /\ next \in [Sides -> Nat]
HistType ==
  /\ faults \in Nat /\ replays \in Nat
  /\ said \in [Chats -> Nat] /\ heard \in [Chats -> Seq(Nat)] /\ broken \in BOOLEAN

Types == /\ ChatType /\ ListType /\ LockType /\ PcType /\ OnType
         /\ DraftType /\ CallType /\ LogType /\ HistType

LEMMA TypeParts == TypeOK <=> Types
BY DEF TypeOK, Types, ChatType, ListType, LockType, PcType, OnType, DraftType, CallType, LogType, HistType

LEMMA TypePartsNext == TypeOK' <=> Types'
BY DEF TypeOK, Types, ChatType, ListType, LockType, PcType, OnType, DraftType, CallType, LogType, HistType

LEMMA TypeInit == Init => TypeOK
<1> SUFFICES ASSUME Init PROVE Types
  BY TypeParts
<1> <<>> \in Seq(Drafts) /\ <<>> \in Seq(Nat)
  OBVIOUS
<1> QED
  BY SideFacts, DraftTyped DEF Init, Types, ChatType, ListType, LockType, PcType, OnType,
     DraftType, CallType, LogType, HistType, Labels, Sides

(* The lock that a thread leaves has it among its users. *)
LEMMA LockCounted ==
  ASSUME Types, LockInv, NEW t \in Threads, pc[t] \in Entered
  PROVE  /\ chat[t] \in Chats /\ lock[t] \in Threads /\ sends[chat[t]] = lock[t]
         /\ users[chat[t]][lock[t]] \in Nat \ {0}
         /\ users[chat[t]][lock[t]] = Cardinality(Inside(chat[t], lock[t]))
         /\ IsFiniteSet(Inside(chat[t], lock[t]))
<1>1. chat[t] \in Chats /\ lock[t] \in Threads /\ sends[chat[t]] = lock[t]
  BY DEF LockInv
<1>2. IsFiniteSet(Inside(chat[t], lock[t]))
  BY FS_Subset, SecretChatAssumption DEF Inside
<1>3. t \in Inside(chat[t], lock[t])
  BY DEF Inside
<1>4. Cardinality(Inside(chat[t], lock[t])) \in Nat \ {0}
  BY <1>2, <1>3, FS_EmptySet, FS_CardinalityType
<1>5. users[chat[t]][lock[t]] = Cardinality(Inside(chat[t], lock[t]))
  BY <1>1 DEF LockInv
<1> QED
  BY <1>1, <1>2, <1>4, <1>5

LEMMA Telling ==
  ASSUME log \in [Sides -> Seq(Drafts)], NEW s \in Sides, NEW m \in Drafts, Tell(s, m)
  PROVE  log' \in [Sides -> Seq(Drafts)]
<1>1. Append(log[s], m) \in Seq(Drafts)
  OBVIOUS
<1> QED
  BY <1>1 DEF Tell

LEMMA TypeStep == TypeOK /\ LockInv /\ SideInv /\ MailInv /\ [Next]_vars => TypeOK'
<1> SUFFICES ASSUME Types, LockInv, SideInv, MailInv, [Next]_vars PROVE Types'
  BY TypeParts, TypePartsNext
<1> USE DEF Types
<1>1. ASSUME NEW t \in Threads, FindChat(t) PROVE Types'
  <2>1. PcType'
    BY <1>1 DEF FindChat, PcType, At, Goto, Labels
  <2>2. OnType'
    BY <1>1, SideFacts DEF FindChat, OnType, ListType
  <2>3. ChatType' /\ ListType' /\ LockType' /\ DraftType' /\ CallType' /\ LogType' /\ HistType'
    BY <1>1 DEF FindChat, ChatType, ListType, LockType, DraftType, CallType, LogType, HistType, chatVars, lockVars, callVars, servVars, netVars, histVars
  <2> QED
    BY <2>1, <2>2, <2>3
<1>2. ASSUME NEW t \in Threads, EnterLock(t) PROVE Types'
  <2> chat[t] \in Chats /\ TRUE
    BY <1>2 DEF EnterLock, At, LockInv
  <2>1. LockType'
    BY <1>2 DEF EnterLock, LockType, lockVars, LockInv, At
  <2>2. PcType'
    BY <1>2 DEF EnterLock, PcType, At, Goto, Labels
  <2>3. ChatType' /\ ListType' /\ OnType' /\ DraftType' /\ CallType' /\ LogType' /\ HistType'
    BY <1>2 DEF EnterLock, ChatType, ListType, OnType, DraftType, CallType, LogType, HistType, chatVars, lockVars, callVars, servVars, netVars, histVars
  <2> QED
    BY <2>1, <2>2, <2>3
<1>3. ASSUME NEW t \in Threads, TakeLock(t) PROVE Types'
  <2> chat[t] \in Chats /\ lock[t] \in Threads /\ sends[chat[t]] = lock[t]
    BY <1>3, LockCounted DEF TakeLock, At, Entered, Held
  <2>1. LockType'
    BY <1>3 DEF TakeLock, LockType, lockVars, At
  <2>2. PcType'
    BY <1>3 DEF TakeLock, PcType, At, Goto, Labels
  <2>3. DraftType'
    <3> DEFINE r == [Note("text", None) EXCEPT !.in = WireIn(chat[t], in[chat[t]])]
    <3>1. in[chat[t]] \in Nat
      BY DEF ChatType
    <3>2. r \in Drafts
      BY <3>1, DraftTyped, WireTyped
    <3>3. draft' = [draft EXCEPT ![t] = r]
      BY <1>3 DEF TakeLock
    <3> HIDE DEF r
    <3> QED
      BY <3>2, <3>3 DEF DraftType
  <2>4. ChatType' /\ ListType' /\ OnType' /\ CallType' /\ LogType' /\ HistType'
    BY <1>3 DEF TakeLock, ChatType, ListType, OnType, CallType, LogType, HistType, chatVars, lockVars, callVars, servVars, netVars, histVars
  <2> QED
    BY <2>1, <2>2, <2>3, <2>4
<1>4. ASSUME NEW t \in Threads, TakeNumber(t) PROVE Types'
  <2> chat[t] \in Chats /\ lock[t] \in Threads /\ sends[chat[t]] = lock[t]
    BY <1>4, LockCounted DEF TakeNumber, At, Entered, Held
  <2>1. ChatType'
    BY <1>4 DEF TakeNumber, ChatType, Remove, chatVars, At
  <2>2. HistType'
    BY <1>4 DEF TakeNumber, HistType, Fault, netVars, histVars, At
  <2>3. PcType'
    BY <1>4 DEF TakeNumber, PcType, At, Goto, Labels
  <2>4. DraftType'
    <3> DEFINE r == [draft[t] EXCEPT !.out = WireOut(chat[t], out[chat[t]] + 1), !.id = said[chat[t]] + 1]
    <3>1. out[chat[t]] \in Nat /\ said[chat[t]] + 1 \in Nat /\ draft[t] \in Drafts
      BY DEF ChatType, HistType, DraftType
    <3>2. r \in Drafts
      BY <3>1, DraftTyped, WireTyped
    <3>3. draft' = [draft EXCEPT ![t] = r]
      BY <1>4, <3>1 DEF TakeNumber, DraftType, Drafts
    <3> HIDE DEF r
    <3> QED
      BY <3>2, <3>3 DEF DraftType
  <2>5. ListType' /\ LockType' /\ OnType' /\ CallType' /\ LogType'
    BY <1>4 DEF TakeNumber, ListType, LockType, OnType, CallType, LogType, chatVars, lockVars, callVars, servVars, netVars, histVars, Fault
  <2> QED
    BY <2>1, <2>2, <2>3, <2>4, <2>5
<1>5. ASSUME NEW t \in Threads, Seal(t) PROVE Types'
  <2> chat[t] \in Chats /\ lock[t] \in Threads /\ sends[chat[t]] = lock[t]
    BY <1>5, LockCounted DEF Seal, At, Entered, Held
  <2>1. DraftType'
    <3> DEFINE r == [draft[t] EXCEPT !.key = key[chat[t]]]
    <3>1. r \in Drafts
      BY DraftTyped DEF ChatType, DraftType
    <3>2. draft' = draft \/ draft' = [draft EXCEPT ![t] = r]
      BY <1>5 DEF Seal
    <3> HIDE DEF r
    <3> QED
      BY <3>1, <3>2 DEF DraftType
  <2>2. PcType'
    BY <1>5 DEF Seal, PcType, At, Goto, Labels
  <2>3. HistType'
    BY <1>5 DEF Seal, HistType, Fault, netVars, histVars, At
  <2>4. ChatType' /\ ListType' /\ LockType' /\ OnType' /\ CallType' /\ LogType'
    BY <1>5 DEF Seal, ChatType, ListType, LockType, OnType, CallType, LogType, chatVars, lockVars, callVars, servVars, netVars, histVars, Fault
  <2> QED
    BY <2>1, <2>2, <2>3, <2>4
<1>6. ASSUME NEW t \in Threads, Post(t) PROVE Types'
  <2> chat[t] \in Chats /\ lock[t] \in Threads /\ sends[chat[t]] = lock[t]
    BY <1>6, LockCounted DEF Post, At, Entered, Held
  <2>1. LogType'
    <3>1. UNCHANGED log \/ Tell(Other(SideOf(t)), draft[t])
      BY <1>6 DEF Post
    <3>2. UNCHANGED next
      BY <1>6 DEF Post, Fault, netVars
    <3>3. draft[t] \in Drafts /\ Other(SideOf(t)) \in Sides
      BY SideFacts DEF DraftType
    <3> QED
      BY <3>1, <3>2, <3>3, Telling DEF LogType
  <2>2. PcType'
    BY <1>6 DEF Post, PcType, At, Goto, Labels
  <2>3. HistType'
    <3>1. faults' \in Nat /\ UNCHANGED replays
      BY <1>6 DEF Post, Fault, netVars, HistType
    <3>2. broken' \in BOOLEAN
      BY <1>6 DEF Post, HistType
    <3>3. UNCHANGED <<said, heard>>
      BY <1>6 DEF Post
    <3> QED
      BY <3>1, <3>2, <3>3 DEF HistType
  <2>4. ChatType' /\ ListType' /\ LockType' /\ OnType' /\ DraftType' /\ CallType'
    BY <1>6 DEF Post, ChatType, ListType, LockType, OnType, DraftType, CallType, chatVars, lockVars, callVars, servVars, netVars, histVars, Fault
  <2> QED
    BY <2>1, <2>2, <2>3, <2>4
<1>7. ASSUME NEW t \in Threads, FreeLock(t) PROVE Types'
  <2> chat[t] \in Chats /\ lock[t] \in Threads /\ sends[chat[t]] = lock[t]
    BY <1>7, LockCounted DEF FreeLock, At, Entered, Held
  <2>1. LockType'
    BY <1>7 DEF FreeLock, LockType, lockVars, At
  <2>2. PcType'
    BY <1>7 DEF FreeLock, PcType, At, Goto, Labels
  <2>3. DraftType'
    BY <1>7, DraftTyped DEF FreeLock, DraftType, At
  <2>4. ChatType' /\ ListType' /\ OnType' /\ CallType' /\ LogType' /\ HistType'
    BY <1>7 DEF FreeLock, ChatType, ListType, OnType, CallType, LogType, HistType, chatVars, lockVars, callVars, servVars, netVars, histVars
  <2> QED
    BY <2>1, <2>2, <2>3, <2>4
<1>8. ASSUME NEW t \in Threads, LeaveLock(t) PROVE Types'
  <2> chat[t] \in Chats /\ lock[t] \in Threads /\ sends[chat[t]] = lock[t]
    BY <1>8, LockCounted DEF LeaveLock, At, Entered, Held
  <2>1. LockType'
    <3>1. users[chat[t]][lock[t]] - 1 \in Nat
      BY <1>8, LockCounted DEF LeaveLock, At, Entered
    <3>2. sends' \in [Chats -> Threads \union {None}]
      BY <1>8 DEF LeaveLock, LockType
    <3>3. users' \in [Chats -> [Threads -> Nat]]
      BY <1>8, <3>1 DEF LeaveLock, LockType
    <3> QED
      BY <1>8, <3>2, <3>3 DEF LeaveLock, LockType
  <2>2. PcType'
    BY <1>8 DEF LeaveLock, PcType, At, Goto, Labels
  <2>3. OnType'
    BY <1>8 DEF LeaveLock, OnType, At
  <2>4. ChatType' /\ ListType' /\ DraftType' /\ CallType' /\ LogType' /\ HistType'
    BY <1>8 DEF LeaveLock, ChatType, ListType, DraftType, CallType, LogType, HistType, chatVars, lockVars, callVars, servVars, netVars, histVars
  <2> QED
    BY <2>1, <2>2, <2>3, <2>4
<1>9. ASSUME NEW h \in Handlers, Deliver(h) PROVE Types'
  <2> h \in Threads
    BY SideFacts
  <2>1. LogType'
    BY <1>9, SideFacts DEF Deliver, LogType, Tell, Fault, servVars, netVars
  <2>2. PcType'
    BY <1>9 DEF Deliver, PcType, At, Goto, Labels
  <2>3. DraftType'
    BY <1>9, SideFacts DEF Deliver, DraftType, LogType
  <2>4. ChatType' /\ ListType' /\ LockType' /\ OnType' /\ CallType' /\ HistType'
    BY <1>9 DEF Deliver, ChatType, ListType, LockType, OnType, CallType, HistType, chatVars, lockVars, callVars, servVars, netVars, histVars
  <2> QED
    BY <2>1, <2>2, <2>3, <2>4
<1>10. ASSUME NEW h \in Handlers, Replay(h) PROVE Types'
  <2> h \in Threads
    BY SideFacts
  <2>1. HistType'
    BY <1>10 DEF Replay, HistType, Fault, netVars, histVars
  <2>2. PcType'
    BY <1>10 DEF Replay, PcType, At, Goto, Labels
  <2>3. DraftType'
    BY <1>10, SideFacts DEF Replay, DraftType, LogType
  <2>4. ChatType' /\ ListType' /\ LockType' /\ OnType' /\ CallType' /\ LogType'
    BY <1>10 DEF Replay, ChatType, ListType, LockType, OnType, CallType, LogType, chatVars, lockVars, callVars, servVars, netVars, histVars, Fault
  <2> QED
    BY <2>1, <2>2, <2>3, <2>4
<1>11. ASSUME NEW h \in Handlers, HandleDiscarded(h) PROVE Types'
  <2> h \in Threads
    BY SideFacts
  <2>1. ChatType'
    BY <1>11 DEF HandleDiscarded, ChatType, Remove, chatVars
  <2>2. ListType'
    BY <1>11 DEF HandleDiscarded, ListType, Remove
  <2>3. PcType'
    BY <1>11 DEF HandleDiscarded, PcType, At, Goto, Labels
  <2>4. DraftType'
    BY <1>11, DraftTyped DEF HandleDiscarded, DraftType
  <2>5. LockType' /\ OnType' /\ CallType' /\ LogType' /\ HistType'
    BY <1>11 DEF HandleDiscarded, LockType, OnType, CallType, LogType, HistType, chatVars, lockVars, callVars, servVars, netVars, histVars
  <2> QED
    BY <2>1, <2>2, <2>3, <2>4, <2>5
<1>12. ASSUME NEW h \in Handlers, Lookup(h) PROVE Types'
  <2> h \in Threads
    BY SideFacts
  <2>1. PcType'
    <3>1. draft[h].kind \in {"agreed", "text", "discarded"}
      BY <1>12 DEF Lookup, At, MailInv, Mail, InHand, Fine
    <3> QED
      BY <1>12, <3>1 DEF Lookup, PcType, Goto, Labels
  <2>2. OnType'
    BY <1>12, SideFacts DEF Lookup, OnType, ListType
  <2>3. DraftType'
    BY <1>12, DraftTyped DEF Lookup, DraftType
  <2>4. HistType'
    BY <1>12 DEF Lookup, HistType, Fault, netVars, histVars
  <2>5. ChatType' /\ ListType' /\ LockType' /\ CallType' /\ LogType'
    BY <1>12 DEF Lookup, ChatType, ListType, LockType, CallType, LogType, chatVars, lockVars, callVars, servVars, netVars, histVars, Fault
  <2> QED
    BY <2>1, <2>2, <2>3, <2>4, <2>5
<1>13. ASSUME NEW h \in Handlers, CompleteKeyExchange(h) PROVE Types'
  <2> h \in Threads
    BY SideFacts
  <2>1. ChatType'
    BY <1>13, SideFacts DEF CompleteKeyExchange, ChatType, Remove, chatVars, ListType, DraftType, Drafts, At
  <2>2. PcType'
    BY <1>13 DEF CompleteKeyExchange, PcType, At, Goto, Labels
  <2>3. OnType'
    BY <1>13 DEF CompleteKeyExchange, OnType, At
  <2>4. DraftType'
    BY <1>13, DraftTyped DEF CompleteKeyExchange, DraftType, At
  <2>5. ListType' /\ LockType' /\ CallType' /\ LogType' /\ HistType'
    BY <1>13 DEF CompleteKeyExchange, ListType, LockType, CallType, LogType, HistType, chatVars, lockVars, callVars, servVars, netVars, histVars
  <2> QED
    BY <2>1, <2>2, <2>3, <2>4, <2>5
<1>14. ASSUME NEW h \in Handlers, Open(h) PROVE Types'
  <2> h \in Threads
    BY SideFacts
  <2>1. PcType'
    BY <1>14 DEF Open, PcType, At, Goto, Labels
  <2>2. OnType'
    BY <1>14 DEF Open, OnType, At
  <2>3. DraftType'
    BY <1>14, DraftTyped DEF Open, DraftType, At
  <2>4. ChatType' /\ ListType' /\ LockType' /\ CallType' /\ LogType' /\ HistType'
    BY <1>14 DEF Open, ChatType, ListType, LockType, CallType, LogType, HistType, chatVars, lockVars, callVars, servVars, netVars, histVars
  <2> QED
    BY <2>1, <2>2, <2>3, <2>4
<1>15. ASSUME NEW h \in Handlers, AcceptLayer(h) PROVE Types'
  <2> h \in Threads
    BY SideFacts
  <2>1. ChatType'
    <3>1. chat[h] \in Chats
      BY <1>15 DEF AcceptLayer, At, SideInv
    <3>2. X(chat[h]) \in {0, 1} /\ draft[h].in \in Nat /\ ack[chat[h]] \in Nat
      BY <3>1 DEF X, DraftType, Drafts, ChatType
    <3>3. Fits(chat[h], draft[h]) => (draft[h].in - (1 - X(chat[h]))) \div 2 \in Nat
      BY <3>2 DEF Fits
    <3>4. ack' \in [Chats -> Nat]
      <4> DEFINE n == (draft[h].in - (1 - X(chat[h]))) \div 2
      <4>1. UNCHANGED ack \/ (n \in Nat /\ ack' = [ack EXCEPT ![chat[h]] = n])
        BY <1>15, <3>3 DEF AcceptLayer
      <4> HIDE DEF n
      <4> QED
        BY <4>1 DEF ChatType
    <3>5. in' \in [Chats -> Nat]
      <4>1. UNCHANGED in \/ in' = [in EXCEPT ![chat[h]] = in[chat[h]] + 1]
        BY <1>15 DEF AcceptLayer
      <4>2. in[chat[h]] + 1 \in Nat
        BY <3>1 DEF ChatType
      <4> QED
        BY <4>1, <4>2 DEF ChatType
    <3> QED
      BY <1>15, <3>4, <3>5 DEF AcceptLayer, ChatType
  <2>2. PcType'
    BY <1>15 DEF AcceptLayer, PcType, At, Goto, Labels
  <2>3. OnType'
    BY <1>15 DEF AcceptLayer, OnType, At
  <2>4. DraftType'
    BY <1>15, DraftTyped DEF AcceptLayer, DraftType, At
  <2>5. HistType'
    <3>1. chat[h] \in Chats /\ draft[h].id \in Nat
      BY <1>15 DEF AcceptLayer, At, SideInv, DraftType, Drafts
    <3>2. Append(heard[chat[h]], draft[h].id) \in Seq(Nat)
      BY <3>1 DEF HistType
    <3> QED
      BY <1>15, <3>1, <3>2 DEF AcceptLayer, HistType, netVars
  <2>6. ListType' /\ LockType' /\ CallType' /\ LogType'
    BY <1>15 DEF AcceptLayer, ListType, LockType, CallType, LogType, chatVars, lockVars, callVars, servVars, netVars, histVars, Fault
  <2> QED
    BY <2>1, <2>2, <2>3, <2>4, <2>5, <2>6
<1>16. CASE CreateChat
  <2>1. ChatType'
    BY <1>16 DEF CreateChat, ChatType, Remove, chatVars
  <2>2. CallType'
    BY <1>16 DEF CreateChat, CallType, callVars, servVars
  <2>3. ListType' /\ LockType' /\ PcType' /\ OnType' /\ DraftType' /\ LogType' /\ HistType'
    BY <1>16 DEF CreateChat, ListType, LockType, PcType, OnType, DraftType, LogType, HistType, chatVars, lockVars, callVars, servVars, netVars, histVars
  <2> QED
    BY <2>1, <2>2, <2>3
<1>17. CASE AskRequest
  <2>1. ChatType'
    BY <1>17 DEF AskRequest, ChatType, Remove, chatVars
  <2>2. CallType'
    BY <1>17 DEF AskRequest, CallType, callVars, servVars
  <2>3. HistType'
    BY <1>17 DEF AskRequest, HistType, Fault, netVars, histVars
  <2>4. ListType' /\ LockType' /\ PcType' /\ OnType' /\ DraftType' /\ LogType'
    BY <1>17 DEF AskRequest, ListType, LockType, PcType, OnType, DraftType, LogType, chatVars, lockVars, callVars, servVars, netVars, histVars, Fault
  <2> QED
    BY <2>1, <2>2, <2>3, <2>4
<1>18. CASE RenameChat
  <2>1. ListType'
    BY <1>18, SideFacts DEF RenameChat, ListType, Remove
  <2>2. CallType'
    BY <1>18 DEF RenameChat, CallType, callVars, servVars
  <2>3. ChatType' /\ LockType' /\ PcType' /\ OnType' /\ DraftType' /\ LogType' /\ HistType'
    BY <1>18 DEF RenameChat, ChatType, LockType, PcType, OnType, DraftType, LogType, HistType, chatVars, lockVars, callVars, servVars, netVars, histVars
  <2> QED
    BY <2>1, <2>2, <2>3
<1>19. ASSUME NEW a \in Acceptors, AcceptChat(a) PROVE Types'
  <2> a \in Threads
    BY SideFacts
  <2>1. ChatType'
    BY <1>19, SideFacts DEF AcceptChat, ChatType, Remove, chatVars
  <2>2. ListType'
    BY <1>19, SideFacts DEF AcceptChat, ListType, Remove
  <2>3. PcType'
    BY <1>19 DEF AcceptChat, PcType, At, Goto, Labels
  <2>4. LockType' /\ OnType' /\ DraftType' /\ CallType' /\ LogType' /\ HistType'
    BY <1>19 DEF AcceptChat, LockType, OnType, DraftType, CallType, LogType, HistType, chatVars, lockVars, callVars, servVars, netVars, histVars
  <2> QED
    BY <2>1, <2>2, <2>3, <2>4
<1>20. ASSUME NEW a \in Acceptors, AskAccept(a) PROVE Types'
  <2> a \in Threads
    BY SideFacts
  <2>1. CallType'
    BY <1>20, SideFacts DEF AskAccept, CallType, callVars, servVars
  <2>2. LogType'
    <3>1. UNCHANGED log \/ Tell("origin", Note("agreed", a))
      BY <1>20 DEF AskAccept, servVars
    <3>2. UNCHANGED next
      BY <1>20 DEF AskAccept, Fault, netVars
    <3>3. Note("agreed", a) \in Drafts /\ "origin" \in Sides
      BY <1>20, DraftTyped DEF Sides
    <3> QED
      BY <3>1, <3>2, <3>3, Telling DEF LogType
  <2>3. PcType'
    BY <1>20 DEF AskAccept, PcType, At, Goto, Labels
  <2>4. HistType'
    BY <1>20 DEF AskAccept, HistType, Fault, netVars, histVars
  <2>5. ChatType' /\ ListType' /\ LockType' /\ OnType' /\ DraftType'
    BY <1>20 DEF AskAccept, ChatType, ListType, LockType, OnType, DraftType, chatVars, lockVars, callVars, servVars, netVars, histVars, Fault
  <2> QED
    BY <2>1, <2>2, <2>3, <2>4, <2>5
<1>21. ASSUME NEW a \in Acceptors, DropChat(a) PROVE Types'
  <2> a \in Threads
    BY SideFacts
  <2>1. ChatType'
    BY <1>21 DEF DropChat, ChatType, Remove, chatVars
  <2>2. ListType'
    BY <1>21 DEF DropChat, ListType, Remove
  <2>3. PcType'
    BY <1>21 DEF DropChat, PcType, At, Goto, Labels
  <2>4. LockType' /\ OnType' /\ DraftType' /\ CallType' /\ LogType' /\ HistType'
    BY <1>21 DEF DropChat, LockType, OnType, DraftType, CallType, LogType, HistType, chatVars, lockVars, callVars, servVars, netVars, histVars
  <2> QED
    BY <2>1, <2>2, <2>3, <2>4
<1>22. ASSUME NEW s \in Sides, AskDiscard(s) PROVE Types'
  <2>1. CallType'
    BY <1>22 DEF AskDiscard, CallType, callVars, servVars
  <2>2. LogType'
    <3>1. Tell(Other(s), Note("discarded", None))
      BY <1>22 DEF AskDiscard
    <3>2. UNCHANGED next
      BY <1>22 DEF AskDiscard, netVars
    <3>3. Note("discarded", None) \in Drafts /\ Other(s) \in Sides
      BY <1>22, DraftTyped, SideFacts
    <3> QED
      BY <3>1, <3>2, <3>3, Telling DEF LogType
  <2>3. ChatType' /\ ListType' /\ LockType' /\ PcType' /\ OnType' /\ DraftType' /\ HistType'
    BY <1>22 DEF AskDiscard, ChatType, ListType, LockType, PcType, OnType, DraftType, HistType, chatVars, lockVars, callVars, servVars, netVars, histVars
  <2> QED
    BY <2>1, <2>2, <2>3
<1>23. ASSUME NEW s \in Sides, ForgetChat(s) PROVE Types'
  <2>1. ChatType'
    BY <1>23 DEF ForgetChat, ChatType, Remove, chatVars
  <2>2. ListType'
    BY <1>23 DEF ForgetChat, ListType, Remove
  <2>3. CallType'
    BY <1>23 DEF ForgetChat, CallType, callVars, servVars
  <2>4. LockType' /\ PcType' /\ OnType' /\ DraftType' /\ LogType' /\ HistType'
    BY <1>23 DEF ForgetChat, LockType, PcType, OnType, DraftType, LogType, HistType, chatVars, lockVars, callVars, servVars, netVars, histVars
  <2> QED
    BY <2>1, <2>2, <2>3, <2>4
<1>24. CASE UNCHANGED vars
  BY <1>24 DEF vars, chatVars, lockVars, callVars, servVars, netVars, histVars, ChatType, ListType, LockType, PcType, OnType, DraftType, CallType, LogType, HistType
<1> QED
  BY <1>1, <1>2, <1>3, <1>4, <1>5, <1>6, <1>7, <1>8, <1>9, <1>10, <1>11, <1>12, <1>13, <1>14, <1>15, <1>16, <1>17, <1>18, <1>19, <1>20, <1>21, <1>22, <1>23, <1>24 DEF Next, SendStep, HandleStep, Request, Accept, Discard

-----------------------------------------------------------------------------
(* The send lock.                                                          *)

(* A step that takes no thread in or out. *)
LEMMA LockKept ==
  ASSUME LockInv, UNCHANGED lockVars,
         \A t \in Threads :
           \/ pc'[t] = pc[t] /\ chat'[t] = chat[t]
           \/ pc[t] \in Held /\ pc'[t] \in Held /\ chat'[t] = chat[t]
           \/ /\ pc[t] \notin Entered \union {"enter"} /\ pc'[t] \notin Entered
              /\ pc'[t] = "enter" => chat'[t] \in Chats
  PROVE  LockInv'
<1>1. \A t \in Threads : pc'[t] \in Entered => pc[t] \in Entered /\ chat'[t] = chat[t]
  BY DEF Entered
<1>2. \A t \in Threads : pc[t] \in Entered => pc'[t] \in Entered /\ chat'[t] = chat[t]
  BY DEF Entered
<1>3. \A t \in Threads : pc'[t] \in Held => pc[t] \in Held /\ chat'[t] = chat[t]
  BY DEF Entered
<1>4. \A c \in Chats, l \in Threads : Inside(c, l)' = Inside(c, l)
  BY <1>1, <1>2 DEF Inside, lockVars
<1>5. \A t \in Threads : pc'[t] \in Entered \union {"enter"} => chat'[t] \in Chats
  BY <1>1 DEF LockInv, Entered
<1>6. \A t \in Threads : pc'[t] \in Entered => lock'[t] \in Threads /\ sends'[chat'[t]] = lock'[t]
  BY <1>1 DEF LockInv, lockVars
<1>7. \A t \in Threads : pc'[t] \in Held => holder'[chat'[t]][lock'[t]] = t
  BY <1>3 DEF LockInv, lockVars
<1>8. \A c \in Chats : \A l \in Threads : sends'[c] = l => users'[c][l] = Cardinality(Inside(c, l))'
  BY <1>4 DEF LockInv, lockVars
<1> QED
  BY <1>5, <1>6, <1>7, <1>8 DEF LockInv

LEMMA EnterKeepsLock ==
  ASSUME Types, LockInv, NEW t \in Threads, EnterLock(t)
  PROVE  LockInv'
<1>0. chat[t] \in Chats /\ (sends[chat[t]] # None => sends[chat[t]] \in Threads)
  BY DEF EnterLock, At, LockInv, Types, LockType
<1> PICK c \in Chats : c = chat[t]
  BY <1>0
<1> PICK l \in Threads : l = IF sends[c] = None THEN t ELSE sends[c]
  BY <1>0
<1>1. c \in Chats /\ pc[t] = "enter" /\ pc' = [pc EXCEPT ![t] = "take"] /\ UNCHANGED chat
  BY DEF EnterLock, At, Goto, LockInv
<1>2. l \in Threads
  OBVIOUS
<1>3. /\ sends' = [sends EXCEPT ![c] = l] /\ lock' = [lock EXCEPT ![t] = l]
      /\ users' = [users EXCEPT ![c][l] = (IF sends[c] = None THEN 0 ELSE users[c][l]) + 1]
      /\ holder' = [holder EXCEPT ![c][l] = IF sends[c] = None THEN None ELSE holder[c][l]]
  BY DEF EnterLock
<1>4. \A u \in Threads \ {t} : pc'[u] = pc[u] /\ lock'[u] = lock[u]
  BY <1>1, <1>3 DEF Types, PcType, LockType
<1>5. pc'[t] = "take" /\ lock'[t] = l /\ sends'[c] = l
  BY <1>1, <1>2, <1>3 DEF Types, PcType, LockType
<1>6. \A d \in Chats \ {c} : sends'[d] = sends[d] /\ users'[d] = users[d] /\ holder'[d] = holder[d]
  BY <1>1, <1>3 DEF Types, LockType
<1>7. \A u \in Threads : pc[u] \in Entered /\ chat[u] = c => sends[c] = lock[u] /\ lock[u] = l /\ sends[c] # None
  BY SideFacts DEF LockInv
<1>8. \A u \in Threads : pc'[u] \in Entered \union {"enter"} => chat'[u] \in Chats
  BY <1>1, <1>4 DEF LockInv
<1>9. \A u \in Threads : pc'[u] \in Entered => lock'[u] \in Threads /\ sends'[chat'[u]] = lock'[u]
  <2> SUFFICES ASSUME NEW u \in Threads, pc'[u] \in Entered
               PROVE  lock'[u] \in Threads /\ sends'[chat'[u]] = lock'[u]
    OBVIOUS
  <2>1. CASE u = t
    BY <2>1, <1>1, <1>2, <1>5
  <2>2. CASE u # t
    BY <2>2, <1>1, <1>4, <1>5, <1>6, <1>7 DEF LockInv
  <2> QED
    BY <2>1, <2>2
<1>10. \A u \in Threads : pc'[u] \in Held => holder'[chat'[u]][lock'[u]] = u
  <2> SUFFICES ASSUME NEW u \in Threads, pc'[u] \in Held
               PROVE  holder'[chat'[u]][lock'[u]] = u
    OBVIOUS
  <2>1. u # t
    BY <1>5 DEF Held
  <2>2. pc[u] \in Held /\ pc[u] \in Entered /\ lock'[u] = lock[u] /\ chat'[u] = chat[u]
    BY <2>1, <1>1, <1>4 DEF Entered
  <2>3. chat[u] \in Chats /\ lock[u] \in Threads /\ holder[chat[u]][lock[u]] = u
    BY <2>2 DEF LockInv
  <2>4. CASE chat[u] = c
    <3>1. holder' = [holder EXCEPT ![c][l] = holder[c][l]]
      BY <2>2, <2>4, <1>3, <1>7
    <3> QED
      BY <3>1, <2>2, <2>3, <2>4, <1>1 DEF Types, LockType
  <2>5. CASE chat[u] # c
    BY <2>2, <2>3, <2>5, <1>6
  <2> QED
    BY <2>4, <2>5
<1>11. \A d \in Chats : \A k \in Threads : sends'[d] = k => users'[d][k] = Cardinality(Inside(d, k))'
  <2> SUFFICES ASSUME NEW d \in Chats, NEW k \in Threads, sends'[d] = k
               PROVE  users'[d][k] = Cardinality(Inside(d, k)')
    OBVIOUS
  <2>1. CASE d # c
    <3>1. Inside(d, k)' = Inside(d, k)
      BY <2>1, <1>1, <1>4 DEF Inside, Entered
    <3> QED
      BY <3>1, <2>1, <1>6 DEF LockInv
  <2>2. CASE d = c
    <3>1. k = l
      BY <2>2, <1>5
    <3>2. Inside(c, l)' = Inside(c, l) \union {t}
      BY <1>1, <1>2, <1>4, <1>5 DEF Inside, Entered, Held
    <3>3. t \notin Inside(c, l)
      BY <1>1 DEF Inside, Entered, Held
    <3>4. IsFiniteSet(Inside(c, l))
      BY FS_Subset, SecretChatAssumption DEF Inside
    <3>5. Cardinality(Inside(c, l)') = Cardinality(Inside(c, l)) + 1
      <4>1. \A S, x : IsFiniteSet(S) /\ x \notin S => Cardinality(S \union {x}) = Cardinality(S) + 1
        BY FS_AddElement
      <4>2. Cardinality(Inside(c, l) \union {t}) = Cardinality(Inside(c, l)) + 1
        BY <3>3, <3>4, <4>1
      <4> QED
        BY <3>2, <4>2
    <3>6. users'[c][l] = (IF sends[c] = None THEN 0 ELSE users[c][l]) + 1
      BY <1>1, <1>2, <1>3 DEF Types, LockType
    <3>7. CASE sends[c] = None
      <4>1. Inside(c, l) = {}
        BY <3>7, <1>7 DEF Inside
      <4> QED
        BY <4>1, <3>1, <3>5, <3>6, <3>7, <2>2, FS_EmptySet
    <3>8. CASE sends[c] # None
      <4>1. sends[c] = l
        BY <3>8
      <4>2. users[c][l] = Cardinality(Inside(c, l))
        BY <4>1, <1>1, <1>2 DEF LockInv
      <4> QED
        BY <4>2, <3>1, <3>5, <3>6, <3>8, <2>2
    <3> QED
      BY <3>7, <3>8
  <2> QED
    BY <2>1, <2>2
<1> QED
  BY <1>8, <1>9, <1>10, <1>11 DEF LockInv

LEMMA TakeKeepsLock ==
  ASSUME Types, LockInv, NEW t \in Threads, TakeLock(t) \/ FreeLock(t)
  PROVE  LockInv'
<1>1. pc[t] \in Entered /\ UNCHANGED <<chat, lock, sends, users>>
  BY DEF TakeLock, FreeLock, At, Entered, Held
<1>2. chat[t] \in Chats /\ lock[t] \in Threads /\ sends[chat[t]] = lock[t]
  BY <1>1 DEF LockInv
<1>3. \A u \in Threads \ {t} : pc'[u] = pc[u]
  BY DEF TakeLock, FreeLock, Goto, Types, PcType
<1>4. pc'[t] \in Entered
  BY DEF TakeLock, FreeLock, Goto, Types, PcType, Entered, Held
<1>5. \A c \in Chats, l \in Threads : Inside(c, l)' = Inside(c, l)
  BY <1>1, <1>3, <1>4 DEF Inside
<1>6. \A u \in Threads : pc'[u] \in Held => holder'[chat'[u]][lock'[u]] = u
  <2> SUFFICES ASSUME NEW u \in Threads, pc'[u] \in Held
               PROVE  holder'[chat[u]][lock[u]] = u
    BY <1>1
  <2>1. CASE u = t
    <3>1. TakeLock(t)
      BY <2>1 DEF FreeLock, Goto, Types, PcType, Held
    <3> QED
      BY <3>1, <2>1, <1>2 DEF TakeLock, Types, LockType
  <2>2. CASE u # t
    <3>1. pc[u] \in Held /\ pc[u] \in Entered
      BY <2>2, <1>3 DEF Entered
    <3>2. chat[u] \in Chats /\ lock[u] \in Threads /\ holder[chat[u]][lock[u]] = u
      BY <3>1 DEF LockInv
    <3>3. holder[chat[t]][lock[t]] # u
      BY <2>2, SideFacts DEF TakeLock, FreeLock, At, LockInv, Held
    <3>4. PICK n : holder' = [holder EXCEPT ![chat[t]][lock[t]] = n]
      BY DEF TakeLock, FreeLock
    <3> QED
      BY <3>2, <3>3, <3>4, <1>2 DEF Types, LockType
  <2> QED
    BY <2>1, <2>2
<1>7. \A u \in Threads : pc'[u] \in Entered \union {"enter"} => pc[u] \in Entered \union {"enter"}
  BY <1>1, <1>3
<1>8. \A u \in Threads : pc'[u] \in Entered => pc[u] \in Entered
  BY <1>1, <1>3
<1> QED
  BY <1>1, <1>5, <1>6, <1>7, <1>8 DEF LockInv

LEMMA LeaveKeepsLock ==
  ASSUME Types, LockInv, NEW t \in Threads, LeaveLock(t)
  PROVE  LockInv'
<1>0. chat[t] \in Chats /\ lock[t] \in Threads /\ users[chat[t]][lock[t]] \in Nat \ {0}
  BY LockCounted DEF LeaveLock, At, Entered
<1> PICK c \in Chats : c = chat[t]
  BY <1>0
<1> PICK l \in Threads : l = lock[t]
  BY <1>0
<1> PICK n \in Nat : n = users[c][l] - 1
  BY <1>0
<1>1. pc[t] = "leave" /\ pc[t] \in Entered /\ pc' = [pc EXCEPT ![t] = "idle"]
  BY DEF LeaveLock, At, Goto, Entered
<1>2. /\ c \in Chats /\ l \in Threads /\ sends[c] = l
      /\ users[c][l] = Cardinality(Inside(c, l)) /\ users[c][l] \in Nat \ {0} /\ IsFiniteSet(Inside(c, l))
  BY <1>1, LockCounted
<1>3. /\ users' = [users EXCEPT ![c][l] = n] /\ UNCHANGED holder
      /\ sends' = [sends EXCEPT ![c] = IF n = 0 THEN None ELSE sends[c]]
      /\ lock' = [lock EXCEPT ![t] = None] /\ chat' = [chat EXCEPT ![t] = None]
  BY DEF LeaveLock
<1>4. pc'[t] = "idle" /\ "idle" \notin Entered \union {"enter"}
  BY <1>1 DEF Types, PcType, Entered, Held
<1>5. \A u \in Threads \ {t} : pc'[u] = pc[u] /\ lock'[u] = lock[u] /\ chat'[u] = chat[u]
  BY <1>1, <1>3 DEF Types, PcType, LockType, OnType
<1>6. \A d \in Chats \ {c} : sends'[d] = sends[d] /\ users'[d] = users[d]
  BY <1>2, <1>3 DEF Types, LockType
<1>7. Inside(c, l)' = Inside(c, l) \ {t}
  BY <1>4, <1>5 DEF Inside
<1>8. t \in Inside(c, l)
  BY <1>1 DEF Inside
<1>9. Cardinality(Inside(c, l)') = n /\ IsFiniteSet(Inside(c, l)')
  BY <1>2, <1>7, <1>8, FS_RemoveElement
<1>10. \A d \in Chats : \A k \in Threads : sends'[d] = k => users'[d][k] = Cardinality(Inside(d, k))'
  <2> SUFFICES ASSUME NEW d \in Chats, NEW k \in Threads, sends'[d] = k
               PROVE  users'[d][k] = Cardinality(Inside(d, k)')
    OBVIOUS
  <2>1. CASE d # c
    <3>1. Inside(d, k)' = Inside(d, k)
      BY <2>1, <1>4, <1>5 DEF Inside
    <3> QED
      BY <3>1, <2>1, <1>6 DEF LockInv
  <2>2. CASE d = c
    <3>1. k = l
      BY <2>2, <1>2, <1>3, SideFacts DEF Types, LockType
    <3>2. users'[c][l] = n
      BY <1>2, <1>3 DEF Types, LockType
    <3> QED
      BY <3>1, <3>2, <2>2, <1>9
  <2> QED
    BY <2>1, <2>2
<1>11. \A u \in Threads : pc'[u] \in Entered => lock'[u] \in Threads /\ sends'[chat'[u]] = lock'[u]
  <2> SUFFICES ASSUME NEW u \in Threads, pc'[u] \in Entered
               PROVE  lock'[u] \in Threads /\ sends'[chat'[u]] = lock'[u]
    OBVIOUS
  <2>1. u # t /\ pc[u] \in Entered /\ lock'[u] = lock[u] /\ chat'[u] = chat[u]
    BY <1>4, <1>5
  <2>2. lock[u] \in Threads /\ sends[chat[u]] = lock[u] /\ chat[u] \in Chats
    BY <2>1 DEF LockInv
  <2>3. CASE chat[u] # c
    BY <2>1, <2>2, <2>3, <1>6
  <2>4. CASE chat[u] = c
    <3>1. u \in Inside(c, l)'
      BY <2>1, <2>2, <2>4, <1>2 DEF Inside
    <3>2. n # 0
      BY <3>1, <1>9, FS_EmptySet
    <3> QED
      BY <3>2, <2>1, <2>2, <2>4, <1>2, <1>3 DEF Types, LockType
  <2> QED
    BY <2>3, <2>4
<1>12. \A u \in Threads : pc'[u] \in Held => holder'[chat'[u]][lock'[u]] = u
  BY <1>3, <1>4, <1>5 DEF LockInv, Entered
<1>13. \A u \in Threads : pc'[u] \in Entered \union {"enter"} => chat'[u] \in Chats
  BY <1>4, <1>5 DEF LockInv
<1> QED
  BY <1>10, <1>11, <1>12, <1>13 DEF LockInv

LEMMA LockStep == Types /\ LockInv /\ SideInv /\ [Next]_vars => LockInv'
<1> SUFFICES ASSUME Types, LockInv, SideInv, [Next]_vars PROVE LockInv'
  OBVIOUS
<1> DEFINE Kept ==
      /\ UNCHANGED lockVars
      /\ \A u \in Threads :
           \/ pc'[u] = pc[u] /\ chat'[u] = chat[u]
           \/ pc[u] \in Held /\ pc'[u] \in Held /\ chat'[u] = chat[u]
           \/ /\ pc[u] \notin Entered \union {"enter"} /\ pc'[u] \notin Entered
              /\ pc'[u] = "enter" => chat'[u] \in Chats
<1>0. Kept => LockInv'
  BY LockKept
<1>1. ASSUME NEW t \in Threads, FindChat(t) PROVE LockInv'
  <2>1. UNCHANGED lockVars
    BY <1>1 DEF FindChat
  <2>2. t \in Threads
    BY <1>1, SideFacts
  <2>3. Kept
    BY <1>1, <2>1, <2>2, SideFacts DEF FindChat, At, Goto, Held, Entered, Types, PcType, OnType, ListType
  <2> QED
    BY <2>3, <1>0
<1>2. ASSUME NEW t \in Threads, EnterLock(t) PROVE LockInv'
  BY <1>2, EnterKeepsLock
<1>3. ASSUME NEW t \in Threads, TakeLock(t) PROVE LockInv'
  BY <1>3, TakeKeepsLock
<1>4. ASSUME NEW t \in Threads, TakeNumber(t) PROVE LockInv'
  <2>1. UNCHANGED lockVars
    BY <1>4 DEF TakeNumber
  <2>2. t \in Threads
    BY <1>4, SideFacts
  <2>3. Kept
    BY <1>4, <2>1, <2>2 DEF TakeNumber, At, Goto, Held, Entered, Types, PcType, OnType
  <2> QED
    BY <2>3, <1>0
<1>5. ASSUME NEW t \in Threads, Seal(t) PROVE LockInv'
  <2>1. UNCHANGED lockVars
    BY <1>5 DEF Seal
  <2>2. t \in Threads
    BY <1>5, SideFacts
  <2>3. Kept
    BY <1>5, <2>1, <2>2 DEF Seal, At, Goto, Held, Entered, Types, PcType, OnType
  <2> QED
    BY <2>3, <1>0
<1>6. ASSUME NEW t \in Threads, Post(t) PROVE LockInv'
  <2>1. UNCHANGED lockVars
    BY <1>6 DEF Post
  <2>2. t \in Threads
    BY <1>6, SideFacts
  <2>3. Kept
    BY <1>6, <2>1, <2>2 DEF Post, At, Goto, Held, Entered, Types, PcType, OnType
  <2> QED
    BY <2>3, <1>0
<1>7. ASSUME NEW t \in Threads, FreeLock(t) PROVE LockInv'
  BY <1>7, TakeKeepsLock
<1>8. ASSUME NEW t \in Threads, LeaveLock(t) PROVE LockInv'
  BY <1>8, LeaveKeepsLock
<1>9. ASSUME NEW h \in Handlers, Deliver(h) PROVE LockInv'
  <2>1. UNCHANGED lockVars
    BY <1>9 DEF Deliver
  <2>2. h \in Threads
    BY <1>9, SideFacts
  <2>3. Kept
    BY <1>9, <2>1, <2>2, SideFacts DEF Deliver, At, Goto, Held, Entered, Types, PcType, OnType
  <2> QED
    BY <2>3, <1>0
<1>10. ASSUME NEW h \in Handlers, Replay(h) PROVE LockInv'
  <2>1. UNCHANGED lockVars
    BY <1>10 DEF Replay
  <2>2. h \in Threads
    BY <1>10, SideFacts
  <2>3. Kept
    BY <1>10, <2>1, <2>2, SideFacts DEF Replay, At, Goto, Held, Entered, Types, PcType, OnType
  <2> QED
    BY <2>3, <1>0
<1>11. ASSUME NEW h \in Handlers, HandleDiscarded(h) PROVE LockInv'
  <2>1. UNCHANGED lockVars
    BY <1>11 DEF HandleDiscarded
  <2>2. h \in Threads
    BY <1>11, SideFacts
  <2>3. Kept
    BY <1>11, <2>1, <2>2, SideFacts DEF HandleDiscarded, At, Goto, Held, Entered, Types, PcType, OnType
  <2> QED
    BY <2>3, <1>0
<1>12. ASSUME NEW h \in Handlers, Lookup(h) PROVE LockInv'
  <2>1. UNCHANGED lockVars
    BY <1>12 DEF Lookup
  <2>2. h \in Threads
    BY <1>12, SideFacts
  <2>3. Kept
    BY <1>12, <2>1, <2>2, SideFacts DEF Lookup, At, Goto, Held, Entered, Types, PcType, OnType, ListType, DraftType, Drafts
  <2> QED
    BY <2>3, <1>0
<1>13. ASSUME NEW h \in Handlers, CompleteKeyExchange(h) PROVE LockInv'
  <2>1. UNCHANGED lockVars
    BY <1>13 DEF CompleteKeyExchange
  <2>2. h \in Threads
    BY <1>13, SideFacts
  <2>3. Kept
    BY <1>13, <2>1, <2>2, SideFacts DEF CompleteKeyExchange, At, Goto, Held, Entered, Types, PcType, OnType
  <2> QED
    BY <2>3, <1>0
<1>14. ASSUME NEW h \in Handlers, Open(h) PROVE LockInv'
  <2>1. UNCHANGED lockVars
    BY <1>14 DEF Open
  <2>2. h \in Threads
    BY <1>14, SideFacts
  <2>3. Kept
    BY <1>14, <2>1, <2>2, SideFacts DEF Open, At, Goto, Held, Entered, Types, PcType, OnType
  <2> QED
    BY <2>3, <1>0
<1>15. ASSUME NEW h \in Handlers, AcceptLayer(h) PROVE LockInv'
  <2>1. UNCHANGED lockVars
    BY <1>15 DEF AcceptLayer
  <2>2. h \in Threads
    BY <1>15, SideFacts
  <2>3. Kept
    BY <1>15, <2>1, <2>2, SideFacts DEF AcceptLayer, At, Goto, Held, Entered, Types, PcType, OnType
  <2> QED
    BY <2>3, <1>0
<1>16. CASE CreateChat
  <2>1. UNCHANGED lockVars
    BY <1>16 DEF CreateChat
  <2>3. Kept
    BY <1>16, <2>1 DEF CreateChat
  <2> QED
    BY <2>3, <1>0
<1>17. CASE AskRequest
  <2>1. UNCHANGED lockVars
    BY <1>17 DEF AskRequest
  <2>3. Kept
    BY <1>17, <2>1 DEF AskRequest
  <2> QED
    BY <2>3, <1>0
<1>18. CASE RenameChat
  <2>1. UNCHANGED lockVars
    BY <1>18 DEF RenameChat
  <2>3. Kept
    BY <1>18, <2>1 DEF RenameChat
  <2> QED
    BY <2>3, <1>0
<1>19. ASSUME NEW a \in Acceptors, AcceptChat(a) PROVE LockInv'
  <2>1. UNCHANGED lockVars
    BY <1>19 DEF AcceptChat
  <2>2. a \in Threads
    BY <1>19, SideFacts
  <2>3. Kept
    BY <1>19, <2>1, <2>2, SideFacts DEF AcceptChat, At, Goto, Held, Entered, Types, PcType, OnType
  <2> QED
    BY <2>3, <1>0
<1>20. ASSUME NEW a \in Acceptors, AskAccept(a) PROVE LockInv'
  <2>1. UNCHANGED lockVars
    BY <1>20 DEF AskAccept
  <2>2. a \in Threads
    BY <1>20, SideFacts
  <2>3. Kept
    BY <1>20, <2>1, <2>2, SideFacts DEF AskAccept, At, Goto, Held, Entered, Types, PcType, OnType
  <2> QED
    BY <2>3, <1>0
<1>21. ASSUME NEW a \in Acceptors, DropChat(a) PROVE LockInv'
  <2>1. UNCHANGED lockVars
    BY <1>21 DEF DropChat
  <2>2. a \in Threads
    BY <1>21, SideFacts
  <2>3. Kept
    BY <1>21, <2>1, <2>2, SideFacts DEF DropChat, At, Goto, Held, Entered, Types, PcType, OnType
  <2> QED
    BY <2>3, <1>0
<1>22. ASSUME NEW s \in Sides, AskDiscard(s) PROVE LockInv'
  <2>1. UNCHANGED lockVars
    BY <1>22 DEF AskDiscard
  <2>3. Kept
    BY <1>22, <2>1 DEF AskDiscard
  <2> QED
    BY <2>3, <1>0
<1>23. ASSUME NEW s \in Sides, ForgetChat(s) PROVE LockInv'
  <2>1. UNCHANGED lockVars
    BY <1>23 DEF ForgetChat
  <2>3. Kept
    BY <1>23, <2>1 DEF ForgetChat
  <2> QED
    BY <2>3, <1>0
<1>24. CASE UNCHANGED vars
  BY <1>24, <1>0 DEF vars
<1> QED
  BY <1>1, <1>2, <1>3, <1>4, <1>5, <1>6, <1>7, <1>8, <1>9, <1>10, <1>11, <1>12, <1>13, <1>14, <1>15, <1>16, <1>17, <1>18, <1>19, <1>20, <1>21, <1>22, <1>23, <1>24 DEF Next, SendStep, HandleStep, Request, Accept, Discard

-----------------------------------------------------------------------------
(* The two sides.                                                          *)

LEMMA SideStep == Types /\ LockInv /\ SideInv /\ MailInv /\ [Next]_vars => SideInv'
<1> SUFFICES ASSUME Types, LockInv, SideInv, MailInv, [Next]_vars PROVE SideInv'
  OBVIOUS
<1> USE DEF SideInv
<1>1. ASSUME NEW t \in Threads, FindChat(t) PROVE SideInv'
  BY <1>1, SideFacts DEF FindChat, At, Goto, Remove, Sides, Types, PcType, OnType, ListType, ChatType, CallType, chatVars, lockVars, callVars, servVars, netVars, histVars
<1>2. ASSUME NEW t \in Threads, EnterLock(t) PROVE SideInv'
  BY <1>2, SideFacts DEF EnterLock, At, Goto, Remove, Sides, Types, PcType, OnType, ListType, ChatType, CallType, chatVars, lockVars, callVars, servVars, netVars, histVars
<1>3. ASSUME NEW t \in Threads, TakeLock(t) PROVE SideInv'
  BY <1>3, SideFacts DEF TakeLock, At, Goto, Remove, Sides, Types, PcType, OnType, ListType, ChatType, CallType, chatVars, lockVars, callVars, servVars, netVars, histVars
<1>4. ASSUME NEW t \in Threads, TakeNumber(t) PROVE SideInv'
  BY <1>4, SideFacts DEF TakeNumber, At, Goto, Remove, Sides, Types, PcType, OnType, ListType, ChatType, CallType, chatVars, lockVars, callVars, servVars, netVars, histVars
<1>5. ASSUME NEW t \in Threads, Seal(t) PROVE SideInv'
  BY <1>5, SideFacts DEF Seal, At, Goto, Remove, Sides, Types, PcType, OnType, ListType, ChatType, CallType, chatVars, lockVars, callVars, servVars, netVars, histVars
<1>6. ASSUME NEW t \in Threads, Post(t) PROVE SideInv'
  BY <1>6, SideFacts DEF Post, At, Goto, Remove, Sides, Types, PcType, OnType, ListType, ChatType, CallType, chatVars, lockVars, callVars, servVars, netVars, histVars
<1>7. ASSUME NEW t \in Threads, FreeLock(t) PROVE SideInv'
  BY <1>7, SideFacts DEF FreeLock, At, Goto, Remove, Sides, Types, PcType, OnType, ListType, ChatType, CallType, chatVars, lockVars, callVars, servVars, netVars, histVars
<1>8. ASSUME NEW t \in Threads, LeaveLock(t) PROVE SideInv'
  BY <1>8, SideFacts DEF LeaveLock, At, Goto, Remove, Sides, Types, PcType, OnType, ListType, ChatType, CallType, chatVars, lockVars, callVars, servVars, netVars, histVars
<1>9. ASSUME NEW h \in Handlers, Deliver(h) PROVE SideInv'
  BY <1>9, SideFacts DEF Deliver, At, Goto, Remove, Sides, Types, PcType, OnType, ListType, ChatType, CallType, chatVars, lockVars, callVars, servVars, netVars, histVars
<1>10. ASSUME NEW h \in Handlers, Replay(h) PROVE SideInv'
  BY <1>10, SideFacts DEF Replay, At, Goto, Remove, Sides, Types, PcType, OnType, ListType, ChatType, CallType, chatVars, lockVars, callVars, servVars, netVars, histVars
<1>11. ASSUME NEW h \in Handlers, HandleDiscarded(h) PROVE SideInv'
  BY <1>11, SideFacts DEF HandleDiscarded, At, Goto, Remove, Sides, Types, PcType, OnType, ListType, ChatType, CallType, chatVars, lockVars, callVars, servVars, netVars, histVars
<1>12. ASSUME NEW h \in Handlers, Lookup(h) PROVE SideInv'
  BY <1>12, SideFacts DEF Lookup, At, Goto, Remove, Sides, Types, PcType, OnType, ListType, ChatType, CallType, chatVars, lockVars, callVars, servVars, netVars, histVars, MailInv, Mail, InHand, Fine
<1>13. ASSUME NEW h \in Handlers, CompleteKeyExchange(h) PROVE SideInv'
  <2>1. SideOf(h) = "origin" /\ draft[h].key = accepted /\ accepted # None /\ h \in Threads
    BY <1>13, SideFacts DEF CompleteKeyExchange, At, MailInv, Mail, InHand, Fine
  <2>2. \/ /\ listed["origin"] = Origin
           /\ stage' = [stage EXCEPT ![Origin] = "ready"] /\ key' = [key EXCEPT ![Origin] = accepted]
        \/ UNCHANGED <<stage, key>>
    BY <1>13, <2>1 DEF CompleteKeyExchange
  <2>3. /\ \A a \in Acceptors : stage'[a] = stage[a] /\ key'[a] = key[a]
        /\ key'[Origin] # None => key'[Origin] = accepted
    BY <2>2, SideFacts DEF Types, ChatType
  <2>4. pc'[h] \notin {"agreed", "text", "layer"} /\ chat'[h] = None
    BY <1>13, <2>1 DEF CompleteKeyExchange, Goto, Types, PcType, OnType
  <2>5. \A u \in Threads \ {h} : pc'[u] = pc[u] /\ chat'[u] = chat[u]
    BY <1>13, <2>1 DEF CompleteKeyExchange, Goto, Types, PcType, OnType
  <2>6. UNCHANGED <<listed, status, accepted, asking>>
    BY <1>13 DEF CompleteKeyExchange, callVars, servVars
  <2> QED
    BY <2>3, <2>4, <2>5, <2>6, SideFacts
<1>14. ASSUME NEW h \in Handlers, Open(h) PROVE SideInv'
  BY <1>14, SideFacts DEF Open, At, Goto, Remove, Sides, Types, PcType, OnType, ListType, ChatType, CallType, chatVars, lockVars, callVars, servVars, netVars, histVars
<1>15. ASSUME NEW h \in Handlers, AcceptLayer(h) PROVE SideInv'
  BY <1>15, SideFacts DEF AcceptLayer, At, Goto, Remove, Sides, Types, PcType, OnType, ListType, ChatType, CallType, chatVars, lockVars, callVars, servVars, netVars, histVars
<1>16. CASE CreateChat
  BY <1>16, SideFacts DEF CreateChat, At, Goto, Remove, Sides, Types, PcType, OnType, ListType, ChatType, CallType, chatVars, lockVars, callVars, servVars, netVars, histVars
<1>17. CASE AskRequest
  BY <1>17, SideFacts DEF AskRequest, At, Goto, Remove, Sides, Types, PcType, OnType, ListType, ChatType, CallType, chatVars, lockVars, callVars, servVars, netVars, histVars
<1>18. CASE RenameChat
  BY <1>18, SideFacts DEF RenameChat, At, Goto, Remove, Sides, Types, PcType, OnType, ListType, ChatType, CallType, chatVars, lockVars, callVars, servVars, netVars, histVars
<1>19. ASSUME NEW a \in Acceptors, AcceptChat(a) PROVE SideInv'
  BY <1>19, SideFacts DEF AcceptChat, At, Goto, Remove, Sides, Types, PcType, OnType, ListType, ChatType, CallType, chatVars, lockVars, callVars, servVars, netVars, histVars
<1>20. ASSUME NEW a \in Acceptors, AskAccept(a) PROVE SideInv'
  BY <1>20, SideFacts DEF AskAccept, At, Goto, Remove, Sides, Types, PcType, OnType, ListType, ChatType, CallType, chatVars, lockVars, callVars, servVars, netVars, histVars
<1>21. ASSUME NEW a \in Acceptors, DropChat(a) PROVE SideInv'
  BY <1>21, SideFacts DEF DropChat, At, Goto, Remove, Sides, Types, PcType, OnType, ListType, ChatType, CallType, chatVars, lockVars, callVars, servVars, netVars, histVars
<1>22. ASSUME NEW s \in Sides, AskDiscard(s) PROVE SideInv'
  BY <1>22, SideFacts DEF AskDiscard, At, Goto, Remove, Sides, Types, PcType, OnType, ListType, ChatType, CallType, chatVars, lockVars, callVars, servVars, netVars, histVars
<1>23. ASSUME NEW s \in Sides, ForgetChat(s) PROVE SideInv'
  BY <1>23, SideFacts DEF ForgetChat, At, Goto, Remove, Sides, Types, PcType, OnType, ListType, ChatType, CallType, chatVars, lockVars, callVars, servVars, netVars, histVars
<1>24. CASE UNCHANGED vars
  BY <1>24 DEF vars, chatVars, lockVars, callVars, servVars, netVars, histVars
<1> QED
  BY <1>1, <1>2, <1>3, <1>4, <1>5, <1>6, <1>7, <1>8, <1>9, <1>10, <1>11, <1>12, <1>13, <1>14, <1>15, <1>16, <1>17, <1>18, <1>19, <1>20, <1>21, <1>22, <1>23, <1>24 DEF Next, SendStep, HandleStep, Request, Accept, Discard

-----------------------------------------------------------------------------
(* What the updates say, and the counts.                                   *)

LEMMA FineStable ==
  ASSUME NEW s \in Sides, NEW m \in Drafts, Fine(s, m), Types, Types',
         accepted # None => accepted' = accepted,
         \A c \in Chats : said'[c] >= said[c]
  PROVE  Fine(s, m)'
<1>1. m.id \in Nat /\ (\A c \in Chats : said[c] \in Nat /\ said'[c] \in Nat)
  BY DEF Drafts, Types, HistType
<1>2. \A c \in Chats : m.id <= said[c] => m.id <= said'[c]
  BY <1>1
<1> QED
  BY <1>2, SideFacts DEF Fine, WireOut, X

LEMMA StepGrows ==
  ASSUME Types, Types', SideInv, [Next]_vars
  PROVE  /\ accepted # None => accepted' = accepted
         /\ \A c \in Chats : said'[c] >= said[c]
<1> USE DEF Types, HistType
<1>1. ASSUME NEW t \in Threads, FindChat(t) PROVE (accepted # None => accepted' = accepted) /\ (\A c \in Chats : said'[c] >= said[c])
  BY <1>1 DEF FindChat, servVars, histVars
<1>2. ASSUME NEW t \in Threads, EnterLock(t) PROVE (accepted # None => accepted' = accepted) /\ (\A c \in Chats : said'[c] >= said[c])
  BY <1>2 DEF EnterLock, servVars, histVars
<1>3. ASSUME NEW t \in Threads, TakeLock(t) PROVE (accepted # None => accepted' = accepted) /\ (\A c \in Chats : said'[c] >= said[c])
  BY <1>3 DEF TakeLock, servVars, histVars
<1>4. ASSUME NEW t \in Threads, TakeNumber(t) PROVE (accepted # None => accepted' = accepted) /\ (\A c \in Chats : said'[c] >= said[c])
  BY <1>4 DEF TakeNumber, servVars, histVars
<1>5. ASSUME NEW t \in Threads, Seal(t) PROVE (accepted # None => accepted' = accepted) /\ (\A c \in Chats : said'[c] >= said[c])
  BY <1>5 DEF Seal, servVars, histVars
<1>6. ASSUME NEW t \in Threads, Post(t) PROVE (accepted # None => accepted' = accepted) /\ (\A c \in Chats : said'[c] >= said[c])
  BY <1>6 DEF Post, servVars, histVars
<1>7. ASSUME NEW t \in Threads, FreeLock(t) PROVE (accepted # None => accepted' = accepted) /\ (\A c \in Chats : said'[c] >= said[c])
  BY <1>7 DEF FreeLock, servVars, histVars
<1>8. ASSUME NEW t \in Threads, LeaveLock(t) PROVE (accepted # None => accepted' = accepted) /\ (\A c \in Chats : said'[c] >= said[c])
  BY <1>8 DEF LeaveLock, servVars, histVars
<1>9. ASSUME NEW h \in Handlers, Deliver(h) PROVE (accepted # None => accepted' = accepted) /\ (\A c \in Chats : said'[c] >= said[c])
  BY <1>9 DEF Deliver, servVars, histVars
<1>10. ASSUME NEW h \in Handlers, Replay(h) PROVE (accepted # None => accepted' = accepted) /\ (\A c \in Chats : said'[c] >= said[c])
  BY <1>10 DEF Replay, servVars, histVars
<1>11. ASSUME NEW h \in Handlers, HandleDiscarded(h) PROVE (accepted # None => accepted' = accepted) /\ (\A c \in Chats : said'[c] >= said[c])
  BY <1>11 DEF HandleDiscarded, servVars, histVars
<1>12. ASSUME NEW h \in Handlers, Lookup(h) PROVE (accepted # None => accepted' = accepted) /\ (\A c \in Chats : said'[c] >= said[c])
  BY <1>12 DEF Lookup, servVars, histVars
<1>13. ASSUME NEW h \in Handlers, CompleteKeyExchange(h) PROVE (accepted # None => accepted' = accepted) /\ (\A c \in Chats : said'[c] >= said[c])
  BY <1>13 DEF CompleteKeyExchange, servVars, histVars
<1>14. ASSUME NEW h \in Handlers, Open(h) PROVE (accepted # None => accepted' = accepted) /\ (\A c \in Chats : said'[c] >= said[c])
  BY <1>14 DEF Open, servVars, histVars
<1>15. ASSUME NEW h \in Handlers, AcceptLayer(h) PROVE (accepted # None => accepted' = accepted) /\ (\A c \in Chats : said'[c] >= said[c])
  BY <1>15 DEF AcceptLayer, servVars, histVars
<1>16. CASE CreateChat
  BY <1>16 DEF CreateChat, servVars, histVars
<1>17. CASE AskRequest
  BY <1>17 DEF AskRequest, servVars, histVars
<1>18. CASE RenameChat
  BY <1>18 DEF RenameChat, servVars, histVars
<1>19. ASSUME NEW a \in Acceptors, AcceptChat(a) PROVE (accepted # None => accepted' = accepted) /\ (\A c \in Chats : said'[c] >= said[c])
  BY <1>19 DEF AcceptChat, servVars, histVars
<1>20. ASSUME NEW a \in Acceptors, AskAccept(a) PROVE (accepted # None => accepted' = accepted) /\ (\A c \in Chats : said'[c] >= said[c])
  BY <1>20 DEF AskAccept, servVars, histVars, SideInv
<1>21. ASSUME NEW a \in Acceptors, DropChat(a) PROVE (accepted # None => accepted' = accepted) /\ (\A c \in Chats : said'[c] >= said[c])
  BY <1>21 DEF DropChat, servVars, histVars
<1>22. ASSUME NEW s \in Sides, AskDiscard(s) PROVE (accepted # None => accepted' = accepted) /\ (\A c \in Chats : said'[c] >= said[c])
  BY <1>22 DEF AskDiscard, servVars, histVars
<1>23. ASSUME NEW s \in Sides, ForgetChat(s) PROVE (accepted # None => accepted' = accepted) /\ (\A c \in Chats : said'[c] >= said[c])
  BY <1>23 DEF ForgetChat, servVars, histVars
<1>24. CASE UNCHANGED vars
  BY <1>24 DEF vars, servVars, histVars
<1> QED
  BY <1>1, <1>2, <1>3, <1>4, <1>5, <1>6, <1>7, <1>8, <1>9, <1>10, <1>11, <1>12, <1>13, <1>14, <1>15, <1>16, <1>17, <1>18, <1>19, <1>20, <1>21, <1>22, <1>23, <1>24 DEF Next, SendStep, HandleStep, Request, Accept, Discard

(* What a thread posts is fine for the other side. *)
LEMMA PostedFine ==
  ASSUME Types, SideInv, CountInv, NEW t \in Threads, pc[t] = "post", LockInv, status = "accepted"
  PROVE  Fine(Other(SideOf(t)), draft[t])
<1>1. chat[t] \in Chats
  BY DEF LockInv, Entered, Held
<1>2. /\ draft[t].kind = "text" /\ accepted # None
      /\ draft[t].out = WireOut(chat[t], draft[t].id) /\ draft[t].id <= said[chat[t]]
      /\ chat[t] \in Acceptors => draft[t].key = chat[t]
  BY DEF CountInv, SideInv
<1>3. chat[t] = Origin <=> SideOf(t) = "origin"
  BY <1>1, SideFacts DEF SideInv
<1>4. CASE SideOf(t) = "origin"
  BY <1>2, <1>3, <1>4 DEF Fine, Other
<1>5. CASE SideOf(t) = "partner"
  <2>1. chat[t] \in Acceptors
    BY <1>1, <1>3, <1>5 DEF Chats
  <2> QED
    BY <1>2, <1>5, <2>1 DEF Fine, Other
<1> QED
  BY <1>4, <1>5, SideFacts DEF Sides

LEMMA LogStep ==
  ASSUME Types, Types', LockInv, SideInv, MailInv, CountInv, [Next]_vars
  PROVE  \A s \in Sides : \A i \in 1 .. Len(log'[s]) : Fine(s, log[s][i])'
<1> DEFINE LogFine == \A s \in Sides : \A i \in 1 .. Len(log[s]) : Fine(s, log[s][i])
<1>1. accepted # None => accepted' = accepted
  BY StepGrows
<1>2. \A c \in Chats : said'[c] >= said[c]
  BY StepGrows
<1>3. \A s \in Sides : \A m \in Drafts : Fine(s, m) => Fine(s, m)'
  BY <1>1, <1>2, FineStable
<1>4. \A s \in Sides : log[s] \in Seq(Drafts) /\ log'[s] \in Seq(Drafts)
  BY DEF Types, LogType
<1>5. ASSUME UNCHANGED log
      PROVE  LogFine'
  <2> SUFFICES ASSUME NEW s \in Sides, NEW i \in 1 .. Len(log[s]) PROVE Fine(s, log[s][i])'
    BY <1>5
  <2> PICK m \in Drafts : m = log[s][i]
    BY <1>4
  <2>1. Fine(s, m)'
    BY <1>3 DEF MailInv
  <2>2. log'[s][i] = m
    BY <1>5
  <2> QED
    BY <2>1, <2>2
<1>6. ASSUME NEW r \in Sides, NEW d \in Drafts, Tell(r, d), Fine(r, d)'
      PROVE  LogFine'
  <2> SUFFICES ASSUME NEW s \in Sides, NEW i \in 1 .. Len(log'[s]) PROVE Fine(s, log[s][i])'
    OBVIOUS
  <2>1. log'[s] = IF s = r THEN Append(log[s], d) ELSE log[s]
    BY <1>6 DEF Tell, Types, LogType
  <2>2. CASE s = r /\ i = Len(log[s]) + 1
    <3>1. log'[s][i] = d
      BY <2>1, <2>2, <1>4
    <3> QED
      BY <3>1, <2>2, <1>6
  <2>3. CASE ~(s = r /\ i = Len(log[s]) + 1)
    <3>1. i \in 1 .. Len(log[s]) /\ log'[s][i] = log[s][i]
      BY <2>1, <2>3, <1>4
    <3> PICK m \in Drafts : m = log[s][i]
      BY <3>1, <1>4
    <3>2. Fine(s, m)'
      BY <1>3, <3>1 DEF MailInv
    <3> QED
      BY <3>1, <3>2
  <2> QED
    BY <2>2, <2>3
<1>7. ASSUME NEW t \in Threads, Post(t)
      PROVE  LogFine'
  <2>1. CASE UNCHANGED log
    BY <2>1, <1>5
  <2>2. CASE status = "accepted" /\ Tell(Other(SideOf(t)), draft[t])
    <3>1. pc[t] = "post"
      BY <1>7 DEF Post, At
    <3> PICK d \in Drafts : d = draft[t]
      BY DEF Types, DraftType
    <3> PICK r \in Sides : r = Other(SideOf(t))
      BY SideFacts
    <3>2. Fine(r, d)
      BY <2>2, <3>1, PostedFine
    <3>3. Fine(r, d)'
      BY <3>2, <1>3
    <3> QED
      BY <2>2, <3>3, <1>6
  <2> QED
    BY <1>7, <2>1, <2>2 DEF Post
<1>8. ASSUME NEW a \in Acceptors, AskAccept(a)
      PROVE  LogFine'
  <2>1. CASE UNCHANGED log
    BY <2>1, <1>5
  <2>2. CASE accepted' = a /\ Tell("origin", Note("agreed", a))
    <3> PICK d \in Drafts : d = Note("agreed", a)
      BY DraftTyped
    <3>1. Fine("origin", d)'
      BY <2>2, SideFacts DEF Fine, Note, Blank
    <3> QED
      BY <2>2, <3>1, <1>6 DEF Sides
  <2> QED
    BY <1>8, <2>1, <2>2 DEF AskAccept, servVars
<1>9. ASSUME NEW r \in Sides, AskDiscard(r)
      PROVE  LogFine'
  <2> PICK d \in Drafts : d = Note("discarded", None)
    BY DraftTyped
  <2>1. Fine(Other(r), d)'
    BY DEF Fine, Note, Blank
  <2> PICK q \in Sides : q = Other(r)
    BY SideFacts
  <2> QED
    BY <2>1, <1>6, <1>9 DEF AskDiscard
<1>10. UNCHANGED log \/ (\E t \in Threads : Post(t)) \/ (\E a \in Acceptors : AskAccept(a))
         \/ (\E r \in Sides : AskDiscard(r))
  <2>1. ASSUME NEW t \in Threads, FindChat(t) PROVE UNCHANGED log
    BY <2>1 DEF FindChat, servVars
  <2>2. ASSUME NEW t \in Threads, EnterLock(t) PROVE UNCHANGED log
    BY <2>2 DEF EnterLock, servVars
  <2>3. ASSUME NEW t \in Threads, TakeLock(t) PROVE UNCHANGED log
    BY <2>3 DEF TakeLock, servVars
  <2>4. ASSUME NEW t \in Threads, TakeNumber(t) PROVE UNCHANGED log
    BY <2>4 DEF TakeNumber, servVars
  <2>5. ASSUME NEW t \in Threads, Seal(t) PROVE UNCHANGED log
    BY <2>5 DEF Seal, servVars
  <2>6. ASSUME NEW u \in Threads, Post(u) PROVE (\E t \in Threads : Post(t)) \/ (\E a \in Acceptors : AskAccept(a)) \/ (\E r \in Sides : AskDiscard(r))
    BY <2>6
  <2>7. ASSUME NEW t \in Threads, FreeLock(t) PROVE UNCHANGED log
    BY <2>7 DEF FreeLock, servVars
  <2>8. ASSUME NEW t \in Threads, LeaveLock(t) PROVE UNCHANGED log
    BY <2>8 DEF LeaveLock, servVars
  <2>9. ASSUME NEW h \in Handlers, Deliver(h) PROVE UNCHANGED log
    BY <2>9 DEF Deliver, servVars
  <2>10. ASSUME NEW h \in Handlers, Replay(h) PROVE UNCHANGED log
    BY <2>10 DEF Replay, servVars
  <2>11. ASSUME NEW h \in Handlers, HandleDiscarded(h) PROVE UNCHANGED log
    BY <2>11 DEF HandleDiscarded, servVars
  <2>12. ASSUME NEW h \in Handlers, Lookup(h) PROVE UNCHANGED log
    BY <2>12 DEF Lookup, servVars
  <2>13. ASSUME NEW h \in Handlers, CompleteKeyExchange(h) PROVE UNCHANGED log
    BY <2>13 DEF CompleteKeyExchange, servVars
  <2>14. ASSUME NEW h \in Handlers, Open(h) PROVE UNCHANGED log
    BY <2>14 DEF Open, servVars
  <2>15. ASSUME NEW h \in Handlers, AcceptLayer(h) PROVE UNCHANGED log
    BY <2>15 DEF AcceptLayer, servVars
  <2>16. CASE CreateChat
    BY <2>16 DEF CreateChat, servVars
  <2>17. CASE AskRequest
    BY <2>17 DEF AskRequest, servVars
  <2>18. CASE RenameChat
    BY <2>18 DEF RenameChat, servVars
  <2>19. ASSUME NEW a \in Acceptors, AcceptChat(a) PROVE UNCHANGED log
    BY <2>19 DEF AcceptChat, servVars
  <2>20. ASSUME NEW b \in Acceptors, AskAccept(b) PROVE (\E t \in Threads : Post(t)) \/ (\E a \in Acceptors : AskAccept(a)) \/ (\E r \in Sides : AskDiscard(r))
    BY <2>20
  <2>21. ASSUME NEW a \in Acceptors, DropChat(a) PROVE UNCHANGED log
    BY <2>21 DEF DropChat, servVars
  <2>22. ASSUME NEW s \in Sides, AskDiscard(s) PROVE (\E t \in Threads : Post(t)) \/ (\E a \in Acceptors : AskAccept(a)) \/ (\E r \in Sides : AskDiscard(r))
    BY <2>22
  <2>23. ASSUME NEW s \in Sides, ForgetChat(s) PROVE UNCHANGED log
    BY <2>23 DEF ForgetChat, servVars
  <2>24. CASE UNCHANGED vars
    BY <2>24 DEF vars, servVars
  <2> QED
    BY <2>1, <2>2, <2>3, <2>4, <2>5, <2>6, <2>7, <2>8, <2>9, <2>10, <2>11, <2>12, <2>13, <2>14, <2>15, <2>16, <2>17, <2>18, <2>19, <2>20, <2>21, <2>22, <2>23, <2>24 DEF Next, SendStep, HandleStep, Request, Accept, Discard
<1> QED
  BY <1>5, <1>7, <1>8, <1>9, <1>10

LEMMA MailKept ==
  ASSUME Types, Types', NEW h \in Handlers, Mail(h), SideInv,
         accepted # None => accepted' = accepted, \A c \in Chats : said'[c] >= said[c],
         \/ pc'[h] = pc[h] /\ draft'[h] = draft[h]
         \/ pc'[h] \notin InHand
  PROVE  Mail(h)'
<1>1. CASE pc'[h] \notin InHand
  BY <1>1 DEF Mail, InHand
<1>2. CASE pc'[h] = pc[h] /\ draft'[h] = draft[h] /\ pc[h] \in InHand
  <2> PICK m \in Drafts : m = draft[h]
    BY SideFacts DEF Types, DraftType
  <2> PICK s \in Sides : s = SideOf(h)
    BY SideFacts
  <2>1. Fine(s, m)
    BY <1>2 DEF Mail
  <2>2. Fine(s, m)'
    BY <2>1, FineStable
  <2>3. pc[h] = "layer" => accepted # None
    BY <2>1, <1>2 DEF Mail, Fine
  <2>4. Fine(SideOf(h), draft[h])'
    BY <2>2, <1>2
  <2> QED
    BY <2>3, <2>4, <1>2 DEF Mail
<1> QED
  BY <1>1, <1>2

LEMMA MailStep ==
  ASSUME Types, Types', LockInv, SideInv, MailInv, CountInv, [Next]_vars
  PROVE  \A h \in Handlers : Mail(h)'
<1>0. (accepted # None => accepted' = accepted) /\ \A c \in Chats : said'[c] >= said[c]
  BY StepGrows
<1> DEFINE Same(h) == pc'[h] = pc[h] /\ draft'[h] = draft[h]
<1>a. ASSUME NEW h \in Handlers, Same(h) \/ pc'[h] \notin InHand PROVE Mail(h)'
  BY <1>0, <1>a, MailKept DEF MailInv
<1>b. ASSUME NEW h \in Handlers, NEW i \in 1 .. Len(log[SideOf(h)]), UNCHANGED <<said, accepted>>,
             pc'[h] = "handle", draft'[h] = log[SideOf(h)][i]
      PROVE  Mail(h)'
  <2> PICK s \in Sides : s = SideOf(h)
    BY SideFacts
  <2> PICK m \in Drafts : m = log[s][i]
    BY DEF Types, LogType
  <2>1. Fine(s, m)
    BY DEF MailInv
  <2>2. Fine(s, m)'
    BY <2>1, <1>0, FineStable
  <2>3. Fine(SideOf(h), draft[h])'
    BY <2>2, <1>b
  <2> QED
    BY <2>3, <1>b DEF Mail
<1>1. ASSUME NEW t \in Threads, FindChat(t) PROVE \A h \in Handlers : Mail(h)'
  <2>1. \A h \in Handlers : Same(h) \/ pc'[h] \notin InHand
    BY <1>1, SideFacts DEF FindChat, Goto, Types, PcType, DraftType, InHand
  <2> QED
    BY <2>1, <1>a
<1>2. ASSUME NEW t \in Threads, EnterLock(t) PROVE \A h \in Handlers : Mail(h)'
  <2>1. \A h \in Handlers : Same(h) \/ pc'[h] \notin InHand
    BY <1>2, SideFacts DEF EnterLock, Goto, Types, PcType, DraftType, InHand
  <2> QED
    BY <2>1, <1>a
<1>3. ASSUME NEW t \in Threads, TakeLock(t) PROVE \A h \in Handlers : Mail(h)'
  <2>1. \A h \in Handlers : Same(h) \/ pc'[h] \notin InHand
    BY <1>3, SideFacts DEF TakeLock, Goto, Types, PcType, DraftType, InHand
  <2> QED
    BY <2>1, <1>a
<1>4. ASSUME NEW t \in Threads, TakeNumber(t) PROVE \A h \in Handlers : Mail(h)'
  <2>1. \A h \in Handlers : Same(h) \/ pc'[h] \notin InHand
    BY <1>4, SideFacts DEF TakeNumber, Goto, Types, PcType, DraftType, InHand
  <2> QED
    BY <2>1, <1>a
<1>5. ASSUME NEW t \in Threads, Seal(t) PROVE \A h \in Handlers : Mail(h)'
  <2>1. \A h \in Handlers : Same(h) \/ pc'[h] \notin InHand
    BY <1>5, SideFacts DEF Seal, Goto, Types, PcType, DraftType, InHand
  <2> QED
    BY <2>1, <1>a
<1>6. ASSUME NEW t \in Threads, Post(t) PROVE \A h \in Handlers : Mail(h)'
  <2>1. \A h \in Handlers : Same(h) \/ pc'[h] \notin InHand
    BY <1>6, SideFacts DEF Post, Goto, Types, PcType, DraftType, InHand
  <2> QED
    BY <2>1, <1>a
<1>7. ASSUME NEW t \in Threads, FreeLock(t) PROVE \A h \in Handlers : Mail(h)'
  <2>1. \A h \in Handlers : Same(h) \/ pc'[h] \notin InHand
    BY <1>7, SideFacts DEF FreeLock, Goto, Types, PcType, DraftType, InHand
  <2> QED
    BY <2>1, <1>a
<1>8. ASSUME NEW t \in Threads, LeaveLock(t) PROVE \A h \in Handlers : Mail(h)'
  <2>1. \A h \in Handlers : Same(h) \/ pc'[h] \notin InHand
    BY <1>8, SideFacts DEF LeaveLock, Goto, Types, PcType, DraftType, InHand
  <2> QED
    BY <2>1, <1>a
<1>9. ASSUME NEW g \in Handlers, Deliver(g) PROVE \A h \in Handlers : Mail(h)'
  <2>1. \A h \in Handlers \ {g} : Same(h)
    BY <1>9, SideFacts DEF Deliver, Goto, Types, PcType, DraftType
  <2>a. next[SideOf(g)] \in Nat /\ Len(log[SideOf(g)]) \in Nat
    BY SideFacts DEF Types, LogType
  <2>b. next[SideOf(g)] + 1 \in 1 .. Len(log[SideOf(g)]) /\ draft' = [draft EXCEPT ![g] = log[SideOf(g)][next[SideOf(g)] + 1]]
    BY <1>9, <2>a DEF Deliver
  <2>2. PICK i \in 1 .. Len(log[SideOf(g)]) : draft' = [draft EXCEPT ![g] = log[SideOf(g)][i]]
    BY <2>b
  <2>3. Mail(g)'
    BY <1>9, <1>b, <2>2, SideFacts DEF Deliver, Goto, Types, PcType, DraftType, servVars, histVars
  <2> QED
    BY <2>1, <2>3, <1>a
<1>10. ASSUME NEW g \in Handlers, Replay(g) PROVE \A h \in Handlers : Mail(h)'
  <2>1. \A h \in Handlers \ {g} : Same(h)
    BY <1>10, SideFacts DEF Replay, Goto, Types, PcType, DraftType
  <2>a. next[SideOf(g)] \in Nat /\ Len(log[SideOf(g)]) \in Nat
    BY SideFacts DEF Types, LogType
  <2>2. PICK i \in 1 .. Len(log[SideOf(g)]) : draft' = [draft EXCEPT ![g] = log[SideOf(g)][i]]
    BY <1>10 DEF Replay
  <2>3. Mail(g)'
    BY <1>10, <1>b, <2>2, SideFacts DEF Replay, Goto, Types, PcType, DraftType, servVars, histVars
  <2> QED
    BY <2>1, <2>3, <1>a
<1>11. ASSUME NEW g \in Handlers, HandleDiscarded(g) PROVE \A h \in Handlers : Mail(h)'
  <2>1. \A h \in Handlers \ {g} : Same(h)
    BY <1>11, SideFacts DEF HandleDiscarded, Goto, Types, PcType, DraftType
  <2>2. pc'[g] \notin InHand
    BY <1>11, SideFacts DEF HandleDiscarded, Goto, Types, PcType, InHand
  <2>5. Mail(g)'
    BY <2>2, <1>a
  <2> QED
    BY <2>1, <2>5, <1>a
<1>12. ASSUME NEW g \in Handlers, Lookup(g) PROVE \A h \in Handlers : Mail(h)'
  <2>1. \A h \in Handlers \ {g} : Same(h)
    BY <1>12, SideFacts DEF Lookup, Goto, Types, PcType, DraftType
  <2>2. Mail(g) /\ pc[g] = "handle"
    BY <1>12 DEF Lookup, At, MailInv
  <2>3. ASSUME UNCHANGED <<draft, broken>>, Goto(g, draft[g].kind) PROVE Mail(g)'
    <3>1. pc'[g] = draft[g].kind /\ draft'[g] = draft[g] /\ UNCHANGED <<said, accepted>>
      BY <1>12, <2>3, SideFacts DEF Lookup, Goto, Types, PcType, servVars
    <3> PICK s \in Sides : s = SideOf(g)
      BY SideFacts
    <3> PICK m \in Drafts : m = draft[g]
      BY SideFacts DEF Types, DraftType
    <3>2. Fine(s, m)
      BY <2>2 DEF Mail, InHand
    <3>3. Fine(s, m)'
      BY <3>2, <1>0, FineStable
    <3>4. Fine(SideOf(g), draft[g])'
      BY <3>1, <3>3
    <3>5. draft[g].kind \in {"agreed", "text", "discarded"}
      BY <3>2 DEF Fine
    <3> QED
      BY <3>1, <3>4, <3>5 DEF Mail, InHand
  <2>4. ASSUME Goto(g, "idle") PROVE Mail(g)'
    <3>1. pc'[g] \notin InHand
      BY <2>4, SideFacts DEF Goto, Types, PcType, InHand
    <3> QED
      BY <3>1, <1>a
  <2>5. Mail(g)'
    BY <1>12, <2>3, <2>4 DEF Lookup
  <2> QED
    BY <2>1, <2>5, <1>a
<1>13. ASSUME NEW g \in Handlers, CompleteKeyExchange(g) PROVE \A h \in Handlers : Mail(h)'
  <2>1. \A h \in Handlers \ {g} : Same(h)
    BY <1>13, SideFacts DEF CompleteKeyExchange, Goto, Types, PcType, DraftType
  <2>2. pc'[g] \notin InHand
    BY <1>13, SideFacts DEF CompleteKeyExchange, Goto, Types, PcType, InHand
  <2>5. Mail(g)'
    BY <2>2, <1>a
  <2> QED
    BY <2>1, <2>5, <1>a
<1>14. ASSUME NEW g \in Handlers, Open(g) PROVE \A h \in Handlers : Mail(h)'
  <2>1. \A h \in Handlers \ {g} : Same(h)
    BY <1>14, SideFacts DEF Open, Goto, Types, PcType, DraftType
  <2>2. Mail(g) /\ pc[g] = "text" /\ UNCHANGED <<said, accepted, key>>
    BY <1>14 DEF Open, At, MailInv, servVars, histVars, chatVars
  <2>3. ASSUME Opens(listed[SideOf(g)], draft[g]), Goto(g, "layer"), UNCHANGED <<chat, draft>> PROVE Mail(g)'
    <3>1. pc'[g] = "layer" /\ draft'[g] = draft[g]
      BY <2>3, SideFacts DEF Goto, Types, PcType
    <3> PICK s \in Sides : s = SideOf(g)
      BY SideFacts
    <3> PICK m \in Drafts : m = draft[g]
      BY SideFacts DEF Types, DraftType
    <3>2. Fine(s, m) /\ m.kind = "text"
      BY <2>2 DEF Mail, InHand
    <3>3. Fine(s, m)'
      BY <3>2, <1>0, FineStable
    <3>4. Fine(SideOf(g), draft[g])'
      BY <3>1, <3>3
    <3>5. s = "origin" => m.key = accepted
      BY <3>2, <2>3, SideFacts DEF Fine, Opens, SideInv
    <3> QED
      BY <3>1, <3>2, <3>4, <3>5, <2>2 DEF Mail, InHand
  <2>4. ASSUME Goto(g, "idle") PROVE Mail(g)'
    <3>1. pc'[g] \notin InHand
      BY <2>4, SideFacts DEF Goto, Types, PcType, InHand
    <3> QED
      BY <3>1, <1>a
  <2>5. Mail(g)'
    BY <1>14, <2>3, <2>4 DEF Open
  <2> QED
    BY <2>1, <2>5, <1>a
<1>15. ASSUME NEW g \in Handlers, AcceptLayer(g) PROVE \A h \in Handlers : Mail(h)'
  <2>1. \A h \in Handlers \ {g} : Same(h)
    BY <1>15, SideFacts DEF AcceptLayer, Goto, Types, PcType, DraftType
  <2>2. pc'[g] \notin InHand
    BY <1>15, SideFacts DEF AcceptLayer, Goto, Types, PcType, InHand
  <2>5. Mail(g)'
    BY <2>2, <1>a
  <2> QED
    BY <2>1, <2>5, <1>a
<1>16. CASE CreateChat
  <2>1. \A h \in Handlers : Same(h)
    BY <1>16 DEF CreateChat
  <2> QED
    BY <2>1, <1>a
<1>17. CASE AskRequest
  <2>1. \A h \in Handlers : Same(h)
    BY <1>17 DEF AskRequest
  <2> QED
    BY <2>1, <1>a
<1>18. CASE RenameChat
  <2>1. \A h \in Handlers : Same(h)
    BY <1>18 DEF RenameChat
  <2> QED
    BY <2>1, <1>a
<1>19. ASSUME NEW a \in Acceptors, AcceptChat(a) PROVE \A h \in Handlers : Mail(h)'
  <2>1. \A h \in Handlers : Same(h) \/ pc'[h] \notin InHand
    BY <1>19, SideFacts DEF AcceptChat, Goto, Types, PcType, DraftType, InHand
  <2> QED
    BY <2>1, <1>a
<1>20. ASSUME NEW a \in Acceptors, AskAccept(a) PROVE \A h \in Handlers : Mail(h)'
  <2>1. \A h \in Handlers : Same(h) \/ pc'[h] \notin InHand
    BY <1>20, SideFacts DEF AskAccept, Goto, Types, PcType, DraftType, InHand
  <2> QED
    BY <2>1, <1>a
<1>21. ASSUME NEW a \in Acceptors, DropChat(a) PROVE \A h \in Handlers : Mail(h)'
  <2>1. \A h \in Handlers : Same(h) \/ pc'[h] \notin InHand
    BY <1>21, SideFacts DEF DropChat, Goto, Types, PcType, DraftType, InHand
  <2> QED
    BY <2>1, <1>a
<1>22. ASSUME NEW s \in Sides, AskDiscard(s) PROVE \A h \in Handlers : Mail(h)'
  <2>1. \A h \in Handlers : Same(h)
    BY <1>22 DEF AskDiscard
  <2> QED
    BY <2>1, <1>a
<1>23. ASSUME NEW s \in Sides, ForgetChat(s) PROVE \A h \in Handlers : Mail(h)'
  <2>1. \A h \in Handlers : Same(h)
    BY <1>23 DEF ForgetChat
  <2> QED
    BY <2>1, <1>a
<1>24. CASE UNCHANGED vars
  BY <1>24, <1>a DEF vars
<1> QED
  BY <1>1, <1>2, <1>3, <1>4, <1>5, <1>6, <1>7, <1>8, <1>9, <1>10, <1>11, <1>12, <1>13, <1>14, <1>15, <1>16, <1>17, <1>18, <1>19, <1>20, <1>21, <1>22, <1>23, <1>24 DEF Next, SendStep, HandleStep, Request, Accept, Discard

LEMMA CountStep ==
  ASSUME Types, Types', LockInv, SideInv, MailInv, CountInv, [Next]_vars
  PROVE  CountInv'
<1> USE DEF CountInv
<1>1. ASSUME NEW t \in Threads, FindChat(t) PROVE CountInv'
  BY <1>1, SideFacts DEF FindChat, At, Goto, Remove, Types, PcType, DraftType, ChatType, HistType, chatVars, lockVars, callVars, servVars, netVars, histVars
<1>2. ASSUME NEW t \in Threads, EnterLock(t) PROVE CountInv'
  BY <1>2, SideFacts DEF EnterLock, At, Goto, Remove, Types, PcType, DraftType, ChatType, HistType, chatVars, lockVars, callVars, servVars, netVars, histVars
<1>3. ASSUME NEW t \in Threads, TakeLock(t) PROVE CountInv'
  <2>1. \A u \in Threads \ {t} : pc'[u] = pc[u] /\ draft'[u] = draft[u]
    BY <1>3 DEF TakeLock, Goto, Types, PcType, DraftType
  <2>2. pc'[t] = "number" /\ draft'[t].kind = "text"
    BY <1>3 DEF TakeLock, Goto, Types, PcType, DraftType, Note, Blank
  <2>3. UNCHANGED <<out, said, chat, heard, in, accepted>>
    BY <1>3 DEF TakeLock, chatVars, servVars, histVars
  <2> QED
    BY <2>1, <2>2, <2>3
<1>4. ASSUME NEW t \in Threads, TakeNumber(t) PROVE CountInv'
  <2>0. chat[t] \in Chats
    BY <1>4 DEF TakeNumber, At, LockInv, Entered, Held
  <2>1. \A u \in Threads \ {t} : pc'[u] = pc[u] /\ draft'[u] = draft[u]
    BY <1>4 DEF TakeNumber, Goto, Types, PcType, DraftType
  <2>2. pc'[t] = "seal" /\ said[chat[t]] \in Nat /\ out[chat[t]] = said[chat[t]]
    BY <1>4, <2>0 DEF TakeNumber, Goto, Types, PcType, HistType
  <2>3. draft'[t].id = said[chat[t]] + 1 /\ draft'[t].out = WireOut(chat[t], said[chat[t]] + 1)
    BY <1>4, <2>2 DEF TakeNumber, Types, DraftType, Drafts
  <2>4. draft'[t].kind = "text"
    BY <1>4 DEF TakeNumber, At, Types, DraftType, Drafts
  <2>5. UNCHANGED <<chat, heard, in, accepted>>
    BY <1>4 DEF TakeNumber, servVars
  <2>6. \A c \in Chats : out'[c] = said'[c] /\ said'[c] >= said[c]
    BY <1>4 DEF TakeNumber, Types, ChatType, HistType
  <2>7. said'[chat[t]] = said[chat[t]] + 1
    BY <1>4, <2>0 DEF TakeNumber, Types, HistType
  <2>8. \A u \in Threads : pc[u] \in {"seal", "post"} => draft[u].id <= said'[chat[u]]
    <3> SUFFICES ASSUME NEW u \in Threads, pc[u] \in {"seal", "post"} PROVE draft[u].id <= said'[chat[u]]
      OBVIOUS
    <3>1. chat[u] \in Chats /\ draft[u].id \in Nat /\ draft[u].id <= said[chat[u]]
      BY DEF LockInv, Entered, Held, Types, DraftType, Drafts
    <3> QED
      BY <3>1, <2>6 DEF Types, HistType
  <2> QED
    BY <2>1, <2>2, <2>3, <2>4, <2>5, <2>6, <2>7, <2>8 DEF WireOut
<1>5. ASSUME NEW t \in Threads, Seal(t) PROVE CountInv'
  <2>0. chat[t] \in Chats
    BY <1>5 DEF Seal, At, LockInv, Entered, Held
  <2>1. \A u \in Threads \ {t} : pc'[u] = pc[u] /\ draft'[u] = draft[u]
    BY <1>5 DEF Seal, Goto, Types, PcType, DraftType
  <2>2. UNCHANGED <<out, said, chat, heard, in, accepted>>
    BY <1>5 DEF Seal, chatVars, servVars
  <2>3. pc'[t] \notin {"number", "seal"} /\ (pc'[t] = "post" => stage[chat[t]] = "ready" /\ draft' = [draft EXCEPT ![t].key = key[chat[t]]])
    BY <1>5 DEF Seal, Goto, Types, PcType
  <2>4. pc'[t] = "post" => /\ draft'[t].kind = draft[t].kind /\ draft'[t].out = draft[t].out
                           /\ draft'[t].id = draft[t].id /\ draft'[t].key = key[chat[t]]
    BY <2>3 DEF Types, DraftType, Drafts
  <2>5. pc[t] = "seal"
    BY <1>5 DEF Seal, At
  <2> QED
    BY <2>0, <2>1, <2>2, <2>3, <2>4, <2>5 DEF SideInv
<1>6. ASSUME NEW t \in Threads, Post(t) PROVE CountInv'
  BY <1>6, SideFacts DEF Post, At, Goto, Remove, Types, PcType, DraftType, ChatType, HistType, chatVars, lockVars, callVars, servVars, netVars, histVars
<1>7. ASSUME NEW t \in Threads, FreeLock(t) PROVE CountInv'
  BY <1>7, SideFacts DEF FreeLock, At, Goto, Remove, Types, PcType, DraftType, ChatType, HistType, chatVars, lockVars, callVars, servVars, netVars, histVars
<1>8. ASSUME NEW t \in Threads, LeaveLock(t) PROVE CountInv'
  BY <1>8, SideFacts DEF LeaveLock, At, Goto, Remove, Types, PcType, DraftType, ChatType, HistType, chatVars, lockVars, callVars, servVars, netVars, histVars
<1>9. ASSUME NEW h \in Handlers, Deliver(h) PROVE CountInv'
  BY <1>9, SideFacts DEF Deliver, At, Goto, Remove, Types, PcType, DraftType, ChatType, HistType, chatVars, lockVars, callVars, servVars, netVars, histVars
<1>10. ASSUME NEW h \in Handlers, Replay(h) PROVE CountInv'
  BY <1>10, SideFacts DEF Replay, At, Goto, Remove, Types, PcType, DraftType, ChatType, HistType, chatVars, lockVars, callVars, servVars, netVars, histVars
<1>11. ASSUME NEW h \in Handlers, HandleDiscarded(h) PROVE CountInv'
  BY <1>11, SideFacts DEF HandleDiscarded, At, Goto, Remove, Types, PcType, DraftType, ChatType, HistType, chatVars, lockVars, callVars, servVars, netVars, histVars
<1>12. ASSUME NEW h \in Handlers, Lookup(h) PROVE CountInv'
  <2>0. h \in Threads
    BY SideFacts
  <2>1. \A u \in Threads \ {h} : pc'[u] = pc[u] /\ draft'[u] = draft[u] /\ chat'[u] = chat[u]
    BY <1>12 DEF Lookup, Goto, Types, PcType, DraftType, OnType
  <2>2. pc'[h] \notin {"number", "seal", "post"}
    <3>1. draft[h].kind \in {"none", "agreed", "discarded", "text"}
      BY <2>0 DEF Types, DraftType, Drafts
    <3>2. pc'[h] = "idle" \/ pc'[h] = draft[h].kind
      BY <1>12, <2>0 DEF Lookup, Goto, Types, PcType
    <3> QED
      BY <3>1, <3>2
  <2>3. UNCHANGED <<out, said, heard, in, accepted>>
    BY <1>12 DEF Lookup, chatVars, servVars
  <2> QED
    BY <2>1, <2>2, <2>3
<1>13. ASSUME NEW h \in Handlers, CompleteKeyExchange(h) PROVE CountInv'
  BY <1>13, SideFacts DEF CompleteKeyExchange, At, Goto, Remove, Types, PcType, DraftType, ChatType, HistType, chatVars, lockVars, callVars, servVars, netVars, histVars
<1>14. ASSUME NEW h \in Handlers, Open(h) PROVE CountInv'
  <2>0. h \in Threads
    BY SideFacts
  <2>1. \A u \in Threads \ {h} : pc'[u] = pc[u] /\ draft'[u] = draft[u] /\ chat'[u] = chat[u]
    BY <1>14 DEF Open, Goto, Types, PcType, DraftType, OnType
  <2>2. pc'[h] \notin {"number", "seal", "post"}
    BY <1>14, <2>0 DEF Open, Goto, Types, PcType
  <2>3. UNCHANGED <<out, said, heard, in, accepted>>
    BY <1>14 DEF Open, chatVars, servVars, histVars
  <2> QED
    BY <2>1, <2>2, <2>3
<1>15. ASSUME NEW h \in Handlers, AcceptLayer(h) PROVE CountInv'
  <2>0. h \in Threads /\ chat[h] \in Chats
    BY <1>15, SideFacts DEF AcceptLayer, At, SideInv
  <2>1. \A u \in Threads \ {h} : pc'[u] = pc[u] /\ draft'[u] = draft[u] /\ chat'[u] = chat[u]
    BY <1>15 DEF AcceptLayer, Goto, Types, PcType, DraftType, OnType
  <2>2. pc'[h] = "idle"
    BY <1>15, <2>0 DEF AcceptLayer, Goto, Types, PcType
  <2>3. UNCHANGED <<out, said, accepted>>
    BY <1>15 DEF AcceptLayer, servVars
  <2>4. accepted # None
    BY <1>15 DEF AcceptLayer, At, MailInv, Mail, InHand, Fine
  <2>5. \A c \in Chats : Len(heard'[c]) = in'[c]
    <3>1. CASE UNCHANGED <<in, ack, heard>>
      BY <3>1
    <3>2. CASE in' = [in EXCEPT ![chat[h]] = in[chat[h]] + 1] /\ heard' = [heard EXCEPT ![chat[h]] = Append(heard[chat[h]], draft[h].id)]
      <4>1. Len(Append(heard[chat[h]], draft[h].id)) = Len(heard[chat[h]]) + 1
        BY <2>0 DEF Types, HistType
      <4> QED
        BY <4>1, <3>2, <2>0 DEF Types, ChatType, HistType
    <3> QED
      BY <1>15, <3>1, <3>2 DEF AcceptLayer
  <2> QED
    BY <2>1, <2>2, <2>3, <2>4, <2>5
<1>16. CASE CreateChat
  BY <1>16, SideFacts DEF CreateChat, At, Goto, Remove, Types, PcType, DraftType, ChatType, HistType, chatVars, lockVars, callVars, servVars, netVars, histVars
<1>17. CASE AskRequest
  BY <1>17, SideFacts DEF AskRequest, At, Goto, Remove, Types, PcType, DraftType, ChatType, HistType, chatVars, lockVars, callVars, servVars, netVars, histVars
<1>18. CASE RenameChat
  BY <1>18, SideFacts DEF RenameChat, At, Goto, Remove, Types, PcType, DraftType, ChatType, HistType, chatVars, lockVars, callVars, servVars, netVars, histVars
<1>19. ASSUME NEW a \in Acceptors, AcceptChat(a) PROVE CountInv'
  BY <1>19, SideFacts DEF AcceptChat, At, Goto, Remove, Types, PcType, DraftType, ChatType, HistType, chatVars, lockVars, callVars, servVars, netVars, histVars
<1>20. ASSUME NEW a \in Acceptors, AskAccept(a) PROVE CountInv'
  BY <1>20, SideFacts DEF AskAccept, At, Goto, Remove, Types, PcType, DraftType, ChatType, HistType, chatVars, lockVars, callVars, servVars, netVars, histVars
<1>21. ASSUME NEW a \in Acceptors, DropChat(a) PROVE CountInv'
  BY <1>21, SideFacts DEF DropChat, At, Goto, Remove, Types, PcType, DraftType, ChatType, HistType, chatVars, lockVars, callVars, servVars, netVars, histVars
<1>22. ASSUME NEW s \in Sides, AskDiscard(s) PROVE CountInv'
  BY <1>22, SideFacts DEF AskDiscard, At, Goto, Remove, Types, PcType, DraftType, ChatType, HistType, chatVars, lockVars, callVars, servVars, netVars, histVars
<1>23. ASSUME NEW s \in Sides, ForgetChat(s) PROVE CountInv'
  BY <1>23, SideFacts DEF ForgetChat, At, Goto, Remove, Types, PcType, DraftType, ChatType, HistType, chatVars, lockVars, callVars, servVars, netVars, histVars
<1>24. CASE UNCHANGED vars
  BY <1>24 DEF vars, chatVars, lockVars, callVars, servVars, netVars, histVars
<1> QED
  BY <1>1, <1>2, <1>3, <1>4, <1>5, <1>6, <1>7, <1>8, <1>9, <1>10, <1>11, <1>12, <1>13, <1>14, <1>15, <1>16, <1>17, <1>18, <1>19, <1>20, <1>21, <1>22, <1>23, <1>24 DEF Next, SendStep, HandleStep, Request, Accept, Discard

-----------------------------------------------------------------------------
(* The inductive invariant and what follows from it.                       *)

LEMMA InvInit == Init => IInv
<1> SUFFICES ASSUME Init PROVE IInv
  OBVIOUS
<1>1. TypeOK
  BY TypeInit
<1>2. LockInv
  BY SideFacts DEF Init, LockInv, Entered, Held
<1>3. SideInv
  BY SideFacts DEF Init, SideInv, Sides
<1>4. MailInv
  BY SideFacts DEF Init, MailInv, Mail, InHand
<1>5. CountInv
  BY SideFacts DEF Init, CountInv
<1> QED
  BY <1>1, <1>2, <1>3, <1>4, <1>5 DEF IInv

LEMMA InvStep == IInv /\ [Next]_vars => IInv'
<1> SUFFICES ASSUME TypeOK, LockInv, SideInv, MailInv, CountInv, [Next]_vars PROVE IInv'
  BY DEF IInv
<1>1. Types /\ TypeOK' /\ Types'
  BY TypeParts, TypePartsNext, TypeStep
<1>2. LockInv'
  BY <1>1, LockStep
<1>3. SideInv'
  BY <1>1, SideStep
<1>4. MailInv'
  <2>1. \A s \in Sides : \A i \in 1 .. Len(log'[s]) : Fine(s, log[s][i])'
    BY <1>1, LogStep
  <2>2. \A h \in Handlers : Mail(h)'
    BY <1>1, MailStep
  <2> QED
    BY <2>1, <2>2 DEF MailInv
<1>5. CountInv'
  BY <1>1, CountStep
<1> QED
  BY <1>1, <1>2, <1>3, <1>4, <1>5 DEF IInv

(* Every reachable state satisfies the inductive invariant of the locks,   *)
(* the two sides, the updates and the counts.                              *)
THEOREM ChatInvariant == Spec => []IInv
  BY InvInit, InvStep, PTL DEF Spec

(* Every variable keeps its kind; in particular the users of a send lock   *)
(* are never fewer than none (lockSecretSend).                             *)
THEOREM ChatTypes == Spec => []TypeOK
  BY ChatInvariant, PTL DEF IInv

(* Two threads are never both between the number and the request of the    *)
(* same chat, for any number of users (lockSecretSend).                    *)
THEOREM OneSenderAlways == Spec => []OneSender
<1>1. IInv => OneSender
  <2> SUFFICES ASSUME LockInv, NEW t \in Threads, NEW u \in Threads, t # u, chat[t] = chat[u],
                      pc[t] \in Held, pc[u] \in Held
               PROVE  FALSE
    BY DEF IInv, OneSender, Held
  <2> QED
    BY DEF LockInv, Entered
<1> QED
  BY <1>1, ChatInvariant, PTL

-----------------------------------------------------------------------------
(* Both directions are a SecureLine.                                       *)

LEMMA NextNumber ==
  ASSUME NEW i \in Nat, NEW n \in Nat, NEW x \in {0, 1}, 2 * i - 1 - (1 - x) = 2 * n + x
  PROVE  i = n + 1
OBVIOUS

(* What a handler accepts is the next thing the other chat said. *)
LEMMA NextHeard ==
  ASSUME IInv, IInv', NEW h \in Handlers, AcceptLayer(h), Fits(chat[h], draft[h])
  PROVE  LET c == chat[h]
             p == IF c = Origin THEN accepted ELSE Origin
         IN  /\ c \in Chats /\ p \in Chats
             /\ heard' = [heard EXCEPT ![c] = Append(heard[c], Len(heard[c]) + 1)]
             /\ Len(heard[c]) < said[p] /\ UNCHANGED <<said, accepted>> /\ accepted # None
             /\ heard[c] \in Seq(Nat)
<1> DEFINE c == chat[h]
           p == IF c = Origin THEN accepted ELSE Origin
           m == draft[h]
<1>1. Types /\ SideInv /\ MailInv /\ CountInv /\ pc[h] = "layer" /\ h \in Threads
  BY TypeParts, SideFacts DEF IInv, AcceptLayer, At
<1>2. c \in Chats /\ (c = Origin <=> SideOf(h) = "origin")
  BY <1>1, SideFacts DEF SideInv
<1>3. /\ Fine(SideOf(h), m) /\ m.kind = "text" /\ accepted # None
      /\ (SideOf(h) = "origin" => m.key = accepted)
  BY <1>1 DEF MailInv, Mail, InHand, Fine
<1>4. p \in Chats /\ m.out = WireOut(p, m.id) /\ m.id <= said[p] /\ X(p) = 1 - X(c) /\ X(c) \in {0, 1}
  <2>1. CASE c = Origin
    BY <2>1, <1>2, <1>3, SideFacts DEF Fine, X
  <2>2. CASE c # Origin
    <3>1. SideOf(h) = "partner"
      BY <2>2, <1>1, <1>2, SideFacts DEF Sides
    <3> QED
      BY <3>1, <2>2, <1>3, SideFacts DEF Fine, X
  <2> QED
    BY <2>1, <2>2
<1>5. m.id \in Nat /\ m.out \in Nat /\ in[c] \in Nat /\ said[p] \in Nat /\ heard[c] \in Seq(Nat)
  BY <1>1, <1>2, <1>4 DEF Types, DraftType, Drafts, ChatType, HistType
<1>6. m.out = 2 * in[c] + X(c)
  BY DEF Fits
<1>7. m.id = in[c] + 1
  <2>1. 2 * m.id - 1 - X(p) = 2 * in[c] + X(c)
    BY <1>4, <1>6 DEF WireOut
  <2>2. 2 * m.id - 1 - (1 - X(c)) = 2 * in[c] + X(c)
    BY <2>1, <1>4
  <2> HIDE DEF m, c
  <2> QED
    BY <2>2, <1>4, <1>5, NextNumber
<1>8. Len(heard[c]) = in[c]
  BY <1>1, <1>2 DEF CountInv
<1>9. heard' = [heard EXCEPT ![c] = Append(heard[c], m.id)] /\ UNCHANGED <<said, accepted>>
  BY DEF AcceptLayer, servVars
<1>10. Len(heard[c]) < said[p]
  BY <1>4, <1>5, <1>7, <1>8
<1> QED
  BY <1>2, <1>3, <1>4, <1>5, <1>7, <1>8, <1>9, <1>10

(* Whatever else happens, nothing is heard, and the count of what was said *)
(* does not go down; the accepted chat is chosen once.                     *)
LEMMA OtherSteps ==
  ASSUME IInv, IInv', [Next]_vars
  PROVE  \/ UNCHANGED heard
         \/ \E h \in Handlers : AcceptLayer(h) /\ Fits(chat[h], draft[h])
<1> USE DEF IInv
<1>1. ASSUME NEW t \in Threads, FindChat(t) PROVE UNCHANGED heard \/ \E g \in Handlers : AcceptLayer(g) /\ Fits(chat[g], draft[g])
  BY <1>1 DEF FindChat, histVars
<1>2. ASSUME NEW t \in Threads, EnterLock(t) PROVE UNCHANGED heard \/ \E g \in Handlers : AcceptLayer(g) /\ Fits(chat[g], draft[g])
  BY <1>2 DEF EnterLock, histVars
<1>3. ASSUME NEW t \in Threads, TakeLock(t) PROVE UNCHANGED heard \/ \E g \in Handlers : AcceptLayer(g) /\ Fits(chat[g], draft[g])
  BY <1>3 DEF TakeLock, histVars
<1>4. ASSUME NEW t \in Threads, TakeNumber(t) PROVE UNCHANGED heard \/ \E g \in Handlers : AcceptLayer(g) /\ Fits(chat[g], draft[g])
  BY <1>4 DEF TakeNumber, histVars
<1>5. ASSUME NEW t \in Threads, Seal(t) PROVE UNCHANGED heard \/ \E g \in Handlers : AcceptLayer(g) /\ Fits(chat[g], draft[g])
  BY <1>5 DEF Seal, histVars
<1>6. ASSUME NEW t \in Threads, Post(t) PROVE UNCHANGED heard \/ \E g \in Handlers : AcceptLayer(g) /\ Fits(chat[g], draft[g])
  BY <1>6 DEF Post, histVars
<1>7. ASSUME NEW t \in Threads, FreeLock(t) PROVE UNCHANGED heard \/ \E g \in Handlers : AcceptLayer(g) /\ Fits(chat[g], draft[g])
  BY <1>7 DEF FreeLock, histVars
<1>8. ASSUME NEW t \in Threads, LeaveLock(t) PROVE UNCHANGED heard \/ \E g \in Handlers : AcceptLayer(g) /\ Fits(chat[g], draft[g])
  BY <1>8 DEF LeaveLock, histVars
<1>9. ASSUME NEW h \in Handlers, Deliver(h) PROVE UNCHANGED heard \/ \E g \in Handlers : AcceptLayer(g) /\ Fits(chat[g], draft[g])
  BY <1>9 DEF Deliver, histVars
<1>10. ASSUME NEW h \in Handlers, Replay(h) PROVE UNCHANGED heard \/ \E g \in Handlers : AcceptLayer(g) /\ Fits(chat[g], draft[g])
  BY <1>10 DEF Replay, histVars
<1>11. ASSUME NEW h \in Handlers, HandleDiscarded(h) PROVE UNCHANGED heard \/ \E g \in Handlers : AcceptLayer(g) /\ Fits(chat[g], draft[g])
  BY <1>11 DEF HandleDiscarded, histVars
<1>12. ASSUME NEW h \in Handlers, Lookup(h) PROVE UNCHANGED heard \/ \E g \in Handlers : AcceptLayer(g) /\ Fits(chat[g], draft[g])
  BY <1>12 DEF Lookup, histVars
<1>13. ASSUME NEW h \in Handlers, CompleteKeyExchange(h) PROVE UNCHANGED heard \/ \E g \in Handlers : AcceptLayer(g) /\ Fits(chat[g], draft[g])
  BY <1>13 DEF CompleteKeyExchange, histVars
<1>14. ASSUME NEW h \in Handlers, Open(h) PROVE UNCHANGED heard \/ \E g \in Handlers : AcceptLayer(g) /\ Fits(chat[g], draft[g])
  BY <1>14 DEF Open, histVars
<1>15. ASSUME NEW h \in Handlers, AcceptLayer(h) PROVE UNCHANGED heard \/ \E g \in Handlers : AcceptLayer(g) /\ Fits(chat[g], draft[g])
  BY <1>15 DEF AcceptLayer, histVars
<1>16. CASE CreateChat
  BY <1>16 DEF CreateChat, histVars
<1>17. CASE AskRequest
  BY <1>17 DEF AskRequest, histVars
<1>18. CASE RenameChat
  BY <1>18 DEF RenameChat, histVars
<1>19. ASSUME NEW a \in Acceptors, AcceptChat(a) PROVE UNCHANGED heard \/ \E g \in Handlers : AcceptLayer(g) /\ Fits(chat[g], draft[g])
  BY <1>19 DEF AcceptChat, histVars
<1>20. ASSUME NEW a \in Acceptors, AskAccept(a) PROVE UNCHANGED heard \/ \E g \in Handlers : AcceptLayer(g) /\ Fits(chat[g], draft[g])
  BY <1>20 DEF AskAccept, histVars
<1>21. ASSUME NEW a \in Acceptors, DropChat(a) PROVE UNCHANGED heard \/ \E g \in Handlers : AcceptLayer(g) /\ Fits(chat[g], draft[g])
  BY <1>21 DEF DropChat, histVars
<1>22. ASSUME NEW s \in Sides, AskDiscard(s) PROVE UNCHANGED heard \/ \E g \in Handlers : AcceptLayer(g) /\ Fits(chat[g], draft[g])
  BY <1>22 DEF AskDiscard, histVars
<1>23. ASSUME NEW s \in Sides, ForgetChat(s) PROVE UNCHANGED heard \/ \E g \in Handlers : AcceptLayer(g) /\ Fits(chat[g], draft[g])
  BY <1>23 DEF ForgetChat, histVars
<1>24. CASE UNCHANGED vars
  BY <1>24 DEF vars, histVars
<1> QED
  BY <1>1, <1>2, <1>3, <1>4, <1>5, <1>6, <1>7, <1>8, <1>9, <1>10, <1>11, <1>12, <1>13, <1>14, <1>15, <1>16, <1>17, <1>18, <1>19, <1>20, <1>21, <1>22, <1>23, <1>24 DEF Next, SendStep, HandleStep, Request, Accept, Discard

LEMMA PartnerStep ==
  ASSUME IInv, IInv', [Next]_vars
  PROVE  [ToPartner!Say \/ ToPartner!Hear]_<<said[Origin], IF accepted = None THEN <<>> ELSE heard[accepted]>>
<1> DEFINE H == IF accepted = None THEN <<>> ELSE heard[accepted]
<1>1. Types /\ Types' /\ SideInv /\ CountInv
  BY TypeParts, TypePartsNext DEF IInv
<1>2. said'[Origin] >= said[Origin] /\ said[Origin] \in Nat /\ said'[Origin] \in Nat
  BY <1>1, StepGrows, SideFacts DEF Types, HistType
<1>3. accepted # None => accepted' = accepted
  BY <1>1, StepGrows
<1>4. accepted \in Acceptors \union {None} /\ accepted' \in Acceptors \union {None}
  BY <1>1 DEF Types, CallType
<1>5. CASE UNCHANGED heard
  <2>1. H' = H
    <3>1. CASE accepted # None
      BY <3>1, <1>3, <1>5
    <3>2. CASE accepted = None /\ accepted' = None
      BY <3>2
    <3>3. CASE accepted = None /\ accepted' # None
      <4> PICK a \in Acceptors : a = accepted'
        BY <3>3, <1>4
      <4>1. Len(heard[a]) = 0 /\ heard[a] \in Seq(Nat)
        BY <1>1, <3>3, SideFacts DEF CountInv, Types, HistType
      <4>2. heard[a] = <<>>
        BY <4>1
      <4> QED
        BY <4>2, <3>3, <1>5
    <3> QED
      BY <3>1, <3>2, <3>3
  <2>2. CASE said'[Origin] = said[Origin]
    BY <2>1, <2>2
  <2>3. CASE said'[Origin] # said[Origin]
    BY <2>1, <2>3, <1>2 DEF ToPartner!Say
  <2> QED
    BY <2>2, <2>3
<1>6. ASSUME NEW h \in Handlers, AcceptLayer(h), Fits(chat[h], draft[h])
      PROVE  [ToPartner!Say \/ ToPartner!Hear]_<<said[Origin], H>>
  <2> PICK c \in Chats : c = chat[h]
    BY <1>6, NextHeard
  <2>1. /\ heard' = [heard EXCEPT ![c] = Append(heard[c], Len(heard[c]) + 1)]
        /\ UNCHANGED <<said, accepted>> /\ accepted # None
        /\ (c # Origin => Len(heard[c]) < said[Origin])
    BY <1>6, NextHeard
  <2>2. CASE c = accepted
    <3>1. H = heard[c] /\ H' = heard'[c] /\ heard'[c] = Append(heard[c], Len(heard[c]) + 1)
      BY <2>1, <2>2, <1>1 DEF Types, HistType
    <3>2. c # Origin
      BY <2>1, <2>2, <1>4, SideFacts
    <3> QED
      BY <2>1, <3>1, <3>2 DEF ToPartner!Hear
  <2>3. CASE c # accepted
    <3>1. heard'[accepted] = heard[accepted]
      BY <2>1, <2>3, <1>1, <1>4, SideFacts DEF Types, HistType
    <3> QED
      BY <2>1, <3>1
  <2> QED
    BY <2>2, <2>3
<1> QED
  BY <1>5, <1>6, OtherSteps

LEMMA OriginStep ==
  ASSUME IInv, IInv', [Next]_vars
  PROVE  [ToOrigin!Say \/ ToOrigin!Hear]_<<IF accepted = None THEN 0 ELSE said[accepted], heard[Origin]>>
<1> DEFINE S == IF accepted = None THEN 0 ELSE said[accepted]
<1>1. Types /\ Types'
  BY TypeParts, TypePartsNext DEF IInv
<1>2. \A c \in Chats : said'[c] >= said[c] /\ said[c] \in Nat /\ said'[c] \in Nat
  BY <1>1, StepGrows DEF Types, HistType, IInv
<1>3. accepted # None => accepted' = accepted
  BY <1>1, StepGrows DEF IInv
<1>4. accepted \in Acceptors \union {None} /\ accepted' \in Acceptors \union {None}
  BY <1>1 DEF Types, CallType
<1>5. S \in Nat /\ S' \in Nat /\ S' >= S
  BY <1>2, <1>3, <1>4, SideFacts
<1>6. CASE UNCHANGED heard
  <2>1. S' = S \/ S' > S
    BY <1>5
  <2> QED
    BY <2>1, <1>6 DEF ToOrigin!Say
<1>7. ASSUME NEW h \in Handlers, AcceptLayer(h), Fits(chat[h], draft[h])
      PROVE  [ToOrigin!Say \/ ToOrigin!Hear]_<<S, heard[Origin]>>
  <2> PICK c \in Chats : c = chat[h]
    BY <1>7, NextHeard
  <2>1. /\ heard' = [heard EXCEPT ![c] = Append(heard[c], Len(heard[c]) + 1)]
        /\ UNCHANGED <<said, accepted>> /\ accepted # None
        /\ (c = Origin => Len(heard[c]) < said[accepted])
    BY <1>7, NextHeard
  <2>2. S' = S
    BY <2>1
  <2>3. CASE c = Origin
    <3>1. heard'[Origin] = Append(heard[Origin], Len(heard[Origin]) + 1)
      BY <2>1, <2>3, <1>1 DEF Types, HistType
    <3> QED
      BY <2>1, <2>2, <2>3, <3>1 DEF ToOrigin!Hear
  <2>4. CASE c # Origin
    <3>1. heard'[Origin] = heard[Origin]
      BY <2>1, <2>4, <1>1, SideFacts DEF Types, HistType
    <3> QED
      BY <2>2, <3>1
  <2> QED
    BY <2>3, <2>4
<1> QED
  BY <1>6, <1>7, OtherSteps

(* The chat implements a SecureLine in both directions: each side hears    *)
(* the messages of the other from the first on, in order, each once,       *)
(* whatever is sent, replayed, refused or lost (AcceptIncomingLayer).      *)
THEOREM LineRefinement == Spec => IsLine
<1>1. Init => ToPartner!Init /\ ToOrigin!Init
  BY SideFacts DEF Init, ToPartner!Init, ToOrigin!Init
<1>2. IInv /\ IInv' /\ [Next]_vars =>
        [ToPartner!Say \/ ToPartner!Hear]_<<said[Origin], IF accepted = None THEN <<>> ELSE heard[accepted]>>
  BY PartnerStep
<1>3. IInv /\ IInv' /\ [Next]_vars =>
        [ToOrigin!Say \/ ToOrigin!Hear]_<<IF accepted = None THEN 0 ELSE said[accepted], heard[Origin]>>
  BY OriginStep
<1> QED
  BY <1>1, <1>2, <1>3, ChatInvariant, PTL DEF Spec, IsLine, ToPartner!Spec, ToOrigin!Spec
=============================================================================
