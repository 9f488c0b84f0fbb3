------------------------------- MODULE Inbox -------------------------------
(***************************************************************************)
(* What one session does with the messages the server sends it: readMsg    *)
(* and processResponse on the reader's goroutine, the window of received   *)
(* ids, the acknowledgements that queueAck collects and serviceWriter      *)
(* sends, and the answers to state requests.  The server (external) sends  *)
(* a content-related message again until it has heard that it arrived, in  *)
(* any order and packed with others.  Connections break and are replaced;  *)
(* the session survives that.  SwitchDc, which clears everything here,     *)
(* begins a new session.                                                   *)
(*                                                                         *)
(* An action is what happens between two accesses to state that the reader *)
(* and the writer share.  Handing a message over stands for the update     *)
(* handlers as well as for writeRPCResponse: Connection has the requests.  *)
(* The batches of serviceWriter are one: maxMsgsAckPerBatch (8192) exceeds *)
(* what pendingAcks can hold (4096).                                       *)
(***************************************************************************)
EXTENDS Integers, Sequences, FiniteSets

CONSTANTS
    Ids,        \* the server's message ids, in the order of creation
    Content,    \* the content-related ones, which want an acknowledgement
    Packs,      \* the containers ...
    Items,      \* ... and what is in them, in order
    Requests,   \* msgs_state_req ...
    Asked,      \* ... and the ids it asks about
    Hints,      \* msg_detailed_info ...
    Answer,     \* ... and the message it says the server has ready
    Odd,        \* messages that are refused (undecodable, or out of time)
    Window,     \* how many ids receivedIDs holds
    AckLimit,   \* how many ids pendingAcks holds
    ReportLimit \* how many answers serviceMessages holds

ASSUME InboxAssumption ==
    /\ Ids \subseteq Nat
    /\ Content \subseteq Ids /\ Odd \subseteq Ids
    /\ Packs \subseteq Ids /\ Requests \subseteq Ids /\ Hints \subseteq Ids
    /\ Items \in [Packs -> Seq(Ids)]
    /\ Asked \in [Requests -> SUBSET Ids]
    /\ Answer \in [Hints -> Ids]
    /\ Packs \cap Requests = {} /\ Packs \cap Hints = {}
    /\ Requests \cap Hints = {}
    /\ Window \in Nat \ {0} /\ AckLimit \in Nat \ {0}
    /\ ReportLimit \in Nat \ {0}

\* A conforming server: a container holds older messages and no container,
\* and only the messages of the protocol itself are not content-related.
ASSUME ServerAssumption ==
    /\ \A p \in Packs : \A i \in 1..Len(Items[p]) :
          Items[p][i] < p /\ Items[p][i] \notin Packs
    /\ Content \cap (Packs \cup Requests \cup Hints) = {}

VARIABLES
    \* the client
    receivedIDs,     \* the window
    pendingAcks,     \* to be acknowledged
    serviceMessages, \* answers to state requests: the ids reported received
    \* the reader
    todo,            \* ids of the messages being processed, in order
    acked,           \* the first of todo has passed queueAck
    handled,         \* history: how often a message was handed over
    \* serviceWriter
    writer,          \* where it is
    batch,           \* what it sends and then takes off pendingAcks
    report,          \* the answer it has taken off serviceMessages
    \* the connection and the server
    conn,            \* "broken": the link is dead and nobody has noticed
    wire,            \* ids the server will learn of
    heard            \* ids the server knows to have arrived

readerVars == <<receivedIDs, todo, acked, handled>>
writerVars == <<writer, batch, report>>
serverVars == <<wire, heard>>
vars == <<receivedIDs, pendingAcks, serviceMessages, todo, acked, handled,
          writer, batch, report, conn, wire, heard>>

Init ==
    /\ receivedIDs = {} /\ pendingAcks = {} /\ serviceMessages = <<>>
    /\ todo = <<>> /\ acked = FALSE /\ handled = [m \in Ids |-> 0]
    /\ writer = "wait" /\ batch = {} /\ report = {}
    /\ conn = "up" /\ wire = {} /\ heard = {}

-----------------------------------------------------------------------------
\* The window (receivedMessageWindow).

Full == Cardinality(receivedIDs) = Window

\* "if id < w.heap[0]": the ids the window has forgotten are older than all
\* it holds, so what is older may have been seen.
Outrun(m) == Full /\ \A r \in receivedIDs : m < r

\* Fault: a full window forgets, but does not refuse.
FreshIfUnknown(m) == m \notin receivedIDs

Fresh(m) == m \notin receivedIDs /\ ~Outrun(m)

Oldest(r) == r \in receivedIDs /\ \A s \in receivedIDs : r <= s

Remember(m) ==
    \/ ~Full /\ receivedIDs' = receivedIDs \cup {m}
    \/ /\ Full
       /\ \E r \in receivedIDs :
             Oldest(r) /\ receivedIDs' = (receivedIDs \ {r}) \cup {m}

-----------------------------------------------------------------------------
\* The reader.

\* readMsg takes a message off the transport.  (What a link still delivers
\* when it breaks counts as read before.)
Read(m) ==
    /\ conn = "up" /\ todo = <<>>
    /\ todo' = <<m>>
    /\ UNCHANGED <<receivedIDs, pendingAcks, serviceMessages, acked, handled,
                   writerVars, conn, serverVars>>

\* processResponse returned an error: what is left of a container is dropped,
\* and the reader goes on or asks for a reconnect and ends, by the error.
GiveUp ==
    /\ todo' = <<>> /\ acked' = FALSE
    /\ conn' \in {conn, "down"}

\* Fault: the limit is off by one.
CanQueueOneMore(m) ==
    m \in pendingAcks \/ Cardinality(pendingAcks) <= AckLimit

CanQueue(m) == m \in pendingAcks \/ Cardinality(pendingAcks) < AckLimit

Refuse ==
    /\ todo # <<>> /\ ~acked
    /\ \/ Head(todo) \in Odd
       \/ Head(todo) \in Content /\ ~CanQueue(Head(todo))
    /\ GiveUp
    /\ UNCHANGED <<receivedIDs, pendingAcks, serviceMessages, handled,
                   writerVars, serverVars>>

\* Fault: a message that came before is not acknowledged again.
WantsAckOnce(m) == m \in Content /\ Fresh(m)

\* Every copy of a content-related message is acknowledged, the known too.
WantsAck(m) == m \in Content

QueueAck ==
    /\ todo # <<>> /\ ~acked /\ Head(todo) \notin Odd
    /\ Head(todo) \in Content => CanQueue(Head(todo))
    /\ pendingAcks' = IF WantsAck(Head(todo))
                      THEN pendingAcks \cup {Head(todo)} ELSE pendingAcks
    /\ acked' = TRUE
    /\ UNCHANGED <<receivedIDs, serviceMessages, todo, handled, writerVars,
                   conn, serverVars>>

Skip ==
    /\ todo # <<>> /\ acked /\ ~Fresh(Head(todo))
    /\ todo' = Tail(todo) /\ acked' = FALSE
    /\ UNCHANGED <<receivedIDs, pendingAcks, serviceMessages, handled,
                   writerVars, conn, serverVars>>

\* The first message of todo is new: remembered, and then handed over.
Take(m) ==
    /\ todo # <<>> /\ acked /\ m = Head(todo) /\ Fresh(m)
    /\ Remember(m)
    /\ handled' = [handled EXCEPT ![m] = @ + 1]

Plain(m) == m \notin Packs \cup Requests \cup Hints

\* writeRPCResponse may fail, when the request has just gone: an error too.
HandOver(m) ==
    /\ Plain(m) /\ Take(m)
    /\ \/ todo' = Tail(todo) /\ acked' = FALSE /\ UNCHANGED conn
       \/ GiveUp
    /\ UNCHANGED <<pendingAcks, serviceMessages, writerVars, serverVars>>

\* Fault: the items of a container are acknowledged when it is opened.
OpenAndAck(m) ==
    /\ Take(m)
    /\ todo' = Items[m] \o Tail(todo) /\ acked' = FALSE
    /\ pendingAcks' = pendingAcks \cup
          {Items[m][i] : i \in {j \in 1..Len(Items[m]) :
                                   Items[m][j] \in Content}}
    /\ UNCHANGED <<serviceMessages, writerVars, conn, serverVars>>

Open(m) ==
    /\ Take(m)
    /\ todo' = Items[m] \o Tail(todo) /\ acked' = FALSE
    /\ UNCHANGED <<pendingAcks, serviceMessages, writerVars, conn, serverVars>>

\* Remembered only by now, the request itself counts as received.
Reported(m) == {r \in Asked[m] : r \in receivedIDs'}

Answers(m) ==
    /\ Take(m)
    /\ \/ /\ Len(serviceMessages) < ReportLimit
          /\ serviceMessages' = Append(serviceMessages, Reported(m))
          /\ todo' = Tail(todo) /\ acked' = FALSE
          /\ UNCHANGED conn
       \/ /\ Len(serviceMessages) >= ReportLimit
          /\ GiveUp
          /\ UNCHANGED serviceMessages
    /\ UNCHANGED <<pendingAcks, writerVars, serverVars>>

\* The answer is acknowledged whether or not it came.
Hinted(m) ==
    /\ Take(m)
    /\ \/ /\ CanQueue(Answer[m])
          /\ pendingAcks' = pendingAcks \cup {Answer[m]}
          /\ todo' = Tail(todo) /\ acked' = FALSE
          /\ UNCHANGED conn
       \/ /\ ~CanQueue(Answer[m])
          /\ GiveUp
          /\ UNCHANGED pendingAcks
    /\ UNCHANGED <<serviceMessages, writerVars, serverVars>>

-----------------------------------------------------------------------------
\* serviceWriter.

\* Its select finds an answer to send ...
TakeReport ==
    /\ writer = "wait" /\ serviceMessages # <<>>
    /\ report' = Head(serviceMessages)
    /\ serviceMessages' = Tail(serviceMessages)
    /\ writer' = "report"
    /\ UNCHANGED <<readerVars, pendingAcks, batch, conn, serverVars>>

\* ... or the ticker or acksReady, and it takes a copy of pendingAcks.
Tick ==
    /\ writer = "wait" /\ pendingAcks # {}
    /\ batch' = pendingAcks
    /\ writer' = "acks"
    /\ UNCHANGED <<readerVars, pendingAcks, serviceMessages, report, conn,
                   serverVars>>

\* A write ends well as long as nobody has noticed that the link is dead.
Send(sent) ==
    /\ conn # "down"
    /\ wire' = IF conn = "up" THEN wire \cup sent ELSE wire
    /\ UNCHANGED <<readerVars, serviceMessages, conn, heard>>

SendReport ==
    /\ writer = "report"
    /\ Send(report)
    /\ report' = {}
    /\ batch' = pendingAcks
    /\ writer' = IF pendingAcks = {} THEN "wait" ELSE "acks"
    /\ UNCHANGED pendingAcks

SendAcks ==
    /\ writer = "acks"
    /\ Send(batch)
    /\ writer' = "sent"
    /\ UNCHANGED <<pendingAcks, batch, report>>

DropAcks ==
    /\ writer = "sent"
    /\ pendingAcks' = pendingAcks \ batch
    /\ batch' = {}
    /\ writer' = "wait"
    /\ UNCHANGED <<readerVars, serviceMessages, report, conn, serverVars>>

\* A write fails: the connection is given up, the writer ends, and the answer
\* it holds is lost.
SendFails ==
    /\ writer \in {"report", "acks"} /\ conn # "up"
    /\ conn' = "down"
    /\ writer' = "ended" /\ batch' = {} /\ report' = {}
    /\ UNCHANGED <<readerVars, pendingAcks, serviceMessages, serverVars>>

WriterStops ==
    /\ writer = "wait" /\ conn = "down"
    /\ writer' = "ended"
    /\ UNCHANGED <<readerVars, pendingAcks, serviceMessages, batch, report,
                   conn, serverVars>>

-----------------------------------------------------------------------------
\* The connection and the server.

LinkBreaks ==
    /\ conn = "up"
    /\ conn' = "broken" /\ wire' = {}
    /\ UNCHANGED <<readerVars, pendingAcks, serviceMessages, writerVars, heard>>

ReadFails ==
    /\ conn = "broken" /\ todo = <<>>
    /\ conn' = "down"
    /\ UNCHANGED <<readerVars, pendingAcks, serviceMessages, writerVars,
                   serverVars>>

\* CreateConnection waits for both goroutines (routineswg) before it starts
\* new ones.  What the old connection still carried is lost.
Reconnect ==
    /\ conn = "down" /\ todo = <<>> /\ writer = "ended"
    /\ conn' = "up" /\ writer' = "wait" /\ wire' = {}
    /\ UNCHANGED <<readerVars, pendingAcks, serviceMessages, batch, report,
                   heard>>

ServerHears(m) ==
    /\ m \in wire /\ conn = "up"
    /\ wire' = wire \ {m} /\ heard' = heard \cup {m}
    /\ UNCHANGED <<readerVars, pendingAcks, serviceMessages, writerVars, conn>>

-----------------------------------------------------------------------------
Process ==
    \/ Refuse \/ QueueAck \/ Skip
    \/ \E m \in Ids : HandOver(m)
    \/ \E m \in Packs : Open(m)
    \/ \E m \in Requests : Answers(m)
    \/ \E m \in Hints : Hinted(m)

Write ==
    \/ TakeReport \/ Tick \/ SendReport \/ SendAcks \/ DropAcks
    \/ SendFails \/ WriterStops

Next ==
    \/ \E m \in Ids : Read(m) \/ ServerHears(m)
    \/ Process \/ Write
    \/ LinkBreaks \/ ReadFails \/ Reconnect

Spec == Init /\ [][Next]_vars

\* Both goroutines run, and a lost connection is noticed and replaced (which
\* is what Connection shows).  From some time on a connection holds, neither
\* broken by the network nor given up for a refused message.  The server sends
\* what it has heard nothing of again and again, and all else only finitely
\* often.
Fairness ==
    /\ WF_vars(Process) /\ WF_vars(Write)
    /\ WF_vars(ReadFails) /\ WF_vars(Reconnect)
    /\ WF_vars(\E m \in Ids : ServerHears(m))
    /\ \A m \in Content \ Odd : SF_vars(m \notin heard /\ Read(m))
    /\ <>[][ /\ conn' = conn
           /\ \A m \in Ids : Read(m) => m \in Content \ heard]_vars

FairSpec == Spec /\ Fairness

-----------------------------------------------------------------------------
\* Properties.

\* The window and the queues keep their limits.
TypeOK ==
    /\ receivedIDs \subseteq Ids /\ Cardinality(receivedIDs) <= Window
    /\ pendingAcks \subseteq Ids /\ Cardinality(pendingAcks) <= AckLimit
    /\ serviceMessages \in Seq(SUBSET Ids)
    /\ Len(serviceMessages) <= ReportLimit
    /\ todo \in Seq(Ids) /\ acked \in BOOLEAN
    /\ handled \in [Ids -> Nat]
    /\ writer \in {"wait", "report", "acks", "sent", "ended"}
    /\ batch \subseteq Ids /\ report \subseteq Ids
    /\ conn \in {"up", "broken", "down"}
    /\ wire \subseteq Ids /\ heard \subseteq Ids

\* No message is handed over twice, however often and in whatever order the
\* server sends it, alone or in a container, on this connection or the next,
\* and whatever the window has forgotten (receivedMessageWindow).
HandledOnce == \A m \in Ids : handled[m] <= 1

\* What the server has been told, or will be: it will not send these again.
Told == pendingAcks \cup batch \cup report \cup wire \cup heard
           \cup UNION {serviceMessages[i] : i \in 1..Len(serviceMessages)}

\* Window newer messages have come in before this one.
Behind(m) ==
    /\ Cardinality(receivedIDs) = Window
    /\ \A r \in receivedIDs : m < r

\* The server said that it has this message ready for the client.
Announced(m) == \E h \in Hints : handled[h] > 0 /\ Answer[h] = m

\* A message the server has been told of is not lost: it was handed over or is
\* being handed over.  Exceptions are a message that Window newer ones have
\* outrun, which is acknowledged and thrown away, and one that a
\* msg_detailed_info has named, which is acknowledged unseen.
ToldIsHandled ==
    \A m \in Told :
        \/ handled[m] > 0
        \/ acked /\ todo # <<>> /\ m = Head(todo)
        \/ Behind(m) \/ Announced(m)

\* The server hears of every message that was handed over, so that it stops
\* sending it: an acknowledgement may be lost, or taken off pendingAcks while
\* its message comes once more, but not for good.
ServerIsTold == \A m \in Content : handled[m] > 0 ~> m \in heard

\* What the server keeps sending gets through to the handlers, unless it is
\* refused each time, outrun or acknowledged on the server's hint.
MessageArrives ==
    \A m \in Content \ Odd : <>(handled[m] > 0 \/ Behind(m) \/ Announced(m))

\* Both sides get there: every message to the handlers, every ack to the server.
BothAreServed == ServerIsTold /\ MessageArrives

=============================================================================
