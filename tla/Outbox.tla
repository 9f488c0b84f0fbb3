------------------------------- MODULE Outbox -------------------------------
(***************************************************************************)
(* Outgoing requests: sendPacket (network.go), the generator of message    *)
(* ids (internal/utils/utils.go) and what processResponse and makeRequest  *)
(* (mtproto.go) do when the server refuses a message because of its id,    *)
(* its sequence number or its salt.                                        *)
(*                                                                         *)
(* A message id is the second it names and the order in which it was       *)
(* generated; the second is counted from the server's clock, which stands  *)
(* still.  The server refuses a second that is Window away, a salt that is *)
(* not the current one, and a message whose sequence number contradicts    *)
(* the order of the ids it has accepted; only the third refusal is final.  *)
(* Messages travel in order on a connection and are lost with it.          *)
(***************************************************************************)
EXTENDS Integers, Sequences, FiniteSets

CONSTANTS
  Requests,     \* calls of makeRequest
  Nobody,       \* writeMu is free
  Attempts,     \* maxRequestAttempts
  Skews,        \* how far the local clock can be from the server's, in seconds
  Window,       \* seconds both sides tolerate; 30 and 300 in the code
  MaxEvents     \* bound: clock steps, new salts, new sessions and losses together

ASSUME OutboxAssumption ==
  /\ Nobody \notin Requests
  /\ Attempts \in Nat \ {0} /\ Window \in Nat \ {0}
  /\ 0 \in Skews /\ Skews \subseteq Int
  /\ MaxEvents \in Nat

VARIABLES
  skew,          \* the local clock minus the server's
  timeOffset,    \* MTProto.timeOffset
  lastSecond,    \* lastMsgID of the generator, its second
  lastOffset,    \* lastTimeOffset
  issued,        \* ids generated
  currentSeqNo,
  serverSalt,
  writeMu,
  phase,         \* [Requests -> where makeRequest is]
  tries,       \* [Requests -> attempts made]
  message,       \* [Requests -> the message of the current attempt]
  channel,       \* [Requests -> its response channel: none, open, or what came]
  via,           \* [Requests -> the connection sendPacket has captured]
  line,          \* the current connection
  outgoing, incoming,      \* messages on their way
  newestSalt,    \* the server's salt
  seen,          \* messages the server has accepted in this session
  executed,      \* history: [Requests -> how often the server executed it]
  refusals,      \* history: [Requests -> refusals of its messages that came in]
  steps,         \* steps of the local clock, a wrong clock at first among them
  notices,
  corrected,     \* history: timeOffset was changed
  beyond         \* history: the clock was put back behind an id that is too high

clock == <<skew, steps, beyond>>
generator == <<lastSecond, lastOffset, issued, currentSeqNo>>
callers == <<phase, tries, message, via, writeMu>>
network == <<line, outgoing, incoming>>
server == <<newestSalt, seen, executed, notices>>
learned == <<timeOffset, serverSalt, refusals, corrected>>
outboxVars == <<clock, generator, callers, channel, network, server, learned>>

Blank(r) == [from |-> r, second |-> 0, order |-> 0, seq |-> 0, salt |-> 0]

OutboxInit ==
  /\ skew \in Skews /\ steps = IF skew = 0 THEN 0 ELSE 1
  /\ timeOffset = 0 /\ lastSecond = -1 /\ lastOffset = 0 /\ issued = 0 /\ currentSeqNo = 0
  /\ serverSalt = 0 /\ newestSalt = 0
  /\ writeMu = Nobody
  /\ phase = [r \in Requests |-> "idle"] /\ tries = [r \in Requests |-> 0]
  /\ message = [r \in Requests |-> Blank(r)] /\ via = [r \in Requests |-> 0]
  /\ channel = [r \in Requests |-> "none"]
  /\ line = 0 /\ outgoing = <<>> /\ incoming = <<>>
  /\ seen = {} /\ executed = [r \in Requests |-> 0]
  /\ refusals = [r \in Requests |-> 0]
  /\ notices = 0 /\ corrected = FALSE /\ beyond = FALSE

Enter(r, p) == phase' = [phase EXCEPT ![r] = p]
NextTry(r) == Enter(r, IF tries[r] < Attempts THEN "idle" ELSE "exhausted")

-----------------------------------------------------------------------------
(* NewMsgIDGenerator: an id is greater than the last one, which is         *)
(* forgotten when the offset has changed.                                  *)

\* Seeded fault: the last id is kept when the offset has changed.
NewSecondKept ==
  LET now == skew + timeOffset
  IN IF now < lastSecond THEN lastSecond ELSE now

NewSecond ==
  LET now == skew + timeOffset
  IN IF timeOffset = lastOffset /\ now < lastSecond THEN lastSecond ELSE now

(* sendPacket, under writeMu from the id to the write. *)

GiveId(r) ==
  /\ phase[r] = "idle" /\ tries[r] < Attempts
  /\ writeMu' = r
  /\ Enter(r, "salt")
  /\ tries' = [tries EXCEPT ![r] = @ + 1]
  /\ via' = [via EXCEPT ![r] = line]
  /\ message' = [message EXCEPT ![r] = [Blank(r) EXCEPT !.second = NewSecond, !.order = issued + 1]]
  /\ lastSecond' = NewSecond /\ lastOffset' = timeOffset /\ issued' = issued + 1
  /\ channel' = [channel EXCEPT ![r] = "open"]
  /\ UNCHANGED <<currentSeqNo, clock, network, server, learned>>

\* Seeded fault: the id is given without the lock.
NewIdUnlocked(r) == GiveId(r)

\* the transport is captured, the id is generated and the channel registered
NewId(r) == writeMu = Nobody /\ GiveId(r)

\* keyForRequest and UpdateSeqNo
SaltAndSeq(r) ==
  /\ phase[r] = "salt"
  /\ Enter(r, "write")
  /\ message' = [message EXCEPT ![r].salt = serverSalt, ![r].seq = 2 * currentSeqNo + 1]
  /\ currentSeqNo' = currentSeqNo + 1
  /\ UNCHANGED <<tries, via, writeMu, lastSecond, lastOffset, issued, channel, clock,
                 network, server, learned>>

\* WriteMsg; on a connection that is gone it fails and the channel is deleted
Put(r) ==
  /\ phase[r] = "write"
  /\ writeMu' = Nobody
  /\ IF via[r] = line
     THEN /\ Enter(r, "wait")
          /\ outgoing' = Append(outgoing, message[r])
          /\ UNCHANGED channel
     ELSE NextTry(r) /\ channel' = [channel EXCEPT ![r] = "none"] /\ UNCHANGED outgoing
  /\ UNCHANGED <<tries, message, via, line, incoming, clock, generator, server, learned>>

(* makeRequest takes what came on the channel. *)
TakeAnswer(r) ==
  /\ phase[r] = "wait" /\ channel[r] \in {"answer", "refused", "again"}
  /\ channel' = [channel EXCEPT ![r] = "none"]
  /\ CASE channel[r] = "answer" -> Enter(r, "done")
       [] channel[r] = "refused" -> Enter(r, "failed")
       [] channel[r] = "again" -> NextTry(r)
  /\ UNCHANGED <<tries, message, via, writeMu, clock, generator, network, server, learned>>

-----------------------------------------------------------------------------
(* The server. *)

More == steps + newestSalt + notices + line < MaxEvents

Before(a, b) == a.second < b.second \/ (a.second = b.second /\ a.order < b.order)
Contradicts(m) ==
  \E s \in seen : (Before(s, m) /\ s.seq >= m.seq) \/ (Before(m, s) /\ s.seq <= m.seq)

Judge(m) ==
  IF m.second > Window \/ m.second < -Window THEN "time"
  ELSE IF m.salt # newestSalt THEN "salt"
  ELSE IF Contradicts(m) THEN "seq" ELSE "result"

ServerReads ==
  /\ outgoing # <<>>
  /\ LET m == Head(outgoing)
     IN /\ incoming' = Append(incoming, [kind |-> Judge(m), order |-> m.order, salt |-> newestSalt])
        /\ IF Judge(m) = "result"
           THEN /\ seen' = seen \union {m}
                /\ executed' = [executed EXCEPT ![m.from] = @ + 1]
           ELSE UNCHANGED <<seen, executed>>
  /\ outgoing' = Tail(outgoing)
  /\ UNCHANGED <<newestSalt, notices, line, callers, channel, clock, generator, learned>>

ServerChangesSalt ==
  /\ More
  /\ newestSalt' = newestSalt + 1
  /\ UNCHANGED <<seen, executed, notices, network, callers, channel, clock, generator, learned>>

\* new_session_created
ServerForgets ==
  /\ More
  /\ notices' = notices + 1
  /\ seen' = {}
  /\ incoming' = Append(incoming, [kind |-> "session", order |-> 0, salt |-> newestSalt])
  /\ UNCHANGED <<newestSalt, executed, line, outgoing, callers, channel, clock, generator, learned>>

-----------------------------------------------------------------------------
(* processResponse. *)

\* notifyPendingRequestsOfConfigChange, and what was on the way is gone
NewLine ==
  /\ line' = line + 1
  /\ outgoing' = <<>> /\ incoming' = <<>>
  /\ channel' = [r \in Requests |-> IF channel[r] = "open" THEN "again" ELSE channel[r]]

\* responseChannels.Has
Waiting(m) == {r \in Requests : channel[r] = "open" /\ message[r].order = m.order}

\* writeRPCResponse wakes the one that sent the message
WakeWith(m, what) ==
  channel' = [r \in Requests |-> IF r \in Waiting(m) THEN what ELSE channel[r]]

CountRefusal(m) ==
  refusals' = [r \in Requests |-> IF r \in Waiting(m) THEN refusals[r] + 1 ELSE refusals[r]]

InTime == skew + timeOffset \in -Window..Window

\* a message of another time that answers no request is an error of the reader
ReaderRefuses ==
  /\ incoming # <<>> /\ Waiting(Head(incoming)) = {} /\ ~ InTime
  /\ NewLine
  /\ UNCHANGED <<callers, clock, generator, server, learned>>

\* codes 16 and 17: the offset is taken from the second of the notification
LearnTime(m) ==
  /\ m.kind = "time"
  /\ \E delay \in {0, 1} : timeOffset' = -skew - delay
  /\ corrected' = (corrected \/ timeOffset' # timeOffset)
  /\ WakeWith(m, "again") /\ CountRefusal(m)
  /\ UNCHANGED serverSalt

LearnSalt(m) ==
  /\ m.kind = "salt"
  /\ serverSalt' = m.salt
  /\ WakeWith(m, "again") /\ CountRefusal(m)
  /\ UNCHANGED <<timeOffset, corrected>>

Deliver(m) ==
  /\ m.kind \in {"seq", "result"}
  /\ WakeWith(m, IF m.kind = "seq" THEN "refused" ELSE "answer")
  /\ UNCHANGED learned

\* new_session_created, or an answer nobody waits for
Notice(m) ==
  /\ serverSalt' = IF m.kind = "session" THEN m.salt ELSE serverSalt
  /\ UNCHANGED <<timeOffset, refusals, corrected, channel>>

ReaderReads ==
  /\ incoming # <<>>
  /\ LET m == Head(incoming)
     IN \/ Waiting(m) # {} /\ (LearnTime(m) \/ LearnSalt(m) \/ Deliver(m))
        \/ Waiting(m) = {} /\ InTime /\ Notice(m)
  /\ incoming' = Tail(incoming)
  /\ UNCHANGED <<line, outgoing, callers, clock, generator, server>>

-----------------------------------------------------------------------------
LineBreaks ==
  /\ More
  /\ NewLine
  /\ UNCHANGED <<callers, clock, generator, server, learned>>

ClockSteps ==
  /\ More
  /\ steps' = steps + 1
  /\ skew' \in Skews \ {skew}
  /\ beyond' = (beyond \/ (lastSecond > Window /\ skew' + timeOffset < lastSecond))
  /\ UNCHANGED <<callers, channel, network, generator, server, learned>>

Send(r) == NewId(r) \/ SaltAndSeq(r) \/ Put(r) \/ TakeAnswer(r)

OutboxNext ==
  \/ \E r \in Requests : Send(r)
  \/ ServerReads \/ ServerChangesSalt \/ ServerForgets
  \/ ReaderReads \/ ReaderRefuses
  \/ LineBreaks \/ ClockSteps

OutboxSpec == OutboxInit /\ [][OutboxNext]_outboxVars

-----------------------------------------------------------------------------
Messages ==
  [from : Requests, second : Int, order : Nat, seq : Nat, salt : Nat]

OutboxTypeOK ==
  /\ skew \in Skews /\ timeOffset \in Int /\ lastSecond \in Int /\ lastOffset \in Int
  /\ issued \in Nat /\ currentSeqNo \in 0..issued
  /\ serverSalt \in 0..newestSalt /\ newestSalt \in 0..MaxEvents
  /\ writeMu \in Requests \union {Nobody}
  /\ phase \in [Requests -> {"idle", "salt", "write", "wait", "done", "failed", "exhausted"}]
  /\ tries \in [Requests -> 0..Attempts] /\ message \in [Requests -> Messages]
  /\ channel \in [Requests -> {"none", "open", "again", "answer", "refused"}]
  /\ via \in [Requests -> 0..line] /\ line \in Nat
  /\ outgoing \in Seq(Messages) /\ seen \subseteq Messages
  /\ incoming \in Seq([kind : {"time", "salt", "seq", "result", "session"}, order : Nat, salt : Nat])
  /\ executed \in [Requests -> Nat] /\ refusals \in [Requests -> Nat]
  /\ steps \in Nat /\ notices \in 0..MaxEvents /\ corrected \in BOOLEAN /\ beyond \in BOOLEAN

(* "The client time has to be synchronized, and the message re-sent with   *)
(* the correct msg_id" (errors.go:756): a request is refused at most once  *)
(* for every step of the clock and every new salt, however the refusals of *)
(* other requests come in between.                                         *)
RefusedForCause == \A r \in Requests : refusals[r] <= steps + newestSalt

(* It is so while the clock is not put back behind an id that is too high  *)
(* for the server: without a change of the offset the generator would go   *)
(* on from that id (utils.go: NewMsgIDGenerator).                          *)
RefusedForCauseOrStuck == beyond \/ RefusedForCause

(* A refusal wakes the request it is about and no other (mtproto.go:1807), *)
(* and a request is sent again only when the server has not executed it or *)
(* the connection was lost: without a loss it is never executed twice.     *)
ExecutedOnce == \A r \in Requests : executed[r] <= 1 + line

(* The one refusal that a request does not survive, that of its sequence   *)
(* number, comes only after the offset was changed, which lets the ids go  *)
(* back (utils.go: NewMsgIDGenerator).  Steps of the clock alone, losses,  *)
(* new salts and concurrent requests do not lead to it.                    *)
OutOfStepByCorrection == (\E r \in Requests : phase[r] = "failed") => corrected

(* Both: a request is sent again for a cause, and with an id and a         *)
(* sequence number that fit those before it.                               *)
SentForCause == ExecutedOnce /\ OutOfStepByCorrection
=============================================================================
