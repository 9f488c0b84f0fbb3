------------------------------- MODULE Upload -------------------------------
(***************************************************************************)
(* One call of UploadFile on a source that can seek (telegram/media.go):   *)
(* the dispatcher reads the parts in order and puts them on partCh, the    *)
(* workers send them, a first fatal error cancels all.                     *)
(***************************************************************************)
EXTENDS Naturals, Sequences, FiniteSets

CONSTANTS
  UploadCount,  \* parts of the file
  Uploaders,    \* its workers
  UploadRoom,   \* capacity of partCh (twice the workers)
  UploadTries   \* maxAttempts of a part (20)

Chunks == 1..UploadCount

ASSUME UploadAssumption ==
  /\ UploadCount \in Nat \ {0} /\ UploadRoom \in Nat \ {0} /\ UploadTries \in Nat \ {0}
  /\ IsFiniteSet(Uploaders) /\ Uploaders # {}

VARIABLES
  reading,   \* where UploadFile is: the loop, ReadAt, the select, wg.Wait
  nextChunk, \* the next part to read
  digest,    \* the parts that md5sum has seen, in order
  partCh,    \* the channel
  uploader,  \* [Uploaders -> where the worker is]
  chunk,     \* [Uploaders -> its part]
  tries,     \* [Uploaders -> failed attempts of the part]
  stored,    \* the parts the server has
  fatal,     \* fatalErr is set
  unread,    \* dispatchErr is set
  called,    \* the caller's context has ended
  uploaded   \* what UploadFile has returned

sendVars == <<uploader, chunk, tries, stored>>
readVars == <<reading, nextChunk, digest, unread, uploaded>>
uploadVars == <<sendVars, readVars, partCh, fatal, called>>

(* Not every file is uploaded. *)
UploadInit ==
  /\ reading \in {"dispatch", "returned"} /\ nextChunk = 1 /\ digest = <<>> /\ partCh = <<>>
  /\ uploader = [w \in Uploaders |-> IF reading = "dispatch" THEN "recv" ELSE "gone"]
  /\ chunk = [w \in Uploaders |-> 1] /\ tries = [w \in Uploaders |-> 0]
  /\ stored = {} /\ fatal = FALSE /\ unread = FALSE /\ called = FALSE
  /\ uploaded = "none"

-----------------------------------------------------------------------------

(* uploadCtx is done. *)
UploadOff == fatal \/ called

(* The head of the loop.  When it ends the channel is closed. *)
NextChunk ==
  /\ reading = "dispatch"
  /\ reading' = IF nextChunk \in Chunks /\ ~ UploadOff THEN "read" ELSE "drain"
  /\ UNCHANGED <<sendVars, nextChunk, digest, partCh, fatal, unread, called, uploaded>>

(* ReadAt and md5sum.Write *)
ReadChunk ==
  /\ reading = "read"
  /\ digest' = Append(digest, nextChunk)
  /\ reading' = "offer"
  /\ UNCHANGED <<sendVars, nextChunk, partCh, fatal, unread, called, uploaded>>

ReadFails ==
  /\ reading = "read"
  /\ unread' = TRUE /\ fatal' = TRUE
  /\ reading' = "drain"
  /\ UNCHANGED <<sendVars, nextChunk, digest, partCh, called, uploaded>>

(* The select: the part goes on the channel, or nowhere if the context is  *)
(* done.  Until one of the two is possible the dispatcher waits.           *)
OfferChunk ==
  /\ reading = "offer"
  /\ \/ Len(partCh) < UploadRoom /\ partCh' = Append(partCh, nextChunk)
     \/ UploadOff /\ UNCHANGED partCh
  /\ nextChunk' = nextChunk + 1
  /\ reading' = "dispatch"
  /\ UNCHANGED <<sendVars, digest, unread, uploaded, fatal, called>>

(* Seeded fault: the caller's context is not looked at. *)
UploadReturnsUnasked ==
  /\ reading = "drain"
  /\ \A w \in Uploaders : uploader[w] = "gone"
  /\ uploaded' = IF fatal \/ unread THEN "error" ELSE "ok"
  /\ reading' = "returned"
  /\ UNCHANGED <<sendVars, nextChunk, digest, partCh, fatal, unread, called>>

(* wg.Wait has returned. *)
UploadReturns ==
  /\ reading = "drain"
  /\ \A w \in Uploaders : uploader[w] = "gone"
  /\ uploaded' = IF fatal \/ unread \/ called THEN "error" ELSE "ok"
  /\ reading' = "returned"
  /\ UNCHANGED <<sendVars, nextChunk, digest, partCh, fatal, unread, called>>

-----------------------------------------------------------------------------

UploaderGoes(w, from, to) == uploader[w] = from /\ uploader' = [uploader EXCEPT ![w] = to]

(* range partCh, in a worker or in drainParts. *)
TakeChunk(w) ==
  /\ partCh # <<>> /\ uploader[w] \in {"recv", "drain"}
  /\ partCh' = Tail(partCh)
  /\ IF uploader[w] = "recv"
     THEN /\ UploaderGoes(w, "recv", "send")
          /\ chunk' = [chunk EXCEPT ![w] = Head(partCh)] /\ tries' = [tries EXCEPT ![w] = 0]
     ELSE UNCHANGED <<uploader, chunk, tries>>
  /\ UNCHANGED <<stored, readVars, fatal, called>>

UploaderLeaves(w) ==
  /\ partCh = <<>> /\ reading = "drain" /\ uploader[w] \in {"recv", "drain"}
  /\ uploader' = [uploader EXCEPT ![w] = "gone"]
  /\ UNCHANGED <<chunk, tries, stored, readVars, partCh, fatal, called>>

(* Seeded fault: the worker leaves and empties the channel no more, and    *)
(* the context is not cancelled.                                           *)
GiveUpAlone(w) == UploaderGoes(w, "send", "gone") /\ UNCHANGED <<chunk, tries, fatal>>

(* setFatal, then drainParts *)
GiveUp(w) == UploaderGoes(w, "send", "drain") /\ fatal' = TRUE /\ UNCHANGED <<chunk, tries>>

(* One attempt of uploadOnePart.  The server may have the part although    *)
(* the attempt failed, or the context ended in the pause after it.         *)
SendChunk(w) ==
  /\ uploader[w] = "send"
  /\ \/ /\ UploaderGoes(w, "send", "recv")
        /\ stored' = stored \union {chunk[w]}
        /\ UNCHANGED <<chunk, tries, fatal>>
     \/ /\ stored' \in {stored, stored \union {chunk[w]}}
        /\ \/ GiveUp(w)
           \/ /\ ~UploadOff /\ tries[w] + 1 < UploadTries
              /\ tries' = [tries EXCEPT ![w] = @ + 1]
              /\ UNCHANGED <<uploader, chunk, fatal>>
  /\ UNCHANGED <<readVars, partCh, called>>

CancelUpload ==
  /\ reading # "returned" /\ ~called
  /\ called' = TRUE
  /\ UNCHANGED <<sendVars, readVars, partCh, fatal>>

UploadWork(w) == TakeChunk(w) \/ UploaderLeaves(w) \/ SendChunk(w)

UploadRead == NextChunk \/ ReadChunk \/ ReadFails \/ OfferChunk \/ UploadReturns

UploadNext ==
  \/ UploadRead
  \/ \E w \in Uploaders : UploadWork(w)
  \/ CancelUpload

(* An attempt has its deadline, so it ends, and ReadAt returns.  Nothing   *)
(* obliges it to fail, nor the caller to cancel.                           *)
UploadFairness ==
  WF_uploadVars(UploadRead) /\ \A w \in Uploaders : WF_uploadVars(UploadWork(w))

-----------------------------------------------------------------------------

UploadTypeOK ==
  /\ reading \in {"dispatch", "read", "offer", "drain", "returned"} /\ nextChunk \in 1..UploadCount + 1
  /\ digest \in Seq(Chunks) /\ partCh \in Seq(Chunks) /\ Len(partCh) <= UploadRoom
  /\ uploader \in [Uploaders -> {"recv", "send", "drain", "gone"}]
  /\ chunk \in [Uploaders -> Chunks] /\ tries \in [Uploaders -> 0..UploadTries - 1]
  /\ stored \subseteq Chunks
  /\ fatal \in BOOLEAN /\ unread \in BOOLEAN /\ called \in BOOLEAN
  /\ uploaded \in {"none", "ok", "error"}

(* A file that UploadFile returns is on the server whole, and its checksum *)
(* is that of the parts in order.                                          *)
UploadWhole ==
  uploaded = "ok" => stored = Chunks /\ digest = [i \in Chunks |-> i]
=============================================================================
