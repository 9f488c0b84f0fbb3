------------------------------ MODULE Download ------------------------------
(***************************************************************************)
(* Downloads of known size to a file (telegram/media.go): DownloadMedia    *)
(* with its dispatcher, its workers and the flusher of the resume state,   *)
(* call after call on one destination.  A call may resume an interrupted   *)
(* one from the sidecar <dest>.partstate; the process or the machine may   *)
(* crash between any two steps.                                            *)
(*                                                                         *)
(* Contents are names: part p of the destination holds a part of a file,   *)
(* or NoFile: zeros, or what a failed write left.  Fetching a part         *)
(* is module PartFetch; here it succeeds or fails.  All files have the     *)
(* same size and number of parts.                                          *)
(***************************************************************************)
EXTENDS Naturals, FiniteSets, Sequences

CONSTANTS
  Files,         \* what is downloaded to the destination
  PartCount,     \* parts of a file
  Fetchers,      \* the workers of a call
  WorkRoom,      \* capacity of the channel work (twice the workers)
  MaxDownloads,  \* bound: calls of DownloadMedia in a behaviour
  NoFile

Parts == 1..PartCount

ASSUME DownloadAssumption ==
  /\ NoFile \notin Files
  /\ PartCount \in Nat \ {0} /\ WorkRoom \in Nat \ {0} /\ MaxDownloads \in Nat
  /\ IsFiniteSet(Fetchers) /\ Fetchers # {}

VARIABLES
  content,    \* [Parts -> what the destination holds there]
  durable,    \* [Parts -> what it would hold after a crash]
  sized,      \* the destination exists and has the size of a file
  sidecar,    \* the resume state on disk; old: see CallDownload
  main,       \* where DownloadMedia is
  wanted,     \* the file of the call
  resume,     \* opts.Resume of the call
  inherited,  \* history: the call took over an old sidecar
  bitmap,     \* resumeState.bitmap
  dirty,      \* resumeState.dirty
  counted,    \* doneBytes, in parts
  next,       \* the next part of the dispatcher
  workCh,     \* the channel of parts
  fetcher,    \* [Fetchers -> where the worker is]
  holds,      \* [Fetchers -> its part]
  failed,     \* firstErr is set, the context of the workers cancelled
  cancelled,  \* the caller's context is done
  flusher,    \* where the flusher is
  last,       \* its flush is the final one
  outcome,    \* what the last call has returned
  downloads   \* calls so far

diskVars == <<content, durable, sized, sidecar>>
callVars == <<wanted, resume, inherited>>
bitVars  == <<bitmap, dirty>>
workVars == <<counted, next, workCh, fetcher, holds>>
ctxVars  == <<failed, cancelled>>
flushVars == <<flusher, last>>
downloadVars == <<diskVars, main, callVars, bitVars, workVars, ctxVars, flushVars, outcome, downloads>>

NoSidecar == [file |-> NoFile, bits |-> {}, old |-> FALSE]
Blank == [p \in Parts |-> NoFile]

DownloadInit ==
  /\ content = Blank /\ durable = Blank /\ sized = FALSE /\ sidecar = NoSidecar
  /\ main = "idle" /\ wanted \in Files /\ resume = FALSE /\ inherited = FALSE
  /\ bitmap = {} /\ dirty = FALSE
  /\ counted = 0 /\ next = 1 /\ workCh = <<>>
  /\ fetcher = [w \in Fetchers |-> "off"] /\ holds = [w \in Fetchers |-> 1]
  /\ failed = FALSE /\ cancelled = FALSE
  /\ flusher = "off" /\ last = FALSE
  /\ outcome = "none" /\ downloads = 0

-----------------------------------------------------------------------------

(* resumeState.mu is held during a flush, by nobody else for long. *)
Flushing == flusher \in {"syncing", "writing"}

CtxDone == failed \/ cancelled

(* DownloadMedia returns. *)
ReturnFromDownload(r) == main' = "idle" /\ outcome' = r

(* newDownloadJob: the sidecar counts if it is of this file and the        *)
(* destination has its size.  Opening without Resume truncates.  A sidecar *)
(* that is on disk and does not count is left there: from now on it is old *)
(* (a history flag), for nothing keeps it in step with the destination.    *)
CallDownload(f, r) ==
  LET counts == r /\ sized /\ sidecar.file = f IN
  /\ main = "idle" /\ downloads < MaxDownloads
  /\ downloads' = downloads + 1
  /\ main' = "start" /\ outcome' = "none"
  /\ wanted' = f /\ resume' = r /\ inherited' = (counts /\ sidecar.old)
  /\ bitmap' = IF counts THEN sidecar.bits ELSE {}
  /\ dirty' = FALSE
  /\ sidecar' = [sidecar EXCEPT !.old = IF counts THEN @ ELSE sidecar.file # NoFile]
  /\ content' = IF r /\ sized THEN content ELSE Blank
  /\ durable' = IF r /\ sized THEN durable ELSE Blank
  /\ sized' = TRUE
  /\ counted' = Cardinality(bitmap')
  /\ failed' = FALSE /\ cancelled' = FALSE
  /\ flusher' = IF r THEN "waiting" ELSE "off"
  /\ last' = FALSE
  /\ UNCHANGED <<next, workCh, fetcher, holds>>

(* run has returned, with or without an error. *)
RunReturns(ok) ==
  /\ failed' = ~ok
  /\ IF resume THEN main' = "stop" /\ UNCHANGED outcome
     ELSE IF ok THEN main' = "sync" /\ UNCHANGED outcome
     ELSE ReturnFromDownload("error")

(* The start of runKnownSize: nothing to do, or no workers, or go. *)
StartWorkers ==
  /\ main = "start"
  /\ \/ counted = PartCount /\ RunReturns(~cancelled) /\ UNCHANGED workVars
     \/ counted # PartCount /\ RunReturns(FALSE) /\ UNCHANGED workVars
     \/ /\ counted # PartCount
        /\ main' = "dispatch" /\ next' = 1 /\ workCh' = <<>>
        /\ fetcher' = [w \in Fetchers |-> "recv"]
        /\ UNCHANGED <<counted, holds, failed, outcome>>
  /\ UNCHANGED <<diskVars, callVars, bitVars, cancelled, flushVars, downloads>>

(* One round of the loop over the parts: skip, send or stop. *)
DispatchPart ==
  /\ main = "dispatch"
  /\ \/ /\ next \in Parts /\ resume /\ ~Flushing /\ next \in bitmap
        /\ next' = next + 1
        /\ UNCHANGED <<main, workCh>>
     \/ /\ next \in Parts /\ (resume => ~Flushing /\ next \notin bitmap)
        /\ Len(workCh) < WorkRoom
        /\ workCh' = Append(workCh, next) /\ next' = next + 1
        /\ UNCHANGED main
     \/ /\ next \in Parts => CtxDone /\ (resume => next \notin bitmap)
        /\ main' = "drain"
        /\ UNCHANGED <<next, workCh>>
  /\ UNCHANGED <<diskVars, callVars, bitVars, counted, fetcher, holds, ctxVars, flushVars, outcome, downloads>>

(* The workers are gone: an error, a cancelled context or a wrong sum. *)
Drained ==
  /\ main = "drain"
  /\ \A w \in Fetchers : fetcher[w] = "off"
  /\ RunReturns(~CtxDone /\ counted = PartCount)
  /\ UNCHANGED <<diskVars, callVars, bitVars, workVars, cancelled, flushVars, downloads>>

-----------------------------------------------------------------------------
(* A worker of runKnownSize.                                               *)

Step(w, from, to) == fetcher[w] = from /\ fetcher' = [fetcher EXCEPT ![w] = to]

workerRest == <<main, callVars, flushVars, sized, sidecar, next, cancelled, outcome, downloads>>

(* It takes a part, and drops it when the context is done. *)
TakePart(w) ==
  /\ workCh # <<>>
  /\ workCh' = Tail(workCh) /\ holds' = [holds EXCEPT ![w] = Head(workCh)]
  /\ Step(w, "recv", IF CtxDone THEN "off" ELSE "fetch")
  /\ UNCHANGED <<content, durable, bitVars, counted, failed, workerRest>>

(* The channel is closed and empty. *)
FetcherLeaves(w) ==
  /\ workCh = <<>> /\ main = "drain"
  /\ Step(w, "recv", "off")
  /\ UNCHANGED <<content, durable, bitVars, counted, workCh, holds, failed, workerRest>>

(* fetchPartLoop brings the part, or an error, or too little. *)
Fetch(w) ==
  /\ \/ Step(w, "fetch", "write") /\ UNCHANGED failed
     \/ Step(w, "fetch", "off") /\ failed' = TRUE
  /\ UNCHANGED <<content, durable, bitVars, counted, workCh, holds, workerRest>>

(* A write that fails may have spoilt what was there. *)
WritePart(w) ==
  /\ \/ /\ Step(w, "write", "count")
        /\ content' = [content EXCEPT ![holds[w]] = wanted] /\ UNCHANGED failed
     \/ /\ Step(w, "write", "off") /\ failed' = TRUE
        /\ content' \in {content, [content EXCEPT ![holds[w]] = NoFile]}
  /\ UNCHANGED <<durable, bitVars, counted, workCh, holds, workerRest>>

Count(w) ==
  /\ Step(w, "count", IF resume THEN "mark" ELSE "recv")
  /\ counted' = counted + 1
  /\ UNCHANGED <<content, durable, bitVars, workCh, holds, failed, workerRest>>

(* resumeState.mark *)
Mark(w) ==
  /\ ~Flushing
  /\ Step(w, "mark", "recv")
  /\ bitmap' = bitmap \union {holds[w]}
  /\ dirty' = (dirty \/ holds[w] \notin bitmap)
  /\ UNCHANGED <<content, durable, counted, workCh, holds, failed, workerRest>>

FetcherWorks(w) ==
  TakePart(w) \/ FetcherLeaves(w) \/ Fetch(w) \/ WritePart(w) \/ Count(w) \/ Mark(w)

-----------------------------------------------------------------------------
(* startFlusher: a flush every two seconds, and a last one at the stop.    *)

flusherRest == <<content, sized, callVars, bitmap, workVars, ctxVars, downloads>>

(* The ticker starts a flush, which returns at once when nothing is dirty. *)
FlushTicks ==
  /\ flusher = "waiting" /\ dirty
  /\ flusher' = "syncing" /\ last' = FALSE
  /\ UNCHANGED <<flusherRest, durable, sidecar, main, dirty, outcome>>

(* The channel stop is closed: flush for the last time. *)
FlushFinally ==
  /\ flusher = "waiting" /\ main = "await"
  /\ flusher' = (IF dirty THEN "syncing" ELSE "done") /\ last' = TRUE
  /\ UNCHANGED <<flusherRest, durable, sidecar, main, dirty, outcome>>

FlushEnds == flusher' = IF last THEN "done" ELSE "waiting"

(* Seeded fault: the destination is not synced first. *)
FlushSyncsNot ==
  /\ flusher = "syncing"
  /\ flusher' = "writing"
  /\ UNCHANGED <<flusherRest, durable, last, sidecar, main, dirty, outcome>>

(* syncDestination *)
FlushSyncs ==
  /\ flusher = "syncing"
  /\ \/ durable' = content /\ flusher' = "writing"
     \/ FlushEnds /\ UNCHANGED durable
  /\ UNCHANGED <<flusherRest, last, sidecar, main, dirty, outcome>>

(* AtomicWriteFile: the old sidecar stays, or the new one takes its place, *)
(* for good once this step is taken (the directory itself is not synced).  *)
FlushWrites ==
  /\ flusher = "writing"
  /\ \/ sidecar' = [file |-> wanted, bits |-> bitmap, old |-> inherited] /\ dirty' = FALSE
     \/ UNCHANGED <<sidecar, dirty>>
  /\ FlushEnds
  /\ UNCHANGED <<flusherRest, last, durable, main, outcome>>

Flush == FlushTicks \/ FlushFinally \/ FlushSyncs \/ FlushWrites

(* stop: close the channel and wait for the flusher. *)
Stop ==
  /\ main = "stop"
  /\ main' = "await"
  /\ UNCHANGED <<diskVars, callVars, bitVars, workVars, ctxVars, flushVars, outcome, downloads>>

Stopped ==
  /\ main = "await" /\ flusher = "done"
  /\ IF failed THEN ReturnFromDownload("error") ELSE main' = "sync" /\ UNCHANGED outcome
  /\ UNCHANGED <<diskVars, callVars, bitVars, workVars, ctxVars, flushVars, downloads>>

(* The end of DownloadMedia: Sync and Close, then the sidecar goes. *)
Sync ==
  /\ main = "sync"
  /\ \/ /\ durable' = content
        /\ IF resume THEN main' = "remove" /\ UNCHANGED outcome ELSE ReturnFromDownload("ok")
     \/ ReturnFromDownload("error") /\ UNCHANGED durable
  /\ UNCHANGED <<content, sized, sidecar, callVars, bitVars, workVars, ctxVars, flushVars, downloads>>

Remove ==
  /\ main = "remove"
  /\ sidecar' \in {NoSidecar, sidecar}
  /\ ReturnFromDownload("ok")
  /\ UNCHANGED <<content, durable, sized, callVars, bitVars, workVars, ctxVars, flushVars, downloads>>

-----------------------------------------------------------------------------

(* The caller's context ends. *)
CancelDownload ==
  /\ main # "idle" /\ ~cancelled
  /\ cancelled' = TRUE
  /\ UNCHANGED <<diskVars, main, callVars, bitVars, workVars, failed, flushVars, outcome, downloads>>

(* The process or the machine stops: what was not synced may be lost. *)
Crash ==
  /\ main # "idle"
  /\ \E lost \in SUBSET Parts :
        content' = [p \in Parts |-> IF p \in lost THEN durable[p] ELSE content[p]]
  /\ durable' = content'
  /\ ReturnFromDownload("none")
  /\ bitmap' = {} /\ dirty' = FALSE /\ workCh' = <<>>
  /\ fetcher' = [w \in Fetchers |-> "off"]
  /\ flusher' = "off" /\ last' = FALSE
  /\ UNCHANGED <<sized, sidecar, callVars, counted, next, holds, ctxVars, downloads>>

(* Somebody removes the destination, or what is left of it. *)
DestinationLost ==
  /\ main = "idle" /\ sized
  /\ sized' = FALSE /\ content' = Blank /\ durable' = Blank /\ outcome' = "none"
  /\ UNCHANGED <<sidecar, main, callVars, bitVars, workVars, ctxVars, flushVars, downloads>>

Proceed == StartWorkers \/ Drained \/ Stop \/ Stopped \/ Sync \/ Remove

DownloadNext ==
  \/ \E f \in Files, r \in BOOLEAN : CallDownload(f, r)
  \/ Proceed \/ DispatchPart \/ Flush
  \/ \E w \in Fetchers : FetcherWorks(w)
  \/ CancelDownload \/ Crash \/ DestinationLost

(* Goroutines that can run do; a fetch ends, for every attempt has its     *)
(* deadline.  resumeState.mu is fair: who waits for it gets it.  A select  *)
(* chooses at random, so a stop is not passed over for ever.               *)
DownloadFairness ==
  /\ WF_downloadVars(Proceed) /\ SF_downloadVars(DispatchPart)
  /\ SF_downloadVars(FlushFinally)
  /\ WF_downloadVars(FlushSyncs \/ FlushWrites)
  /\ \A w \in Fetchers : WF_downloadVars(FetcherWorks(w)) /\ SF_downloadVars(Mark(w))

DownloadSpec == DownloadInit /\ [][DownloadNext]_downloadVars

-----------------------------------------------------------------------------

DownloadTypeOK ==
  /\ content \in [Parts -> Files \union {NoFile}] /\ durable \in [Parts -> Files \union {NoFile}]
  /\ sized \in BOOLEAN
  /\ sidecar \in [file : Files \union {NoFile}, bits : SUBSET Parts, old : BOOLEAN]
  /\ main \in {"idle", "start", "dispatch", "drain", "stop", "await", "sync", "remove"}
  /\ wanted \in Files /\ resume \in BOOLEAN /\ inherited \in BOOLEAN
  /\ bitmap \subseteq Parts /\ dirty \in BOOLEAN
  /\ counted \in 0..PartCount /\ next \in 1..PartCount + 1
  /\ workCh \in Seq(Parts)
  /\ fetcher \in [Fetchers -> {"off", "recv", "fetch", "write", "count", "mark"}]
  /\ holds \in [Fetchers -> Parts]
  /\ failed \in BOOLEAN /\ cancelled \in BOOLEAN
  /\ flusher \in {"off", "waiting", "syncing", "writing", "done"} /\ last \in BOOLEAN
  /\ outcome \in {"none", "ok", "error"} /\ downloads \in 0..MaxDownloads

(* A completed bit never reaches disk before its file data (comment        *)
(* media.go:2961), whatever crashes when: each part that a sidecar names   *)
(* is in the destination, on disk, as long as no call has opened the       *)
(* destination without the sidecar.                                        *)
BitsHaveData ==
  sized /\ ~sidecar.old => \A p \in sidecar.bits : durable[p] = sidecar.file

Whole == \A p \in Parts : durable[p] = wanted

(* A download that returns without an error has brought the whole file, on *)
(* disk, also when it went on with what others had begun; as long as the   *)
(* sidecar that it took over was not old.                                  *)
DownloadWhole == outcome = "ok" /\ ~inherited => Whole

(* The same without the condition. *)
SuccessIsWhole == outcome = "ok" => Whole

(* Every download returns, with its workers and its flusher gone. *)
DownloadQuiet == main = "idle" => flusher \in {"off", "done"} /\ \A w \in Fetchers : fetcher[w] = "off"
=============================================================================
