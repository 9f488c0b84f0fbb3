--------------------------- MODULE TransfersProofs ---------------------------
(***************************************************************************)
(* Proofs about uploads, downloads and what their workers share, for any   *)
(* number of files, parts, workers, centres and calls.                     *)
(***************************************************************************)
EXTENDS MCTransfers, FiniteSetTheorems, TLAPS

-----------------------------------------------------------------------------
(* Downloads with resume states and crashes.                               *)
(*                                                                         *)
(* BitsHaveData is not inductive: a flush writes the bits of the bitmap,   *)
(* so each of them must have its part in the file (BitsFit), which a       *)
(* worker that fails while it writes must not spoil; so no part is with    *)
(* two workers, or with one and in the bitmap (InOrder).  DownloadWhole    *)
(* needs that a dispatcher which was not stopped loses no part (NoneLost). *)

Contents == [Parts -> Files \union {NoFile}]
Sidecars == [file : Files \union {NoFile}, bits : SUBSET Parts, old : BOOLEAN]
Places == {"off", "recv", "fetch", "write", "count", "mark"}

Flags ==
  /\ sized \in BOOLEAN /\ resume \in BOOLEAN /\ inherited \in BOOLEAN /\ dirty \in BOOLEAN
  /\ failed \in BOOLEAN /\ cancelled \in BOOLEAN /\ last \in BOOLEAN

Shape ==
  /\ content \in Contents /\ durable \in Contents /\ sidecar \in Sidecars
  /\ wanted \in Files /\ bitmap \subseteq Parts
  /\ workCh \in Seq(Parts) /\ next \in 1..PartCount + 1
  /\ fetcher \in [Fetchers -> Places] /\ holds \in [Fetchers -> Parts]

Working == main \in {"dispatch", "drain"}
HasPart(w) == fetcher[w] \in {"fetch", "write", "count", "mark"}

(* Who runs when. *)
Phases ==
  /\ Working \/ \A w \in Fetchers : fetcher[w] = "off"
  /\ flusher \in {"off", "done"} \/ (resume /\ main \notin {"idle", "sync", "remove"})
  /\ outcome = "ok" => main = "idle"
  /\ main = "start" => counted = Cardinality(bitmap)
  /\ bitmap # {} => resume
  /\ \A w \in Fetchers : fetcher[w] = "mark" => resume

(* Parts are handed out in order, each to one worker. *)
InOrder ==
  Working =>
    /\ \A i \in 1..Len(workCh) : workCh[i] < next /\ workCh[i] \notin bitmap
    /\ \A i, j \in 1..Len(workCh) : i < j => workCh[i] < workCh[j]
    /\ \A w \in Fetchers : HasPart(w) =>
         /\ holds[w] < next /\ holds[w] \notin bitmap
         /\ \A i \in 1..Len(workCh) : holds[w] < workCh[i]
    /\ \A v, w \in Fetchers : v # w /\ HasPart(v) /\ HasPart(w) => holds[v] # holds[w]

(* What was written is there until the bit is set. *)
Written ==
  \A w \in Fetchers : fetcher[w] \in {"count", "mark"} => content[holds[w]] = wanted

(* A sidecar that is not old agrees with the destination and the call.     *)
SidecarFits ==
  /\ sidecar.file = NoFile => sidecar.bits = {}
  /\ sized /\ ~sidecar.old =>
       \A p \in sidecar.bits : content[p] = sidecar.file /\ durable[p] = sidecar.file
  /\ main # "idle" /\ ~sidecar.old /\ sidecar.file # NoFile =>
       sidecar.file = wanted /\ sidecar.bits \subseteq bitmap /\ ~inherited

(* So does the bitmap; between the two steps of a flush on disk, too.      *)
BitsFit ==
  ~inherited =>
    /\ main # "idle" => \A p \in bitmap : content[p] = wanted
    /\ flusher = "writing" => \A p \in bitmap : durable[p] = wanted

(* A dispatcher that is not stopped loses no part, and no worker leaves    *)
(* before the end.                                                         *)
NoneLost ==
  Working /\ ~failed /\ ~cancelled /\ ~inherited =>
    /\ \A p \in Parts : p < next =>
         \/ content[p] = wanted
         \/ \E i \in 1..Len(workCh) : workCh[i] = p
         \/ \E w \in Fetchers : fetcher[w] \in {"fetch", "write"} /\ holds[w] = p
    /\ main = "drain" => next = PartCount + 1
    /\ \A w \in Fetchers : fetcher[w] = "off" => main = "drain" /\ workCh = <<>>

InFile == \A p \in Parts : content[p] = wanted

(* From the workers' end on the file is whole. *)
Endings ==
  ~inherited =>
    /\ main \in {"stop", "await"} /\ ~failed => InFile
    /\ main = "sync" => InFile
    /\ main = "remove" \/ outcome = "ok" => Whole

DownloadInv ==
  /\ Flags /\ Shape /\ Phases /\ InOrder /\ Written
  /\ SidecarFits /\ BitsFit /\ NoneLost /\ Endings

USE DEF diskVars, callVars, bitVars, workVars, ctxVars, flushVars, workerRest, flusherRest

(* A bitmap with as many bits as there are parts is full. *)
LEMMA FullBitmap ==
  ASSUME NEW B, B \subseteq Parts, Cardinality(B) = PartCount
  PROVE  B = Parts
<1>1. IsFiniteSet(Parts) /\ Cardinality(Parts) = PartCount
  BY FS_Interval, DownloadAssumption DEF Parts
<1> QED BY <1>1, FS_Subset

LEMMA CallDownloadKeeps ==
  ASSUME NEW f \in Files, NEW r \in BOOLEAN, DownloadInv, CallDownload(f, r)
  PROVE  DownloadInv'
<1> USE DEF CallDownload, Blank
<1>0. /\ Flags /\ Shape /\ Phases /\ InOrder /\ Written
     /\ SidecarFits /\ BitsFit /\ NoneLost /\ Endings
  BY DEF DownloadInv
<1>1. Flags'
  BY <1>0, DownloadAssumption DEF Flags, Shape, Sidecars
<1>2. Shape'
  BY <1>0, DownloadAssumption DEF Shape, Parts, Contents, Sidecars, Places
<1>3. Phases'
  BY <1>0, DownloadAssumption DEF Shape, Parts, Contents, Sidecars, Places,
    Phases, Working
<1>4. InOrder'
  BY <1>0, DownloadAssumption DEF Shape, Parts, Contents, Sidecars, Places,
    Phases, InOrder, Working, HasPart
<1>5. Written'
  BY <1>0, DownloadAssumption DEF Shape, Parts, Contents, Sidecars, Places,
    Phases, InOrder, Written, Working, HasPart
<1>6. SidecarFits'
  BY <1>0, DownloadAssumption DEF Shape, Parts, Contents, Sidecars, Places,
    Phases, InOrder, SidecarFits, BitsFit, Working, HasPart
<1>7. BitsFit'
  BY <1>0, DownloadAssumption DEF Shape, Parts, Contents, Sidecars, Places,
    Phases, InOrder, Written, SidecarFits, BitsFit, Working, HasPart
<1>8. NoneLost'
  BY <1>0, DownloadAssumption DEF Shape, Parts, Contents, Sidecars, Places,
    Phases, InOrder, NoneLost, Written, Working, HasPart
<1>9. Endings'
  BY <1>0, DownloadAssumption DEF Shape, Parts, Contents, Sidecars, Places,
    Phases, NoneLost, Endings, BitsFit, Working, InFile, Whole
<1> QED BY <1>1, <1>2, <1>3, <1>4, <1>5, <1>6, <1>7, <1>8, <1>9 DEF DownloadInv

LEMMA StartWorkersKeeps ==
  ASSUME DownloadInv, StartWorkers
  PROVE  DownloadInv'
<1> USE DEF StartWorkers, RunReturns, ReturnFromDownload
<1>0. /\ Flags /\ Shape /\ Phases /\ InOrder /\ Written
     /\ SidecarFits /\ BitsFit /\ NoneLost /\ Endings
  BY DEF DownloadInv
<1>1. Flags'
  BY <1>0, DownloadAssumption DEF Flags, Shape, Sidecars
<1>2. Shape'
  <2>1. CASE UNCHANGED workVars
    BY <2>1, <1>0 DEF Shape
  <2>2. CASE workCh' = <<>> /\ next' = 1 /\ fetcher' = [w \in Fetchers |-> "recv"] /\ UNCHANGED holds
    <3>1. workCh' \in Seq(Parts)
      BY <2>2
    <3>2. fetcher' \in [Fetchers -> Places]
      BY <2>2 DEF Places
    <3> QED BY <2>2, <3>1, <3>2, <1>0, DownloadAssumption DEF Shape
  <2> QED BY <2>1, <2>2
<1>3. Phases'
  BY <1>0, DownloadAssumption DEF Shape, Parts, Contents, Sidecars, Places,
    Phases, Working
<1>4. InOrder'
  BY <1>0, DownloadAssumption DEF Shape, Parts, Contents, Sidecars, Places,
    Phases, InOrder, Working, HasPart
<1>5. Written'
  BY <1>0, DownloadAssumption DEF Shape, Parts, Contents, Sidecars, Places,
    Phases, InOrder, Written, Working, HasPart
<1>6. SidecarFits'
  BY <1>0, DownloadAssumption DEF Shape, Parts, Contents, Sidecars, Places,
    Phases, InOrder, SidecarFits, BitsFit, Working, HasPart
<1>7. BitsFit'
  BY <1>0, DownloadAssumption DEF Shape, Parts, Contents, Sidecars, Places,
    Phases, InOrder, Written, SidecarFits, BitsFit, Working, HasPart
<1>8. NoneLost'
  BY <1>0, DownloadAssumption DEF Shape, Parts, Contents, Sidecars, Places,
    Phases, InOrder, NoneLost, Written, Working, HasPart
<1>9. Endings'
  <2>1. CASE counted = PartCount /\ RunReturns(~cancelled)
    <3>1. bitmap = Parts
      BY <2>1, <1>0, FullBitmap DEF Shape, Phases
    <3>2. resume
      BY <3>1, <1>0, DownloadAssumption DEF Phases, Parts
    <3> QED BY <2>1, <3>1, <3>2, <1>0 DEF BitsFit, InFile, Endings, Phases
  <2>2. CASE RunReturns(FALSE)
    BY <2>2, <1>0 DEF Phases, Endings
  <2>3. CASE main' = "dispatch" /\ UNCHANGED outcome
    BY <2>3, <1>0 DEF Phases, Endings
  <2> QED BY <2>1, <2>2, <2>3
<1> QED BY <1>1, <1>2, <1>3, <1>4, <1>5, <1>6, <1>7, <1>8, <1>9 DEF DownloadInv

LEMMA DispatchPartKeeps ==
  ASSUME DownloadInv, DispatchPart
  PROVE  DownloadInv'
<1> USE DEF DispatchPart, CtxDone, Flushing
<1>0. /\ Flags /\ Shape /\ Phases /\ InOrder /\ Written
     /\ SidecarFits /\ BitsFit /\ NoneLost /\ Endings
  BY DEF DownloadInv
<1>1. Flags'
  BY <1>0, DownloadAssumption DEF Flags, Shape, Sidecars
<1>2. Shape'
  <2>1. workCh' \in Seq(Parts)
    BY <1>0 DEF Shape
  <2>2. next' \in 1..PartCount + 1
    BY <1>0, DownloadAssumption DEF Shape, Parts
  <2> QED BY <2>1, <2>2, <1>0 DEF Shape
<1>3. Phases'
  BY <1>0, DownloadAssumption DEF Shape, Parts, Contents, Sidecars, Places,
    Phases, Working
<1>4. InOrder'
  <2>1. CASE UNCHANGED workCh
    BY <2>1, <1>0, DownloadAssumption DEF Shape, Parts, InOrder, Working, HasPart
  <2>2. CASE workCh' = Append(workCh, next) /\ next' = next + 1 /\ next \in Parts /\ (resume => next \notin bitmap)
    <3>1. workCh \in Seq(Parts) /\ next \in Parts /\ next \notin bitmap
      BY <2>2, <1>0 DEF Shape, Phases
    <3>2. /\ Len(workCh') = Len(workCh) + 1
          /\ \A i \in 1..Len(workCh) : workCh'[i] = workCh[i] /\ workCh[i] \in Parts
          /\ workCh'[Len(workCh) + 1] = next
      BY <2>2, <3>1
    <3>3. Len(workCh) \in Nat
      BY <3>1
    <3> HIDE DEF DispatchPart
    <3>4. Working /\ UNCHANGED <<bitmap, fetcher, holds>>
      BY DEF DispatchPart, Working
    <3>5. \A i \in 1..Len(workCh') : workCh'[i] < next' /\ workCh'[i] \notin bitmap'
      BY <1>0, <2>2, <3>1, <3>2, <3>3, <3>4, DownloadAssumption DEF InOrder, Parts
    <3>6. \A i, j \in 1..Len(workCh') : i < j => workCh'[i] < workCh'[j]
      BY <1>0, <2>2, <3>1, <3>2, <3>3, <3>4, DownloadAssumption DEF InOrder, Parts
    <3>7. \A w \in Fetchers : HasPart(w)' => 
            /\ holds'[w] < next' /\ holds'[w] \notin bitmap'
            /\ \A i \in 1..Len(workCh') : holds'[w] < workCh'[i]
      BY <1>0, <2>2, <3>1, <3>2, <3>3, <3>4, DownloadAssumption DEF InOrder, Parts, Shape, HasPart
    <3> QED BY <1>0, <3>4, <3>5, <3>6, <3>7 DEF InOrder, HasPart
  <2> QED BY <2>1, <2>2
<1>5. Written'
  BY <1>0, DownloadAssumption DEF Shape, Parts, Contents, Sidecars, Places,
    Phases, InOrder, Written, Working, HasPart
<1>6. SidecarFits'
  BY <1>0, DownloadAssumption DEF Shape, Parts, Contents, Sidecars, Places,
    Phases, InOrder, SidecarFits, BitsFit, Working, HasPart
<1>7. BitsFit'
  BY <1>0, DownloadAssumption DEF Shape, Parts, Contents, Sidecars, Places,
    Phases, InOrder, Written, SidecarFits, BitsFit, Working, HasPart
<1>8. NoneLost'
  <2> SUFFICES ASSUME ~failed, ~cancelled, ~inherited
               PROVE  NoneLost'
    BY DEF NoneLost
  <2>0. /\ main = "dispatch" /\ Working /\ workCh \in Seq(Parts) /\ next \in 1..PartCount + 1
        /\ UNCHANGED <<content, wanted, fetcher, holds, failed, cancelled, inherited>>
    BY <1>0 DEF Shape, Working
  <2>1. CASE next \in bitmap /\ next' = next + 1 /\ UNCHANGED <<main, workCh>>
    <3>1. content[next] = wanted
      BY <2>0, <2>1, <1>0 DEF BitsFit
    <3> HIDE DEF DispatchPart
    <3> QED BY <2>0, <2>1, <3>1, <1>0, DownloadAssumption DEF NoneLost, Parts
  <2>2. CASE workCh' = Append(workCh, next) /\ next' = next + 1 /\ next \in Parts /\ UNCHANGED main
    <3>1. /\ Len(workCh') = Len(workCh) + 1 /\ Len(workCh) \in Nat
          /\ \A i \in 1..Len(workCh) : workCh'[i] = workCh[i]
          /\ workCh'[Len(workCh) + 1] = next
      BY <2>0, <2>2
    <3> HIDE DEF DispatchPart
    <3>2. \A w \in Fetchers : fetcher[w] # "off"
      BY <2>0, <1>0 DEF NoneLost
    <3>3. ASSUME NEW p \in Parts, p < next'
          PROVE  \/ content[p] = wanted
                 \/ \E i \in 1..Len(workCh') : workCh'[i] = p
                 \/ \E w \in Fetchers : fetcher[w] \in {"fetch", "write"} /\ holds[w] = p
      <4>1. CASE p = next
        BY <3>1, <4>1
      <4>2. CASE p < next
        BY <2>0, <3>1, <4>2, <1>0 DEF NoneLost
      <4> QED BY <3>3, <2>0, <2>2, <4>1, <4>2, DownloadAssumption DEF Parts
    <3> QED BY <2>0, <2>2, <3>2, <3>3 DEF NoneLost
  <2>3. CASE main' = "drain" /\ UNCHANGED <<next, workCh>>
    <3>1. next = PartCount + 1
      BY <2>0, <2>3, DownloadAssumption DEF Parts
    <3> HIDE DEF DispatchPart
    <3> QED BY <2>0, <2>3, <3>1, <1>0 DEF NoneLost
  <2> QED BY <2>1, <2>2, <2>3
<1>9. Endings'
  BY <1>0, DownloadAssumption DEF Shape, Parts, Contents, Sidecars, Places,
    Phases, NoneLost, Endings, BitsFit, Working, InFile, Whole
<1> QED BY <1>1, <1>2, <1>3, <1>4, <1>5, <1>6, <1>7, <1>8, <1>9 DEF DownloadInv

LEMMA DrainedKeeps ==
  ASSUME DownloadInv, Drained
  PROVE  DownloadInv'
<1> USE DEF Drained, RunReturns, ReturnFromDownload, CtxDone
<1>0. /\ Flags /\ Shape /\ Phases /\ InOrder /\ Written
     /\ SidecarFits /\ BitsFit /\ NoneLost /\ Endings
  BY DEF DownloadInv
<1>1. Flags'
  BY <1>0, DownloadAssumption DEF Flags, Shape, Sidecars
<1>2. Shape'
  BY <1>0, DownloadAssumption DEF Shape, Parts, Contents, Sidecars, Places
<1>3. Phases'
  BY <1>0, DownloadAssumption DEF Shape, Parts, Contents, Sidecars, Places,
    Phases, Working
<1>4. InOrder'
  BY <1>0, DownloadAssumption DEF Shape, Parts, Contents, Sidecars, Places,
    Phases, InOrder, Working, HasPart
<1>5. Written'
  BY <1>0, DownloadAssumption DEF Shape, Parts, Contents, Sidecars, Places,
    Phases, InOrder, Written, Working, HasPart
<1>6. SidecarFits'
  BY <1>0, DownloadAssumption DEF Shape, Parts, Contents, Sidecars, Places,
    Phases, InOrder, SidecarFits, BitsFit, Working, HasPart
<1>7. BitsFit'
  BY <1>0, DownloadAssumption DEF Shape, Parts, Contents, Sidecars, Places,
    Phases, InOrder, Written, SidecarFits, BitsFit, Working, HasPart
<1>8. NoneLost'
  BY <1>0, DownloadAssumption DEF Shape, Parts, Contents, Sidecars, Places,
    Phases, InOrder, NoneLost, Written, Working, HasPart
<1>9. Endings'
  <2>1. CASE CtxDone \/ counted # PartCount
    BY <2>1, <1>0 DEF Phases, Endings
  <2>2. CASE ~CtxDone /\ ~inherited
    <3>1. PICK w \in Fetchers : fetcher[w] = "off"
      BY DownloadAssumption
    <3>2. workCh = <<>> /\ next = PartCount + 1
      BY <2>2, <3>1, <1>0 DEF NoneLost, Working
    <3>3. \A p \in Parts : p < next /\ p \notin {workCh[i] : i \in 1..Len(workCh)}
      BY <3>2, DownloadAssumption DEF Parts
    <3>4. InFile
      BY <2>2, <3>3, <1>0 DEF NoneLost, Working, InFile
    <3> QED BY <2>2, <3>4, <1>0 DEF Phases, Endings, InFile
  <2>3. CASE inherited
    BY <2>3 DEF Endings
  <2> QED BY <2>1, <2>2, <2>3
<1> QED BY <1>1, <1>2, <1>3, <1>4, <1>5, <1>6, <1>7, <1>8, <1>9 DEF DownloadInv

LEMMA TakePartKeeps ==
  ASSUME NEW w \in Fetchers, DownloadInv, TakePart(w)
  PROVE  DownloadInv'
<1> USE DEF TakePart, Step, CtxDone
<1>0. /\ Flags /\ Shape /\ Phases /\ InOrder /\ Written
     /\ SidecarFits /\ BitsFit /\ NoneLost /\ Endings
  BY DEF DownloadInv
<1>1. Flags'
  BY <1>0, DownloadAssumption DEF Flags, Shape, Sidecars
<1>2. Shape'
  BY <1>0, DownloadAssumption DEF Shape, Parts, Contents, Sidecars, Places
<1>3. Phases'
  BY <1>0, DownloadAssumption DEF Shape, Parts, Contents, Sidecars, Places,
    Phases, Working
<1>4. InOrder'
  BY <1>0, DownloadAssumption DEF Shape, Parts, Contents, Sidecars, Places,
    Phases, InOrder, Working, HasPart
<1>5. Written'
  BY <1>0, DownloadAssumption DEF Shape, Parts, Contents, Sidecars, Places,
    Phases, InOrder, Written, Working, HasPart
<1>6. SidecarFits'
  BY <1>0, DownloadAssumption DEF Shape, Parts, Contents, Sidecars, Places,
    Phases, InOrder, SidecarFits, BitsFit, Working, HasPart
<1>7. BitsFit'
  BY <1>0, DownloadAssumption DEF Shape, Parts, Contents, Sidecars, Places,
    Phases, InOrder, Written, SidecarFits, BitsFit, Working, HasPart
<1>8. NoneLost'
  <2> SUFFICES ASSUME Working, ~failed, ~cancelled, ~inherited
               PROVE  NoneLost'
    BY DEF NoneLost, Working
  <2>0. /\ workCh \in Seq(Parts) /\ workCh # <<>> /\ fetcher[w] = "recv"
        /\ fetcher' = [fetcher EXCEPT ![w] = "fetch"]
        /\ holds' = [holds EXCEPT ![w] = Head(workCh)] /\ workCh' = Tail(workCh)
        /\ UNCHANGED <<content, wanted, main, next, failed, cancelled, inherited>>
        /\ fetcher \in [Fetchers -> Places] /\ holds \in [Fetchers -> Parts]
    BY <1>0 DEF Shape
  <2> HIDE DEF TakePart
  <2>1. /\ Len(workCh) \in Nat /\ Len(workCh') = Len(workCh) - 1
        /\ \A i \in 1..Len(workCh') : workCh'[i] = workCh[i + 1]
        /\ Head(workCh) = workCh[1]
    BY <2>0
  <2>2. ASSUME NEW p \in Parts, p < next
        PROVE  \/ content[p] = wanted
               \/ \E i \in 1..Len(workCh') : workCh'[i] = p
               \/ \E v \in Fetchers : fetcher'[v] \in {"fetch", "write"} /\ holds'[v] = p
    <3>1. CASE \E i \in 1..Len(workCh) : workCh[i] = p
      <4>1. PICK i \in 1..Len(workCh) : workCh[i] = p
        BY <3>1
      <4>2. CASE i = 1
        BY <2>0, <2>1, <4>1, <4>2
      <4>3. CASE i # 1
        <5>1. i - 1 \in 1..Len(workCh') /\ workCh'[i - 1] = p
          BY <2>1, <4>1, <4>3
        <5> QED BY <5>1
      <4> QED BY <4>2, <4>3
    <3>2. CASE \E v \in Fetchers : fetcher[v] \in {"fetch", "write"} /\ holds[v] = p
      BY <2>0, <3>2
    <3> QED BY <2>2, <3>1, <3>2, <1>0 DEF NoneLost
  <2>3. \A v \in Fetchers : fetcher'[v] # "off"
    BY <2>0, <1>0 DEF NoneLost
  <2> QED BY <2>0, <2>2, <2>3, <1>0 DEF NoneLost
<1>9. Endings'
  BY <1>0, DownloadAssumption DEF Shape, Parts, Contents, Sidecars, Places,
    Phases, NoneLost, Endings, BitsFit, Working, InFile, Whole
<1> QED BY <1>1, <1>2, <1>3, <1>4, <1>5, <1>6, <1>7, <1>8, <1>9 DEF DownloadInv

LEMMA FetcherLeavesKeeps ==
  ASSUME NEW w \in Fetchers, DownloadInv, FetcherLeaves(w)
  PROVE  DownloadInv'
<1> USE DEF FetcherLeaves, Step
<1>0. /\ Flags /\ Shape /\ Phases /\ InOrder /\ Written
     /\ SidecarFits /\ BitsFit /\ NoneLost /\ Endings
  BY DEF DownloadInv
<1>1. Flags'
  BY <1>0, DownloadAssumption DEF Flags, Shape, Sidecars
<1>2. Shape'
  BY <1>0, DownloadAssumption DEF Shape, Parts, Contents, Sidecars, Places
<1>3. Phases'
  BY <1>0, DownloadAssumption DEF Shape, Parts, Contents, Sidecars, Places,
    Phases, Working
<1>4. InOrder'
  BY <1>0, DownloadAssumption DEF Shape, Parts, Contents, Sidecars, Places,
    Phases, InOrder, Working, HasPart
<1>5. Written'
  BY <1>0, DownloadAssumption DEF Shape, Parts, Contents, Sidecars, Places,
    Phases, InOrder, Written, Working, HasPart
<1>6. SidecarFits'
  BY <1>0, DownloadAssumption DEF Shape, Parts, Contents, Sidecars, Places,
    Phases, InOrder, SidecarFits, BitsFit, Working, HasPart
<1>7. BitsFit'
  BY <1>0, DownloadAssumption DEF Shape, Parts, Contents, Sidecars, Places,
    Phases, InOrder, Written, SidecarFits, BitsFit, Working, HasPart
<1>8. NoneLost'
  BY <1>0, DownloadAssumption DEF Shape, Parts, Contents, Sidecars, Places,
    Phases, InOrder, NoneLost, Written, Working, HasPart
<1>9. Endings'
  BY <1>0, DownloadAssumption DEF Shape, Parts, Contents, Sidecars, Places,
    Phases, NoneLost, Endings, BitsFit, Working, InFile, Whole
<1> QED BY <1>1, <1>2, <1>3, <1>4, <1>5, <1>6, <1>7, <1>8, <1>9 DEF DownloadInv

LEMMA FetchKeeps ==
  ASSUME NEW w \in Fetchers, DownloadInv, Fetch(w)
  PROVE  DownloadInv'
<1> USE DEF Fetch, Step
<1>0. /\ Flags /\ Shape /\ Phases /\ InOrder /\ Written
     /\ SidecarFits /\ BitsFit /\ NoneLost /\ Endings
  BY DEF DownloadInv
<1>1. Flags'
  BY <1>0, DownloadAssumption DEF Flags, Shape, Sidecars
<1>2. Shape'
  BY <1>0, DownloadAssumption DEF Shape, Parts, Contents, Sidecars, Places
<1>3. Phases'
  BY <1>0, DownloadAssumption DEF Shape, Parts, Contents, Sidecars, Places,
    Phases, Working
<1>4. InOrder'
  <2>1. \A v \in Fetchers : HasPart(v)' => HasPart(v)
    BY <1>0 DEF Shape, HasPart
  <2>2. Working' = Working /\ UNCHANGED <<workCh, next, bitmap, holds>>
    BY DEF Working
  <2> QED BY <2>1, <2>2, <1>0 DEF InOrder
<1>5. Written'
  BY <1>0, DownloadAssumption DEF Shape, Parts, Contents, Sidecars, Places,
    Phases, InOrder, Written, Working, HasPart
<1>6. SidecarFits'
  BY <1>0, DownloadAssumption DEF Shape, Parts, Contents, Sidecars, Places,
    Phases, InOrder, SidecarFits, BitsFit, Working, HasPart
<1>7. BitsFit'
  BY <1>0, DownloadAssumption DEF Shape, Parts, Contents, Sidecars, Places,
    Phases, InOrder, Written, SidecarFits, BitsFit, Working, HasPart
<1>8. NoneLost'
  <2>1. CASE fetcher[w] = "fetch" /\ fetcher' = [fetcher EXCEPT ![w] = "write"]
    <3>1. \A v \in Fetchers : /\ fetcher'[v] \in {"fetch", "write"} <=> fetcher[v] \in {"fetch", "write"}
                              /\ fetcher'[v] = "off" <=> fetcher[v] = "off"
      BY <2>1, <1>0 DEF Shape
    <3> QED BY <2>1, <3>1, <1>0 DEF NoneLost, Working
  <2>2. CASE failed'
    BY <2>2 DEF NoneLost
  <2> QED BY <2>1, <2>2
<1>9. Endings'
  BY <1>0, DownloadAssumption DEF Shape, Parts, Contents, Sidecars, Places,
    Phases, NoneLost, Endings, BitsFit, Working, InFile, Whole
<1> QED BY <1>1, <1>2, <1>3, <1>4, <1>5, <1>6, <1>7, <1>8, <1>9 DEF DownloadInv

LEMMA WritePartKeeps ==
  ASSUME NEW w \in Fetchers, DownloadInv, WritePart(w)
  PROVE  DownloadInv'
<1> USE DEF WritePart, Step
<1>0. /\ Flags /\ Shape /\ Phases /\ InOrder /\ Written
     /\ SidecarFits /\ BitsFit /\ NoneLost /\ Endings
  BY DEF DownloadInv
<1>1. Flags'
  BY <1>0, DownloadAssumption DEF Flags, Shape, Sidecars
<1>2. Shape'
  <2>1. content' \in Contents
    BY <1>0 DEF Shape, Contents
  <2>2. fetcher' \in [Fetchers -> Places]
    BY <1>0 DEF Shape, Places
  <2> QED BY <2>1, <2>2, <1>0 DEF Shape
<1>3. Phases'
  BY <1>0, DownloadAssumption DEF Shape, Parts, Contents, Sidecars, Places,
    Phases, Working
<1>4. InOrder'
  <2>1. \A v \in Fetchers : HasPart(v)' => HasPart(v)
    BY <1>0 DEF Shape, HasPart
  <2>2. Working' = Working /\ UNCHANGED <<workCh, next, bitmap, holds>>
    BY DEF Working
  <2> QED BY <2>1, <2>2, <1>0 DEF InOrder
<1>5. Written'
  BY <1>0, DownloadAssumption DEF Shape, Parts, Contents, Sidecars, Places,
    Phases, InOrder, Written, Working, HasPart
<1>6. SidecarFits'
  BY <1>0, DownloadAssumption DEF Shape, Parts, Contents, Sidecars, Places,
    Phases, InOrder, SidecarFits, BitsFit, Working, HasPart
<1>7. BitsFit'
  BY <1>0, DownloadAssumption DEF Shape, Parts, Contents, Sidecars, Places,
    Phases, InOrder, Written, SidecarFits, BitsFit, Working, HasPart
<1>8. NoneLost'
  <2>1. CASE /\ fetcher[w] = "write" /\ fetcher' = [fetcher EXCEPT ![w] = "count"]
             /\ content' = [content EXCEPT ![holds[w]] = wanted]
    <3>1. \A v \in Fetchers : /\ v # w => fetcher'[v] = fetcher[v]
                              /\ fetcher'[v] = "off" => fetcher[v] = "off"
      BY <2>1, <1>0 DEF Shape
    <3>2. \A p \in Parts : content[p] = wanted \/ holds[w] = p => content'[p] = wanted
      BY <2>1, <1>0 DEF Shape, Contents
    <3> QED BY <2>1, <3>1, <3>2, <1>0 DEF NoneLost, Working
  <2>2. CASE failed'
    BY <2>2 DEF NoneLost
  <2> QED BY <2>1, <2>2
<1>9. Endings'
  BY <1>0, DownloadAssumption DEF Shape, Parts, Contents, Sidecars, Places,
    Phases, NoneLost, Endings, BitsFit, Working, InFile, Whole
<1> QED BY <1>1, <1>2, <1>3, <1>4, <1>5, <1>6, <1>7, <1>8, <1>9 DEF DownloadInv

LEMMA CountKeeps ==
  ASSUME NEW w \in Fetchers, DownloadInv, Count(w)
  PROVE  DownloadInv'
<1> USE DEF Count, Step
<1>0. /\ Flags /\ Shape /\ Phases /\ InOrder /\ Written
     /\ SidecarFits /\ BitsFit /\ NoneLost /\ Endings
  BY DEF DownloadInv
<1>1. Flags'
  BY <1>0, DownloadAssumption DEF Flags, Shape, Sidecars
<1>2. Shape'
  BY <1>0, DownloadAssumption DEF Shape, Parts, Contents, Sidecars, Places
<1>3. Phases'
  BY <1>0, DownloadAssumption DEF Shape, Parts, Contents, Sidecars, Places,
    Phases, Working
<1>4. InOrder'
  BY <1>0, DownloadAssumption DEF Shape, Parts, Contents, Sidecars, Places,
    Phases, InOrder, Working, HasPart
<1>5. Written'
  BY <1>0, DownloadAssumption DEF Shape, Parts, Contents, Sidecars, Places,
    Phases, InOrder, Written, Working, HasPart
<1>6. SidecarFits'
  BY <1>0, DownloadAssumption DEF Shape, Parts, Contents, Sidecars, Places,
    Phases, InOrder, SidecarFits, BitsFit, Working, HasPart
<1>7. BitsFit'
  BY <1>0, DownloadAssumption DEF Shape, Parts, Contents, Sidecars, Places,
    Phases, InOrder, Written, SidecarFits, BitsFit, Working, HasPart
<1>8. NoneLost'
  BY <1>0, DownloadAssumption DEF Shape, Parts, Contents, Sidecars, Places,
    Phases, InOrder, NoneLost, Written, Working, HasPart
<1>9. Endings'
  BY <1>0, DownloadAssumption DEF Shape, Parts, Contents, Sidecars, Places,
    Phases, NoneLost, Endings, BitsFit, Working, InFile, Whole
<1> QED BY <1>1, <1>2, <1>3, <1>4, <1>5, <1>6, <1>7, <1>8, <1>9 DEF DownloadInv

LEMMA MarkKeeps ==
  ASSUME NEW w \in Fetchers, DownloadInv, Mark(w)
  PROVE  DownloadInv'
<1> USE DEF Mark, Step, Flushing
<1>0. /\ Flags /\ Shape /\ Phases /\ InOrder /\ Written
     /\ SidecarFits /\ BitsFit /\ NoneLost /\ Endings
  BY DEF DownloadInv
<1>1. Flags'
  BY <1>0, DownloadAssumption DEF Flags, Shape, Sidecars
<1>2. Shape'
  <2>1. bitmap' \subseteq Parts
    BY <1>0 DEF Shape
  <2>2. fetcher' \in [Fetchers -> Places]
    BY <1>0 DEF Shape, Places
  <2> QED BY <2>1, <2>2, <1>0 DEF Shape
<1>3. Phases'
  BY <1>0, DownloadAssumption DEF Shape, Parts, Contents, Sidecars, Places,
    Phases, Working
<1>4. InOrder'
  BY <1>0, DownloadAssumption DEF Shape, Parts, Contents, Sidecars, Places,
    Phases, InOrder, Working, HasPart
<1>5. Written'
  BY <1>0, DownloadAssumption DEF Shape, Parts, Contents, Sidecars, Places,
    Phases, InOrder, Written, Working, HasPart
<1>6. SidecarFits'
  BY <1>0, DownloadAssumption DEF Shape, Parts, Contents, Sidecars, Places,
    Phases, InOrder, SidecarFits, BitsFit, Working, HasPart
<1>7. BitsFit'
  BY <1>0, DownloadAssumption DEF Shape, Parts, Contents, Sidecars, Places,
    Phases, InOrder, Written, SidecarFits, BitsFit, Working, HasPart
<1>8. NoneLost'
  BY <1>0, DownloadAssumption DEF Shape, Parts, Contents, Sidecars, Places,
    Phases, InOrder, NoneLost, Written, Working, HasPart
<1>9. Endings'
  BY <1>0, DownloadAssumption DEF Shape, Parts, Contents, Sidecars, Places,
    Phases, NoneLost, Endings, BitsFit, Working, InFile, Whole
<1> QED BY <1>1, <1>2, <1>3, <1>4, <1>5, <1>6, <1>7, <1>8, <1>9 DEF DownloadInv

LEMMA FlushTicksKeeps ==
  ASSUME DownloadInv, FlushTicks
  PROVE  DownloadInv'
<1> USE DEF FlushTicks
<1>0. /\ Flags /\ Shape /\ Phases /\ InOrder /\ Written
     /\ SidecarFits /\ BitsFit /\ NoneLost /\ Endings
  BY DEF DownloadInv
<1>1. Flags'
  BY <1>0, DownloadAssumption DEF Flags, Shape, Sidecars
<1>2. Shape'
  BY <1>0, DownloadAssumption DEF Shape, Parts, Contents, Sidecars, Places
<1>3. Phases'
  BY <1>0, DownloadAssumption DEF Shape, Parts, Contents, Sidecars, Places,
    Phases, Working
<1>4. InOrder'
  BY <1>0, DownloadAssumption DEF Shape, Parts, Contents, Sidecars, Places,
    Phases, InOrder, Working, HasPart
<1>5. Written'
  BY <1>0, DownloadAssumption DEF Shape, Parts, Contents, Sidecars, Places,
    Phases, InOrder, Written, Working, HasPart
<1>6. SidecarFits'
  BY <1>0, DownloadAssumption DEF Shape, Parts, Contents, Sidecars, Places,
    Phases, InOrder, SidecarFits, BitsFit, Working, HasPart
<1>7. BitsFit'
  BY <1>0, DownloadAssumption DEF Shape, Parts, Contents, Sidecars, Places,
    Phases, InOrder, Written, SidecarFits, BitsFit, Working, HasPart
<1>8. NoneLost'
  BY <1>0, DownloadAssumption DEF Shape, Parts, Contents, Sidecars, Places,
    Phases, InOrder, NoneLost, Written, Working, HasPart
<1>9. Endings'
  BY <1>0, DownloadAssumption DEF Shape, Parts, Contents, Sidecars, Places,
    Phases, NoneLost, Endings, BitsFit, Working, InFile, Whole
<1> QED BY <1>1, <1>2, <1>3, <1>4, <1>5, <1>6, <1>7, <1>8, <1>9 DEF DownloadInv

LEMMA FlushFinallyKeeps ==
  ASSUME DownloadInv, FlushFinally
  PROVE  DownloadInv'
<1> USE DEF FlushFinally
<1>0. /\ Flags /\ Shape /\ Phases /\ InOrder /\ Written
     /\ SidecarFits /\ BitsFit /\ NoneLost /\ Endings
  BY DEF DownloadInv
<1>1. Flags'
  BY <1>0, DownloadAssumption DEF Flags, Shape, Sidecars
<1>2. Shape'
  BY <1>0, DownloadAssumption DEF Shape, Parts, Contents, Sidecars, Places
<1>3. Phases'
  BY <1>0, DownloadAssumption DEF Shape, Parts, Contents, Sidecars, Places,
    Phases, Working
<1>4. InOrder'
  BY <1>0, DownloadAssumption DEF Shape, Parts, Contents, Sidecars, Places,
    Phases, InOrder, Working, HasPart
<1>5. Written'
  BY <1>0, DownloadAssumption DEF Shape, Parts, Contents, Sidecars, Places,
    Phases, InOrder, Written, Working, HasPart
<1>6. SidecarFits'
  BY <1>0, DownloadAssumption DEF Shape, Parts, Contents, Sidecars, Places,
    Phases, InOrder, SidecarFits, BitsFit, Working, HasPart
<1>7. BitsFit'
  BY <1>0, DownloadAssumption DEF Shape, Parts, Contents, Sidecars, Places,
    Phases, InOrder, Written, SidecarFits, BitsFit, Working, HasPart
<1>8. NoneLost'
  BY <1>0, DownloadAssumption DEF Shape, Parts, Contents, Sidecars, Places,
    Phases, InOrder, NoneLost, Written, Working, HasPart
<1>9. Endings'
  BY <1>0, DownloadAssumption DEF Shape, Parts, Contents, Sidecars, Places,
    Phases, NoneLost, Endings, BitsFit, Working, InFile, Whole
<1> QED BY <1>1, <1>2, <1>3, <1>4, <1>5, <1>6, <1>7, <1>8, <1>9 DEF DownloadInv

LEMMA FlushSyncsKeeps ==
  ASSUME DownloadInv, FlushSyncs
  PROVE  DownloadInv'
<1> USE DEF FlushSyncs, FlushEnds
<1>0. /\ Flags /\ Shape /\ Phases /\ InOrder /\ Written
     /\ SidecarFits /\ BitsFit /\ NoneLost /\ Endings
  BY DEF DownloadInv
<1>1. Flags'
  BY <1>0, DownloadAssumption DEF Flags, Shape, Sidecars
<1>2. Shape'
  BY <1>0, DownloadAssumption DEF Shape, Parts, Contents, Sidecars, Places
<1>3. Phases'
  BY <1>0, DownloadAssumption DEF Shape, Parts, Contents, Sidecars, Places,
    Phases, Working
<1>4. InOrder'
  BY <1>0, DownloadAssumption DEF Shape, Parts, Contents, Sidecars, Places,
    Phases, InOrder, Working, HasPart
<1>5. Written'
  BY <1>0, DownloadAssumption DEF Shape, Parts, Contents, Sidecars, Places,
    Phases, InOrder, Written, Working, HasPart
<1>6. SidecarFits'
  BY <1>0, DownloadAssumption DEF Shape, Parts, Contents, Sidecars, Places,
    Phases, InOrder, SidecarFits, BitsFit, Working, HasPart
<1>7. BitsFit'
  BY <1>0, DownloadAssumption DEF Shape, Parts, Contents, Sidecars, Places,
    Phases, InOrder, Written, SidecarFits, BitsFit, Working, HasPart
<1>8. NoneLost'
  BY <1>0, DownloadAssumption DEF Shape, Parts, Contents, Sidecars, Places,
    Phases, InOrder, NoneLost, Written, Working, HasPart
<1>9. Endings'
  BY <1>0, DownloadAssumption DEF Shape, Parts, Contents, Sidecars, Places,
    Phases, NoneLost, Endings, BitsFit, Working, InFile, Whole
<1> QED BY <1>1, <1>2, <1>3, <1>4, <1>5, <1>6, <1>7, <1>8, <1>9 DEF DownloadInv

LEMMA FlushWritesKeeps ==
  ASSUME DownloadInv, FlushWrites
  PROVE  DownloadInv'
<1> USE DEF FlushWrites, FlushEnds
<1>0. /\ Flags /\ Shape /\ Phases /\ InOrder /\ Written
     /\ SidecarFits /\ BitsFit /\ NoneLost /\ Endings
  BY DEF DownloadInv
<1>1. Flags'
  BY <1>0, DownloadAssumption DEF Flags, Shape, Sidecars
<1>2. Shape'
  <2>1. sidecar' \in Sidecars
    BY <1>0 DEF Flags, Shape, Sidecars
  <2> QED BY <2>1, <1>0 DEF Shape
<1>3. Phases'
  BY <1>0, DownloadAssumption DEF Shape, Parts, Contents, Sidecars, Places,
    Phases, Working
<1>4. InOrder'
  BY <1>0, DownloadAssumption DEF Shape, Parts, Contents, Sidecars, Places,
    Phases, InOrder, Working, HasPart
<1>5. Written'
  BY <1>0, DownloadAssumption DEF Shape, Parts, Contents, Sidecars, Places,
    Phases, InOrder, Written, Working, HasPart
<1>6. SidecarFits'
  <2>1. CASE UNCHANGED sidecar
    BY <2>1, <1>0 DEF SidecarFits
  <2>2. CASE sidecar' = [file |-> wanted, bits |-> bitmap, old |-> inherited]
    <3>1. main # "idle" /\ wanted # NoFile
      BY <1>0, DownloadAssumption DEF Phases, Shape
    <3>2. ~inherited => \A p \in bitmap : content[p] = wanted /\ durable[p] = wanted
      BY <3>1, <1>0 DEF BitsFit
    <3> QED BY <2>2, <3>1, <3>2 DEF SidecarFits
  <2> QED BY <2>1, <2>2
<1>7. BitsFit'
  BY <1>0, DownloadAssumption DEF Shape, Parts, Contents, Sidecars, Places,
    Phases, InOrder, Written, SidecarFits, BitsFit, Working, HasPart
<1>8. NoneLost'
  BY <1>0, DownloadAssumption DEF Shape, Parts, Contents, Sidecars, Places,
    Phases, InOrder, NoneLost, Written, Working, HasPart
<1>9. Endings'
  BY <1>0, DownloadAssumption DEF Shape, Parts, Contents, Sidecars, Places,
    Phases, NoneLost, Endings, BitsFit, Working, InFile, Whole
<1> QED BY <1>1, <1>2, <1>3, <1>4, <1>5, <1>6, <1>7, <1>8, <1>9 DEF DownloadInv

LEMMA StopKeeps ==
  ASSUME DownloadInv, Stop
  PROVE  DownloadInv'
<1> USE DEF Stop
<1>0. /\ Flags /\ Shape /\ Phases /\ InOrder /\ Written
     /\ SidecarFits /\ BitsFit /\ NoneLost /\ Endings
  BY DEF DownloadInv
<1>1. Flags'
  BY <1>0, DownloadAssumption DEF Flags, Shape, Sidecars
<1>2. Shape'
  BY <1>0, DownloadAssumption DEF Shape, Parts, Contents, Sidecars, Places
<1>3. Phases'
  BY <1>0, DownloadAssumption DEF Shape, Parts, Contents, Sidecars, Places,
    Phases, Working
<1>4. InOrder'
  BY <1>0, DownloadAssumption DEF Shape, Parts, Contents, Sidecars, Places,
    Phases, InOrder, Working, HasPart
<1>5. Written'
  BY <1>0, DownloadAssumption DEF Shape, Parts, Contents, Sidecars, Places,
    Phases, InOrder, Written, Working, HasPart
<1>6. SidecarFits'
  BY <1>0, DownloadAssumption DEF Shape, Parts, Contents, Sidecars, Places,
    Phases, InOrder, SidecarFits, BitsFit, Working, HasPart
<1>7. BitsFit'
  BY <1>0, DownloadAssumption DEF Shape, Parts, Contents, Sidecars, Places,
    Phases, InOrder, Written, SidecarFits, BitsFit, Working, HasPart
<1>8. NoneLost'
  BY <1>0, DownloadAssumption DEF Shape, Parts, Contents, Sidecars, Places,
    Phases, InOrder, NoneLost, Written, Working, HasPart
<1>9. Endings'
  BY <1>0, DownloadAssumption DEF Shape, Parts, Contents, Sidecars, Places,
    Phases, NoneLost, Endings, BitsFit, Working, InFile, Whole
<1> QED BY <1>1, <1>2, <1>3, <1>4, <1>5, <1>6, <1>7, <1>8, <1>9 DEF DownloadInv

LEMMA StoppedKeeps ==
  ASSUME DownloadInv, Stopped
  PROVE  DownloadInv'
<1> USE DEF Stopped, ReturnFromDownload
<1>0. /\ Flags /\ Shape /\ Phases /\ InOrder /\ Written
     /\ SidecarFits /\ BitsFit /\ NoneLost /\ Endings
  BY DEF DownloadInv
<1>1. Flags'
  BY <1>0, DownloadAssumption DEF Flags, Shape, Sidecars
<1>2. Shape'
  BY <1>0, DownloadAssumption DEF Shape, Parts, Contents, Sidecars, Places
<1>3. Phases'
  BY <1>0, DownloadAssumption DEF Shape, Parts, Contents, Sidecars, Places,
    Phases, Working
<1>4. InOrder'
  BY <1>0, DownloadAssumption DEF Shape, Parts, Contents, Sidecars, Places,
    Phases, InOrder, Working, HasPart
<1>5. Written'
  BY <1>0, DownloadAssumption DEF Shape, Parts, Contents, Sidecars, Places,
    Phases, InOrder, Written, Working, HasPart
<1>6. SidecarFits'
  BY <1>0, DownloadAssumption DEF Shape, Parts, Contents, Sidecars, Places,
    Phases, InOrder, SidecarFits, BitsFit, Working, HasPart
<1>7. BitsFit'
  BY <1>0, DownloadAssumption DEF Shape, Parts, Contents, Sidecars, Places,
    Phases, InOrder, Written, SidecarFits, BitsFit, Working, HasPart
<1>8. NoneLost'
  BY <1>0, DownloadAssumption DEF Shape, Parts, Contents, Sidecars, Places,
    Phases, InOrder, NoneLost, Written, Working, HasPart
<1>9. Endings'
  BY <1>0, DownloadAssumption DEF Shape, Parts, Contents, Sidecars, Places,
    Phases, NoneLost, Endings, BitsFit, Working, InFile, Whole
<1> QED BY <1>1, <1>2, <1>3, <1>4, <1>5, <1>6, <1>7, <1>8, <1>9 DEF DownloadInv

LEMMA SyncKeeps ==
  ASSUME DownloadInv, Sync
  PROVE  DownloadInv'
<1> USE DEF Sync, ReturnFromDownload
<1>0. /\ Flags /\ Shape /\ Phases /\ InOrder /\ Written
     /\ SidecarFits /\ BitsFit /\ NoneLost /\ Endings
  BY DEF DownloadInv
<1>1. Flags'
  BY <1>0, DownloadAssumption DEF Flags, Shape, Sidecars
<1>2. Shape'
  BY <1>0, DownloadAssumption DEF Shape, Parts, Contents, Sidecars, Places
<1>3. Phases'
  BY <1>0, DownloadAssumption DEF Shape, Parts, Contents, Sidecars, Places,
    Phases, Working
<1>4. InOrder'
  BY <1>0, DownloadAssumption DEF Shape, Parts, Contents, Sidecars, Places,
    Phases, InOrder, Working, HasPart
<1>5. Written'
  BY <1>0, DownloadAssumption DEF Shape, Parts, Contents, Sidecars, Places,
    Phases, InOrder, Written, Working, HasPart
<1>6. SidecarFits'
  BY <1>0, DownloadAssumption DEF Shape, Parts, Contents, Sidecars, Places,
    Phases, InOrder, SidecarFits, BitsFit, Working, HasPart
<1>7. BitsFit'
  BY <1>0, DownloadAssumption DEF Shape, Parts, Contents, Sidecars, Places,
    Phases, InOrder, Written, SidecarFits, BitsFit, Working, HasPart
<1>8. NoneLost'
  BY <1>0, DownloadAssumption DEF Shape, Parts, Contents, Sidecars, Places,
    Phases, InOrder, NoneLost, Written, Working, HasPart
<1>9. Endings'
  BY <1>0, DownloadAssumption DEF Shape, Parts, Contents, Sidecars, Places,
    Phases, NoneLost, Endings, BitsFit, Working, InFile, Whole
<1> QED BY <1>1, <1>2, <1>3, <1>4, <1>5, <1>6, <1>7, <1>8, <1>9 DEF DownloadInv

LEMMA RemoveKeeps ==
  ASSUME DownloadInv, Remove
  PROVE  DownloadInv'
<1> USE DEF Remove, ReturnFromDownload, NoSidecar
<1>0. /\ Flags /\ Shape /\ Phases /\ InOrder /\ Written
     /\ SidecarFits /\ BitsFit /\ NoneLost /\ Endings
  BY DEF DownloadInv
<1>1. Flags'
  BY <1>0, DownloadAssumption DEF Flags, Shape, Sidecars
<1>2. Shape'
  <2>1. NoSidecar \in Sidecars
    BY DEF NoSidecar, Sidecars
  <2> QED BY <2>1, <1>0 DEF Shape
<1>3. Phases'
  BY <1>0, DownloadAssumption DEF Shape, Parts, Contents, Sidecars, Places,
    Phases, Working
<1>4. InOrder'
  BY <1>0, DownloadAssumption DEF Shape, Parts, Contents, Sidecars, Places,
    Phases, InOrder, Working, HasPart
<1>5. Written'
  BY <1>0, DownloadAssumption DEF Shape, Parts, Contents, Sidecars, Places,
    Phases, InOrder, Written, Working, HasPart
<1>6. SidecarFits'
  BY <1>0, DownloadAssumption DEF Shape, Parts, Contents, Sidecars, Places,
    Phases, InOrder, SidecarFits, BitsFit, Working, HasPart
<1>7. BitsFit'
  BY <1>0, DownloadAssumption DEF Shape, Parts, Contents, Sidecars, Places,
    Phases, InOrder, Written, SidecarFits, BitsFit, Working, HasPart
<1>8. NoneLost'
  BY <1>0, DownloadAssumption DEF Shape, Parts, Contents, Sidecars, Places,
    Phases, InOrder, NoneLost, Written, Working, HasPart
<1>9. Endings'
  BY <1>0, DownloadAssumption DEF Shape, Parts, Contents, Sidecars, Places,
    Phases, NoneLost, Endings, BitsFit, Working, InFile, Whole
<1> QED BY <1>1, <1>2, <1>3, <1>4, <1>5, <1>6, <1>7, <1>8, <1>9 DEF DownloadInv

LEMMA CancelDownloadKeeps ==
  ASSUME DownloadInv, CancelDownload
  PROVE  DownloadInv'
<1> USE DEF CancelDownload
<1>0. /\ Flags /\ Shape /\ Phases /\ InOrder /\ Written
     /\ SidecarFits /\ BitsFit /\ NoneLost /\ Endings
  BY DEF DownloadInv
<1>1. Flags'
  BY <1>0, DownloadAssumption DEF Flags, Shape, Sidecars
<1>2. Shape'
  BY <1>0, DownloadAssumption DEF Shape, Parts, Contents, Sidecars, Places
<1>3. Phases'
  BY <1>0, DownloadAssumption DEF Shape, Parts, Contents, Sidecars, Places,
    Phases, Working
<1>4. InOrder'
  BY <1>0, DownloadAssumption DEF Shape, Parts, Contents, Sidecars, Places,
    Phases, InOrder, Working, HasPart
<1>5. Written'
  BY <1>0, DownloadAssumption DEF Shape, Parts, Contents, Sidecars, Places,
    Phases, InOrder, Written, Working, HasPart
<1>6. SidecarFits'
  BY <1>0, DownloadAssumption DEF Shape, Parts, Contents, Sidecars, Places,
    Phases, InOrder, SidecarFits, BitsFit, Working, HasPart
<1>7. BitsFit'
  BY <1>0, DownloadAssumption DEF Shape, Parts, Contents, Sidecars, Places,
    Phases, InOrder, Written, SidecarFits, BitsFit, Working, HasPart
<1>8. NoneLost'
  BY <1>0, DownloadAssumption DEF Shape, Parts, Contents, Sidecars, Places,
    Phases, InOrder, NoneLost, Written, Working, HasPart
<1>9. Endings'
  BY <1>0, DownloadAssumption DEF Shape, Parts, Contents, Sidecars, Places,
    Phases, NoneLost, Endings, BitsFit, Working, InFile, Whole
<1> QED BY <1>1, <1>2, <1>3, <1>4, <1>5, <1>6, <1>7, <1>8, <1>9 DEF DownloadInv

LEMMA CrashKeeps ==
  ASSUME DownloadInv, Crash
  PROVE  DownloadInv'
<1> USE DEF Crash, ReturnFromDownload
<1>0. /\ Flags /\ Shape /\ Phases /\ InOrder /\ Written
     /\ SidecarFits /\ BitsFit /\ NoneLost /\ Endings
  BY DEF DownloadInv
<1>1. Flags'
  BY <1>0, DownloadAssumption DEF Flags, Shape, Sidecars
<1>2. Shape'
  BY <1>0, DownloadAssumption DEF Shape, Parts, Contents, Sidecars, Places
<1>3. Phases'
  BY <1>0, DownloadAssumption DEF Shape, Parts, Contents, Sidecars, Places,
    Phases, Working
<1>4. InOrder'
  BY <1>0, DownloadAssumption DEF Shape, Parts, Contents, Sidecars, Places,
    Phases, InOrder, Working, HasPart
<1>5. Written'
  BY <1>0, DownloadAssumption DEF Shape, Parts, Contents, Sidecars, Places,
    Phases, InOrder, Written, Working, HasPart
<1>6. SidecarFits'
  BY <1>0, DownloadAssumption DEF Shape, Parts, Contents, Sidecars, Places,
    Phases, InOrder, SidecarFits, BitsFit, Working, HasPart
<1>7. BitsFit'
  BY <1>0, DownloadAssumption DEF Shape, Parts, Contents, Sidecars, Places,
    Phases, InOrder, Written, SidecarFits, BitsFit, Working, HasPart
<1>8. NoneLost'
  BY <1>0, DownloadAssumption DEF Shape, Parts, Contents, Sidecars, Places,
    Phases, InOrder, NoneLost, Written, Working, HasPart
<1>9. Endings'
  BY <1>0, DownloadAssumption DEF Shape, Parts, Contents, Sidecars, Places,
    Phases, NoneLost, Endings, BitsFit, Working, InFile, Whole
<1> QED BY <1>1, <1>2, <1>3, <1>4, <1>5, <1>6, <1>7, <1>8, <1>9 DEF DownloadInv

LEMMA DestinationLostKeeps ==
  ASSUME DownloadInv, DestinationLost
  PROVE  DownloadInv'
<1> USE DEF DestinationLost, Blank
<1>0. /\ Flags /\ Shape /\ Phases /\ InOrder /\ Written
     /\ SidecarFits /\ BitsFit /\ NoneLost /\ Endings
  BY DEF DownloadInv
<1>1. Flags'
  BY <1>0, DownloadAssumption DEF Flags, Shape, Sidecars
<1>2. Shape'
  BY <1>0, DownloadAssumption DEF Shape, Parts, Contents, Sidecars, Places
<1>3. Phases'
  BY <1>0, DownloadAssumption DEF Shape, Parts, Contents, Sidecars, Places,
    Phases, Working
<1>4. InOrder'
  BY <1>0, DownloadAssumption DEF Shape, Parts, Contents, Sidecars, Places,
    Phases, InOrder, Working, HasPart
<1>5. Written'
  BY <1>0, DownloadAssumption DEF Shape, Parts, Contents, Sidecars, Places,
    Phases, InOrder, Written, Working, HasPart
<1>6. SidecarFits'
  BY <1>0, DownloadAssumption DEF Shape, Parts, Contents, Sidecars, Places,
    Phases, InOrder, SidecarFits, BitsFit, Working, HasPart
<1>7. BitsFit'
  BY <1>0, DownloadAssumption DEF Shape, Parts, Contents, Sidecars, Places,
    Phases, InOrder, Written, SidecarFits, BitsFit, Working, HasPart
<1>8. NoneLost'
  BY <1>0, DownloadAssumption DEF Shape, Parts, Contents, Sidecars, Places,
    Phases, InOrder, NoneLost, Written, Working, HasPart
<1>9. Endings'
  BY <1>0, DownloadAssumption DEF Shape, Parts, Contents, Sidecars, Places,
    Phases, NoneLost, Endings, BitsFit, Working, InFile, Whole
<1> QED BY <1>1, <1>2, <1>3, <1>4, <1>5, <1>6, <1>7, <1>8, <1>9 DEF DownloadInv

LEMMA DownloadInvInitially == DownloadInit => DownloadInv
<1> SUFFICES ASSUME DownloadInit PROVE DownloadInv
  OBVIOUS
<1> USE DEF DownloadInit
<1>1. Flags
  BY DEF Flags
<1>2. Shape
  <2>1. sidecar \in Sidecars
    BY DEF NoSidecar, Sidecars
  <2>2. workCh \in Seq(Parts)
    OBVIOUS
  <2>3. next \in 1..PartCount + 1 /\ 1 \in Parts
    BY DownloadAssumption DEF Parts
  <2> QED BY <2>1, <2>2, <2>3 DEF Shape, Contents, Blank, Places
<1>3. Phases /\ InOrder /\ Written /\ BitsFit /\ NoneLost /\ Endings
  BY DEF Phases, InOrder, Written, BitsFit, NoneLost, Endings, Working
<1>4. SidecarFits
  BY DEF SidecarFits, NoSidecar
<1> QED BY <1>1, <1>2, <1>3, <1>4 DEF DownloadInv

LEMMA DownloadInvKept ==
  ASSUME DownloadInv, [DownloadNext]_downloadVars
  PROVE  DownloadInv'
<1>1. CASE UNCHANGED downloadVars
  BY <1>1 DEF DownloadInv, downloadVars, Flags, Shape, Phases, InOrder, Written, SidecarFits,
     BitsFit, NoneLost, Endings, Working, HasPart, InFile, Whole
<1>2. ASSUME NEW f \in Files, NEW r \in BOOLEAN, CallDownload(f, r) PROVE DownloadInv'
  BY <1>2, CallDownloadKeeps
<1>3. CASE Proceed
  BY <1>3, StartWorkersKeeps, DrainedKeeps, StopKeeps, StoppedKeeps, SyncKeeps, RemoveKeeps
     DEF Proceed
<1>4. CASE DispatchPart
  BY <1>4, DispatchPartKeeps
<1>5. CASE Flush
  BY <1>5, FlushTicksKeeps, FlushFinallyKeeps, FlushSyncsKeeps, FlushWritesKeeps DEF Flush
<1>6. ASSUME NEW w \in Fetchers, FetcherWorks(w) PROVE DownloadInv'
  BY <1>6, TakePartKeeps, FetcherLeavesKeeps, FetchKeeps, WritePartKeeps, CountKeeps, MarkKeeps
     DEF FetcherWorks
<1>7. CASE CancelDownload \/ Crash \/ DestinationLost
  BY <1>7, CancelDownloadKeeps, CrashKeeps, DestinationLostKeeps
<1> QED BY <1>1, <1>2, <1>3, <1>4, <1>5, <1>6, <1>7 DEF DownloadNext

(* What is counted never exceeds the file (the progress of a resumed       *)
(* download, too): what has been counted, is queued or is with a worker    *)
(* was skipped or handed out by the dispatcher, or is a bit ahead of it.   *)
InFlight == {w \in Fetchers : fetcher[w] \in {"fetch", "write", "count"}}
Ahead == {p \in bitmap : p >= next}

Tally ==
  /\ counted \in 0..PartCount
  /\ Working => counted + Len(workCh) + Cardinality(InFlight) <= next - 1 + Cardinality(Ahead)

Scalars ==
  /\ main \in {"idle", "start", "dispatch", "drain", "stop", "await", "sync", "remove"}
  /\ flusher \in {"off", "waiting", "syncing", "writing", "done"}
  /\ outcome \in {"none", "ok", "error"} /\ downloads \in 0..MaxDownloads

LEMMA BitmapSize ==
  ASSUME NEW B, B \subseteq Parts
  PROVE  IsFiniteSet(B) /\ Cardinality(B) \in 0..PartCount
<1>1. IsFiniteSet(Parts) /\ Cardinality(Parts) = PartCount
  BY FS_Interval, DownloadAssumption DEF Parts
<1>2. IsFiniteSet(B) /\ Cardinality(B) <= PartCount
  BY <1>1, FS_Subset
<1> QED BY <1>2, FS_CardinalityType

(* The bits ahead are at most the parts ahead. *)
LEMMA AheadFits ==
  ASSUME Shape
  PROVE  Cardinality(Ahead) \in Nat /\ next - 1 + Cardinality(Ahead) <= PartCount
<1>1. IsFiniteSet(next..PartCount) /\ Cardinality(next..PartCount) = PartCount - next + 1
  BY FS_Interval, DownloadAssumption DEF Shape
<1>2. Ahead \subseteq next..PartCount
  <2>1. \A p \in bitmap : p \in 1..PartCount
    BY DEF Shape, Parts
  <2> QED BY <2>1, DownloadAssumption DEF Shape, Ahead
<1>3. IsFiniteSet(Ahead) /\ Cardinality(Ahead) <= PartCount - next + 1
  BY <1>1, <1>2, FS_Subset
<1>4. Cardinality(Ahead) \in Nat
  BY <1>3, FS_CardinalityType
<1> QED BY <1>3, <1>4, DownloadAssumption DEF Shape

LEMMA InFlightSize ==
  /\ IsFiniteSet(InFlight) /\ Cardinality(InFlight) \in Nat
  /\ \A w \in InFlight : Cardinality(InFlight \ {w}) = Cardinality(InFlight) - 1
  /\ \A w : w \notin InFlight => Cardinality(InFlight \union {w}) = Cardinality(InFlight) + 1
<1>1. IsFiniteSet(InFlight)
  BY DownloadAssumption, FS_Subset DEF InFlight
<1> QED BY <1>1, FS_CardinalityType, FS_AddElement, FS_RemoveElement

LEMMA ScalarsKept ==
  ASSUME Scalars, [DownloadNext]_downloadVars
  PROVE  Scalars'
<1> USE DEF Scalars
<1>1. CASE UNCHANGED downloadVars
  BY <1>1 DEF downloadVars
<1>2. ASSUME NEW f \in Files, NEW r \in BOOLEAN, CallDownload(f, r) PROVE Scalars'
  BY <1>2, DownloadAssumption DEF CallDownload
<1>3. CASE Proceed
  BY <1>3 DEF Proceed, StartWorkers, Drained, Stop, Stopped, Sync, Remove, RunReturns, ReturnFromDownload
<1>4. CASE DispatchPart
  BY <1>4 DEF DispatchPart
<1>5. CASE Flush
  BY <1>5 DEF Flush, FlushTicks, FlushFinally, FlushSyncs, FlushWrites, FlushEnds
<1>6. ASSUME NEW w \in Fetchers, FetcherWorks(w) PROVE Scalars'
  BY <1>6 DEF FetcherWorks, TakePart, FetcherLeaves, Fetch, WritePart, Count, Mark
<1>7. CASE CancelDownload \/ Crash \/ DestinationLost
  BY <1>7 DEF CancelDownload, Crash, DestinationLost, ReturnFromDownload
<1> QED BY <1>1, <1>2, <1>3, <1>4, <1>5, <1>6, <1>7 DEF DownloadNext

LEMMA TallyKept ==
  ASSUME DownloadInv, Tally, [DownloadNext]_downloadVars
  PROVE  Tally'
<1>0. /\ Flags /\ Shape /\ Phases /\ InOrder /\ (Shape /\ Phases)'
      /\ counted \in Nat /\ counted <= PartCount
      /\ workCh \in Seq(Parts) /\ Len(workCh) \in Nat /\ next \in Nat
  BY DownloadInvKept DEF DownloadInv, Shape, Tally
<1>a. Cardinality(InFlight) \in Nat /\ Cardinality(Ahead) \in Nat
  BY <1>0, InFlightSize, AheadFits
<1>b. \A p \in bitmap : p \in Nat /\ p >= 1
  BY <1>0, DownloadAssumption DEF Shape, Parts
<1>1. ASSUME UNCHANGED <<counted, workCh, next, fetcher, bitmap>>, Working' => Working
      PROVE  Tally'
  BY <1>1 DEF Tally, Working, InFlight, Ahead
<1>2. ASSUME UNCHANGED counted, ~Working'
      PROVE  Tally'
  BY <1>2 DEF Tally, Working
<1>3. ASSUME NEW f \in Files, NEW r \in BOOLEAN, CallDownload(f, r)
      PROVE  Tally'
  <2>1. counted' = Cardinality(bitmap') /\ bitmap' \subseteq Parts /\ ~Working'
    BY <1>3, <1>0 DEF CallDownload, Working, Shape
  <2> QED BY <2>1, BitmapSize DEF Tally, Working
<1>4. CASE StartWorkers
  <2>1. CASE UNCHANGED workVars /\ ~Working'
    BY <2>1, <1>2
  <2>2. CASE /\ main = "start" /\ UNCHANGED <<bitmap, counted>> /\ next' = 1 /\ workCh' = <<>>
             /\ fetcher' = [w \in Fetchers |-> "recv"]
    <3>0. \A p \in bitmap : p >= 1
      BY <1>b
    <3>1. InFlight' = {} /\ Ahead' = bitmap /\ counted = Cardinality(bitmap)
      BY <2>2, <3>0, <1>0 DEF InFlight, Ahead, Phases
    <3>2. Cardinality(InFlight') = 0 /\ Len(workCh') = 0
      BY <3>1, <2>2, FS_EmptySet
    <3> QED BY <2>2, <3>1, <3>2, <1>0 DEF Tally
  <2> QED BY <1>4, <2>1, <2>2 DEF StartWorkers, RunReturns, ReturnFromDownload, Working
<1>5. CASE DispatchPart
  <2>0. Working /\ UNCHANGED <<counted, fetcher, bitmap>> /\ InFlight' = InFlight
    BY <1>5 DEF DispatchPart, Working, InFlight
  <2>1. CASE next \in bitmap /\ next' = next + 1 /\ UNCHANGED workCh
    <3>1. Ahead' = Ahead \ {next} /\ next \in Ahead /\ IsFiniteSet(Ahead)
      <4>1. Ahead' = {p \in bitmap : p >= next + 1} /\ next \in Ahead
        BY <2>0, <2>1, <1>0 DEF Ahead
      <4>2. IsFiniteSet(Ahead)
        BY <1>0, BitmapSize, FS_Subset DEF Ahead, Shape
      <4> QED BY <4>1, <4>2, <1>0, <1>b DEF Ahead
    <3>2. Cardinality(Ahead') = Cardinality(Ahead) - 1
      BY <3>1, FS_RemoveElement
    <3> QED BY <2>0, <2>1, <3>2, <1>0, <1>a DEF Tally
  <2>2. CASE workCh' = Append(workCh, next) /\ next' = next + 1 /\ next \notin bitmap
    <3>1. Ahead' = Ahead
      BY <2>0, <2>2, <1>0, <1>b DEF Ahead
    <3>2. Len(workCh') = Len(workCh) + 1
      BY <2>2, <1>0
    <3> QED BY <2>0, <2>2, <3>1, <3>2, <1>0, <1>a DEF Tally
  <2>3. CASE UNCHANGED <<next, workCh>>
    BY <2>0, <2>3, <1>1
  <2> QED BY <1>5, <1>0, <2>1, <2>2, <2>3 DEF DispatchPart, Phases
<1>6. ASSUME NEW w \in Fetchers, FetcherWorks(w)
      PROVE  Tally'
  <2>0. Working /\ UNCHANGED <<main, next>> /\ (Ahead' = Ahead)
    BY <1>6, <1>0 DEF FetcherWorks, TakePart, FetcherLeaves, Fetch, WritePart, Count, Mark, Step,
       Phases, Working, InOrder, HasPart, Ahead, Shape, Parts
  <2>1. CASE TakePart(w)
    <3>1. Len(workCh') = Len(workCh) - 1 /\ UNCHANGED counted
      BY <2>1, <1>0 DEF TakePart
    <3>2. w \notin InFlight /\ InFlight' \in {InFlight, InFlight \union {w}}
      BY <2>1, <1>0 DEF TakePart, Step, InFlight, Shape
    <3> QED BY <2>0, <3>1, <3>2, <1>0, <1>a, InFlightSize DEF Tally
  <2>2. CASE Fetch(w) \/ WritePart(w)
    <3>1. UNCHANGED <<counted, workCh>> /\ w \in InFlight /\ InFlight' \in {InFlight, InFlight \ {w}}
      BY <2>2, <1>0 DEF Fetch, WritePart, Step, InFlight, Shape
    <3> QED BY <2>0, <3>1, <1>0, <1>a, InFlightSize DEF Tally
  <2>3. CASE Count(w)
    <3>1. counted' = counted + 1 /\ UNCHANGED workCh /\ w \in InFlight /\ InFlight' = InFlight \ {w}
      BY <2>3, <1>0 DEF Count, Step, InFlight, Shape
    <3>2. Cardinality(InFlight') = Cardinality(InFlight) - 1 /\ Cardinality(InFlight') \in Nat
      BY <3>1, InFlightSize, FS_RemoveElement, FS_CardinalityType
    <3>3. counted + 1 <= PartCount
      BY <2>0, <3>2, <1>0, <1>a, AheadFits, DownloadAssumption DEF Tally
    <3> QED BY <2>0, <3>1, <3>2, <3>3, <1>0, <1>a DEF Tally
  <2>4. CASE FetcherLeaves(w) \/ Mark(w)
    <3>1. UNCHANGED <<counted, workCh>> /\ InFlight' = InFlight
      BY <2>4, <1>0 DEF FetcherLeaves, Mark, Step, InFlight, Shape
    <3> QED BY <2>0, <3>1 DEF Tally, Working
  <2> QED BY <1>6, <2>1, <2>2, <2>3, <2>4 DEF FetcherWorks
<1>7. CASE Drained \/ Stop \/ Stopped \/ Sync \/ Remove \/ Crash \/ DestinationLost
  BY <1>7, <1>2 DEF Drained, Stop, Stopped, Sync, Remove, Crash, DestinationLost, RunReturns,
     ReturnFromDownload, Working
<1>8. CASE Flush \/ CancelDownload \/ UNCHANGED downloadVars
  BY <1>8, <1>1 DEF Flush, FlushTicks, FlushFinally, FlushSyncs, FlushWrites, CancelDownload,
     downloadVars, Working
<1> QED BY <1>3, <1>4, <1>5, <1>6, <1>7, <1>8 DEF DownloadNext, Proceed

-----------------------------------------------------------------------------
(* Uploads.  As long as nobody has given up, a part that was read is on    *)
(* the server, in the channel or with a worker (NoChunkLost); a worker     *)
(* leaves early, or drops parts, only after an error.                      *)

UploadShape ==
  /\ nextChunk \in 1..UploadCount + 1 /\ partCh \in Seq(Chunks)
  /\ uploader \in [Uploaders -> {"recv", "send", "drain", "gone"}]
  /\ chunk \in [Uploaders -> Chunks] /\ stored \subseteq Chunks
  /\ reading \in {"read", "offer"} => nextChunk \in Chunks

(* A part that is offered has been read. *)
ReadInOrder ==
  digest = [i \in 1..(IF reading = "offer" THEN nextChunk ELSE nextChunk - 1) |-> i]

NoChunkLost ==
  ~fatal /\ ~called /\ reading # "returned" =>
    /\ \A c \in Chunks : c < nextChunk =>
         \/ c \in stored
         \/ \E i \in 1..Len(partCh) : partCh[i] = c
         \/ \E w \in Uploaders : uploader[w] = "send" /\ chunk[w] = c
    /\ reading = "drain" => nextChunk = UploadCount + 1
    /\ \A w \in Uploaders : uploader[w] \notin {"recv", "send"} =>
         uploader[w] = "gone" /\ reading = "drain" /\ partCh = <<>>

UploadEnds ==
  /\ reading = "returned" => \A w \in Uploaders : uploader[w] = "gone"
  /\ uploaded = "ok" => reading = "returned"
  /\ UploadWhole

UploadInv == UploadShape /\ ReadInOrder /\ NoChunkLost /\ UploadEnds

USE DEF sendVars, readVars

LEMMA UploadInvInitially == UploadInit => UploadInv
<1> SUFFICES ASSUME UploadInit PROVE UploadInv
  OBVIOUS
<1>1. 1 \in Chunks /\ 1 \in 1..UploadCount + 1 /\ partCh \in Seq(Chunks)
  BY UploadAssumption DEF UploadInit, Chunks
<1>2. UploadShape
  BY <1>1 DEF UploadInit, UploadShape
<1>3. digest = [i \in 1..0 |-> i]
  BY DEF UploadInit
<1>4. NoChunkLost
  BY <1>1, UploadAssumption DEF UploadInit, NoChunkLost, Chunks
<1> QED BY <1>2, <1>3, <1>4 DEF UploadInit, UploadInv, ReadInOrder, UploadEnds, UploadWhole

LEMMA UploadReadKeeps ==
  ASSUME UploadInv, NextChunk \/ ReadChunk \/ ReadFails
  PROVE  UploadInv'
<1>0. /\ UploadShape /\ ReadInOrder /\ NoChunkLost /\ UploadEnds
      /\ reading \in {"dispatch", "read"} /\ UNCHANGED <<sendVars, nextChunk, partCh, called, uploaded>>
  BY DEF UploadInv, NextChunk, ReadChunk, ReadFails
<1>1. CASE NextChunk
  <2>1. reading' \in {"read", "drain"} /\ UNCHANGED <<digest, fatal>>
    BY <1>1 DEF NextChunk
  <2>2. reading' = "drain" /\ ~fatal /\ ~called => nextChunk = UploadCount + 1
    BY <1>0, <1>1, UploadAssumption DEF NextChunk, UploadOff, UploadShape, Chunks
  <2>3. UploadShape'
    BY <1>0, <1>1 DEF NextChunk, UploadShape
  <2> QED
    BY <1>0, <2>1, <2>2, <2>3, <1>1 DEF NextChunk, UploadInv, ReadInOrder, NoChunkLost, UploadEnds, UploadWhole
<1>2. CASE ReadChunk
  <2>1. reading = "read" /\ reading' = "offer" /\ digest' = Append(digest, nextChunk) /\ UNCHANGED fatal
    BY <1>2 DEF ReadChunk
  <2>2. nextChunk \in Nat \ {0} /\ digest = [i \in 1..nextChunk - 1 |-> i]
    BY <1>0, <2>1 DEF UploadShape, ReadInOrder, Chunks
  <2>3. digest' = [i \in 1..nextChunk |-> i]
    BY <2>1, <2>2
  <2> QED
    BY <1>0, <2>1, <2>3 DEF UploadInv, UploadShape, ReadInOrder, NoChunkLost, UploadEnds, UploadWhole
<1>3. CASE ReadFails
  BY <1>0, <1>3 DEF ReadFails, UploadInv, UploadShape, ReadInOrder, NoChunkLost, UploadEnds, UploadWhole
<1> QED BY <1>1, <1>2, <1>3

LEMMA OfferChunkKeeps ==
  ASSUME UploadInv, OfferChunk
  PROVE  UploadInv'
<1>0. /\ UploadShape /\ ReadInOrder /\ NoChunkLost /\ UploadEnds
      /\ UNCHANGED <<sendVars, called, uploaded>>
  BY DEF UploadInv, OfferChunk
<1>1. /\ reading = "offer" /\ reading' = "dispatch"
      /\ nextChunk \in Chunks /\ nextChunk' = nextChunk + 1
      /\ UNCHANGED <<digest, fatal>>
      /\ \/ partCh' = Append(partCh, nextChunk)
         \/ (fatal \/ called) /\ UNCHANGED partCh
  BY <1>0 DEF OfferChunk, UploadOff, UploadShape
<1>2. partCh' \in Seq(Chunks)
  BY <1>0, <1>1 DEF UploadShape
<1>3. UploadShape'
  BY <1>0, <1>1, <1>2, UploadAssumption DEF UploadShape, Chunks
<1>4. ReadInOrder'
  BY <1>0, <1>1 DEF ReadInOrder, UploadShape, Chunks
<1>5. NoChunkLost'
  <2> SUFFICES ASSUME ~fatal, ~called PROVE NoChunkLost'
    BY <1>0, <1>1 DEF NoChunkLost
  <2>1. /\ Len(partCh) \in Nat /\ Len(partCh') = Len(partCh) + 1
        /\ \A i \in 1..Len(partCh) : partCh'[i] = partCh[i]
        /\ partCh'[Len(partCh) + 1] = nextChunk
    BY <1>0, <1>1 DEF UploadShape
  <2>2. ASSUME NEW c \in Chunks, c < nextChunk'
        PROVE  \/ c \in stored
               \/ \E i \in 1..Len(partCh') : partCh'[i] = c
               \/ \E w \in Uploaders : uploader[w] = "send" /\ chunk[w] = c
    <3>1. CASE c = nextChunk
      BY <2>1, <3>1
    <3>2. CASE c < nextChunk
      BY <1>0, <1>1, <2>1, <3>2 DEF NoChunkLost
    <3> QED BY <2>2, <1>1, <3>1, <3>2 DEF Chunks
  <2> QED BY <1>0, <1>1, <2>2 DEF NoChunkLost
<1> QED BY <1>0, <1>1, <1>3, <1>4, <1>5 DEF UploadInv, UploadEnds, UploadWhole

LEMMA UploadReturnsKeeps ==
  ASSUME UploadInv, UploadReturns
  PROVE  UploadInv'
<1>0. /\ UploadShape /\ ReadInOrder /\ NoChunkLost /\ UploadEnds
      /\ reading = "drain" /\ \A w \in Uploaders : uploader[w] = "gone"
  BY DEF UploadInv, UploadReturns
<1>1. ASSUME uploaded' = "ok"
      PROVE  stored = Chunks /\ digest = [i \in Chunks |-> i]
  <2>1. ~fatal /\ ~called
    BY <1>1 DEF UploadReturns
  <2>2. PICK w \in Uploaders : uploader[w] = "gone"
    BY <1>0, UploadAssumption
  <2>3. nextChunk = UploadCount + 1 /\ partCh = <<>>
    BY <1>0, <2>1, <2>2 DEF NoChunkLost
  <2>4. \A c \in Chunks : c < nextChunk /\ c \notin {partCh[i] : i \in 1..Len(partCh)}
    BY <2>3, UploadAssumption DEF Chunks
  <2>5. Chunks \subseteq stored
    BY <1>0, <2>1, <2>4 DEF NoChunkLost
  <2>6. 1..nextChunk - 1 = Chunks
    BY <2>3, UploadAssumption DEF Chunks
  <2> QED BY <1>0, <2>5, <2>6 DEF ReadInOrder, UploadShape
<1> QED BY <1>0, <1>1 DEF UploadReturns, UploadInv, UploadShape, ReadInOrder, NoChunkLost, UploadEnds, UploadWhole

LEMMA TakeChunkKeeps ==
  ASSUME NEW w \in Uploaders, UploadInv, TakeChunk(w)
  PROVE  UploadInv'
<1>0. /\ UploadShape /\ ReadInOrder /\ NoChunkLost /\ UploadEnds
      /\ partCh # <<>> /\ partCh' = Tail(partCh) /\ UNCHANGED <<stored, readVars, fatal, called>>
      /\ uploader[w] \in {"recv", "drain"}
      /\ reading # "returned"
  BY DEF UploadInv, TakeChunk, UploadEnds
<1>1. /\ partCh \in Seq(Chunks) /\ Len(partCh) \in Nat /\ Len(partCh') = Len(partCh) - 1
      /\ \A i \in 1..Len(partCh') : partCh'[i] = partCh[i + 1]
      /\ Head(partCh) = partCh[1] /\ partCh[1] \in Chunks /\ partCh' \in Seq(Chunks)
  BY <1>0 DEF UploadShape
<1>2. CASE uploader[w] = "recv"
  <2>1. /\ uploader' = [uploader EXCEPT ![w] = "send"]
        /\ chunk' = [chunk EXCEPT ![w] = partCh[1]]
    BY <1>1, <1>2 DEF TakeChunk, UploaderGoes
  <2>2. UploadShape'
    BY <1>0, <1>1, <2>1 DEF UploadShape
  <2>3. NoChunkLost'
    <3> SUFFICES ASSUME ~fatal, ~called PROVE NoChunkLost'
      BY <1>0 DEF NoChunkLost
    <3>1. ASSUME NEW c \in Chunks, c < nextChunk
          PROVE  \/ c \in stored
                 \/ \E i \in 1..Len(partCh') : partCh'[i] = c
                 \/ \E v \in Uploaders : uploader'[v] = "send" /\ chunk'[v] = c
      <4>1. CASE \E i \in 1..Len(partCh) : partCh[i] = c
        <5>1. PICK i \in 1..Len(partCh) : partCh[i] = c
          BY <4>1
        <5>2. CASE i = 1
          BY <1>0, <2>1, <5>1, <5>2 DEF UploadShape
        <5>3. CASE i # 1
          <6>1. i - 1 \in 1..Len(partCh') /\ partCh'[i - 1] = c
            BY <1>1, <5>1, <5>3
          <6> QED BY <6>1
        <5> QED BY <5>2, <5>3
      <4>2. CASE \E v \in Uploaders : uploader[v] = "send" /\ chunk[v] = c
        BY <1>0, <1>2, <2>1, <4>2 DEF UploadShape
      <4> QED BY <1>0, <3>1, <4>1, <4>2 DEF NoChunkLost
    <3>2. \A v \in Uploaders : uploader'[v] \notin {"recv", "send"} => uploader[v] \notin {"recv", "send"}
      BY <1>0, <2>1 DEF UploadShape
    <3> QED BY <1>0, <3>1, <3>2 DEF NoChunkLost
  <2> QED BY <1>0, <2>2, <2>3 DEF UploadInv, ReadInOrder, UploadEnds, UploadWhole
<1>3. CASE uploader[w] = "drain" /\ UNCHANGED <<uploader, chunk>>
  <2>1. fatal \/ called
    BY <1>0, <1>3 DEF NoChunkLost
  <2> QED BY <1>0, <1>1, <1>3, <2>1 DEF UploadInv, UploadShape, ReadInOrder, NoChunkLost, UploadEnds, UploadWhole
<1> QED BY <1>0, <1>2, <1>3 DEF TakeChunk

LEMMA UploaderLeavesKeeps ==
  ASSUME NEW w \in Uploaders, UploadInv, UploaderLeaves(w)
  PROVE  UploadInv'
<1>0. UploadShape /\ ReadInOrder /\ NoChunkLost /\ UploadEnds
  BY DEF UploadInv
<1>1. UploadShape' /\ \A v \in Uploaders : (uploader'[v] = "send") = (uploader[v] = "send")
  BY <1>0 DEF UploaderLeaves, UploadShape
<1>2. NoChunkLost'
  BY <1>0, <1>1 DEF UploaderLeaves, NoChunkLost, UploadShape
<1> QED BY <1>0, <1>1, <1>2 DEF UploaderLeaves, UploadInv, UploadShape, ReadInOrder, UploadEnds, UploadWhole

LEMMA SendChunkKeeps ==
  ASSUME NEW w \in Uploaders, UploadInv, SendChunk(w)
  PROVE  UploadInv'
<1>0. /\ UploadShape /\ ReadInOrder /\ NoChunkLost /\ UploadEnds
      /\ uploader[w] = "send" /\ UNCHANGED <<readVars, partCh, called, chunk>>
      /\ stored' \in {stored, stored \union {chunk[w]}} /\ reading # "returned"
  BY DEF UploadInv, SendChunk, GiveUp, UploadEnds
<1>1. CASE uploader' = [uploader EXCEPT ![w] = "recv"] /\ stored' = stored \union {chunk[w]} /\ UNCHANGED fatal
  <2>1. UploadShape'
    BY <1>0, <1>1 DEF UploadShape
  <2>2. NoChunkLost'
    BY <1>0, <1>1 DEF NoChunkLost, UploadShape
  <2> QED BY <1>0, <2>1, <2>2 DEF UploadInv, ReadInOrder, UploadEnds, UploadWhole
<1>2. CASE uploader' = [uploader EXCEPT ![w] = "drain"] /\ fatal'
  <2>1. UploadShape'
    BY <1>0, <1>2 DEF UploadShape
  <2> QED BY <1>0, <1>2, <2>1 DEF UploadInv, ReadInOrder, NoChunkLost, UploadEnds, UploadWhole
<1>3. CASE UNCHANGED <<uploader, fatal>>
  <2>1. UploadShape'
    BY <1>0, <1>3 DEF UploadShape
  <2>2. NoChunkLost'
    BY <1>0, <1>3 DEF NoChunkLost
  <2> QED BY <1>0, <2>1, <2>2 DEF UploadInv, ReadInOrder, UploadEnds, UploadWhole
<1> QED BY <1>1, <1>2, <1>3 DEF SendChunk, GiveUp, UploaderGoes

LEMMA UploadInvKept ==
  ASSUME UploadInv, [UploadNext]_uploadVars
  PROVE  UploadInv'
<1>1. CASE CancelUpload \/ UNCHANGED uploadVars
  BY <1>1 DEF CancelUpload, uploadVars, UploadInv, UploadShape, ReadInOrder, NoChunkLost, UploadEnds, UploadWhole
<1>2. CASE UploadRead
  BY <1>2, UploadReadKeeps, OfferChunkKeeps, UploadReturnsKeeps DEF UploadRead
<1>3. ASSUME NEW w \in Uploaders, UploadWork(w) PROVE UploadInv'
  BY <1>3, TakeChunkKeeps, UploaderLeavesKeeps, SendChunkKeeps DEF UploadWork
<1> QED BY <1>1, <1>2, <1>3 DEF UploadNext

LEMMA UploadTypesInitially == UploadInit => UploadTypeOK
<1> SUFFICES ASSUME UploadInit PROVE UploadTypeOK
  OBVIOUS
<1>1. /\ digest \in Seq(Chunks) /\ partCh \in Seq(Chunks) /\ Len(partCh) <= UploadRoom
      /\ 1 \in Chunks /\ 1 \in 1..UploadCount + 1 /\ 0 \in 0..UploadTries - 1
  BY UploadAssumption DEF UploadInit, Chunks
<1> QED BY <1>1 DEF UploadInit, UploadTypeOK

LEMMA UploadTypesKept ==
  ASSUME UploadTypeOK, UploadInv, [UploadNext]_uploadVars
  PROVE  UploadTypeOK'
<1> USE DEF UploadTypeOK
<1>0. reading \in {"read", "offer"} => nextChunk \in Chunks /\ nextChunk + 1 \in 1..UploadCount + 1
  BY UploadAssumption DEF UploadInv, UploadShape, Chunks
<1>1. CASE UNCHANGED uploadVars
  BY <1>1 DEF uploadVars
<1>2. CASE ReadChunk
  <2>1. digest' \in Seq(Chunks)
    BY <1>0, <1>2 DEF ReadChunk
  <2> QED BY <1>2, <2>1 DEF ReadChunk
<1>7. CASE OfferChunk
  <2>1. nextChunk' \in 1..UploadCount + 1 /\ nextChunk \in Chunks
    BY <1>0, <1>7 DEF OfferChunk
  <2>2. partCh' \in Seq(Chunks) /\ Len(partCh') <= UploadRoom
    <3>1. CASE Len(partCh) < UploadRoom /\ partCh' = Append(partCh, nextChunk)
      <4>1. partCh' \in Seq(Chunks) /\ Len(partCh') = Len(partCh) + 1
        BY <2>1, <3>1
      <4> QED BY <3>1, <4>1, UploadAssumption
    <3>2. CASE UNCHANGED partCh
      BY <3>2
    <3> QED BY <1>7, <3>1, <3>2 DEF OfferChunk
  <2> QED BY <1>7, <2>1, <2>2 DEF OfferChunk
<1>3. CASE NextChunk \/ ReadFails \/ UploadReturns \/ CancelUpload
  BY <1>3 DEF NextChunk, ReadFails, UploadReturns, CancelUpload
<1>4. ASSUME NEW w \in Uploaders, TakeChunk(w) PROVE UploadTypeOK'
  <2>1. partCh' \in Seq(Chunks) /\ Len(partCh') <= UploadRoom /\ Head(partCh) \in Chunks
    BY <1>4, UploadAssumption DEF TakeChunk
  <2>2. 0 \in 0..UploadTries - 1
    BY UploadAssumption
  <2> QED BY <1>4, <2>1, <2>2 DEF TakeChunk, UploaderGoes
<1>5. ASSUME NEW w \in Uploaders, UploaderLeaves(w) PROVE UploadTypeOK'
  BY <1>5 DEF UploaderLeaves
<1>6. ASSUME NEW w \in Uploaders, SendChunk(w) PROVE UploadTypeOK'
  <2>1. stored' \subseteq Chunks
    BY <1>6 DEF SendChunk, GiveUp
  <2>2. tries' \in [Uploaders -> 0..UploadTries - 1]
    BY <1>6, UploadAssumption DEF SendChunk, GiveUp
  <2>3. uploader' \in [Uploaders -> {"recv", "send", "drain", "gone"}]
    BY <1>6 DEF SendChunk, UploaderGoes, GiveUp
  <2> QED BY <1>6, <2>1, <2>2, <2>3 DEF SendChunk, GiveUp
<1> QED BY <1>1, <1>2, <1>3, <1>4, <1>5, <1>6, <1>7 DEF UploadNext, UploadRead, UploadWork

-----------------------------------------------------------------------------
(* The pools of the data centres.  A key of dcPoolPending stands for the   *)
(* one goroutine that makes the pool (Makers); until it has stored it      *)
(* there is none, so that the pool it stores is never a second one.        *)

Making == {"make", "store", "made", "unmade"}

DcShape ==
  /\ fileDC \in Dcs \union {NoDc} /\ home \in Dcs \union {NoDc}
  /\ dcPools \in [Dcs -> 0..MaxPools] /\ dcPoolPending \subseteq Dcs
  /\ getter \in [Getters -> {"read", "look", "wait", "make", "store", "made", "unmade", "send", "gone"}]
  /\ seen \in [Getters -> Dcs \union {NoDc}] /\ usedPool \in [Getters -> 0..MaxPools]
  /\ openPools \subseteq 1..MaxPools /\ poolsMade \in 0..MaxPools
  /\ \A g \in Getters : getter[g] \in Making \union {"look", "wait"} => seen[g] \in Dcs

OneMaker ==
  /\ \A g, h \in Getters : getter[g] \in Making /\ getter[h] \in Making /\ seen[g] = seen[h] => g = h
  /\ \A d \in dcPoolPending : \E h \in Getters : getter[h] \in Making /\ seen[h] = d
  /\ \A g \in Getters : getter[g] \in Making \union {"wait"} => seen[g] \in dcPoolPending
  /\ \A g \in Getters : getter[g] \in {"make", "store"} => dcPools[seen[g]] = 0

PoolsInUse ==
  /\ \A d \in Dcs : dcPools[d] # 0 => dcPools[d] \in openPools
  /\ \A g \in Getters : getter[g] = "store" => usedPool[g] \in openPools
  /\ \A g \in Getters : getter[g] = "made" \/ (getter[g] = "send" /\ seen[g] # NoDc) =>
       usedPool[g] \in openPools
  /\ \A p \in openPools : (\E d \in Dcs : p = dcPools[d]) \/ \E g \in Getters : getter[g] = "store" /\ p = usedPool[g]
  /\ settled => openPools = {} /\ \A g \in Getters : getter[g] = "gone"

DcInv == DcShape /\ OneMaker /\ PoolsInUse

USE DEF dcRest

LEMMA DcInvInitially == DcInit => DcInv
  BY DcPoolsAssumption DEF DcInit, DcInv, DcShape, OneMaker, PoolsInUse, Making

LEMMA ReadDCKeeps ==
  ASSUME NEW g \in Getters, DcInv, ReadDC(g)
  PROVE  DcInv'
<1>0. DcShape /\ OneMaker /\ PoolsInUse
  BY DEF DcInv
<1> USE DEF ReadDC, GetterGoes
<1>1. DcShape'
  BY <1>0, DcPoolsAssumption DEF DcShape, Making
<1>2. OneMaker'
  BY <1>0 DEF DcShape, OneMaker, Making
<1>3. PoolsInUse'
  BY <1>0 DEF DcShape, PoolsInUse
<1> QED BY <1>1, <1>2, <1>3 DEF DcInv

LEMMA LookPoolKeeps ==
  ASSUME NEW g \in Getters, DcInv, LookPool(g)
  PROVE  DcInv'
<1>0. DcShape /\ OneMaker /\ PoolsInUse
  BY DEF DcInv
<1> USE DEF LookPool, GetterGoes
<1>1. DcShape'
  BY <1>0, DcPoolsAssumption DEF DcShape, Making
<1>2. OneMaker'
  BY <1>0 DEF DcShape, OneMaker, Making
<1>3. PoolsInUse'
  BY <1>0 DEF DcShape, PoolsInUse
<1> QED BY <1>1, <1>2, <1>3 DEF DcInv

LEMMA MakePoolKeeps ==
  ASSUME NEW g \in Getters, DcInv, MakePool(g)
  PROVE  DcInv'
<1>0. /\ DcShape /\ OneMaker /\ PoolsInUse /\ getter[g] = "make"
      /\ UNCHANGED <<fileDC, dcPools, dcPoolPending, home, seen, settled>>
  BY DEF DcInv, MakePool, GetterGoes
<1>1. CASE /\ getter' = [getter EXCEPT ![g] = "store"] /\ poolsMade < MaxPools
           /\ poolsMade' = poolsMade + 1 /\ usedPool' = [usedPool EXCEPT ![g] = poolsMade']
           /\ openPools' = openPools \union {poolsMade'}
  <2>1. poolsMade' \in 1..MaxPools
    BY <1>0, <1>1, DcPoolsAssumption DEF DcShape
  <2>2. DcShape'
    BY <1>0, <1>1, <2>1 DEF DcShape, Making
  <2>3. OneMaker'
    BY <1>0, <1>1 DEF DcShape, OneMaker, Making
  <2>4. PoolsInUse'
    BY <1>0, <1>1 DEF DcShape, PoolsInUse
  <2> QED BY <2>2, <2>3, <2>4 DEF DcInv
<1>2. CASE getter' = [getter EXCEPT ![g] = "unmade"] /\ UNCHANGED <<poolsMade, usedPool, openPools>>
  <2>1. DcShape'
    BY <1>0, <1>2 DEF DcShape, Making
  <2>2. OneMaker'
    BY <1>0, <1>2 DEF DcShape, OneMaker, Making
  <2>3. PoolsInUse'
    BY <1>0, <1>2 DEF DcShape, PoolsInUse
  <2> QED BY <2>1, <2>2, <2>3 DEF DcInv
<1> QED BY <1>1, <1>2 DEF MakePool, GetterGoes

LEMMA StorePoolKeeps ==
  ASSUME NEW g \in Getters, DcInv, StorePool(g)
  PROVE  DcInv'
<1>0. DcShape /\ OneMaker /\ PoolsInUse
  BY DEF DcInv
<1> USE DEF StorePool, GetterGoes
<1>1. DcShape'
  BY <1>0, DcPoolsAssumption DEF DcShape, Making
<1>2. OneMaker'
  BY <1>0 DEF DcShape, OneMaker, Making
<1>3. PoolsInUse'
  <2>1. /\ dcPools[seen[g]] = 0 /\ seen[g] \in Dcs /\ getter[g] = "store"
        /\ dcPools' = [dcPools EXCEPT ![seen[g]] = usedPool[g]]
        /\ getter' = [getter EXCEPT ![g] = "made"] /\ UNCHANGED <<openPools, usedPool, seen, settled>>
    BY <1>0 DEF DcShape, OneMaker, Making
  <2> HIDE DEF StorePool
  <2>2. usedPool[g] \in openPools /\ 0 \notin openPools
    BY <1>0, <2>1 DEF DcShape, PoolsInUse
  <2>3. ASSUME NEW p \in openPools
        PROVE  (\E d \in Dcs : p = dcPools'[d]) \/ \E h \in Getters : getter'[h] = "store" /\ p = usedPool[h]
    BY <1>0, <2>1, <2>2 DEF DcShape, PoolsInUse
  <2> QED BY <1>0, <2>1, <2>2, <2>3 DEF DcShape, PoolsInUse
<1> QED BY <1>1, <1>2, <1>3 DEF DcInv

LEMMA UnmarkKeeps ==
  ASSUME NEW g \in Getters, DcInv, Unmark(g)
  PROVE  DcInv'
<1>0. DcShape /\ OneMaker /\ PoolsInUse
  BY DEF DcInv
<1> USE DEF Unmark, Woken, CountFailure, AfterFailure
<1>1. DcShape'
  BY <1>0, DcPoolsAssumption DEF DcShape, Making
<1>2. OneMaker'
  BY <1>0 DEF DcShape, OneMaker, Making
<1>3. PoolsInUse'
  BY <1>0 DEF DcShape, PoolsInUse
<1> QED BY <1>1, <1>2, <1>3 DEF DcInv

LEMMA SendRequestKeeps ==
  ASSUME NEW g \in Getters, DcInv, SendRequest(g)
  PROVE  DcInv'
<1>0. DcShape /\ OneMaker /\ PoolsInUse
  BY DEF DcInv
<1> USE DEF SendRequest, GetterGoes, CountFailure, AfterFailure
<1>1. DcShape'
  BY <1>0, DcPoolsAssumption DEF DcShape, Making
<1>2. OneMaker'
  BY <1>0 DEF DcShape, OneMaker, Making
<1>3. PoolsInUse'
  BY <1>0 DEF DcShape, PoolsInUse
<1> QED BY <1>1, <1>2, <1>3 DEF DcInv

LEMMA DcInvKept ==
  ASSUME DcInv, [DcNext]_dcVars
  PROVE  DcInv'
<1>0. DcShape /\ OneMaker /\ PoolsInUse
  BY DEF DcInv
<1>1. CASE UNCHANGED dcVars
  BY <1>0, <1>1 DEF dcVars, DcInv, DcShape, OneMaker, PoolsInUse
<1>2. ASSUME NEW g \in Getters, GetterMoves(g) PROVE DcInv'
  BY <1>2, ReadDCKeeps, LookPoolKeeps, MakePoolKeeps, StorePoolKeeps, UnmarkKeeps, SendRequestKeeps
     DEF GetterMoves
<1>3. ASSUME NEW g \in Getters, StopWaiting(g) PROVE DcInv'
  <2>1. DcShape'
    BY <1>0, <1>3 DEF StopWaiting, GetterGoes, DcShape, Making
  <2>2. OneMaker'
    BY <1>0, <1>3 DEF StopWaiting, GetterGoes, DcShape, OneMaker, Making
  <2>3. PoolsInUse'
    BY <1>0, <1>3 DEF StopWaiting, GetterGoes, DcShape, PoolsInUse
  <2> QED BY <2>1, <2>2, <2>3 DEF DcInv
<1>4. CASE CloseDCPools
  <2>1. DcShape'
    <3>1. dcPools' \in [Dcs -> 0..MaxPools]
      BY <1>4, DcPoolsAssumption DEF CloseDCPools
    <3>2. openPools' \subseteq 1..MaxPools
      BY <1>0, <1>4 DEF CloseDCPools, DcShape
    <3> QED BY <1>0, <1>4, <3>1, <3>2 DEF CloseDCPools, DcShape
  <2>2. OneMaker'
    BY <1>0, <1>4 DEF CloseDCPools, DcShape, OneMaker, Making
  <2>3. PoolsInUse'
    BY <1>0, <1>4 DEF CloseDCPools, DcShape, PoolsInUse
  <2> QED BY <2>1, <2>2, <2>3 DEF DcInv
<1>5. ASSUME NEW d \in Dcs, FileMoves(d) PROVE DcInv'
  BY <1>0, <1>5 DEF FileMoves, DcInv, DcShape, OneMaker, PoolsInUse
<1> QED BY <1>1, <1>2, <1>3, <1>4, <1>5 DEF DcNext

LEMMA OnePoolEachFollows == DcInv => OnePoolEach
  BY DEF DcInv, DcShape, OneMaker, PoolsInUse, OnePoolEach, Making

-----------------------------------------------------------------------------
(* The pacer.  Nobody waits for room unless a request is under way, since  *)
(* the limits are never below one, and its end wakes everybody.            *)

Flying == {a \in Askers : asker[a] = "send"}

PacerInv == PacerTypeOK /\ RoomIsReturned

LEMMA FlyingSize ==
  /\ IsFiniteSet(Flying) /\ Cardinality(Flying) \in Nat
  /\ Cardinality(Flying) <= Cardinality(Askers)
  /\ \A a \in Flying : Cardinality(Flying \ {a}) = Cardinality(Flying) - 1
  /\ \A a : a \notin Flying => Cardinality(Flying \union {a}) = Cardinality(Flying) + 1
<1>1. IsFiniteSet(Flying) /\ Cardinality(Flying) <= Cardinality(Askers)
  BY PacerAssumption, FS_Subset DEF Flying
<1> QED BY <1>1, FS_CardinalityType, FS_AddElement, FS_RemoveElement

LEMMA PacerInvInitially == PacerInit => PacerInv
<1> SUFFICES ASSUME PacerInit PROVE PacerInv
  OBVIOUS
<1>1. Flying = {} /\ Cardinality(Flying) = 0
  BY FS_EmptySet DEF PacerInit, Flying
<1>2. Cardinality(Askers) \in Nat
  BY PacerAssumption, FS_CardinalityType
<1>3. PacerTypeOK
  <2>1. /\ 0 \in 0..Cardinality(Askers) /\ 2 \in 1..MaxWindow /\ MaxWindow \in 2..MaxWindow
        /\ 0 \in 0..3 /\ 0 \in 0..MaxAsks
    BY <1>2, PacerAssumption
  <2> QED BY <2>1 DEF PacerInit, PacerTypeOK
<1>4. RoomIsReturned
  BY <1>1 DEF PacerInit, RoomIsReturned, Flying
<1> QED BY <1>3, <1>4 DEF PacerInv

LEMMA AcquireKeeps ==
  ASSUME NEW a \in Askers, PacerInv, Acquire(a)
  PROVE  PacerInv'
<1>0. /\ PacerTypeOK /\ RoomIsReturned /\ flying = Cardinality(Flying)
      /\ a \notin Flying /\ UNCHANGED <<window, rated, slow, blocked, probe, asks>>
  BY DEF PacerInv, Acquire, RoomIsReturned, Flying
<1>1. CASE /\ asker' = [asker EXCEPT ![a] = "send"] /\ flying' = flying + 1
           /\ current' = current \union {a} /\ spaced' \in BOOLEAN
  <2>1. Flying' = Flying \union {a}
    BY <1>0, <1>1 DEF PacerTypeOK, Flying
  <2>2. Cardinality(Flying') = flying + 1 /\ flying + 1 \in 0..Cardinality(Askers)
    <3>1. Cardinality(Flying') = Cardinality(Flying) + 1
      BY <1>0, <2>1, FlyingSize
    <3>2. Flying' \subseteq Askers
      BY DEF Flying
    <3>3. Cardinality(Flying') <= Cardinality(Askers) /\ Cardinality(Askers) \in Nat
      BY <3>2, PacerAssumption, FS_Subset, FS_CardinalityType
    <3> QED BY <1>0, <3>1, <3>3, FlyingSize
  <2>3. PacerTypeOK'
    BY <1>0, <1>1, <2>2 DEF PacerTypeOK
  <2>4. RoomIsReturned'
    BY <1>0, <1>1, <2>2 DEF PacerTypeOK, RoomIsReturned, Flying
  <2> QED BY <2>3, <2>4 DEF PacerInv
<1>2. CASE /\ flying < Least(Least(window, rated), AskerLimit) => spaced \/ blocked
           /\ asker' = [asker EXCEPT ![a] = IF spaced \/ blocked THEN "time" ELSE "room"]
           /\ UNCHANGED <<current, flying, spaced>>
  <2>1. Flying' = Flying
    BY <1>0, <1>2 DEF PacerTypeOK, Flying
  <2>2. PacerTypeOK'
    BY <1>0, <1>2 DEF PacerTypeOK
  <2>3. ~spaced /\ ~blocked => flying > 0
    BY <1>0, <1>2, PacerAssumption DEF PacerTypeOK, Least
  <2>4. RoomIsReturned'
    BY <1>0, <1>2, <2>1, <2>3 DEF PacerTypeOK, RoomIsReturned, Flying
  <2> QED BY <2>2, <2>4 DEF PacerInv
<1> QED BY <1>1, <1>2 DEF Acquire

(* Whatever is learnt from the answer. *)
LEMMA RequestReturnsKeeps ==
  ASSUME NEW a \in Askers, PacerInv, RequestReturns(a),
         current' \subseteq current \ {a}
  PROVE  /\ RoomIsReturned'
         /\ asker' \in [Askers -> {"idle", "ask", "room", "time", "send"}]
         /\ current' \subseteq Askers /\ flying' \in 0..Cardinality(Askers)
<1>0. /\ PacerTypeOK /\ RoomIsReturned /\ flying = Cardinality(Flying) /\ a \in Flying
      /\ flying' = flying - 1 /\ asker' = WokenBy(a)
  BY DEF PacerInv, RequestReturns, RoomIsReturned, Flying
<1>1. Flying' = Flying \ {a} /\ \A x \in Askers : asker'[x] # "room"
  BY <1>0 DEF PacerTypeOK, WokenBy, Flying
<1>2. Cardinality(Flying') = flying - 1 /\ flying - 1 \in 0..Cardinality(Askers)
  <2>1. Cardinality(Flying') \in Nat
    BY <1>1, FlyingSize, FS_RemoveElement, FS_CardinalityType
  <2>2. Cardinality(Flying') = Cardinality(Flying) - 1 /\ Cardinality(Askers) \in Nat
    BY <1>0, <1>1, FlyingSize, PacerAssumption, FS_CardinalityType
  <2> QED BY <1>0, <2>1, <2>2, FlyingSize
<1>3. asker' \in [Askers -> {"idle", "ask", "room", "time", "send"}]
  BY <1>0 DEF PacerTypeOK, WokenBy
<1>4. RoomIsReturned'
  BY <1>0, <1>1, <1>2 DEF RoomIsReturned, WokenBy, Flying, PacerTypeOK
<1> QED BY <1>0, <1>2, <1>3, <1>4 DEF PacerTypeOK

LEMMA FinishRequestKeeps ==
  ASSUME NEW a \in Askers, PacerInv, FinishRequest(a)
  PROVE  PacerInv'
<1>0. PacerTypeOK /\ RequestReturns(a) /\ UNCHANGED <<spaced, asks>>
  BY DEF PacerInv, FinishRequest, Flooded, Unanswered, Late, InTime, RequestReturns
<1>1. current' \subseteq current \ {a}
  BY DEF FinishRequest, Flooded, Unanswered, Late, InTime, BackOff, Settled
<1>2. window' \in 1..MaxWindow
  BY <1>0, PacerAssumption
     DEF PacerTypeOK, FinishRequest, Flooded, Unanswered, Late, InTime, BackOff, Settled, Most
<1>3. rated' \in 2..MaxWindow
  BY <1>0, PacerAssumption DEF PacerTypeOK, FinishRequest, Flooded, Unanswered, Late, InTime
<1>4. slow' \in 0..3
  BY <1>0 DEF PacerTypeOK, FinishRequest, Flooded, Unanswered, Late, InTime, BackOff, Settled, Least
<1>5. blocked' \in BOOLEAN /\ probe' \in BOOLEAN
  BY <1>0 DEF PacerTypeOK, FinishRequest, Flooded, Unanswered, Late, InTime
<1> QED BY <1>0, <1>1, <1>2, <1>3, <1>4, <1>5, RequestReturnsKeeps DEF PacerTypeOK, PacerInv

LEMMA PacerInvKept ==
  ASSUME PacerInv, [PacerNext]_pacerVars
  PROVE  PacerInv'
<1>0. PacerTypeOK /\ RoomIsReturned
  BY DEF PacerInv
<1>1. CASE UNCHANGED pacerVars
  BY <1>0, <1>1 DEF pacerVars, PacerInv, PacerTypeOK, RoomIsReturned
<1>2. ASSUME NEW a \in Askers, Ask(a) \/ TimerFires(a) \/ GiveUpAsking(a) PROVE PacerInv'
  <2>0. UNCHANGED <<current, flying, window, rated, slow, spaced, blocked, probe>>
    BY <1>2 DEF Ask, TimerFires, GiveUpAsking
  <2>1. asks' \in 0..MaxAsks
    BY <1>0, <1>2, PacerAssumption DEF PacerTypeOK, Ask, TimerFires, GiveUpAsking
  <2>2. asker' \in [Askers -> {"idle", "ask", "room", "time", "send"}] /\ Flying' = Flying
    BY <1>0, <1>2 DEF PacerTypeOK, Ask, TimerFires, GiveUpAsking, Flying
  <2>3. \A x \in Askers : asker'[x] = "room" => asker[x] = "room"
    BY <1>0, <1>2 DEF PacerTypeOK, Ask, TimerFires, GiveUpAsking
  <2>4. \A x \in Askers : (asker'[x] = "send") = (asker[x] = "send")
    BY <2>2 DEF Flying
  <2> QED BY <1>0, <2>0, <2>1, <2>2, <2>3, <2>4 DEF PacerInv, PacerTypeOK, RoomIsReturned, Flying
<1>3. ASSUME NEW a \in Askers, Acquire(a) \/ FinishRequest(a) PROVE PacerInv'
  BY <1>3, AcquireKeeps, FinishRequestKeeps
<1>4. CASE TimeComes
  BY <1>0, <1>4 DEF TimeComes, PacerInv, PacerTypeOK, RoomIsReturned
<1> QED BY <1>1, <1>2, <1>3, <1>4 DEF PacerNext, AskerMoves

-----------------------------------------------------------------------------
(* A part, put together.  The limit is halved from power of two to power   *)
(* of two, so it divides the part and what has come of it (Aligned); an    *)
(* answer that is not the last one is full.                                *)

Multiple(m, n) == \E k \in Nat : m = k * n

LEMMA MultipleHalves ==
  ASSUME NEW m \in Nat, NEW h \in Nat, Multiple(m, 2 * h)
  PROVE  Multiple(m, h)
<1>1. PICK k \in Nat : m = k * (2 * h)
  BY DEF Multiple
<1>2. m = (2 * k) * h /\ 2 * k \in Nat
  BY <1>1
<1> QED BY <1>2 DEF Multiple

LEMMA MultipleNext ==
  ASSUME NEW m \in Nat, NEW n \in Nat, Multiple(m, n)
  PROVE  Multiple(m + n, n)
<1>1. PICK k \in Nat : m = k * n
  BY DEF Multiple
<1>2. m + n = (k + 1) * n /\ k + 1 \in Nat
  BY <1>1
<1> QED BY <1>2 DEF Multiple

LEMMA MultipleRoom ==
  ASSUME NEW l \in Nat, NEW m \in Nat, NEW n \in Nat, Multiple(l, n), Multiple(m, n), l < m
  PROVE  l + n <= m
<1>1. PICK j \in Nat : l = j * n
  BY DEF Multiple
<1>2. PICK k \in Nat : m = k * n
  BY DEF Multiple
<1>3. j < k
  BY <1>1, <1>2
<1>4. (j + 1) * n <= k * n
  BY <1>3
<1> QED BY <1>1, <1>2, <1>4

LEMMA MultipleMod ==
  ASSUME NEW m \in Nat, NEW n \in Nat \ {0}, Multiple(m, n)
  PROVE  m % n = 0
<1>1. PICK k \in Nat : m = k * n
  BY DEF Multiple
<1>2. PICK q \in Int : q = m \div n
  OBVIOUS
<1>3. PICK r \in 0..n-1 : r = m % n
  OBVIOUS
<1>4. m = n * q + r
  BY <1>2, <1>3
<1>5. (k - q) * n = r
  BY <1>1, <1>4
<1>6. k - q < 1
  <2> SUFFICES ASSUME k - q >= 1 PROVE FALSE
    OBVIOUS
  <2>1. (k - q) * n >= n
    OBVIOUS
  <2> QED BY <2>1, <1>5
<1>7. k - q > -1
  <2> SUFFICES ASSUME k - q <= -1 PROVE FALSE
    OBVIOUS
  <2>1. (k - q) * n <= -n
    OBVIOUS
  <2> QED BY <2>1, <1>5
<1>8. k = q
  BY <1>6, <1>7
<1> QED BY <1>3, <1>5, <1>8

FetchInv ==
  /\ partLimit \in Lengths /\ askLimit \in Lengths /\ left \in 0..MaxLeft
  /\ offset \in Nat /\ offset < partLimit
  /\ fetchTry \in 0..FetchTries - 1 /\ fetched \in {"no", "yes", "failed"}
  /\ assembled \subseteq 0..MaxLeft
  /\ pieces \in BOOLEAN /\ (~pieces => offset = 0)
  /\ fetched = "no" => offset <= left /\ assembled = Piece(0, offset)
  /\ fetched = "yes" => assembled = Piece(0, Smaller(partLimit, left))

Aligned == Multiple(partLimit, askLimit) /\ Multiple(offset, askLimit)

(* A request is never shortened to fit: its length fits as it is. *)
LEMMA AskedFits ==
  ASSUME FetchInv, Aligned
  PROVE  Asked = askLimit /\ offset + askLimit <= partLimit
<1>1. partLimit \in Nat /\ askLimit \in Nat /\ offset \in Nat /\ offset < partLimit
  BY PartFetchAssumption DEF FetchInv
<1>2. offset + askLimit <= partLimit
  BY <1>1, MultipleRoom DEF Aligned
<1> QED BY <1>1, <1>2 DEF Asked, Smaller

LEMMA FetchInvInitially == PartFetchInit => FetchInv /\ Aligned
<1> SUFFICES ASSUME PartFetchInit PROVE FetchInv /\ Aligned
  OBVIOUS
<1>1. FetchInv
  <2>1. /\ partLimit \in Nat /\ 0 < partLimit /\ 0 <= left /\ 0 \in 0..FetchTries - 1
    BY PartFetchAssumption DEF PartFetchInit
  <2>2. Piece(0, 0) = {}
    BY PartFetchAssumption DEF Piece
  <2> QED BY <2>1, <2>2 DEF PartFetchInit, FetchInv
<1>2. partLimit = 1 * askLimit /\ offset = 0 * askLimit
  BY PartFetchAssumption DEF PartFetchInit
<1> QED BY <1>1, <1>2 DEF Aligned, Multiple

LEMMA AnsweredKeeps ==
  ASSUME FetchInv, Aligned, Answered
  PROVE  (FetchInv /\ Aligned)'
<1> DEFINE n == IF left > offset THEN Smaller(askLimit, left - offset) ELSE 0
<1>1. /\ fetched = "no" /\ UNCHANGED <<partLimit, left, askLimit>>
      /\ assembled' = assembled \union Piece(offset, n)
      /\ \/ /\ (askLimit = partLimit /\ ~pieces) \/ n < askLimit \/ offset + n = partLimit
            /\ fetched' = "yes" /\ UNCHANGED <<offset, pieces, fetchTry>>
         \/ /\ ~(n < askLimit) /\ offset + n # partLimit
            /\ offset' = offset + n /\ pieces' = TRUE /\ fetchTry' = 0 /\ UNCHANGED fetched
  BY AskedFits DEF Answered
<1>2. /\ partLimit \in Nat \ {0} /\ askLimit \in Nat \ {0} /\ left \in 0..MaxLeft /\ MaxLeft \in Nat
      /\ offset \in Nat /\ offset + askLimit <= partLimit /\ offset <= left
      /\ assembled = Piece(0, offset) /\ (~pieces => offset = 0)
  BY <1>1, AskedFits, PartFetchAssumption DEF FetchInv
<1>3. n \in Nat /\ n <= askLimit /\ offset + n <= left /\ (n < askLimit => offset + n = left)
  BY <1>2 DEF Smaller
<1> HIDE DEF n
<1>4. assembled' = Piece(0, offset + n)
  BY <1>1, <1>2, <1>3 DEF Piece
<1>5. assembled' \subseteq 0..MaxLeft
  BY <1>4 DEF Piece
<1>6. CASE fetched' = "yes"
  <2>1. offset + n = Smaller(partLimit, left) /\ UNCHANGED <<offset, pieces, fetchTry>>
    BY <1>1, <1>2, <1>3, <1>6 DEF Smaller
  <2> QED BY <1>1, <1>4, <1>5, <1>6, <2>1 DEF FetchInv, Aligned
<1>7. CASE fetched' = "no"
  <2>1. n = askLimit /\ offset' = offset + askLimit /\ offset' < partLimit /\ pieces' /\ fetchTry' = 0
    BY <1>1, <1>2, <1>3, <1>7
  <2>2. Multiple(offset', askLimit)
    BY <1>2, <2>1, MultipleNext DEF Aligned
  <2>3. Multiple(partLimit', askLimit')
    BY <1>1 DEF Aligned
  <2>4. 0 \in 0..FetchTries - 1
    BY PartFetchAssumption
  <2> QED BY <1>1, <1>2, <1>3, <1>4, <1>5, <1>7, <2>1, <2>2, <2>3, <2>4 DEF FetchInv, Aligned
<1> QED BY <1>1, <1>6, <1>7

LEMMA AttemptFailsKeeps ==
  ASSUME FetchInv, Aligned, AttemptFails
  PROVE  (FetchInv /\ Aligned)'
<1>1. /\ UNCHANGED <<partLimit, left, offset, assembled, pieces>>
      /\ askLimit' \in {askLimit, IF askLimit > 1 THEN askLimit \div 2 ELSE 1}
      /\ fetchTry' \in 0..FetchTries - 1 /\ fetched' \in {"no", "failed"}
      /\ fetched = "no" /\ partLimit \in Nat /\ offset \in Nat /\ askLimit \in Lengths /\ askLimit \in Nat \ {0}
  BY AskedFits, PartFetchAssumption DEF AttemptFails, FetchInv
<1>2. askLimit' \in Lengths /\ Aligned'
  <2>1. CASE askLimit' = askLimit
    BY <1>1, <2>1 DEF Aligned
  <2>2. CASE askLimit' # askLimit
    <3>1. PICK h \in Lengths : askLimit' = h /\ askLimit = 2 * h /\ h \in Nat
      BY <1>1, <2>2, PartFetchAssumption
    <3>2. Multiple(partLimit, h) /\ Multiple(offset, h)
      BY <1>1, <3>1, MultipleHalves DEF Aligned
    <3> QED BY <1>1, <3>1, <3>2 DEF Aligned
  <2> QED BY <2>1, <2>2
<1> QED BY <1>1, <1>2 DEF FetchInv

LEMMA FetchInvKept ==
  ASSUME FetchInv, Aligned, [PartFetchNext]_fetchVars
  PROVE  (FetchInv /\ Aligned)'
<1>1. CASE UNCHANGED fetchVars
  BY <1>1 DEF fetchVars, FetchInv, Aligned
<1> QED BY <1>1, AnsweredKeeps, AttemptFailsKeeps DEF PartFetchNext

LEMMA FetchInvSuffices ==
  ASSUME FetchInv, Aligned
  PROVE  FetchWhole /\ PartFetchTypeOK
<1>1. offset % askLimit = 0
  BY MultipleMod, PartFetchAssumption DEF FetchInv, Aligned
<1>2. askLimit \in 1..partLimit /\ offset \in 0..partLimit
  BY AskedFits, PartFetchAssumption DEF FetchInv
<1> QED BY <1>1, <1>2, AskedFits DEF FetchInv, FetchWhole, PartFetchTypeOK

-----------------------------------------------------------------------------
(* What is left of the types.                                              *)

LEMMA DownloadTypes == DownloadInv /\ Scalars /\ Tally => DownloadTypeOK
<1> SUFFICES ASSUME DownloadInv, Scalars, Tally PROVE DownloadTypeOK
  OBVIOUS
<1>1. Flags /\ Shape
  BY DEF DownloadInv
<1>2. dirty \in BOOLEAN /\ last \in BOOLEAN /\ sized \in BOOLEAN
  BY <1>1 DEF Flags
<1> QED BY <1>1, <1>2 DEF Flags, Shape, Scalars, Tally, DownloadTypeOK, Contents, Sidecars, Places

DcCounts ==
  /\ moves \in 0..MaxMoves /\ settled \in BOOLEAN /\ tried \in [Getters -> 0..GetTries]
  /\ \A g \in Getters : getter[g] # "gone" => tried[g] < GetTries

LEMMA DcCountsKept ==
  ASSUME DcShape, DcCounts, [DcNext]_dcVars
  PROVE  DcCounts'
<1>1. CASE UNCHANGED dcVars
  BY <1>1 DEF dcVars, DcCounts
<1>2. ASSUME NEW g \in Getters, ReadDC(g) \/ LookPool(g) \/ MakePool(g) \/ StorePool(g) \/ StopWaiting(g)
      PROVE  DcCounts'
  <2>1. \A h \in Getters : getter'[h] # "gone" => getter[h] # "gone"
    BY <1>2 DEF DcShape, ReadDC, LookPool, MakePool, StorePool, StopWaiting, GetterGoes
  <2> QED BY <1>2, <2>1 DEF DcCounts, ReadDC, LookPool, MakePool, StorePool, StopWaiting
<1>3. ASSUME NEW g \in Getters, Unmark(g) \/ SendRequest(g)
      PROVE  DcCounts'
  <2>1. \A h \in Getters \ {g} : (getter'[h] # "gone" => getter[h] # "gone") /\ tried'[h] = tried[h]
    BY <1>3 DEF DcShape, DcCounts, Unmark, SendRequest, GetterGoes, Woken, CountFailure
  <2>2. tried[g] \in Nat /\ tried[g] < GetTries
    BY <1>3, DcPoolsAssumption DEF DcCounts, Unmark, SendRequest, GetterGoes
  <2>3. tried'[g] \in 0..GetTries /\ (getter'[g] # "gone" => tried'[g] < GetTries)
    BY <1>3, <2>2, DcPoolsAssumption
       DEF DcShape, DcCounts, Unmark, SendRequest, GetterGoes, Woken, CountFailure, AfterFailure
  <2>4. tried' \in [Getters -> 0..GetTries] /\ UNCHANGED <<moves, settled>>
    BY <1>3, <2>1, <2>3 DEF DcCounts, Unmark, SendRequest, CountFailure
  <2> QED BY <2>1, <2>3, <2>4 DEF DcCounts
<1>4. CASE CloseDCPools
  BY <1>4 DEF CloseDCPools, DcCounts
<1>5. ASSUME NEW d \in Dcs, FileMoves(d) PROVE DcCounts'
  BY <1>5, DcPoolsAssumption DEF FileMoves, DcCounts
<1> QED BY <1>1, <1>2, <1>3, <1>4, <1>5 DEF DcNext, GetterMoves

-----------------------------------------------------------------------------
(* All of it, in the specification that the run checks: each component     *)
(* steps or stutters.                                                      *)

MediaInv ==
  /\ DownloadInv /\ Scalars /\ Tally
  /\ UploadInv /\ UploadTypeOK
  /\ FetchInv /\ Aligned
  /\ DcInv /\ DcCounts
  /\ PacerInv

LEMMA MediaInvInitially == MediaInit => MediaInv
<1> SUFFICES ASSUME MediaInit PROVE MediaInv
  OBVIOUS
<1>0. UploadInit /\ DownloadInit /\ PartFetchInit /\ DcInit /\ PacerInit
  BY DEF MediaInit
<1>1. Scalars
  BY <1>0, DownloadAssumption DEF DownloadInit, Scalars
<1>2. Tally
  BY <1>0, DownloadAssumption DEF DownloadInit, Tally, Working
<1>3. DcCounts
  BY <1>0, DcPoolsAssumption DEF DcInit, DcCounts
<1> QED BY <1>0, <1>1, <1>2, <1>3, DownloadInvInitially, UploadInvInitially, UploadTypesInitially,
           FetchInvInitially, DcInvInitially, PacerInvInitially DEF MediaInv

LEMMA MediaInvKept == MediaInv /\ [MediaNext]_mediaVars => MediaInv'
<1> SUFFICES ASSUME MediaInv, [MediaNext]_mediaVars PROVE MediaInv'
  OBVIOUS
<1>1. [DownloadNext]_downloadVars /\ [UploadNext]_uploadVars /\ [PartFetchNext]_fetchVars
      /\ [DcNext]_dcVars /\ [PacerNext]_pacerVars
  BY DEF MediaNext, UploadStep, DownloadStep, PartStep, CentreStep, PacerStep, mediaVars, transferVars
<1>2. (DownloadInv /\ Scalars /\ Tally)'
  BY <1>1, DownloadInvKept, ScalarsKept, TallyKept DEF MediaInv
<1>3. (UploadInv /\ UploadTypeOK)'
  BY <1>1, UploadInvKept, UploadTypesKept DEF MediaInv
<1>4. (FetchInv /\ Aligned)'
  BY <1>1, FetchInvKept DEF MediaInv
<1>5. (DcInv /\ DcCounts)'
  BY <1>1, DcInvKept, DcCountsKept DEF MediaInv, DcInv
<1>6. PacerInv'
  BY <1>1, PacerInvKept DEF MediaInv
<1> QED BY <1>2, <1>3, <1>4, <1>5, <1>6 DEF MediaInv

LEMMA MediaInvAlways == MediaSpec => []MediaInv
  BY MediaInvInitially, MediaInvKept, PTL DEF MediaSpec

(* Every component keeps its types; the progress of a download never goes  *)
(* beyond the file.                                                        *)
THEOREM MediaTypes == MediaSpec => []MediaTypeOK
<1>1. MediaInv => MediaTypeOK
  <2> SUFFICES ASSUME MediaInv PROVE MediaTypeOK
    OBVIOUS
  <2>1. DcTypeOK
    BY DEF MediaInv, DcInv, DcShape, DcCounts, DcTypeOK
  <2> QED BY <2>1, DownloadTypes, FetchInvSuffices DEF MediaInv, MediaTypeOK, PacerInv
<1> QED BY <1>1, MediaInvAlways, PTL

(* The comment of media.go:2961: a completed bit never reaches disk before *)
(* its file data, whatever crashes when and whoever fails.                 *)
THEOREM SidecarBitsHaveData == MediaSpec => []BitsHaveData
<1>1. MediaInv => BitsHaveData
  BY DEF MediaInv, DownloadInv, SidecarFits, BitsHaveData
<1> QED BY <1>1, MediaInvAlways, PTL

(* An upload, a download or a part that succeeds is whole.                 *)
THEOREM SuccessfulTransfersWhole == MediaSpec => []TransfersWhole
<1>1. MediaInv => TransfersWhole
  BY FetchInvSuffices
     DEF MediaInv, DownloadInv, Endings, DownloadWhole, UploadInv, UploadEnds, TransfersWhole
<1> QED BY <1>1, MediaInvAlways, PTL

(* Workers and flusher are gone when a download returns, each data centre  *)
(* has one pool, closed at the end, and the pacer counts right and leaves  *)
(* nobody waiting for an end that will not come.                           *)
THEOREM SharedResourcesKept == MediaSpec => []SharedIsKept
<1>1. MediaInv => DownloadQuiet
  BY DEF MediaInv, DownloadInv, Phases, Working, DownloadQuiet
<1>2. MediaInv => OnePoolEach /\ RoomIsReturned
  BY OnePoolEachFollows DEF MediaInv, PacerInv
<1> QED BY <1>1, <1>2, MediaInvAlways, PTL DEF SharedIsKept
=============================================================================
