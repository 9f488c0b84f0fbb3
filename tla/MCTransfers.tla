---------------------------- MODULE MCTransfers ----------------------------
(***************************************************************************)
(* What must come to an end: a request on a connection that is lost and    *)
(* replaced, and the uploads and downloads that are made of requests, with *)
(* what their workers share.  The components share no state in the models; *)
(* a behaviour exercises the one that focus names.                         *)
(***************************************************************************)
EXTENDS Connection, Upload, Download, PartFetch, DcPools, Pacer

VARIABLE focus

transferVars == <<uploadVars, downloadVars, fetchVars, dcVars, pacerVars>>
mediaVars == <<vars, transferVars, focus>>

(* A component out of focus is at rest, in one initial state. *)
AtRest ==
  /\ (focus = "upload") = (reading = "dispatch")
  /\ (focus = "part") = (fetched = "no")
  /\ focus # "part" => partLimit = 1 /\ left = 0
  /\ (focus = "centres") = ~settled
  /\ focus # "centres" => home = NoDc

MediaInit ==
  /\ focus \in {"connection", "upload", "download", "part", "centres", "pacer"}
  /\ Init /\ UploadInit /\ DownloadInit /\ PartFetchInit /\ DcInit /\ PacerInit
  /\ AtRest

ConnectionStep == focus = "connection" /\ Next
UploadStep == focus = "upload" /\ UploadNext
DownloadStep == focus = "download" /\ DownloadNext
PartStep == focus = "part" /\ PartFetchNext
CentreStep == focus = "centres" /\ DcNext
PacerStep == focus = "pacer" /\ PacerNext

MediaNext ==
  /\ UNCHANGED focus
  /\ \/ ConnectionStep /\ UNCHANGED transferVars
     \/ UploadStep /\ UNCHANGED <<vars, downloadVars, fetchVars, dcVars, pacerVars>>
     \/ DownloadStep /\ UNCHANGED <<vars, uploadVars, fetchVars, dcVars, pacerVars>>
     \/ PartStep /\ UNCHANGED <<vars, uploadVars, downloadVars, dcVars, pacerVars>>
     \/ CentreStep /\ UNCHANGED <<vars, uploadVars, downloadVars, fetchVars, pacerVars>>
     \/ PacerStep /\ UNCHANGED <<vars, uploadVars, downloadVars, fetchVars, dcVars>>

(* What is at rest has nothing that fairness would ask of it. *)
MediaSpec ==
  /\ MediaInit /\ [][MediaNext]_mediaVars
  /\ Fairness /\ UploadFairness /\ DownloadFairness
  /\ PartFetchFairness /\ DcFairness /\ PacerFairness

(* Every component keeps its types. *)
MediaTypeOK ==
  UploadTypeOK /\ DownloadTypeOK /\ PartFetchTypeOK /\ DcTypeOK /\ PacerTypeOK

(* A transfer that succeeds is whole: the server has each part of a file   *)
(* that UploadFile returns and the right checksum, the destination has     *)
(* each part that a download brought, and no part has a hole.              *)
TransfersWhole == UploadWhole /\ DownloadWhole /\ FetchWhole

(* What the workers share is kept: they are gone when a download returns,  *)
(* a data centre has one pool, closed at the end, and the count of the     *)
(* requests under way is right.                                            *)
SharedIsKept == DownloadQuiet /\ OnePoolEach /\ RoomIsReturned

NothingRuns ==
  /\ reading = "returned" /\ main = "idle" /\ fetched # "no" /\ settled
  /\ \A a \in Askers : asker[a] = "idle"

(* Uploads, downloads and the requests they are made of end, whoever fails *)
(* or gives up while others wait for it.                                   *)
TransfersEnd == []<>NothingRuns
=============================================================================
