----------------------------- MODULE PartFetch -----------------------------
(***************************************************************************)
(* fetchWithRetry (telegram/media.go): one part of a download, fetched in  *)
(* one request or, when requests time out, in smaller ones.  Lengths are   *)
(* counted in units of 4096 bytes; the part begins at offset 0.            *)
(***************************************************************************)
EXTENDS Naturals

CONSTANTS
  Lengths,     \* the limits a part may have: powers of two
  FetchTries,  \* maxAttempts (20)
  MaxLeft      \* bound: units of the file from the part on

ASSUME PartFetchAssumption ==
  /\ Lengths \subseteq Nat \ {0} /\ FetchTries \in Nat \ {0} /\ MaxLeft \in Nat
  /\ \A n \in Lengths : n = 1 \/ (n % 2 = 0 /\ n \div 2 \in Lengths)

VARIABLES
  partLimit,  \* part.limit
  left,       \* units of the file from the beginning of the part
  askLimit,   \* request.limit
  offset,     \* request.offset, from the beginning of the part
  assembled,  \* the units appended so far
  pieces,     \* assembled is not nil
  fetchTry,   \* attempt
  fetched     \* "no", "yes" or "failed"

fetchVars == <<partLimit, left, askLimit, offset, assembled, pieces, fetchTry, fetched>>

(* Units are numbered from 0 on, as offsets are. *)
Piece(from, n) == {u \in 0..MaxLeft : from <= u /\ u < from + n}

Smaller(m, n) == IF m < n THEN m ELSE n

(* Not every part is fetched: the context may have ended before. *)
PartFetchInit ==
  /\ partLimit \in Lengths /\ left \in 0..MaxLeft
  /\ askLimit = partLimit /\ offset = 0 /\ assembled = {} /\ pieces = FALSE
  /\ fetchTry = 0 /\ fetched \in {"no", "failed"}

(* The limit that the next request asks for. *)
Asked == IF pieces THEN Smaller(askLimit, partLimit - offset) ELSE askLimit

(* The server answers with what the file has there. *)
Answered ==
  /\ fetched = "no"
  /\ LET n == IF left > offset THEN Smaller(Asked, left - offset) ELSE 0
         got == offset + n
     IN
     /\ assembled' = assembled \union Piece(offset, n)
     /\ askLimit' = Asked
     /\ IF (Asked = partLimit /\ ~pieces) \/ n < Asked \/ got = partLimit
        THEN fetched' = "yes" /\ UNCHANGED <<offset, pieces, fetchTry>>
        ELSE offset' = got /\ pieces' = TRUE /\ fetchTry' = 0 /\ UNCHANGED fetched
  /\ UNCHANGED <<partLimit, left>>

(* A request fails: for good, or to be tried again, after a timeout with   *)
(* half the limit.                                                         *)
AttemptFails ==
  /\ fetched = "no"
  /\ \/ fetched' = "failed" /\ UNCHANGED <<askLimit, fetchTry>>
     \/ /\ fetchTry + 1 < FetchTries
        /\ fetchTry' = fetchTry + 1
        /\ askLimit' \in {Asked, IF Asked > 1 THEN Asked \div 2 ELSE 1}
        /\ UNCHANGED fetched
  /\ UNCHANGED <<partLimit, left, offset, assembled, pieces>>

PartFetchNext == Answered \/ AttemptFails

PartFetchFairness == WF_fetchVars(PartFetchNext)

-----------------------------------------------------------------------------

PartFetchTypeOK ==
  /\ partLimit \in Lengths /\ left \in 0..MaxLeft
  /\ askLimit \in 1..partLimit /\ offset \in 0..partLimit
  /\ assembled \subseteq 0..MaxLeft /\ pieces \in BOOLEAN
  /\ fetchTry \in 0..FetchTries - 1 /\ fetched \in {"no", "yes", "failed"}

(* A part is put together without a hole: all of the file that lies in it. *)
(* Each request keeps the rule for chunks of validateDownloadChunkSize: it *)
(* begins at a multiple of its length, and stays in its part.              *)
FetchWhole ==
  /\ fetched = "yes" => assembled = Piece(0, Smaller(partLimit, left))
  /\ fetched = "no" => offset % Asked = 0 /\ offset + Asked <= partLimit
=============================================================================
