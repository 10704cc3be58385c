--------------------------- MODULE Delivery_proofs --------------------------
(***************************************************************************)
(* What the server promises senders and receivers, derived from the        *)
(* invariant Base of Payload_proofs, for every number of transfers,        *)
(* requests, sweeps, receivers and crashes.                                *)
(***************************************************************************)
EXTENDS Payload_proofs

-----------------------------------------------------------------------------
(* Codes and payloads.                                                     *)

\* A directory that is in live is the declared payload.
LEMMA LiveIntact ==
  ASSUME Base, NEW t \in Transfer, live[t].here
  PROVE  Intact(t, live[t])
<1>1. RowOK(t) /\ FilesOK
  BY DEF Base, ServerTypes
<1>2. \A s \in Segment : Len(file[t][s]) \in Nat
  BY <1>1, TableLen
<1>. QED  BY <1>1, <1>2 DEF RowOK, Good, Intact, PayloadFile, NoFile

\* While requests keep out of each other's way and no sweep abandons a transfer
\* under a request, a code that resolves leads to the whole payload, whatever
\* publications, crashes, reconciliations, expiries and deletions have happened.
THEOREM CodesLeadToPayloads == ServerSpec /\ []Calm => []NoCodeToIncomplete
<1>1. Base => NoCodeToIncomplete
  <2>. SUFFICES ASSUME Base, NEW t \in Transfer, Resolves(t) PROVE Intact(t, live[t])
    BY DEF NoCodeToIncomplete
  <2>1. live[t].here
    BY DEF Base, RowOK, Resolves, Committed
  <2>. QED  BY <2>1, LiveIntact
<1>. QED  BY <1>1, BaseAlways, PTL

-----------------------------------------------------------------------------
(* What is served.                                                         *)

\* A file of live that can be opened is whole.
LEMMA OpenedWhole ==
  ASSUME Base, NEW t \in Transfer, NEW s \in Segment, live[t].pay[s] # NoFile
  PROVE  PayloadFile(t, live[t], s) = Whole
<1>1. FilesOK
  BY DEF Base, ServerTypes
<1>2. live[t].here
  BY <1>1 DEF FilesOK, Absent
<1>. QED  BY <1>2, LiveIntact DEF Intact

\* Only receivers open payload files; a crash ends no archive well.
LEMMA ReceiversServe ==
  ASSUME Base, [ServerNext]_serverVars
  PROVE  \/ \E c \in Claim : ClaimStep(c)
         \/ \E d \in Download : DownloadStep(d)
         \/ /\ UNCHANGED <<served, streamed>>
            /\ \A d \in Download : cpc'[d] = "complete" => cpc[d] = "complete"
<1>1. CASE UNCHANGED receiverVars
  BY <1>1 DEF receiverVars
<1>2. CASE ProcessDies
  BY <1>2 DEF ProcessDies, KillReceivers, AtRest, Receiver
<1>. QED
  BY <1>1, <1>2 DEF ServerNext, serverVars, HandleSimple, HandleCreate, HandlePatch, HandleCommit,
     ClientLeaves, Sweep, HandleClaim, HandleDownload, Restart, TimePasses

\* A step of claim c opens at most a file of live.
LEMMA ClaimServes ==
  ASSUME Base, NEW c \in Claim, ClaimStep(c)
  PROVE  /\ UNCHANGED streamed
         /\ \A b \in Claim : served'[b] # "broken" \/ served'[b] = served[b]
         /\ \A d \in Download : cpc'[d] = cpc[d]
<1>0. /\ served \in [Claim -> Served] /\ DOMAIN cpc = Receiver /\ c \in Receiver
      /\ \A d \in Download : d # c /\ d \in Receiver
  BY ClaimAssumption DEF Base, ServerTypes, ReceiverTypes, Receiver
<1>1. ASSUME NEW next, CGoto(c, next) PROVE \A d \in Download : cpc'[d] = cpc[d]
  BY <1>0, <1>1 DEF CGoto
<1>2. ASSUME NEW s \in Segment, OpenFile(c, s)
      PROVE  \A b \in Claim : served'[b] # "broken" \/ served'[b] = served[b]
  <2>1. found[c] \in Transfer
    BY <1>0, <1>2 DEF Base, ServerTypes, ReceiverTypes, OpenFile
  <2>2. live[found[c]].pay[s] # NoFile => PayloadFile(found[c], live[found[c]], s) = Whole
    BY <2>1, OpenedWhole
  <2>. QED  BY <1>0, <1>2, <2>2 DEF OpenFile
<1>3. (\E next : CGoto(c, next)) /\ UNCHANGED streamed /\ (UNCHANGED served \/ \E s \in Segment : OpenFile(c, s))
  BY DEF ClaimStep, Lookup, LookupExpire, StatPayload, ManifestGet, ManifestRead, ManifestPut,
     OpenClaim, Fetch, OpenFile, Renew, Complete
<1>. QED  BY <1>1, <1>2, <1>3

\* A segment request is never served a file that is cut short or has a hole.
THEOREM SegmentsServedWhole == ServerSpec /\ []Calm => []ServedWhole
<1>1. ServerInit => ServedWhole
  BY DEF ServerInit, ClaimsInit, ServedWhole
<1>2. ASSUME ServedWhole, Base, [ServerNext]_serverVars PROVE ServedWhole'
  <2>1. ASSUME NEW c \in Claim, ClaimStep(c) PROVE ServedWhole'
    BY <1>2, <2>1, ClaimServes DEF ServedWhole
  <2>2. ASSUME NEW d \in Download, DownloadStep(d) PROVE ServedWhole'
    <3>1. UNCHANGED served
      BY <2>2 DEF DownloadStep, Lookup, LookupExpire, ManifestGet, ManifestRead, ManifestPut,
         StartStream, StreamEntry, CutStream, EndStream
    <3>. QED  BY <1>2, <3>1 DEF ServedWhole
  <2>3. UNCHANGED served => ServedWhole'
    BY <1>2 DEF ServedWhole
  <2>. QED  BY <1>2, <2>1, <2>2, <2>3, ReceiversServe
<1>. QED  BY <1>1, <1>2, BaseAlways, PTL DEF ServerSpec

-----------------------------------------------------------------------------
(* Archives.                                                               *)

\* A pair has two components.
LEMMA PairOf ==
  ASSUME NEW A, NEW B, NEW p \in A \X B
  PROVE  p = <<p[1], p[2]>> /\ p[1] \in A /\ p[2] \in B
  OBVIOUS

LEMMA WholeEntry == \A p \in Segment \X {TRUE} : \E s \in Segment : p = <<s, TRUE>>
<1>. SUFFICES ASSUME NEW p \in Segment \X {TRUE} PROVE \E s \in Segment : p = <<s, TRUE>>
  OBVIOUS
<1>1. p = <<p[1], p[2]>> /\ p[1] \in Segment /\ p[2] \in {TRUE}
  BY PairOf, Zenon
<1>2. p[2] = TRUE
  BY <1>1, Zenon
<1>. QED  BY <1>1, <1>2, Zenon

\* Every entry a download has sent was whole, and the trailer comes after the
\* last of them.
ArchiveOK(d) ==
    /\ streamed[d] \subseteq Segment \X {TRUE}
    /\ cpc[d] = "complete" => Left(d) = {}

LEMMA DownloadServes ==
  ASSUME Base, NEW d \in Download, NEW e \in Download, DownloadStep(d), ArchiveOK(e)
  PROVE  ArchiveOK(e)'
<1>0. /\ streamed \in [Download -> SUBSET (Segment \X BOOLEAN)] /\ DOMAIN cpc = Receiver
      /\ d \in Receiver /\ e \in Receiver
  BY DEF Base, ServerTypes, ReceiverTypes, Receiver
<1>1. CASE UNCHANGED streamed /\ \E next : next # "complete" /\ CGoto(d, next)
  <2>1. cpc'[e] = "complete" => cpc[e] = "complete"
    BY <1>0, <1>1 DEF CGoto
  <2>. QED  BY <1>1, <2>1 DEF ArchiveOK, Left
<1>2. ASSUME NEW s \in Segment, StreamEntry(d, s) PROVE ArchiveOK(e)'
  <2>1. found[d] \in Transfer
    BY <1>0, <1>2 DEF Base, ServerTypes, ReceiverTypes, StreamEntry
  <2>2. PayloadFile(found[d], live[found[d]], s) = Whole
    BY <1>2, <2>1, OpenedWhole DEF StreamEntry
  <2>3. streamed' = [streamed EXCEPT ![d] = @ \cup {<<s, TRUE>>}]
    BY <1>2, <2>2 DEF StreamEntry
  <2>4. streamed'[e] \subseteq Segment \X {TRUE}
    <3>1. <<s, TRUE>> \in Segment \X {TRUE}
      OBVIOUS
    <3>2. streamed'[e] \subseteq streamed[e] \cup {<<s, TRUE>>}
      BY <1>0, <2>3
    <3>. QED  BY <3>1, <3>2, Zenon DEF ArchiveOK
  <2>5. cpc' = cpc /\ cpc[d] = "stream"
    BY <1>2 DEF StreamEntry
  <2>6. cpc'[e] = "complete" => streamed'[e] = streamed[e]
    BY <1>0, <2>3, <2>5
  <2>. QED  BY <2>4, <2>5, <2>6 DEF ArchiveOK, Left
<1>3. CASE EndStream(d)
  <2>1. Left(d) = {} /\ UNCHANGED streamed
    BY <1>3 DEF EndStream
  <2>2. cpc'[e] = "complete" => cpc[e] = "complete" \/ e = d
    BY <1>0, <1>3 DEF EndStream, CGoto
  <2>. QED  BY <2>1, <2>2 DEF ArchiveOK, Left
<1>4. AfterManifest(d) = "slot"
  BY ClaimAssumption DEF AfterManifest
<1>5. \/ UNCHANGED streamed /\ \E next : next # "complete" /\ CGoto(d, next)
      \/ \E s \in Segment : StreamEntry(d, s)
      \/ EndStream(d)
  <2>1. ASSUME NEW t \in Transfer, Lookup(d, t) PROVE UNCHANGED streamed /\ \E next : next # "complete" /\ CGoto(d, next)
    BY <2>1 DEF Lookup
  <2>. QED
    BY <1>4, <2>1 DEF DownloadStep, LookupExpire, ManifestGet, ManifestRead, ManifestPut,
       StartStream, CutStream
<1>. QED  BY <1>1, <1>2, <1>3, <1>5

\* An archive that ends with its trailer holds every entry of the payload, whole,
\* although a download takes no lease and a sweep may remove the payload under it.
THEOREM ArchivesWhole == ServerSpec /\ []Calm => []ArchiveWhole
<1>. DEFINE Inv == \A d \in Download : ArchiveOK(d)
<1>1. ServerInit => Inv
  BY DEF ServerInit, ClaimsInit, ArchiveOK, Receiver
<1>2. ASSUME Inv, Base, [ServerNext]_serverVars PROVE Inv'
  <2>1. ASSUME NEW c \in Claim, ClaimStep(c) PROVE Inv'
    BY <1>2, <2>1, ClaimServes DEF ArchiveOK, Left
  <2>2. ASSUME NEW d \in Download, DownloadStep(d) PROVE Inv'
    BY <1>2, <2>2, DownloadServes
  <2>3. CASE UNCHANGED streamed /\ \A d \in Download : cpc'[d] = "complete" => cpc[d] = "complete"
    BY <1>2, <2>3 DEF ArchiveOK, Left
  <2>. QED  BY <1>2, <2>1, <2>2, <2>3, ReceiversServe
<1>3. Inv => ArchiveWhole
  <2>. SUFFICES ASSUME NEW d \in Download, streamed[d] \subseteq Segment \X {TRUE}, Left(d) = {}
                PROVE  streamed[d] = Segment \X {TRUE}
    BY DEF ArchiveOK, ArchiveWhole
  <2>1. ASSUME NEW s \in Segment PROVE <<s, TRUE>> \in streamed[d]
    <3>1. PICK w \in BOOLEAN : <<s, w>> \in streamed[d]
      BY DEF Left
    <3>2. <<s, w>> \in Segment \X {TRUE}
      BY <3>1
    <3>. QED  BY <3>1, <3>2
  <2>2. ASSUME NEW p \in Segment \X {TRUE} PROVE p \in streamed[d]
    <3>1. PICK s \in Segment : p = <<s, TRUE>>
      BY <2>2, WholeEntry
    <3>. QED  BY <2>1, <3>1, Zenon
  <2>. QED  BY <2>2
<1>. QED  BY <1>1, <1>2, <1>3, BaseAlways, PTL DEF ServerSpec

-----------------------------------------------------------------------------
(* Answered codes.                                                         *)

\* Request r answers with the code and the expiry of its transfer.
AnsweredBy(r) ==
    LET t == Target[r] IN
    /\ state'[t] = "COMMITTED" /\ code'[t] = result'[r] /\ expires'[t] = until'[r]

\* A handler answers with a code only at the end of a publication, or when it
\* finds its transfer committed.
AnswerStep ==
    \A r \in Request : (result'[r] = result[r] /\ until'[r] = until[r]) \/ AnsweredBy(r)

LEMMA AnswerOf ==
  ASSUME ServerTypes, NEW r \in Request, NEW c, NEW at, Answer(r, c, at),
         LET t == Target[r] IN state'[t] = "COMMITTED" /\ code'[t] = c /\ expires'[t] = at
  PROVE  AnswerStep
  BY DEF ServerTypes, RequestTypes, Answer, AnswerStep, AnsweredBy

LEMMA PublishAnswers ==
  ASSUME ServerTypes, NEW r \in Request, Publish(r)
  PROVE  AnswerStep /\ UNCHANGED now
<1>. DEFINE t == Target[r]
<1>0. t \in Transfer /\ StoreInv
  BY RequestAssumption DEF ServerTypes
<1>1. CASE AllocateCode(r)
  <2>0. UNCHANGED now
    BY <1>1 DEF AllocateCode
  <2>1. ASSUME NEW c \in Code, Allocate(t, now, want[r], c), Answer(r, c, now + want[r]) PROVE AnswerStep
    <3>1. state'[t] = "COMMITTED" /\ code'[t] = c /\ expires'[t] = now + want[r]
      BY <1>0, <2>1 DEF Allocate, StoreInv, StoreTypeOK
    <3>. QED  BY <2>1, <3>1, AnswerOf
  <2>2. CASE PublishAgain(t) /\ Answer(r, code[t], expires[t]) /\ UNCHANGED storeVars
    <3>1. state'[t] = "COMMITTED" /\ code'[t] = code[t] /\ expires'[t] = expires[t]
      BY <2>2 DEF PublishAgain, Committed, storeVars
    <3>. QED  BY <2>0, <2>2, <3>1, AnswerOf
  <2>3. CASE UNCHANGED <<result, until>>
    BY <2>0, <2>3 DEF AnswerStep
  <2>. QED  BY <1>1, <2>0, <2>1, <2>2, <2>3 DEF AllocateCode
<1>2. CASE UNCHANGED <<result, until, now>>
  BY <1>2 DEF AnswerStep
<1>. QED
  BY <1>1, <1>2 DEF Publish, MarkVerifying, RecordNoteAndTTL, StoreManifest, RenameToLive, AllocateCode

LEMMA CommitAnswers ==
  ASSUME ServerTypes, NEW r \in CommitReq, CommitStep(r)
  PROVE  AnswerStep /\ UNCHANGED now
<1>. DEFINE t == Target[r]
<1>0. r \in Request
  BY DEF Request
<1>1. CASE CommitRead(r)
  <2>1. CASE Committed(t) /\ Answer(r, code[t], expires[t])
    <3>1. state'[t] = "COMMITTED" /\ code'[t] = code[t] /\ expires'[t] = expires[t]
      BY <1>1, <2>1 DEF CommitRead, Committed, storeVars
    <3>. QED  BY <1>0, <1>1, <2>1, <3>1, AnswerOf DEF CommitRead
  <2>2. CASE ~Committed(t)
    BY <1>1, <2>2 DEF CommitRead, AnswerStep
  <2>3. Committed(t) => state[t] \notin PreCommit
    BY DEF Committed, PreCommit
  <2>. QED  BY <1>1, <2>1, <2>2, <2>3 DEF CommitRead
<1>2. CASE UNCHANGED <<result, until, now>>
  BY <1>2 DEF AnswerStep
<1>. QED
  BY <1>0, <1>1, <1>2, PublishAnswers DEF CommitStep, CommitList, CommitMkdir, CommitVerify, CommitMark, MaterializeMkdir,
     Place, MaterializeFinish, CommitFail

\* No other step answers anything, and the clock never goes back.
LEMMA OthersAnswer ==
  ASSUME ServerTypes, [ServerNext]_serverVars
  PROVE  AnswerStep /\ now <= now'
<1>0. now \in Nat
  BY ServiceAssumption DEF ServerTypes
<1>1. CASE UNCHANGED <<result, until, now>>
  BY <1>0, <1>1 DEF AnswerStep
<1>2. ASSUME NEW r \in SimpleReq, HandleSimple(r) PROVE AnswerStep /\ now <= now'
  <2>1. SimpleStep(r) /\ r \in Request
    BY <1>2 DEF HandleSimple, Request
  <2>2. Publish(r) \/ UNCHANGED <<result, until, now>>
    BY <2>1 DEF SimpleStep, BeginSimple, CreateSimple, AddFile, AddFileFails, CommitSimple, Abort,
       AbortStaging, AbortPurge
  <2>. QED  BY <1>0, <1>1, <2>1, <2>2, PublishAnswers
<1>3. ASSUME NEW r \in CreateReq, HandleCreate(r) PROVE UNCHANGED <<result, until, now>>
  BY <1>3 DEF HandleCreate, CreateStep, CreateStaging, CreateRow, CreateSegment, Abort, AbortStaging, AbortPurge
<1>4. ASSUME NEW r \in PatchReq, HandlePatch(r) PROVE UNCHANGED <<result, until, now>>
  BY <1>4 DEF HandlePatch, PatchStep, PatchReadSegment, PatchReadTransfer, PatchOpen, PatchTruncate,
     PatchMark, PatchWrite, PatchStop, PatchFinish, requestVars
<1>5. ASSUME NEW r \in CommitReq, HandleCommit(r) PROVE AnswerStep /\ now <= now'
  BY <1>0, <1>5, CommitAnswers DEF HandleCommit
<1>6. ASSUME NEW r \in Request, ClientLeaves(r) PROVE UNCHANGED <<result, until, now>>
  BY <1>6 DEF ClientLeaves, Disconnect
<1>7. ASSUME NEW j \in Sweeper, Sweep(j) PROVE UNCHANGED <<result, until, now>>
  BY <1>7 DEF Sweep, SweepStep, SweepStart, SweepExpire, SweepStale, SweepAbandon, SweepUnpinned,
     SweepDelete, SweepInvalidate, SweepTrashLive, SweepTrashStaging, SweepDeleteFails, SweepPurge,
     SweepEmptyTrash, requestVars
<1>8. ASSUME NEW c \in Claim, HandleClaim(c) PROVE UNCHANGED <<result, until, now>>
  BY <1>8 DEF HandleClaim, ClaimStep, Lookup, LookupExpire, StatPayload, ManifestGet, ManifestRead,
     ManifestPut, OpenClaim, Fetch, OpenFile, Renew, Complete, requestVars
<1>9. ASSUME NEW d \in Download, HandleDownload(d) PROVE UNCHANGED <<result, until, now>>
  BY <1>9 DEF HandleDownload, DownloadStep, Lookup, LookupExpire, ManifestGet, ManifestRead,
     ManifestPut, StartStream, StreamEntry, CutStream, EndStream, requestVars
<1>10. CASE Restart
  <2>1. UNCHANGED <<result, until, now>>
    BY <1>10 DEF Restart, ReconcileStep, Begin, ListLive, ListStaging, ToTrashLoop, Finish, Visit,
       CompleteInterruptedPublish, FailRow, DiscardLive, DiscardStaging, PurgeRow, TrashOrphan,
       RemoveOrphan, NextLoop, requestVars
  <2>. QED  BY <1>1, <2>1
<1>11. CASE TimePasses
  BY <1>0, <1>11 DEF TimePasses, Tick, requestVars, AnswerStep
<1>12. CASE ProcessDies
  <2>1. UNCHANGED <<result, until, now>>
    BY <1>12 DEF ProcessDies, Crash, KillRequests
  <2>. QED  BY <1>1, <2>1
<1>13. CASE UNCHANGED serverVars
  <2>1. UNCHANGED <<result, until, now>>
    BY <1>13 DEF serverVars, requestVars
  <2>. QED  BY <1>1, <2>1
<1>. QED
  BY <1>1, <1>2, <1>3, <1>4, <1>5, <1>6, <1>7, <1>8, <1>9, <1>10, <1>11, <1>12, <1>13 DEF ServerNext

\* What request r answered is what the row says, until the answered expiry.
AnswerOK(r) ==
    LET t == Target[r] IN
    result[r] # NoCode /\ now < until[r] =>
        state[t] = "COMMITTED" /\ code[t] = result[r] /\ expires[t] = until[r]

\* A code that a handler has answered keeps resolving to its transfer until the
\* expiry answered with it: no crash, disconnect, retry, sweep or restart takes
\* it back.
THEOREM AnswersHold == ServerSpec /\ []Calm => []AnsweredCodeResolves
<1>. DEFINE Inv == \A r \in Request : AnswerOK(r)
<1>1. ServerInit => Inv
  BY DEF ServerInit, RequestInit, AnswerOK
<1>2. ASSUME Inv, Base, Calm, [ServerNext]_serverVars PROVE Inv'
  <2>. SUFFICES ASSUME NEW r \in Request, result'[r] # NoCode, now' < until'[r],
                       result'[r] = result[r], until'[r] = until[r], ~AnsweredBy(r)
                PROVE  AnswerOK(r)'
    BY <1>2, OthersAnswer DEF AnswerStep, AnsweredBy, AnswerOK, Base
  <2>. DEFINE t == Target[r]
  <2>1. now <= now' /\ now \in Nat /\ now' \in Nat /\ until[r] \in Nat
    BY <1>2, OthersAnswer, BaseNext, ServiceAssumption DEF Base, ServerTypes, RequestTypes
  <2>2. t \in Transfer /\ Effects(t)
    BY <1>2, BaseNext, RequestAssumption
  <2>3. now < until[r]
    BY <2>1
  <2>4. state[t] = "COMMITTED" /\ code[t] = result[r] /\ expires[t] = until[r]
    BY <1>2, <2>3 DEF AnswerOK
  <2>5. RowSame(t)
    BY <2>1, <2>2, <2>3, <2>4 DEF Effects, RowStep, Exists, NoRow, PreCommit, Ended, Terminal
  <2>. QED  BY <2>4, <2>5 DEF AnswerOK, RowSame
<1>3. Base /\ Inv => AnsweredCodeResolves
  <2>. SUFFICES ASSUME Base, NEW r \in Request, AnswerOK(r), result[r] # NoCode, now < until[r]
                PROVE  /\ Resolves(Target[r])
                       /\ code[Target[r]] = result[r]
                       /\ expires[Target[r]] = until[r]
    BY DEF AnsweredCodeResolves
  <2>. QED  BY DEF AnswerOK, Resolves, Committed
<1>. QED  BY <1>1, <1>2, <1>3, BaseAlways, PTL DEF ServerSpec

-----------------------------------------------------------------------------
(* Leases.                                                                 *)

\* No deletion begins in this step, and no payload leaves live.
Spares ==
    \A t \in Transfer :
        /\ state'[t] = "DELETING" => state[t] = "DELETING"
        /\ live[t].here => live'[t] = live[t]

SparesRows == \A t \in Transfer : state'[t] = "DELETING" => state[t] = "DELETING"
SparesLive == \A t \in Transfer : live[t].here => live'[t] = live[t]

\* Only SetState(DELETING) begins a deletion.
LEMMA CallsSpareRows ==
  ASSUME StoreInv, NEW t \in Transfer, NEW at, NEW minutes, NEW c, NEW s, NEW n
  PROVE  /\ CreateTransfer(t, at, minutes) => SparesRows
         /\ \A new : new # "DELETING" /\ SetState(t, new) => SparesRows
         /\ Fail(t) => SparesRows
         /\ Purge(t) => SparesRows
         /\ SetNoteAndTTL(t, minutes) => SparesRows
         /\ Allocate(t, at, minutes, c) => SparesRows
         /\ ExpireDue(at) => SparesRows
         /\ InsertSegment(t, s) => SparesRows
         /\ SetSegmentProgress(t, s, n) => SparesRows
<1>. USE DEF StoreInv, StoreTypeOK, SparesRows
<1>1. CreateTransfer(t, at, minutes) => SparesRows
  BY DEF CreateTransfer
<1>2. (\A new : new # "DELETING" /\ SetState(t, new) => SparesRows) /\ (Fail(t) => SparesRows)
  BY DEF SetState, Fail
<1>3. Purge(t) => SparesRows
  BY DEF Purge, NoRow
<1>4. (SetNoteAndTTL(t, minutes) => SparesRows) /\ (Allocate(t, at, minutes, c) => SparesRows)
  BY DEF SetNoteAndTTL, Allocate
<1>5. ExpireDue(at) => SparesRows
  BY DEF ExpireDue
<1>6. (InsertSegment(t, s) => SparesRows) /\ (SetSegmentProgress(t, s, n) => SparesRows)
  BY DEF InsertSegment, SetSegmentProgress, transferVars
<1>. QED  BY <1>1, <1>2, <1>3, <1>4, <1>5, <1>6

\* Only TrashLive takes a payload out of live.
LEMMA OpsSpareLive ==
  ASSUME FilesOK, NEW t \in Transfer, NEW s, NEW i, NEW n
  PROVE  /\ PrepareStaging(t) => SparesLive
         /\ MkdirAll(t) => SparesLive
         /\ RemoveStaging(t) => SparesLive
         /\ WriteManifest(t) => SparesLive
         /\ PublishDir(t) => SparesLive
         /\ TrashStaging(t) => SparesLive
         /\ RemoveSegdir(t) => SparesLive
         /\ AddPayloadFile(t, s) => SparesLive
         /\ OpenSegment(t, s) => SparesLive
         /\ Truncate(t, s, i, n) => SparesLive
         /\ Write(t, s, i, n) => SparesLive
         /\ PlaceSegment(t, s) => SparesLive
         /\ EmptyTrash => SparesLive
<1>1. UNCHANGED live => SparesLive
  BY DEF SparesLive
<1>2. PublishDir(t) => SparesLive
  BY DEF PublishDir, SparesLive, FilesOK, LayoutTypeOK
<1>. QED
  BY <1>1, <1>2 DEF PrepareStaging, MkdirAll, RemoveStaging, WriteManifest, TrashStaging, RemoveSegdir,
     AddPayloadFile, OpenSegment, Truncate, Write, PlaceSegment, EmptyTrash

LEMMA StaySpares ==
  /\ UNCHANGED storeVars => SparesRows
  /\ UNCHANGED fileVars => SparesLive
  /\ SparesRows /\ SparesLive => Spares
  BY DEF storeVars, fileVars, SparesRows, SparesLive, Spares

LEMMA RequestsSpare ==
  ASSUME ServerTypes, NEW r \in Request,
         SimpleStep(r) \/ CreateStep(r) \/ (r \in PatchReq /\ PatchStep(r)) \/ CommitStep(r)
  PROVE  Spares
<1>. DEFINE t == Target[r]
<1>0. StoreInv /\ FilesOK /\ t \in Transfer
  BY RequestAssumption DEF ServerTypes
<1>. HIDE DEF t
<1>1. ASSUME Publish(r) PROVE SparesRows /\ SparesLive
  <2>1. SparesRows
    BY <1>0, <1>1, CallsSpareRows, StaySpares DEF Publish, AllocateCode, MarkVerifying, RecordNoteAndTTL,
       StoreManifest, RenameToLive, Record, t
  <2>2. SparesLive
    BY <1>0, <1>1, OpsSpareLive, StaySpares DEF Publish, AllocateCode, MarkVerifying, RecordNoteAndTTL,
       StoreManifest, RenameToLive, t
  <2>. QED  BY <2>1, <2>2
<1>2. ASSUME Abort(r) PROVE SparesRows /\ SparesLive
  BY <1>0, <1>2, CallsSpareRows, OpsSpareLive, StaySpares DEF Abort, AbortStaging, AbortPurge, t
<1>3. CASE SimpleStep(r)
  <2>1. SparesRows
    BY <1>0, <1>1, <1>2, <1>3, CallsSpareRows, StaySpares DEF SimpleStep, BeginSimple, CreateSimple,
       AddFile, AddFileFails, CommitSimple, t
  <2>2. SparesLive
    BY <1>0, <1>1, <1>2, <1>3, OpsSpareLive, StaySpares DEF SimpleStep, BeginSimple, CreateSimple,
       AddFile, AddFileFails, CommitSimple, t
  <2>. QED  BY <2>1, <2>2, StaySpares
<1>4. CASE CreateStep(r)
  <2>1. SparesRows
    BY <1>0, <1>2, <1>4, CallsSpareRows, StaySpares DEF CreateStep, CreateStaging, CreateRow,
       CreateSegment, t
  <2>2. SparesLive
    BY <1>0, <1>2, <1>4, OpsSpareLive, StaySpares DEF CreateStep, CreateStaging, CreateRow,
       CreateSegment, t
  <2>. QED  BY <2>1, <2>2, StaySpares
<1>5. CASE PatchStep(r)
  <2>1. SparesRows
    BY <1>0, <1>5, CallsSpareRows, StaySpares DEF PatchStep, PatchReadSegment, PatchReadTransfer, PatchOpen,
       PatchTruncate, PatchMark, PatchWrite, PatchStop, PatchFinish, t
  <2>2. SparesLive
    BY <1>0, <1>5, OpsSpareLive, StaySpares DEF PatchStep, PatchReadSegment, PatchReadTransfer, PatchOpen,
       PatchTruncate, PatchMark, PatchWrite, PatchStop, PatchFinish, t
  <2>. QED  BY <2>1, <2>2, StaySpares
<1>6. CASE CommitStep(r)
  <2>1. SparesRows
    BY <1>0, <1>1, <1>6, CallsSpareRows, StaySpares DEF CommitStep, CommitRead, CommitList, CommitMkdir,
       CommitVerify, CommitMark, MaterializeMkdir, Place, MaterializeFinish, CommitFail, Record, t
  <2>2. SparesLive
    BY <1>0, <1>1, <1>6, OpsSpareLive, StaySpares DEF CommitStep, CommitRead, CommitList, CommitMkdir,
       CommitVerify, CommitMark, MaterializeMkdir, Place, MaterializeFinish, CommitFail, t
  <2>. QED  BY <2>1, <2>2, StaySpares
<1>. QED  BY <1>3, <1>4, <1>5, <1>6

LEMMA ReceiversSpare ==
  ASSUME ServerTypes, NEW c \in Receiver, (c \in Claim /\ ClaimStep(c)) \/ (c \in Download /\ DownloadStep(c))
  PROVE  Spares
<1>0. StoreInv
  BY DEF ServerTypes
<1>1. UNCHANGED fileVars
  BY DEF ClaimStep, DownloadStep, Lookup, LookupExpire, StatPayload, ManifestGet, ManifestRead,
     ManifestPut, OpenClaim, Fetch, OpenFile, Renew, Complete, StartStream, StreamEntry, CutStream, EndStream
<1>2. ASSUME LookupExpire(c) PROVE SparesRows
  <2>1. found[c] \in Transfer
    BY <1>2 DEF ServerTypes, ReceiverTypes, LookupExpire
  <2>. QED  BY <1>0, <1>2, <2>1, CallsSpareRows DEF LookupExpire
<1>3. UNCHANGED state => SparesRows
  BY DEF SparesRows
<1>4. LookupExpire(c) \/ UNCHANGED state
  BY DEF ClaimStep, DownloadStep, Lookup, StatPayload, ManifestGet, ManifestRead, ManifestPut, OpenClaim,
     Fetch, OpenFile, Renew, Complete, StartStream, StreamEntry, CutStream, EndStream, CreateClaim,
     RenewClaim, CompleteClaim, transferVars, storeVars
<1>. QED  BY <1>1, <1>2, <1>3, <1>4, StaySpares

\* Reconciliation discards the payload of a row only when its deletion began.
LEMMA RestartSpares ==
  ASSUME Base, ReconcileStep, NEW t \in Transfer, live[t].here, state[t] \notin {"DELETING", NoRow}
  PROVE  state'[t] # "DELETING" /\ live'[t] = live[t]
<1>0. StoreInv /\ FilesOK /\ ReconcileOK
  BY DEF Base, ServerTypes
<1>1. SparesRows
  <2>1. ASSUME NEW u \in Transfer, CompleteInterruptedPublish(u) PROVE SparesRows
    BY <1>0, <2>1, CallsSpareRows, StaySpares DEF CompleteInterruptedPublish
  <2>2. ASSUME NEW u \in Transfer, FailRow(u) \/ PurgeRow(u) PROVE SparesRows
    BY <1>0, <2>2, CallsSpareRows, StaySpares DEF FailRow, PurgeRow
  <2>. QED
    BY <2>1, <2>2, StaySpares DEF ReconcileStep, Begin, ListLive, ListStaging, ToTrashLoop, Finish,
       NextLoop, Visit, DiscardLive, DiscardStaging, TrashOrphan, RemoveOrphan
<1>2. live'[t] = live[t]
  <2>1. SparesLive => live'[t] = live[t]
    BY DEF SparesLive
  <2>2. ASSUME NEW u \in Transfer, DiscardLive(u) PROVE live'[t] = live[t]
    <3>1. u # t
      BY <1>0, <2>2 DEF ReconcileOK, DiscardLive
    <3>. QED  BY <1>0, <2>2, <3>1 DEF DiscardLive, TrashLive, FilesOK, LayoutTypeOK
  <2>3. ASSUME NEW u \in Transfer, DiscardStaging(u) \/ RemoveOrphan(u) PROVE SparesLive
    BY <1>0, <2>3, OpsSpareLive DEF DiscardStaging, RemoveOrphan
  <2>4. Finish => SparesLive
    BY <1>0, OpsSpareLive DEF Finish
  <2>. QED
    BY <2>1, <2>2, <2>3, <2>4, StaySpares DEF ReconcileStep, Begin, ListLive, ListStaging, ToTrashLoop,
       NextLoop, Visit, CompleteInterruptedPublish, FailRow, PurgeRow, TrashOrphan
<1>. QED  BY <1>1, <1>2 DEF SparesRows

\* A sweep is about to delete t, or at it.
Listed(t) ==
    \E j \in Sweeper : jid[j] = t \/ (jpc[j] # "abandon" /\ t \in jlist[j])

\* A sweep neither lists nor touches a payload that a claim pins.
LEMMA SweepSpares ==
  ASSUME ServerTypes, NEW j \in Sweeper, SweepStep(j), NEW t \in Transfer, ~Listed(t), live[t].here,
         NEW c \in Claim, claimOf[c] = t, ActiveClaim(c, now)
  PROVE  /\ ~Listed(t)'
         /\ state'[t] = "DELETING" => state[t] = "DELETING"
         /\ live'[t] = live[t]
<1>0. /\ StoreInv /\ FilesOK /\ t # NoTransfer
      /\ DOMAIN jpc = Sweeper /\ jlist \in [Sweeper -> SUBSET Transfer]
      /\ jid \in [Sweeper -> Transfer \cup {NoTransfer}]
      /\ jid[j] # t /\ (jpc[j] # "abandon" => t \notin jlist[j])
  BY StoreAssumption DEF ServerTypes, SweepTypes, Listed
<1>1. ASSUME \A k \in Sweeper : k # j => jpc'[k] = jpc[k] /\ jlist'[k] = jlist[k] /\ jid'[k] = jid[k],
             jid'[j] # t, jpc'[j] # "abandon" => t \notin jlist'[j]
      PROVE  ~Listed(t)'
  BY <1>1 DEF Listed
<1>2. ASSUME SparesRows, SparesLive
      PROVE  (state'[t] = "DELETING" => state[t] = "DELETING") /\ live'[t] = live[t]
  BY <1>2 DEF SparesRows, SparesLive
<1>3. \A k \in Sweeper : k # j => jpc'[k] = jpc[k] /\ jlist'[k] = jlist[k] /\ jid'[k] = jid[k]
  BY <1>0 DEF SweepStep, SweepStart, SweepExpire, SweepStale, SweepAbandon, SweepUnpinned,
     SweepDelete, SweepInvalidate, SweepTrashLive, SweepTrashStaging, SweepDeleteFails, SweepPurge,
     SweepEmptyTrash, JGoto
<1>4. CASE SweepStart(j) \/ SweepInvalidate(j)
  <2>1. jid'[j] # t /\ (jpc'[j] # "abandon" => t \notin jlist'[j])
    BY <1>0, <1>4 DEF SweepStart, SweepInvalidate, JGoto
  <2>. QED  BY <1>1, <1>2, <1>3, <1>4, <2>1, StaySpares DEF SweepStart, SweepInvalidate
<1>5. CASE SweepExpire(j)
  <2>1. jid'[j] # t /\ (jpc'[j] # "abandon" => t \notin jlist'[j])
    BY <1>0, <1>5 DEF SweepExpire, JGoto
  <2>2. SparesRows
    BY <1>0, <1>5, CallsSpareRows DEF SweepExpire
  <2>. QED  BY <1>1, <1>2, <1>3, <1>5, <2>1, <2>2, StaySpares DEF SweepExpire
<1>6. CASE SweepStale(j)
  <2>1. jid'[j] # t /\ jpc'[j] = "abandon"
    BY <1>0, <1>6 DEF SweepStale, JGoto
  <2>. QED  BY <1>1, <1>2, <1>3, <1>6, <2>1, StaySpares DEF SweepStale
<1>7. CASE \E u \in Transfer : SweepAbandon(j, u)
  <2>1. jid'[j] # t /\ jpc'[j] = "abandon"
    BY <1>0, <1>7 DEF SweepAbandon
  <2>2. SparesRows
    BY <1>0, <1>7, CallsSpareRows DEF SweepAbandon
  <2>. QED  BY <1>1, <1>2, <1>3, <1>7, <2>1, <2>2, StaySpares DEF SweepAbandon
<1>8. CASE SweepUnpinned(j)
  <2>1. jnow[j] <= now /\ jnow[j] \in Nat /\ now \in Nat /\ lease[c] \in Nat
    BY ServiceAssumption DEF ServerTypes, SweepTypes, StoreInv, StoreTypeOK
  <2>2. ActiveClaim(c, jnow[j])
    BY <2>1 DEF ActiveClaim
  <2>3. t \notin UnpinnedExpired(jnow[j])
    BY <2>2 DEF UnpinnedExpired
  <2>4. jid'[j] # t /\ t \notin jlist'[j]
    BY <1>0, <1>8, <2>3 DEF SweepUnpinned
  <2>. QED  BY <1>1, <1>2, <1>3, <1>8, <2>4, StaySpares DEF SweepUnpinned
<1>9. CASE \E u \in Transfer : SweepDelete(j, u)
  <2>1. PICK u \in Transfer : SweepDelete(j, u)
    BY <1>9
  <2>2. u # t
    BY <1>0, <2>1 DEF SweepDelete
  <2>3. jid'[j] # t /\ t \notin jlist'[j]
    BY <1>0, <2>1, <2>2 DEF SweepDelete
  <2>4. state'[t] = state[t] /\ UNCHANGED fileVars
    BY <1>0, <2>1, <2>2 DEF SweepDelete, SetState, StoreInv, StoreTypeOK
  <2>. QED  BY <1>1, <1>3, <2>3, <2>4 DEF fileVars
<1>10. CASE SweepTrashLive(j)
  <2>1. jid'[j] # t /\ (jpc'[j] # "abandon" => t \notin jlist'[j])
    BY <1>0, <1>10 DEF SweepTrashLive
  <2>2. live'[t] = live[t] /\ UNCHANGED state
    BY <1>0, <1>10 DEF SweepTrashLive, TrashLive, FilesOK, LayoutTypeOK, storeVars
  <2>. QED  BY <1>1, <1>3, <2>1, <2>2
<1>11. CASE SweepTrashStaging(j)
  <2>1. jid'[j] # t /\ (jpc'[j] # "abandon" => t \notin jlist'[j])
    BY <1>0, <1>11 DEF SweepTrashStaging
  <2>2. live'[t] = live[t] /\ UNCHANGED state
    BY <1>11 DEF SweepTrashStaging, TrashStaging, storeVars
  <2>. QED  BY <1>1, <1>3, <2>1, <2>2
<1>12. CASE SweepDeleteFails(j)
  <2>1. jid'[j] # t /\ (jpc'[j] # "abandon" => t \notin jlist'[j])
    BY <1>0, <1>12 DEF SweepDeleteFails
  <2>. QED  BY <1>1, <1>2, <1>3, <1>12, <2>1, StaySpares DEF SweepDeleteFails
<1>13. CASE SweepPurge(j)
  <2>1. jid'[j] # t /\ (jpc'[j] # "abandon" => t \notin jlist'[j])
    BY <1>0, <1>13 DEF SweepPurge
  <2>2. jid[j] \in Transfer
    BY <1>13 DEF ServerTypes, SweepTypes, SweepPurge
  <2>3. SparesRows
    BY <1>0, <1>13, <2>2, CallsSpareRows DEF SweepPurge
  <2>. QED  BY <1>1, <1>2, <1>3, <1>13, <2>1, <2>3, StaySpares DEF SweepPurge
<1>14. CASE SweepEmptyTrash(j)
  <2>1. jid'[j] # t /\ (jpc'[j] # "abandon" => t \notin jlist'[j])
    BY <1>0, <1>14 DEF SweepEmptyTrash
  <2>2. live'[t] = live[t] /\ UNCHANGED state
    BY <1>14 DEF SweepEmptyTrash, EmptyTrash, storeVars
  <2>. QED  BY <1>1, <1>3, <2>1, <2>2
<1>. QED
  BY <1>4, <1>5, <1>6, <1>7, <1>8, <1>9, <1>10, <1>11, <1>12, <1>13, <1>14 DEF SweepStep

\* A lease that exists before a sweep lists its transfer keeps the transfer off
\* every list and its payload in place for as long as the lease lasts, through
\* expiry, renewal, crash and restart.
THEOREM LeasesHold == ServerSpec /\ []Calm => LeaseHolds
<1>1. ASSUME Base, [ServerNext]_serverVars, NEW c \in Claim, NEW t \in Transfer,
             claimOf[c] = t, Leased(c), ~Doomed(t), live[t].here
      PROVE  ~Doomed(t)' /\ live'[t] = live[t]
  <2>0. ServerTypes /\ StoreInv /\ ~Listed(t) /\ state[t] \notin {"DELETING", NoRow} /\ ActiveClaim(c, now)
    <3>1. Exists(t)
      BY <1>1, StoreAssumption DEF Base, ServerTypes, StoreInv, NoDanglingRows
    <3>. QED  BY <1>1, <3>1 DEF Base, ServerTypes, Doomed, Listed, Leased, Exists
  <2>1. ASSUME ~Listed(t)', state'[t] # "DELETING", live'[t] = live[t]
        PROVE  ~Doomed(t)' /\ live'[t] = live[t]
    BY <2>1 DEF Doomed, Listed
  <2>2. UNCHANGED janitorVars => ~Listed(t)'
    BY <2>0 DEF Listed, janitorVars
  <2>3. Spares => state'[t] # "DELETING" /\ live'[t] = live[t]
    BY <1>1, <2>0 DEF Spares
  <2>4. UNCHANGED <<storeVars, fileVars>> => Spares
    BY StaySpares
  <2>5. ASSUME NEW r \in Request, (r \in SimpleReq /\ HandleSimple(r)) \/ (r \in CreateReq /\ HandleCreate(r))
               \/ (r \in PatchReq /\ HandlePatch(r)) \/ (r \in CommitReq /\ HandleCommit(r))
        PROVE  Spares /\ UNCHANGED janitorVars
    BY <2>0, <2>5, RequestsSpare DEF HandleSimple, HandleCreate, HandlePatch, HandleCommit
  <2>6. ASSUME NEW d \in Receiver, (d \in Claim /\ HandleClaim(d)) \/ (d \in Download /\ HandleDownload(d))
        PROVE  Spares /\ UNCHANGED janitorVars
    BY <2>0, <2>6, ReceiversSpare DEF HandleClaim, HandleDownload
  <2>7. ASSUME NEW j \in Sweeper, Sweep(j)
        PROVE  ~Listed(t)' /\ state'[t] # "DELETING" /\ live'[t] = live[t]
    BY <1>1, <2>0, <2>7, SweepSpares DEF Sweep
  <2>8. ASSUME Restart PROVE ~Listed(t)' /\ state'[t] # "DELETING" /\ live'[t] = live[t]
    BY <1>1, <2>0, <2>2, <2>8, RestartSpares DEF Restart
  <2>9. ASSUME ProcessDies PROVE Spares /\ ~Listed(t)'
    BY <2>4, <2>9, StoreAssumption DEF ProcessDies, Crash, KillSweeps, Listed
  <2>10. ASSUME TimePasses \/ (\E r \in Request : ClientLeaves(r)) \/ UNCHANGED serverVars
         PROVE  Spares /\ UNCHANGED janitorVars
    BY <2>4, <2>10 DEF TimePasses, Tick, ClientLeaves, Disconnect, serverVars
  <2>11. SimpleReq \cup CreateReq \cup PatchReq \cup CommitReq \subseteq Request /\ Claim \cup Download \subseteq Receiver
    BY DEF Request, Receiver
  <2>. QED
    BY <1>1, <2>1, <2>2, <2>3, <2>5, <2>6, <2>7, <2>8, <2>9, <2>10, <2>11 DEF ServerNext
<1>2. Base /\ [ServerNext]_serverVars =>
        [\A c \in Claim : \A t \in Transfer :
            /\ claimOf[c] = t /\ Leased(c) /\ ~Doomed(t) /\ live[t].here
            /\ Leased(c)'
            => ~Doomed(t)' /\ live'[t] = live[t]]_serverVars
  BY <1>1
<1>. QED  BY <1>2, BaseAlways, PTL DEF ServerSpec, LeaseHolds

-----------------------------------------------------------------------------
(* When the conditions hold.                                               *)

\* Senders that wait for a request to end at the server before they send one
\* that gets in its way.
Patient == Serial \/ PatchReq \cup CommitReq = {}

\* No request is at work on an unpublished transfer that has outlived the staging
\* lifetime.
Timely ==
    \A r \in Request :
        LET t == Target[r] IN
        Runs(r) /\ Exists(t) /\ code[t] = NoCode => now <= created[t] + StagingTTL

\* Where both hold by themselves: the second when no upload gets that old, or,
\* without resumable transfers, when no handler runs that long.
Orderly ==
    /\ Patient
    /\ StagingTTL >= MaxTime \/ (~Slow /\ PatchReq \cup CommitReq = {})

\* A step of request r: it was at work or starts, and no other request moves.
StepOf(r) ==
    /\ Runs(r) \/ pc[r] = "idle"
    /\ r \in PatchReq \cup CommitReq => Runs(r) \/ Sent(r)
    /\ \A q \in Request : q # r => pc'[q] = pc[q]
    /\ pc[r] # "idle" => pc'[r] # "idle"
    /\ pc[r] \notin {"idle", "create"} => pc'[r] \notin {"idle", "create"}

\* No request begins twice.
Forward(r, next) ==
    /\ Advance(r, next)
    /\ next # "idle"
    /\ pc[r] \notin {"idle", "create"} => next # "create"

LEMMA RequestMoves ==
  ASSUME ServerTypes, NEW r \in Request,
         \/ r \in SimpleReq /\ SimpleStep(r)
         \/ r \in CreateReq /\ CreateStep(r)
         \/ r \in PatchReq /\ PatchStep(r)
         \/ r \in CommitReq /\ CommitStep(r)
  PROVE  StepOf(r)
<1>0. DOMAIN pc = Request
  BY DEF ServerTypes, RequestTypes
<1>1. ASSUME NEW next, Advance(r, next) PROVE pc'[r] = next /\ \A q \in Request : q # r => pc'[q] = pc[q]
  BY <1>0, <1>1 DEF Advance
<1>2. UNCHANGED pc \/ \E next : Forward(r, next)
  <2>1. Publish(r) => \E next : Forward(r, next)
    BY DEF Publish, AllocateCode, Answer, MarkVerifying, RecordNoteAndTTL, StoreManifest, RenameToLive,
       Record, ErrorExit, Forward
  <2>2. CommitRead(r) => \E next : Forward(r, next)
    BY DEF CommitRead, Answer, Forward
  <2>3. CASE SimpleStep(r)
    BY <2>1, <2>3 DEF SimpleStep, BeginSimple, CreateSimple, AddFile, AddFileFails, CommitSimple, ErrorExit, Forward,
       Abort, AbortStaging, AbortPurge
  <2>4. CASE CreateStep(r)
    BY <2>4 DEF CreateStep, CreateStaging, CreateRow, CreateSegment, ErrorExit, Forward, Abort, AbortStaging, AbortPurge
  <2>5. CASE PatchStep(r)
    BY <2>5 DEF PatchStep, PatchReadSegment, PatchReadTransfer, PatchOpen, PatchTruncate, PatchMark, PatchWrite,
       PatchStop, PatchFinish, requestVars, Forward
  <2>6. CASE CommitStep(r)
    BY <2>1, <2>2, <2>6 DEF CommitStep, CommitList, CommitMkdir, CommitVerify, CommitMark, MaterializeMkdir,
       Place, MaterializeFinish, CommitFail, Record, ErrorExit, Forward
  <2>. QED  BY <2>3, <2>4, <2>5, <2>6
<1>3. (Runs(r) \/ pc[r] = "idle") /\ (r \in PatchReq \cup CommitReq => Runs(r) \/ Sent(r))
  <2>. USE DEF Runs, Resting
  <2>0. /\ r \in SimpleReq \cup CreateReq => r \notin PatchReq \cup CommitReq
        /\ Sent(r) => pc[r] = "idle"
    BY RequestAssumption DEF Sent
  <2>1. Publish(r) => Runs(r)
    BY DEF Publish, AllocateCode, MarkVerifying, RecordNoteAndTTL, StoreManifest, RenameToLive
  <2>3. CASE r \in SimpleReq /\ SimpleStep(r)
    BY <2>0, <2>1, <2>3 DEF SimpleStep, BeginSimple, CreateSimple, AddFile, AddFileFails, CommitSimple, Abort,
       AbortStaging, AbortPurge
  <2>4. CASE r \in CreateReq /\ CreateStep(r)
    BY <2>0, <2>4 DEF CreateStep, CreateStaging, CreateRow, CreateSegment, Abort, AbortStaging, AbortPurge
  <2>5. CASE PatchStep(r)
    BY <2>0, <2>5 DEF PatchStep, PatchReadSegment, PatchReadTransfer, PatchOpen, PatchTruncate, PatchMark, PatchWrite,
       PatchStop, PatchFinish
  <2>6. CASE CommitStep(r)
    BY <2>0, <2>1, <2>6 DEF CommitStep, CommitRead, CommitList, CommitMkdir, CommitVerify, CommitMark, MaterializeMkdir,
       Place, MaterializeFinish, CommitFail
  <2>. QED  BY <2>3, <2>4, <2>5, <2>6
<1>. QED  BY <1>1, <1>2, <1>3 DEF StepOf, Forward

\* Only requests move requests; a crash ends them.
LEMMA ServerMoves ==
  ASSUME ServerTypes, [ServerNext]_serverVars
  PROVE  \/ \E r \in Request : StepOf(r)
         \/ \A q \in Request : pc'[q] = pc[q]
         \/ \A q \in Request : IF pc[q] \in Resting THEN pc'[q] = pc[q] ELSE pc'[q] = "done"
<1>1. CASE UNCHANGED pc
  BY <1>1
<1>2. CASE ProcessDies
  BY <1>2 DEF ProcessDies, KillRequests, Resting
<1>3. ASSUME NEW r \in Request, (r \in SimpleReq /\ HandleSimple(r)) \/ (r \in CreateReq /\ HandleCreate(r))
               \/ (r \in PatchReq /\ HandlePatch(r)) \/ (r \in CommitReq /\ HandleCommit(r))
      PROVE  StepOf(r)
  BY <1>3, RequestMoves DEF HandleSimple, HandleCreate, HandlePatch, HandleCommit
<1>4. SimpleReq \cup CreateReq \cup PatchReq \cup CommitReq \subseteq Request
  BY DEF Request
<1>5. \/ TimePasses \/ (\E r \in Request : ClientLeaves(r)) \/ UNCHANGED serverVars
      \/ (\E j \in Sweeper : Sweep(j)) \/ Restart
      \/ (\E c \in Claim : HandleClaim(c)) \/ (\E d \in Download : HandleDownload(d))
      => UNCHANGED pc
  BY DEF TimePasses, ClientLeaves, Disconnect, serverVars, Sweep, Restart, HandleClaim, HandleDownload,
     requestVars
<1>. QED  BY <1>1, <1>2, <1>3, <1>4, <1>5 DEF ServerNext

\* A sender that waits is alone with its requests.
LEMMA AloneNext ==
  ASSUME ServerTypes, Patient, Alone, [ServerNext]_serverVars
  PROVE  Alone'
<1>. SUFFICES ASSUME NEW r \in PatchReq \cup CommitReq, NEW q \in PatchReq \cup CommitReq,
                     Rivals(r, q), Runs(r)', Runs(q)'
              PROVE  FALSE
  BY DEF Alone, Rivals, Runs
<1>0. Serial /\ r \in Request /\ q \in Request /\ r # q /\ Rivals(q, r)
  BY DEF Patient, Request, Rivals
<1>1. ASSUME NEW p \in Request, StepOf(p) PROVE FALSE
  <2>1. (Runs(r) \/ p = r) /\ (Runs(q) \/ p = q)
    BY <1>0, <1>1 DEF StepOf, Runs
  <2>2. ~Runs(r) \/ ~Runs(q)
    BY DEF Alone
  <2>3. p = r => ~Runs(q)
    BY <1>0, <1>1, <2>2 DEF StepOf, Sent, Runs
  <2>4. p = q => ~Runs(r)
    BY <1>0, <1>1, <2>2 DEF StepOf, Sent, Runs
  <2>. QED  BY <1>0, <2>1, <2>2, <2>3, <2>4
<1>2. CASE \A p \in Request : pc'[p] = pc[p]
  BY <1>0, <1>2 DEF Alone, Runs
<1>3. CASE \A p \in Request : IF pc[p] \in Resting THEN pc'[p] = pc[p] ELSE pc'[p] = "done"
  BY <1>0, <1>3 DEF Runs, Resting
<1>. QED  BY <1>1, <1>2, <1>3, ServerMoves

\* What a sweep abandons was stale when it looked.
LEMMA SweepLists ==
  ASSUME ServerTypes, [ServerNext]_serverVars, NEW j \in Sweeper, jpc'[j] = "abandon"
  PROVE  /\ jnow'[j] = jnow[j]
         /\ \/ jpc[j] = "abandon" /\ jlist'[j] \subseteq jlist[j]
            \/ jlist'[j] = StaleStaging(jnow[j], StagingTTL) /\ UNCHANGED storeVars
<1>0. DOMAIN jpc = Sweeper /\ DOMAIN jnow = Sweeper /\ jlist \in [Sweeper -> SUBSET Transfer]
  BY DEF ServerTypes, SweepTypes
<1>1. CASE UNCHANGED janitorVars
  BY <1>1 DEF janitorVars
<1>2. CASE ProcessDies
  BY <1>2 DEF ProcessDies, KillSweeps
<1>3. ASSUME NEW k \in Sweeper, SweepStep(k)
      PROVE  /\ jnow'[j] = jnow[j]
             /\ \/ jpc[j] = "abandon" /\ jlist'[j] \subseteq jlist[j]
                \/ jlist'[j] = StaleStaging(jnow[j], StagingTTL) /\ UNCHANGED storeVars
  <2>1. CASE k # j
    <3>1. jpc'[j] = jpc[j] /\ jlist'[j] = jlist[j] /\ jnow'[j] = jnow[j]
      BY <1>0, <1>3, <2>1 DEF SweepStep, SweepStart, SweepExpire, SweepStale, SweepAbandon, SweepUnpinned,
         SweepDelete, SweepInvalidate, SweepTrashLive, SweepTrashStaging, SweepDeleteFails, SweepPurge,
         SweepEmptyTrash, JGoto
    <3>. QED  BY <3>1
  <2>2. CASE k = j
    <3>1. SweepStale(j) \/ \E t \in Transfer : SweepAbandon(j, t)
      BY <1>0, <1>3, <2>2 DEF SweepStep, SweepStart, SweepExpire, SweepUnpinned,
         SweepDelete, SweepInvalidate, SweepTrashLive, SweepTrashStaging, SweepDeleteFails, SweepPurge,
         SweepEmptyTrash, JGoto
    <3>. QED  BY <1>0, <3>1 DEF SweepStale, SweepAbandon
  <2>. QED  BY <2>1, <2>2
<1>. QED
  BY <1>1, <1>2, <1>3 DEF ServerNext, serverVars, HandleSimple, HandleCreate, HandlePatch, HandleCommit,
     ClientLeaves, Sweep, HandleClaim, HandleDownload, Restart, TimePasses

\* The row of an upload session is created at the time of its insert.
LEMMA SessionInserts ==
  ASSUME ServerTypes, [ServerNext]_serverVars, NEW r \in SimpleReq \cup CreateReq,
         pc[r] \in Resting \cup {"create"}, Runs(r)', pc'[r] # "create"
  PROVE  \/ pc[r] \in {"created", "done"}
         \/ created'[Target[r]] = now /\ now' = now
<1>. DEFINE t == Target[r]
<1>0. /\ r \in Request /\ t \in Transfer /\ DOMAIN pc = Request /\ created \in [Transfer -> Nat]
      /\ pc[r] # pc'[r] \/ pc[r] \in {"created", "done"}
      /\ r \notin PatchReq \cup CommitReq
  BY RequestAssumption DEF ServerTypes, RequestTypes, StoreInv, StoreTypeOK, Runs, Resting, Request
<1>. HIDE DEF t
<1>1. CASE UNCHANGED pc
  BY <1>0, <1>1
<1>2. CASE ProcessDies
  BY <1>0, <1>2 DEF ProcessDies, KillRequests, Runs, Resting
<1>3. ASSUME NEW q \in Request, q # r, StepOf(q) PROVE pc'[r] = pc[r]
  BY <1>0, <1>3 DEF StepOf
<1>4. ASSUME r \in SimpleReq, SimpleStep(r)
      PROVE  pc[r] \in {"created", "done"} \/ (created'[t] = now /\ now' = now)
  <2>1. CASE CreateSimple(r)
    BY <1>0, <2>1 DEF CreateSimple, CreateTransfer, Advance, Runs, Resting, t
  <2>2. CASE BeginSimple(r)
    BY <1>0, <2>2 DEF BeginSimple, Advance
  <2>3. CASE pc[r] \notin {"idle", "create"}
    BY <2>3 DEF Resting
  <2>. QED
    BY <1>4, <2>1, <2>2, <2>3 DEF SimpleStep, Publish, AllocateCode, MarkVerifying, RecordNoteAndTTL,
       StoreManifest, RenameToLive, AddFile, AddFileFails, CommitSimple, Abort, AbortStaging, AbortPurge
<1>5. ASSUME r \in CreateReq, CreateStep(r)
      PROVE  pc[r] \in {"created", "done"} \/ (created'[t] = now /\ now' = now)
  <2>1. CASE CreateRow(r)
    BY <1>0, <2>1 DEF CreateRow, CreateTransfer, Advance, Runs, Resting, t
  <2>2. CASE CreateStaging(r)
    BY <1>0, <2>2 DEF CreateStaging, Advance
  <2>3. CASE pc[r] \notin {"idle", "create"}
    BY <2>3 DEF Resting
  <2>. QED
    BY <1>5, <2>1, <2>2, <2>3 DEF CreateStep, CreateSegment, Abort, AbortStaging, AbortPurge
<1>6. ASSUME NEW q \in Request, (q \in SimpleReq /\ HandleSimple(q)) \/ (q \in CreateReq /\ HandleCreate(q))
               \/ (q \in PatchReq /\ HandlePatch(q)) \/ (q \in CommitReq /\ HandleCommit(q))
      PROVE  pc[r] \in {"created", "done"} \/ (created'[t] = now /\ now' = now)
  <2>1. StepOf(q)
    BY <1>6, RequestMoves DEF HandleSimple, HandleCreate, HandlePatch, HandleCommit
  <2>2. CASE q = r
    BY <1>0, <1>4, <1>5, <1>6, <2>2 DEF HandleSimple, HandleCreate
  <2>3. CASE q # r
    BY <1>0, <1>3, <2>1, <2>3
  <2>. QED  BY <2>2, <2>3
<1>7. SimpleReq \cup CreateReq \cup PatchReq \cup CommitReq \subseteq Request
  BY DEF Request
<1>8. \/ TimePasses \/ (\E p \in Request : ClientLeaves(p)) \/ UNCHANGED serverVars
      \/ (\E j \in Sweeper : Sweep(j)) \/ Restart
      \/ (\E c \in Claim : HandleClaim(c)) \/ (\E d \in Download : HandleDownload(d))
      => UNCHANGED pc
  BY DEF TimePasses, ClientLeaves, Disconnect, serverVars, Sweep, Restart, HandleClaim, HandleDownload,
     requestVars
<1>. QED  BY <1>1, <1>2, <1>6, <1>7, <1>8 DEF ServerNext, t

\* A row keeps its creation time.
LEMMA CreatedStays ==
  ASSUME StoreInv, StoreStep, NEW t \in Transfer, Exists(t), Exists(t)'
  PROVE  created'[t] = created[t]
<1>. USE DEF StoreInv, StoreTypeOK, Exists
<1>1. CASE \E u \in Transfer, at \in Time, minutes \in TTL : CreateTransfer(u, at, minutes)
  BY <1>1 DEF CreateTransfer
<1>2. CASE \E u \in Transfer : Purge(u)
  BY <1>2 DEF Purge
<1>3. CASE UNCHANGED created
  BY <1>3
<1>. QED
  BY <1>1, <1>2, <1>3 DEF StoreStep, StoreNext, SetState, Fail, SetNoteAndTTL, Allocate, ExpireDue,
     InsertSegment, SetSegmentProgress, CreateClaim, RenewClaim, CompleteClaim, transferVars, storeVars

\* The clock moves under a guard.
LEMMA ClockMoves ==
  ASSUME ServerTypes, [ServerNext]_serverVars
  PROVE  now' = now \/ TimePasses
<1>1. ASSUME NEW r \in Request, SimpleStep(r) \/ CommitStep(r) PROVE UNCHANGED now
  BY <1>1 DEF SimpleStep, CommitStep, Publish, AllocateCode, MarkVerifying, RecordNoteAndTTL,
     StoreManifest, RenameToLive, BeginSimple, CreateSimple, AddFile, AddFileFails, CommitSimple, Abort,
     AbortStaging, AbortPurge, CommitRead, CommitList, CommitMkdir, CommitVerify, CommitMark, MaterializeMkdir,
     Place, MaterializeFinish, CommitFail
<1>2. ASSUME NEW r \in Request, CreateStep(r) \/ PatchStep(r) PROVE UNCHANGED now
  BY <1>2 DEF CreateStep, PatchStep, CreateStaging, CreateRow, CreateSegment, Abort, AbortStaging, AbortPurge,
     PatchReadSegment, PatchReadTransfer, PatchOpen, PatchTruncate, PatchMark, PatchWrite, PatchStop, PatchFinish
<1>3. ASSUME NEW j \in Sweeper, SweepStep(j) PROVE UNCHANGED now
  BY <1>3 DEF SweepStep, SweepStart, SweepExpire, SweepStale, SweepAbandon, SweepUnpinned,
     SweepDelete, SweepInvalidate, SweepTrashLive, SweepTrashStaging, SweepDeleteFails, SweepPurge,
     SweepEmptyTrash
<1>4. ASSUME NEW c, ClaimStep(c) \/ DownloadStep(c) PROVE UNCHANGED now
  BY <1>4 DEF ClaimStep, DownloadStep, Lookup, LookupExpire, StatPayload, ManifestGet, ManifestRead,
     ManifestPut, OpenClaim, Fetch, OpenFile, Renew, Complete, StartStream, StreamEntry, CutStream, EndStream
<1>5. ReconcileStep => UNCHANGED now
  BY DEF ReconcileStep, Begin, ListLive, ListStaging, ToTrashLoop, Finish, Visit,
     CompleteInterruptedPublish, FailRow, DiscardLive, DiscardStaging, PurgeRow, TrashOrphan,
     RemoveOrphan, NextLoop
<1>6. ProcessDies \/ (\E r \in Request : ClientLeaves(r)) \/ UNCHANGED serverVars => UNCHANGED now
  BY DEF ProcessDies, Crash, ClientLeaves, Disconnect, serverVars
<1>7. SimpleReq \cup CreateReq \cup PatchReq \cup CommitReq \subseteq Request
  BY DEF Request
<1>. QED
  BY <1>1, <1>2, <1>3, <1>4, <1>5, <1>6, <1>7 DEF ServerNext, HandleSimple, HandleCreate, HandlePatch,
     HandleCommit, Sweep, HandleClaim, HandleDownload, Restart

\* A PATCH begins by reading the row of its segment.
LEMMA PatchBegins ==
  ASSUME ServerTypes, [ServerNext]_serverVars, NEW r \in PatchReq, ~Runs(r), Runs(r)'
  PROVE  Exists(Target[r]) /\ UNCHANGED storeVars
<1>0. r \in Request /\ r \notin SimpleReq \cup CreateReq \cup CommitReq /\ pc[r] \in Resting /\ pc'[r] # pc[r]
  BY RequestAssumption DEF Request, Runs
<1>1. CASE UNCHANGED pc
  BY <1>0, <1>1
<1>2. CASE ProcessDies
  BY <1>0, <1>2 DEF ProcessDies, KillRequests
<1>3. ASSUME NEW q \in Request, (q \in SimpleReq /\ HandleSimple(q)) \/ (q \in CreateReq /\ HandleCreate(q))
               \/ (q \in PatchReq /\ HandlePatch(q)) \/ (q \in CommitReq /\ HandleCommit(q))
      PROVE  Exists(Target[r]) /\ UNCHANGED storeVars
  <2>1. StepOf(q)
    BY <1>3, RequestMoves DEF HandleSimple, HandleCreate, HandlePatch, HandleCommit
  <2>2. q = r
    BY <1>0, <2>1 DEF StepOf
  <2>3. PatchStep(r)
    BY <1>0, <1>3, <2>2 DEF HandlePatch
  <2>4. PatchReadSegment(r)
    BY <1>0, <2>3 DEF PatchStep, PatchReadTransfer, PatchOpen, PatchTruncate, PatchMark, PatchWrite, PatchStop,
       PatchFinish, Resting
  <2>5. <<Target[r], PatchSegment[r]>> \in segrows /\ UNCHANGED storeVars
    BY <1>0, <2>4 DEF PatchReadSegment, Advance, Runs, Resting, ServerTypes, RequestTypes
  <2>. QED  BY <2>5 DEF ServerTypes, StoreInv, NoDanglingRows
<1>4. SimpleReq \cup CreateReq \cup PatchReq \cup CommitReq \subseteq Request
  BY DEF Request
<1>5. \/ TimePasses \/ (\E p \in Request : ClientLeaves(p)) \/ UNCHANGED serverVars
      \/ (\E j \in Sweeper : Sweep(j)) \/ Restart
      \/ (\E c \in Claim : HandleClaim(c)) \/ (\E d \in Download : HandleDownload(d))
      => UNCHANGED pc
  BY DEF TimePasses, ClientLeaves, Disconnect, serverVars, Sweep, Restart, HandleClaim, HandleDownload,
     requestVars
<1>. QED  BY <1>1, <1>2, <1>3, <1>4, <1>5 DEF ServerNext

\* What a sweep is going to abandon was stale when the sweep looked, and its row,
\* if it is still there, is the same one.
ListedStale ==
    \A j \in Sweeper : \A t \in Transfer :
        jpc[j] = "abandon" /\ t \in jlist[j] /\ Exists(t) => created[t] + StagingTTL < jnow[j]

LEMMA ListedStaleNext ==
  ASSUME Base, Calm, ListedStale, [ServerNext]_serverVars
  PROVE  ListedStale'
<1>. SUFFICES ASSUME NEW j \in Sweeper, NEW t \in Transfer, jpc'[j] = "abandon", t \in jlist'[j], Exists(t)'
              PROVE  created'[t] + StagingTTL < jnow'[j]
  BY JanitorAssumption DEF ListedStale
<1>0. ServerTypes /\ StoreInv /\ StoreStep /\ RowStep(t)
  BY BaseNext, ServerNextTypes DEF Base, ServerTypes, Effects
<1>1. jnow'[j] = jnow[j]
  BY <1>0, SweepLists
<1>2. CASE jpc[j] = "abandon" /\ t \in jlist[j]
  <2>1. Born(t)
    BY <1>2 DEF Base, SweepOK
  <2>2. Exists(t)
    BY <1>0, <2>1 DEF RowStep, RowSame, Exists, PreCommit, NoRow
  <2>. QED  BY <1>0, <1>1, <1>2, <2>2, CreatedStays DEF ListedStale
<1>3. CASE t \in StaleStaging(jnow[j], StagingTTL) /\ UNCHANGED storeVars
  BY <1>1, <1>3 DEF StaleStaging, storeVars, transferVars
<1>. QED  BY <1>0, <1>2, <1>3, SweepLists

LEMMA UndisturbedNext ==
  ASSUME Base, Base', Undisturbed, ListedStale', Timely', [ServerNext]_serverVars
  PROVE  Undisturbed'
<1>. SUFFICES ASSUME NEW j \in Sweeper, NEW r \in Request, jpc'[j] = "abandon", Target[r] \in jlist'[j], Runs(r)'
              PROVE  FALSE
  BY DEF Undisturbed
<1>. DEFINE t == Target[r]
<1>0. /\ ServerTypes /\ t \in Transfer /\ created'[t] \in Nat /\ StagingTTL \in Nat
      /\ jnow'[j] \in Nat /\ jnow'[j] <= now' /\ now' \in Nat
      /\ Born(t)' /\ code'[t] = NoCode /\ RequestOK(r)'
  BY RequestAssumption, JanitorAssumption, ServiceAssumption
     DEF Base, ServerTypes, StoreInv, StoreTypeOK, SweepTypes, SweepOK
<1>1. ~Exists(t)'
  BY <1>0 DEF ListedStale, Timely
<1>2. r \in PatchReq
  <2>1. CASE r \in SimpleReq \cup CreateReq
    <3>1. pc'[r] # "create"
      BY <1>0, <2>1, RequestAssumption DEF Born
    <3>. QED  BY <1>0, <1>1, <2>1, <3>1 DEF RequestOK, Exists, PreCommit, NoRow
  <2>2. CASE r \in CommitReq
    BY <1>0, <1>1, <2>2 DEF RequestOK, Exists, PreCommit, NoRow
  <2>. QED  BY <2>1, <2>2 DEF Request
<1>3. CASE Runs(r)
  <2>1. ~(jpc[j] = "abandon" /\ t \in jlist[j])
    BY <1>3 DEF Undisturbed
  <2>2. t \in StaleStaging(jnow[j], StagingTTL) /\ UNCHANGED storeVars
    BY <1>0, <2>1, SweepLists
  <2>. QED  BY <1>1, <2>2 DEF StaleStaging, Exists, PreCommit, NoRow, storeVars, transferVars
<1>4. CASE ~Runs(r)
  <2>1. Exists(t) /\ UNCHANGED storeVars
    BY <1>0, <1>2, <1>4, PatchBegins
  <2>. QED  BY <1>1, <2>1 DEF Exists, storeVars, transferVars
<1>. QED  BY <1>3, <1>4

LEMMA CalmNext ==
  ASSUME Patient, Base, Calm, ListedStale, Timely', [ServerNext]_serverVars
  PROVE  Base' /\ Calm' /\ ListedStale'
<1>1. Base' /\ ServerTypes
  BY BaseNext DEF Base
<1>2. ListedStale'
  BY ListedStaleNext
<1>3. Alone'
  BY <1>1, AloneNext DEF Calm
<1>4. Undisturbed'
  BY <1>1, <1>2, UndisturbedNext DEF Calm
<1>. QED  BY <1>1, <1>2, <1>3, <1>4 DEF Calm

LEMMA CalmInit == ServerInit => Base /\ Calm /\ ListedStale
<1>1. ServerInit => \A r \in Request : pc[r] = "idle"
  BY DEF ServerInit, RequestInit
<1>2. ServerInit => \A j \in Sweeper : jpc[j] = "idle"
  BY DEF ServerInit, JanitorInit
<1>3. ServerInit => Calm /\ ListedStale
  BY <1>1, <1>2 DEF Calm, Alone, Undisturbed, ListedStale, Runs, Resting, Request
<1>. QED  BY <1>3, BaseInit

\* Senders that never have two of their requests at work, and requests that come
\* and end within the staging lifetime of the transfer, are all the conditions ask
\* for: what the sweep abandons, nobody is working on.
THEOREM TimelyIsCalm == ASSUME Patient PROVE ServerSpec /\ []Timely => []Calm
<1>. DEFINE Inv == Base /\ Calm /\ ListedStale
<1>1. Inv /\ Timely' /\ [ServerNext]_serverVars => Inv'
  BY CalmNext
<1>. QED  BY <1>1, CalmInit, PTL DEF ServerSpec

LEMMA TimelyNext ==
  ASSUME Base, Base', Orderly, Timely, [ServerNext]_serverVars
  PROVE  Timely'
<1>. SUFFICES ASSUME NEW r \in Request, Runs(r)', Exists(Target[r])', code'[Target[r]] = NoCode
              PROVE  now' <= created'[Target[r]] + StagingTTL
  BY DEF Timely
<1>. DEFINE t == Target[r]
<1>0. /\ ServerTypes /\ StoreInv /\ StoreStep /\ StagingTTL \in Nat /\ t \in Transfer
      /\ created[t] \in Nat /\ created'[t] \in Nat
      /\ now \in Nat /\ now' \in Nat /\ now' <= MaxTime /\ MaxTime \in Nat
  BY ServerNextTypes, ServiceAssumption, JanitorAssumption, RequestAssumption
     DEF Base, ServerTypes, StoreInv, StoreTypeOK
<1>. HIDE DEF t
<1>1. CASE StagingTTL >= MaxTime
  BY <1>0, <1>1 DEF t
<1>2. CASE ~Slow /\ PatchReq \cup CommitReq = {}
  <2>0. r \in SimpleReq \cup CreateReq /\ pc'[r] # "create"
    <3>1. r \in SimpleReq \cup CreateReq
      BY <1>2 DEF Request
    <3>2. Born(t)'
      BY <1>0 DEF Base, BornOK, t
    <3>. QED  BY <3>1, <3>2, RequestAssumption DEF Born, t
  <2>1. CASE pc[r] \in Resting \cup {"create"}
    <3>1. pc[r] \notin {"created", "done"}
      <4>1. ASSUME NEW q \in Request, StepOf(q), pc[r] \in {"created", "done"} PROVE FALSE
        BY <2>0, <4>1 DEF StepOf, Runs, Resting
      <4>. QED  BY <1>0, <2>0, <4>1, ServerMoves DEF Runs, Resting
    <3>2. created'[t] = now /\ now' = now
      BY <1>0, <2>0, <2>1, <3>1, SessionInserts DEF t
    <3>. QED  BY <1>0, <3>2 DEF t
  <2>2. CASE pc[r] \notin Resting \cup {"create"}
    <3>1. Runs(r) /\ pc[r] # "create"
      BY <2>2 DEF Runs
    <3>2. Exists(t) /\ code[t] = NoCode
      <4>1. RequestOK(r)
        BY DEF Base
      <4>. QED  BY <2>0, <3>1, <4>1 DEF RequestOK, Exists, PreCommit, NoRow, t
    <3>3. created'[t] = created[t]
      BY <1>0, <3>2, CreatedStays DEF t
    <3>4. now <= created[t] + StagingTTL
      BY <3>1, <3>2 DEF Timely, t
    <3>5. CASE now' = now
      BY <3>3, <3>4, <3>5 DEF t
    <3>6. CASE TimePasses
      <4>1. now < created[t] + StagingTTL
        BY <1>2, <3>1, <3>2, <3>6 DEF TimePasses, Runs, t
      <4>2. now' = now + 1
        BY <3>6 DEF TimePasses, Tick
      <4>. QED  BY <1>0, <3>3, <4>1, <4>2 DEF t
    <3>. QED  BY <1>0, <3>5, <3>6, ClockMoves
  <2>. QED  BY <2>1, <2>2
<1>. QED  BY <1>1, <1>2 DEF Orderly

\* The conditions hold by themselves when the sender waits for its own requests
\* and no upload reaches the staging lifetime, or, with uploads in one request, no
\* handler outlasts it.
THEOREM OrderlyIsCalm == ASSUME Orderly PROVE ServerSpec => []Calm
<1>. DEFINE Inv == Base /\ Calm /\ ListedStale /\ Timely
<1>1. ServerInit => Inv
  <2>1. ServerInit => \A r \in Request : pc[r] = "idle"
    BY DEF ServerInit, RequestInit
  <2>2. ServerInit => Timely
    BY <2>1 DEF Timely, Runs, Resting
  <2>. QED  BY <2>2, CalmInit
<1>2. Inv /\ [ServerNext]_serverVars => Inv'
  <2>. SUFFICES ASSUME Inv, [ServerNext]_serverVars PROVE Inv'
    OBVIOUS
  <2>1. Base'
    BY BaseNext
  <2>2. Timely'
    BY <2>1, TimelyNext
  <2>3. Patient
    BY DEF Orderly
  <2>. QED  BY <2>2, <2>3, CalmNext
<1>. QED  BY <1>1, <1>2, PTL DEF ServerSpec

-----------------------------------------------------------------------------
(* Lifetimes.                                                              *)

\* What may write the lifetime of t to its row: the insert, with the default for
\* a simple upload and the requested lifetime otherwise, and RecordNoteAndTTL.
LifetimeStep(t) ==
    \/ ttl'[t] = ttl[t] /\ (Exists(t)' => Exists(t))
    \/ ~Exists(t)'
    \/ \E q \in SimpleReq \cup CommitReq :
        Target[q] = t /\ pc[q] = "note" /\ ttl'[t] = want[q] /\ UNCHANGED <<want, live>>
    \/ \E q \in SimpleReq :
        Target[q] = t /\ pc[q] = "create" /\ pc'[q] = "adding" /\ UNCHANGED <<want, live>>
    \/ \E q \in CreateReq :
        Target[q] = t /\ pc[q] = "create" /\ ttl'[t] = want[q] /\ UNCHANGED <<want, live>>

\* What may bring a payload to live.
ArrivalStep(t) ==
    live'[t].here =>
        \/ live[t].here
        \/ \E q \in SimpleReq \cup CommitReq :
            Target[q] = t /\ pc[q] = "rename" /\ pc'[q] = "allocate"

\* What may give t a code.
CodeStep(t) ==
    code[t] = NoCode /\ code'[t] # NoCode =>
        \/ \E q \in SimpleReq \cup CommitReq :
            Target[q] = t /\ pc[q] = "allocate" /\ expires'[t] = now + want[q]
        \/ step = "publish" /\ subject = t /\ expires'[t] = now + ttl[t]

\* How a request comes to know its lifetime, and when it is in the row.
WantStep(q) ==
    /\ want'[q] = want[q] \/ pc[q] = "idle"
    /\ q \in CommitReq /\ pc[q] = "idle" /\ Runs(q)' =>
            state[Target[q]] \in PreCommit /\ want'[q] = ttl[Target[q]]
    /\ q \in SimpleReq \cup CreateReq /\ pc[q] = "idle" => pc'[q] \in {"idle", "create"}
    /\ q \in SimpleReq /\ pc'[q] \in {"manifest", "rename", "allocate"} =>
            \/ pc[q] \in {"manifest", "rename", "allocate"}
            \/ pc[q] = "note" /\ (Exists(Target[q]) => ttl'[Target[q]] = want[q])

LifetimeEffects ==
    /\ \A t \in Transfer : LifetimeStep(t) /\ ArrivalStep(t) /\ CodeStep(t)
    /\ \A q \in Request : WantStep(q)

\* The row keeps its lifetime and its existence, or goes.
RowsStay == \A t \in Transfer : (ttl'[t] = ttl[t] /\ (Exists(t)' => Exists(t))) \/ ~Exists(t)'
CodesStay == \A t \in Transfer : code'[t] = code[t] \/ code'[t] = NoCode
NoArrival == \A t \in Transfer : live'[t].here => live[t].here

\* Most calls of the repository give out no code and no lifetime.
LEMMA CallsStay ==
  ASSUME StoreInv, NEW t \in Transfer, NEW at, NEW c, NEW s, NEW n
  PROVE  /\ \A new : SetState(t, new) => RowsStay /\ CodesStay
         /\ Fail(t) => RowsStay /\ CodesStay
         /\ Purge(t) => RowsStay /\ CodesStay
         /\ ExpireDue(at) => RowsStay /\ CodesStay
         /\ InsertSegment(t, s) => RowsStay /\ CodesStay
         /\ SetSegmentProgress(t, s, n) => RowsStay /\ CodesStay
         /\ UNCHANGED transferVars => RowsStay /\ CodesStay
         /\ UNCHANGED storeVars => RowsStay /\ CodesStay
<1>. USE DEF StoreInv, StoreTypeOK, RowsStay, CodesStay, Exists
<1>1. ASSUME NEW new PROVE SetState(t, new) => RowsStay /\ CodesStay
  BY DEF SetState
<1>2. Fail(t) => RowsStay /\ CodesStay
  BY DEF Fail
<1>3. Purge(t) => RowsStay /\ CodesStay
  BY DEF Purge
<1>4. ExpireDue(at) => RowsStay /\ CodesStay
  BY DEF ExpireDue, NoRow
<1>5. UNCHANGED transferVars => RowsStay /\ CodesStay
  BY DEF transferVars
<1>6. /\ InsertSegment(t, s) => UNCHANGED transferVars
      /\ SetSegmentProgress(t, s, n) => UNCHANGED transferVars
      /\ UNCHANGED storeVars => UNCHANGED transferVars
  BY DEF InsertSegment, SetSegmentProgress, storeVars, transferVars
<1>. QED  BY <1>1, <1>2, <1>3, <1>4, <1>5, <1>6

\* Only PublishDir brings a directory to live.
LEMMA OpsBringNothing ==
  ASSUME FilesOK, NEW t \in Transfer, NEW s, NEW i, NEW n
  PROVE  /\ PrepareStaging(t) => NoArrival
         /\ MkdirAll(t) => NoArrival
         /\ RemoveStaging(t) => NoArrival
         /\ WriteManifest(t) => NoArrival
         /\ TrashLive(t) => NoArrival
         /\ TrashStaging(t) => NoArrival
         /\ RemoveSegdir(t) => NoArrival
         /\ AddPayloadFile(t, s) => NoArrival
         /\ OpenSegment(t, s) => NoArrival
         /\ Truncate(t, s, i, n) => NoArrival
         /\ Write(t, s, i, n) => NoArrival
         /\ PlaceSegment(t, s) => NoArrival
         /\ EmptyTrash => NoArrival
         /\ UNCHANGED fileVars => NoArrival
<1>1. UNCHANGED live => NoArrival
  BY DEF NoArrival
<1>2. TrashLive(t) => NoArrival
  BY AbsentDir DEF TrashLive, NoArrival, FilesOK, LayoutTypeOK
<1>. QED
  BY <1>1, <1>2 DEF PrepareStaging, MkdirAll, RemoveStaging, WriteManifest, TrashStaging, RemoveSegdir,
     AddPayloadFile, OpenSegment, Truncate, Write, PlaceSegment, EmptyTrash, fileVars

LEMMA StayEffects ==
  /\ RowsStay => \A t \in Transfer : LifetimeStep(t)
  /\ CodesStay => \A t \in Transfer : CodeStep(t)
  /\ NoArrival => \A t \in Transfer : ArrivalStep(t)
  /\ UNCHANGED <<pc, want>> => \A q \in Request : WantStep(q)
<1>1. RowsStay => \A t \in Transfer : LifetimeStep(t)
  BY DEF RowsStay, LifetimeStep
<1>2. CodesStay => \A t \in Transfer : CodeStep(t)
  BY DEF CodesStay, CodeStep
<1>3. NoArrival => \A t \in Transfer : ArrivalStep(t)
  BY DEF NoArrival, ArrivalStep
<1>4. UNCHANGED <<pc, want>> => \A q \in Request : WantStep(q)
  BY DEF WantStep, Runs, Resting
<1>. QED  BY <1>1, <1>2, <1>3, <1>4

\* A request that moves on, with the lifetime it has.
LEMMA WantKept ==
  ASSUME ServerTypes, NEW r \in Request, NEW next, Advance(r, next), UNCHANGED want, pc[r] # "idle",
         r \in SimpleReq /\ next \in {"manifest", "rename", "allocate"} =>
            \/ pc[r] \in {"manifest", "rename", "allocate"}
            \/ pc[r] = "note" /\ (Exists(Target[r]) => ttl'[Target[r]] = want[r])
  PROVE  \A q \in Request : WantStep(q)
<1>1. DOMAIN pc = Request
  BY DEF ServerTypes, RequestTypes
<1>2. pc'[r] = next /\ \A q \in Request : q # r => pc'[q] = pc[q]
  BY <1>1 DEF Advance
<1>. QED  BY <1>2 DEF WantStep, Runs, Resting

LEMMA PublishLifetime ==
  ASSUME ServerTypes, NEW r \in SimpleReq \cup CommitReq, Publish(r)
  PROVE  LifetimeEffects
<1>. DEFINE t == Target[r]
<1>0. /\ StoreInv /\ FilesOK /\ r \in Request /\ t \in Transfer
      /\ r \notin CreateReq
  BY RequestAssumption DEF ServerTypes, Request
<1>. HIDE DEF t
<1>1. CASE AllocateCode(r)
  <2>1. \A u \in Transfer : LifetimeStep(u) /\ CodeStep(u)
    <3>1. ASSUME NEW c \in Code, Allocate(t, now, want[r], c) PROVE \A u \in Transfer : LifetimeStep(u) /\ CodeStep(u)
      <4>1. RowsStay
        BY <1>0, <3>1 DEF Allocate, PublishNew, PreCommit, NoRow, RowsStay, Exists, StoreInv, StoreTypeOK
      <4>2. \A u \in Transfer : u # t => code'[u] = code[u]
        BY <1>0, <3>1 DEF Allocate, StoreInv, StoreTypeOK
      <4>3. expires'[t] = now + want[r] /\ pc[r] = "allocate"
        BY <1>0, <1>1, <3>1 DEF Allocate, StoreInv, StoreTypeOK, AllocateCode
      <4>4. \A u \in Transfer : CodeStep(u)
        BY <4>2, <4>3 DEF CodeStep, t
      <4>. QED  BY <4>1, <4>4, StayEffects
    <3>2. UNCHANGED storeVars => \A u \in Transfer : LifetimeStep(u) /\ CodeStep(u)
      BY <1>0, CallsStay, StayEffects
    <3>. QED  BY <1>1, <3>1, <3>2 DEF AllocateCode, t
  <2>2. \A u \in Transfer : ArrivalStep(u)
    BY <1>0, <1>1, OpsBringNothing, StayEffects DEF AllocateCode
  <2>3. \A q \in Request : WantStep(q)
    <3>1. \E next : Advance(r, next) /\ next \notin {"manifest", "rename", "allocate"}
      BY <1>1 DEF AllocateCode, Answer, ErrorExit
    <3>. QED  BY <1>0, <1>1, <3>1, WantKept DEF AllocateCode
  <2>. QED  BY <2>1, <2>2, <2>3 DEF LifetimeEffects
<1>2. CASE MarkVerifying(r)
  <2>1. RowsStay /\ CodesStay
    BY <1>0, <1>2, CallsStay DEF MarkVerifying, Record, t
  <2>2. NoArrival
    BY <1>0, <1>2, OpsBringNothing DEF MarkVerifying
  <2>3. \A q \in Request : WantStep(q)
    <3>1. \E next : Advance(r, next) /\ next \notin {"manifest", "rename", "allocate"}
      BY <1>2 DEF MarkVerifying, Record, ErrorExit
    <3>. QED  BY <1>0, <1>2, <3>1, WantKept DEF MarkVerifying
  <2>. QED  BY <2>1, <2>2, <2>3, StayEffects DEF LifetimeEffects
<1>3. CASE RecordNoteAndTTL(r)
  <2>0. pc[r] = "note" /\ UNCHANGED <<want, fileVars>>
    BY <1>3 DEF RecordNoteAndTTL
  <2>1. CASE SetNoteAndTTL(t, want[r]) /\ Advance(r, "manifest")
    <3>1. CodesStay /\ UNCHANGED state
      BY <1>0, <2>1 DEF SetNoteAndTTL, CodesStay
    <3>2. \A u \in Transfer : u # t => ttl'[u] = ttl[u]
      BY <1>0, <2>1 DEF SetNoteAndTTL, StoreInv, StoreTypeOK
    <3>3. Exists(t) => ttl'[t] = want[r]
      BY <1>0, <2>1 DEF SetNoteAndTTL, StoreInv, StoreTypeOK
    <3>4. \A u \in Transfer : LifetimeStep(u)
      BY <1>0, <2>0, <3>1, <3>2, <3>3 DEF LifetimeStep, Exists, fileVars, t
    <3>5. \A q \in Request : WantStep(q)
      BY <1>0, <2>0, <2>1, <3>3, WantKept DEF t
    <3>. QED  BY <1>0, <2>0, <3>1, <3>4, <3>5, OpsBringNothing, StayEffects DEF LifetimeEffects
  <2>2. CASE UNCHANGED storeVars /\ ErrorExit(r)
    <3>1. \E next : Advance(r, next) /\ next \notin {"manifest", "rename", "allocate"}
      BY <2>2 DEF ErrorExit
    <3>2. \A q \in Request : WantStep(q)
      BY <1>0, <2>0, <3>1, WantKept
    <3>. QED  BY <1>0, <2>0, <2>2, <3>2, CallsStay, OpsBringNothing, StayEffects DEF LifetimeEffects
  <2>. QED  BY <1>3, <2>1, <2>2 DEF RecordNoteAndTTL, Record, t
<1>4. CASE StoreManifest(r)
  <2>1. NoArrival
    BY <1>0, <1>4, OpsBringNothing DEF StoreManifest, t
  <2>2. \A q \in Request : WantStep(q)
    BY <1>0, <1>4, WantKept DEF StoreManifest, ErrorExit
  <2>. QED  BY <1>0, <1>4, <2>1, <2>2, CallsStay, StayEffects DEF LifetimeEffects, StoreManifest
<1>5. CASE RenameToLive(r)
  <2>1. \A u \in Transfer : ArrivalStep(u)
    <3>1. CASE PublishDir(t) /\ Advance(r, "allocate")
      <4>1. \A u \in Transfer : u # t => live'[u] = live[u]
        BY <1>0, <3>1 DEF PublishDir, FilesOK, LayoutTypeOK
      <4>2. pc[r] = "rename" /\ pc'[r] = "allocate"
        BY <1>0, <1>5, <3>1 DEF RenameToLive, Advance, ServerTypes, RequestTypes
      <4>. QED  BY <4>1, <4>2 DEF ArrivalStep, t
    <3>2. CASE UNCHANGED fileVars
      BY <1>0, <3>2, OpsBringNothing, StayEffects
    <3>. QED  BY <1>5, <3>1, <3>2 DEF RenameToLive, t
  <2>2. \A q \in Request : WantStep(q)
    BY <1>0, <1>5, WantKept DEF RenameToLive, ErrorExit
  <2>. QED  BY <1>0, <1>5, <2>1, <2>2, CallsStay, StayEffects DEF LifetimeEffects, RenameToLive
<1>. QED  BY <1>1, <1>2, <1>3, <1>4, <1>5 DEF Publish

\* A session begins, or inserts its row.
LEMMA SessionLifetime ==
  ASSUME ServerTypes, NEW r \in SimpleReq \cup CreateReq,
         \/ r \in SimpleReq /\ (BeginSimple(r) \/ CreateSimple(r))
         \/ r \in CreateReq /\ (CreateStaging(r) \/ CreateRow(r))
  PROVE  LifetimeEffects
<1>. DEFINE t == Target[r]
<1>0. /\ StoreInv /\ FilesOK /\ r \in Request /\ t \in Transfer /\ DOMAIN pc = Request
      /\ want \in [Request -> Nat] /\ r \notin CommitReq
  BY RequestAssumption DEF ServerTypes, RequestTypes, Request
<1>. HIDE DEF t
<1>1. CASE BeginSimple(r) \/ CreateStaging(r)
  <2>1. pc[r] = "idle" /\ Advance(r, "create") /\ PrepareStaging(t) /\ UNCHANGED storeVars
        /\ \E minutes \in TTL : want' = [want EXCEPT ![r] = minutes]
    BY <1>1 DEF BeginSimple, CreateStaging, t
  <2>2. \A q \in Request : WantStep(q)
    <3>1. pc'[r] = "create" /\ \A q \in Request : q # r => pc'[q] = pc[q] /\ want'[q] = want[q]
      BY <1>0, <2>1 DEF Advance
    <3>. QED  BY <1>0, <2>1, <3>1 DEF WantStep, Runs, Resting
  <2>. QED  BY <1>0, <2>1, <2>2, CallsStay, OpsBringNothing, StayEffects DEF LifetimeEffects
<1>2. CASE (r \in SimpleReq /\ CreateSimple(r)) \/ (r \in CreateReq /\ CreateRow(r))
  <2>0. pc[r] = "create" /\ UNCHANGED want
    BY <1>2 DEF CreateSimple, CreateRow
  <2>1. CASE RemoveStaging(t) /\ Advance(r, "done") /\ UNCHANGED storeVars
    <3>1. \A q \in Request : WantStep(q)
      BY <1>0, <2>0, <2>1, WantKept
    <3>. QED  BY <1>0, <2>1, <3>1, CallsStay, OpsBringNothing, StayEffects DEF LifetimeEffects
  <2>2. ASSUME NEW minutes, CreateTransfer(t, now, minutes), UNCHANGED fileVars,
               \/ r \in SimpleReq /\ Advance(r, "adding")
               \/ r \in CreateReq /\ minutes = want[r] /\ Advance(r, "segments")
        PROVE  LifetimeEffects
    <3>1. \A q \in Request : WantStep(q)
      BY <1>0, <2>0, <2>2, WantKept
    <3>2. CodesStay /\ ttl'[t] = minutes /\ \A u \in Transfer : u # t => ttl'[u] = ttl[u] /\ state'[u] = state[u]
      BY <1>0, <2>2 DEF CreateTransfer, CodesStay, StoreInv, StoreTypeOK
    <3>3. r \in SimpleReq /\ Advance(r, "adding") => pc'[r] = "adding"
      BY <1>0 DEF Advance
    <3>4. LifetimeStep(t)
      BY <2>0, <2>2, <3>2, <3>3 DEF LifetimeStep, fileVars, t
    <3>5. \A u \in Transfer : LifetimeStep(u)
      BY <3>2, <3>4 DEF LifetimeStep, Exists
    <3>. QED  BY <1>0, <2>2, <3>1, <3>2, <3>5, OpsBringNothing, StayEffects DEF LifetimeEffects
  <2>. QED  BY <1>2, <2>1, <2>2, RequestAssumption DEF CreateSimple, CreateRow, t
<1>. QED  BY <1>1, <1>2

LEMMA RequestLifetime ==
  ASSUME ServerTypes, NEW r \in Request,
         \/ r \in SimpleReq /\ SimpleStep(r)
         \/ r \in CreateReq /\ CreateStep(r)
         \/ r \in PatchReq /\ PatchStep(r)
         \/ r \in CommitReq /\ CommitStep(r)
  PROVE  LifetimeEffects
<1>. DEFINE t == Target[r]
<1>0. /\ StoreInv /\ FilesOK /\ t \in Transfer /\ DOMAIN pc = Request
      /\ want \in [Request -> Nat]
  BY RequestAssumption DEF ServerTypes, RequestTypes
<1>. HIDE DEF t
<1>1. ASSUME RowsStay, CodesStay, NoArrival, \A q \in Request : WantStep(q) PROVE LifetimeEffects
  BY <1>1, StayEffects DEF LifetimeEffects
<1>2. ASSUME UNCHANGED want, pc[r] # "idle",
             \E next : Advance(r, next) /\ (r \in SimpleReq => next \notin {"manifest", "rename", "allocate"})
      PROVE  \A q \in Request : WantStep(q)
  BY <1>2, WantKept
<1>3. UNCHANGED <<pc, want>> => \A q \in Request : WantStep(q)
  BY StayEffects
<1>4. UNCHANGED storeVars => RowsStay /\ CodesStay
  BY <1>0, CallsStay
<1>5. UNCHANGED fileVars => NoArrival
  BY <1>0, OpsBringNothing
<1>6. ASSUME r \in SimpleReq \cup CreateReq, Abort(r) PROVE LifetimeEffects
  <2>1. RowsStay /\ CodesStay
    BY <1>0, <1>4, <1>6, CallsStay DEF Abort, AbortStaging, AbortPurge, t
  <2>2. NoArrival
    BY <1>0, <1>5, <1>6, OpsBringNothing DEF Abort, AbortStaging, AbortPurge, t
  <2>3. \A q \in Request : WantStep(q)
    BY <1>2, <1>6 DEF Abort, AbortStaging, AbortPurge
  <2>. QED  BY <1>1, <2>1, <2>2, <2>3
<1>7. CASE r \in SimpleReq /\ SimpleStep(r)
  <2>1. ASSUME (\E s \in Segment : AddFile(r, s)) \/ AddFileFails(r) \/ CommitSimple(r) PROVE LifetimeEffects
    <3>1. UNCHANGED storeVars
      BY <2>1 DEF AddFile, AddFileFails, CommitSimple
    <3>2. NoArrival
      BY <1>0, <1>5, <2>1, OpsBringNothing DEF AddFile, AddFileFails, CommitSimple, t
    <3>3. \A q \in Request : WantStep(q)
      BY <1>2, <1>3, <2>1 DEF AddFile, AddFileFails, CommitSimple, ErrorExit
    <3>. QED  BY <1>1, <1>4, <3>1, <3>2, <3>3
  <2>. QED  BY <1>6, <1>7, <2>1, PublishLifetime, SessionLifetime DEF SimpleStep
<1>8. CASE r \in CreateReq /\ CreateStep(r)
  <2>1. ASSUME NEW s \in Segment, CreateSegment(r, s) PROVE LifetimeEffects
    <3>1. RowsStay /\ CodesStay
      BY <1>0, <1>4, <2>1, CallsStay DEF CreateSegment, t
    <3>2. NoArrival
      BY <1>5, <2>1 DEF CreateSegment
    <3>3. \A q \in Request : WantStep(q)
      BY <1>2, <1>8, <2>1, RequestAssumption DEF CreateSegment, ErrorExit
    <3>. QED  BY <1>1, <3>1, <3>2, <3>3
  <2>. QED  BY <1>6, <1>8, <2>1, SessionLifetime DEF CreateStep
<1>9. CASE r \in PatchReq /\ PatchStep(r)
  <2>0. r \notin SimpleReq /\ r \notin CreateReq /\ r \notin CommitReq
    BY <1>9, RequestAssumption
  <2>1. RowsStay /\ CodesStay
    BY <1>0, <1>4, <1>9, CallsStay DEF PatchStep, PatchReadSegment, PatchReadTransfer, PatchOpen,
       PatchTruncate, PatchMark, PatchWrite, PatchStop, PatchFinish, t
  <2>2. NoArrival
    BY <1>0, <1>5, <1>9, OpsBringNothing DEF PatchStep, PatchReadSegment, PatchReadTransfer, PatchOpen,
       PatchTruncate, PatchMark, PatchWrite, PatchStop, PatchFinish, t
  <2>3. UNCHANGED want
    BY <1>9 DEF PatchStep, PatchReadSegment, PatchReadTransfer, PatchOpen,
       PatchTruncate, PatchMark, PatchWrite, PatchStop, PatchFinish, requestVars
  <2>4. StepOf(r)
    BY <1>9, RequestMoves
  <2>5. \A q \in Request : WantStep(q)
    BY <2>0, <2>3, <2>4 DEF WantStep, StepOf, Runs, Resting
  <2>. QED  BY <1>1, <2>1, <2>2, <2>5
<1>10. CASE r \in CommitReq /\ CommitStep(r)
  <2>0. r \notin SimpleReq /\ r \notin CreateReq
    BY <1>10, RequestAssumption
  <2>1. CASE CommitRead(r)
    <3>1. UNCHANGED <<storeVars, fileVars>> /\ pc[r] = "idle"
      BY <2>1 DEF CommitRead, Sent
    <3>2. \A q \in Request : q # r => want'[q] = want[q] /\ pc'[q] = pc[q]
      BY <1>0, <2>1 DEF CommitRead, Answer, Advance
    <3>3. Runs(r)' => state[t] \in PreCommit /\ want'[r] = ttl[t]
      <4>1. CASE state[t] \in PreCommit
        BY <1>0, <2>1, <4>1 DEF CommitRead, Committed, PreCommit, t
      <4>2. CASE state[t] \notin PreCommit
        <5>1. Advance(r, "done")
          BY <2>1, <4>2 DEF CommitRead, Answer, t
        <5>. QED  BY <1>0, <5>1 DEF Advance, Runs, Resting
      <4>. QED  BY <4>1, <4>2
    <3>4. \A q \in Request : WantStep(q)
      BY <2>0, <3>1, <3>2, <3>3 DEF WantStep, Runs, Resting, t
    <3>. QED  BY <1>1, <1>4, <1>5, <3>1, <3>4
  <2>2. ASSUME CommitList(r) \/ CommitMkdir(r) \/ CommitVerify(r) \/ CommitMark(r) \/ MaterializeMkdir(r)
               \/ (\E s \in Segment : Place(r, s)) \/ MaterializeFinish(r) \/ CommitFail(r)
        PROVE  LifetimeEffects
    <3>1. RowsStay /\ CodesStay
      BY <1>0, <1>4, <2>2, CallsStay DEF CommitList, CommitMkdir, CommitVerify, CommitMark, MaterializeMkdir,
         Place, MaterializeFinish, CommitFail, Record, t
    <3>2. NoArrival
      BY <1>0, <1>5, <2>2, OpsBringNothing DEF CommitList, CommitMkdir, CommitVerify, CommitMark, MaterializeMkdir,
         Place, MaterializeFinish, CommitFail, t
    <3>3. pc[r] # "idle" /\ UNCHANGED want
      BY <2>2 DEF CommitList, CommitMkdir, CommitVerify, CommitMark, MaterializeMkdir,
         Place, MaterializeFinish, CommitFail
    <3>4. StepOf(r)
      BY <1>10, RequestMoves
    <3>5. \A q \in Request : WantStep(q)
      BY <2>0, <3>3, <3>4 DEF WantStep, StepOf, Runs, Resting
    <3>. QED  BY <1>1, <3>1, <3>2, <3>5
  <2>. QED  BY <1>10, <2>1, <2>2, PublishLifetime DEF CommitStep
<1>. QED  BY <1>7, <1>8, <1>9, <1>10

LEMMA OthersLifetime ==
  ASSUME ServerTypes, [ServerNext]_serverVars
  PROVE  LifetimeEffects
<1>0. StoreInv /\ FilesOK
  BY DEF ServerTypes
<1>1. ASSUME RowsStay, CodesStay, NoArrival, UNCHANGED requestVars PROVE LifetimeEffects
  BY <1>1, StayEffects DEF LifetimeEffects, requestVars
<1>2. /\ UNCHANGED transferVars => RowsStay /\ CodesStay
      /\ UNCHANGED storeVars => RowsStay /\ CodesStay
  BY <1>0 DEF RowsStay, CodesStay, transferVars, storeVars, Exists
<1>3. UNCHANGED fileVars => NoArrival
  BY DEF NoArrival, fileVars
<1>4. ASSUME NEW j \in Sweeper, Sweep(j) PROVE LifetimeEffects
  <2>0. /\ SweepStep(j) /\ UNCHANGED requestVars
        /\ jpc[j] \in {"invalidate", "trashLive", "trashStaging", "purge"} => jid[j] \in Transfer
    BY <1>4 DEF Sweep, ServerTypes, SweepTypes
  <2>1. RowsStay /\ CodesStay
    <3>1. SweepExpire(j) => RowsStay /\ CodesStay
      BY <1>0 DEF SweepExpire, ExpireDue, RowsStay, CodesStay, Exists, NoRow, StoreInv, StoreTypeOK
    <3>2. ASSUME NEW t \in Transfer, SweepAbandon(j, t) \/ SweepDelete(j, t) PROVE RowsStay /\ CodesStay
      BY <1>0, <3>2, CallsStay DEF SweepAbandon, SweepDelete
    <3>3. SweepPurge(j) => RowsStay /\ CodesStay
      BY <1>0, <2>0, CallsStay DEF SweepPurge
    <3>. QED
      BY <1>2, <2>0, <3>1, <3>2, <3>3 DEF SweepStep, SweepStart, SweepStale, SweepUnpinned, SweepInvalidate,
         SweepTrashLive, SweepTrashStaging, SweepDeleteFails, SweepEmptyTrash
  <2>2. NoArrival
    <3>1. SweepTrashLive(j) \/ SweepTrashStaging(j) => NoArrival
      BY <1>0, <2>0, OpsBringNothing DEF SweepTrashLive, SweepTrashStaging
    <3>2. SweepEmptyTrash(j) => NoArrival
      BY DEF SweepEmptyTrash, EmptyTrash, NoArrival
    <3>. QED
      BY <1>3, <2>0, <3>1, <3>2 DEF SweepStep, SweepStart, SweepExpire, SweepStale, SweepAbandon,
         SweepUnpinned, SweepDelete, SweepInvalidate, SweepDeleteFails, SweepPurge
  <2>. QED  BY <1>1, <2>0, <2>1, <2>2
<1>5. ASSUME NEW c \in Receiver, (c \in Claim /\ HandleClaim(c)) \/ (c \in Download /\ HandleDownload(c))
      PROVE  LifetimeEffects
  <2>0. (ClaimStep(c) \/ DownloadStep(c)) /\ UNCHANGED requestVars
    BY <1>5 DEF HandleClaim, HandleDownload
  <2>1. UNCHANGED fileVars
    BY <2>0 DEF ClaimStep, DownloadStep, Lookup, LookupExpire, StatPayload, ManifestGet, ManifestRead,
       ManifestPut, OpenClaim, Fetch, OpenFile, Renew, Complete, StartStream, StreamEntry, CutStream, EndStream
  <2>2. ASSUME LookupExpire(c) PROVE RowsStay /\ CodesStay
    <3>1. found[c] \in Transfer
      BY <2>2 DEF ServerTypes, ReceiverTypes, LookupExpire
    <3>. QED  BY <1>0, <2>2, <3>1, CallsStay DEF LookupExpire
  <2>3. LookupExpire(c) \/ UNCHANGED transferVars
    BY <2>0 DEF ClaimStep, DownloadStep, Lookup, StatPayload, ManifestGet, ManifestRead, ManifestPut, OpenClaim,
       Fetch, OpenFile, Renew, Complete, StartStream, StreamEntry, CutStream, EndStream, CreateClaim,
       RenewClaim, CompleteClaim, transferVars, storeVars
  <2>. QED  BY <1>1, <1>2, <1>3, <2>0, <2>1, <2>2, <2>3
<1>6. CASE Restart
  <2>0. ReconcileStep /\ UNCHANGED <<requestVars>>
    BY <1>6 DEF Restart
  <2>1. NoArrival
    <3>1. ASSUME NEW u \in Transfer, DiscardLive(u) \/ DiscardStaging(u) \/ RemoveOrphan(u) PROVE NoArrival
      BY <1>0, <3>1, OpsBringNothing DEF DiscardLive, DiscardStaging, RemoveOrphan
    <3>2. Finish => NoArrival
      BY DEF Finish, EmptyTrash, NoArrival
    <3>. QED
      BY <1>3, <2>0, <3>1, <3>2 DEF ReconcileStep, Begin, ListLive, ListStaging, ToTrashLoop,
         NextLoop, Visit, CompleteInterruptedPublish, FailRow, PurgeRow, TrashOrphan
  <2>2. ASSUME NEW t \in Transfer, NEW c \in Code, CompleteInterruptedPublish(t), Allocate(t, now, ttl[t], c)
        PROVE  LifetimeEffects
    <3>1. RowsStay
      BY <1>0, <2>2 DEF Allocate, PublishNew, PreCommit, NoRow, RowsStay, Exists, StoreInv, StoreTypeOK
    <3>2. \A u \in Transfer : u # t => code'[u] = code[u]
      BY <1>0, <2>2 DEF Allocate, StoreInv, StoreTypeOK
    <3>3. expires'[t] = now + ttl[t] /\ step = "publish" /\ subject = t
      BY <1>0, <2>2 DEF Allocate, StoreInv, StoreTypeOK, CompleteInterruptedPublish
    <3>4. \A u \in Transfer : CodeStep(u)
      BY <3>2, <3>3 DEF CodeStep
    <3>. QED  BY <2>0, <2>1, <3>1, <3>4, StayEffects DEF LifetimeEffects, requestVars
  <2>3. ASSUME NEW t \in Transfer, FailRow(t) \/ PurgeRow(t) PROVE RowsStay /\ CodesStay
    BY <1>0, <2>3, CallsStay DEF FailRow, PurgeRow
  <2>4. \/ \E t \in Transfer, c \in Code : CompleteInterruptedPublish(t) /\ Allocate(t, now, ttl[t], c)
        \/ \E t \in Transfer : FailRow(t) \/ PurgeRow(t)
        \/ UNCHANGED storeVars
    BY <2>0 DEF ReconcileStep, Begin, ListLive, ListStaging, ToTrashLoop, Finish,
       NextLoop, Visit, CompleteInterruptedPublish, DiscardLive, DiscardStaging, TrashOrphan, RemoveOrphan
  <2>. QED  BY <1>1, <1>2, <2>0, <2>1, <2>2, <2>3, <2>4
<1>7. CASE ProcessDies
  <2>1. UNCHANGED <<storeVars, fileVars, want>>
    BY <1>7 DEF ProcessDies, Crash, KillRequests
  <2>2. \A q \in Request : WantStep(q)
    BY <1>7, <2>1 DEF ProcessDies, KillRequests, WantStep, Runs, Resting
  <2>. QED  BY <1>2, <1>3, <2>1, <2>2, StayEffects DEF LifetimeEffects
<1>8. ASSUME TimePasses \/ (\E r \in Request : ClientLeaves(r)) \/ UNCHANGED serverVars PROVE LifetimeEffects
  <2>1. UNCHANGED <<storeVars, fileVars, pc, want>>
    BY <1>8 DEF TimePasses, Tick, ClientLeaves, Disconnect, serverVars, requestVars
  <2>. QED  BY <1>2, <1>3, <2>1, StayEffects DEF LifetimeEffects
<1>9. ASSUME NEW r \in Request, (r \in SimpleReq /\ HandleSimple(r)) \/ (r \in CreateReq /\ HandleCreate(r))
               \/ (r \in PatchReq /\ HandlePatch(r)) \/ (r \in CommitReq /\ HandleCommit(r))
      PROVE  LifetimeEffects
  BY <1>9, RequestLifetime DEF HandleSimple, HandleCreate, HandlePatch, HandleCommit
<1>10. SimpleReq \cup CreateReq \cup PatchReq \cup CommitReq \subseteq Request /\ Claim \cup Download \subseteq Receiver
  BY DEF Request, Receiver
<1>. QED  BY <1>4, <1>5, <1>6, <1>7, <1>8, <1>9, <1>10 DEF ServerNext

\* The row of a transfer has the lifetime its sender asked for: from the insert on
\* for a resumable upload, from RecordNoteAndTTL on for a simple one.
RowLifetime(r) ==
    LET t == Target[r] IN
    /\ r \in CreateReq /\ Exists(t) => ttl[t] = want[r]
    /\ /\ r \in SimpleReq /\ Exists(t)
       /\ live[t].here \/ pc[r] \in {"manifest", "rename", "allocate"}
       => ttl[t] = want[r]

\* A commit at work has the lifetime of the creation.
CommitLifetime(q) ==
    q \in CommitReq /\ Runs(q) => \A r \in CreateReq : Target[r] = Target[q] => want[q] = want[r]

Lifetimes ==
    /\ \A r \in SimpleReq \cup CreateReq : RowLifetime(r)
    /\ \A q \in CommitReq : CommitLifetime(q)

\* A commit at work is for a resumable transfer whose creation has returned.
LEMMA CommitOwner ==
  ASSUME Base, NEW q \in CommitReq, pc[q] # "idle", NEW r \in SimpleReq \cup CreateReq, Target[r] = Target[q]
  PROVE  r \in CreateReq /\ pc[r] = "created"
<1>1. SentOK(q)
  BY DEF Base, Request
<1>. QED  BY <1>1, RequestAssumption DEF SentOK, CreationReturned

\* What has not been inserted is not there.
LEMMA Unborn ==
  ASSUME Base, NEW r \in SimpleReq \cup CreateReq, pc[r] \in {"idle", "create"}
  PROVE  ~Exists(Target[r]) /\ ~live[Target[r]].here
<1>1. Target[r] \in Transfer /\ ~Born(Target[r])
  BY RequestAssumption DEF Born, Request
<1>. QED  BY <1>1 DEF Base, BornOK

LEMMA LifetimesNext ==
  ASSUME Base, Base', Lifetimes, [ServerNext]_serverVars
  PROVE  Lifetimes'
<1>0. LifetimeEffects
  BY OthersLifetime DEF Base
<1>1. ASSUME NEW r \in SimpleReq \cup CreateReq PROVE RowLifetime(r)'
  <2>. DEFINE t == Target[r]
  <2>0. t \in Transfer /\ r \in Request /\ RowLifetime(r)
    BY RequestAssumption DEF Request, Lifetimes
  <2>1. LifetimeStep(t) /\ ArrivalStep(t) /\ WantStep(r)
    BY <1>0, <2>0 DEF LifetimeEffects
  <2>2. \A q \in SimpleReq \cup CreateReq : Target[q] = t => q = r
    BY RequestAssumption
  <2>3. \A q \in CommitReq : Target[q] = t /\ pc[q] # "idle" => r \in CreateReq
    BY CommitOwner
  <2>4. ~(r \in SimpleReq /\ r \in CreateReq)
    BY RequestAssumption
  <2>. HIDE DEF t
  <2>5. CASE pc'[r] \in {"idle", "create"}
    <3>1. ~Exists(t)'
      <4>1. ~Born(t)'
        BY <2>2, <2>5 DEF Born
      <4>. QED  BY <2>0, <4>1 DEF Base, BornOK
    <3>. QED  BY <3>1 DEF RowLifetime, t
  <2>6. CASE pc'[r] \notin {"idle", "create"} /\ ~Exists(t)'
    BY <2>6 DEF RowLifetime, t
  <2>7. CASE pc'[r] \notin {"idle", "create"} /\ Exists(t)'
    <3>1. want'[r] = want[r]
      BY <2>1, <2>7 DEF WantStep
    <3>2. CASE ttl'[t] = ttl[t] /\ Exists(t)
      <4>1. CASE r \in CreateReq
        BY <2>0, <2>4, <3>1, <3>2, <4>1 DEF RowLifetime, t
      <4>2. CASE r \in SimpleReq /\ live'[t].here
        <5>1. live[t].here \/ pc[r] = "rename"
          BY <2>1, <2>2, <2>3, <2>4, <4>2 DEF ArrivalStep
        <5>. QED  BY <2>0, <2>4, <3>1, <3>2, <4>2, <5>1 DEF RowLifetime, t
      <4>3. CASE r \in SimpleReq /\ pc'[r] \in {"manifest", "rename", "allocate"}
        BY <2>0, <2>1, <2>4, <3>1, <3>2, <4>3 DEF RowLifetime, WantStep, t
      <4>. QED  BY <2>4, <4>1, <4>2, <4>3 DEF RowLifetime, t
    <3>3. ASSUME NEW q \in SimpleReq \cup CommitReq, Target[q] = t, pc[q] = "note", ttl'[t] = want[q]
          PROVE  ttl'[t] = want[r]
      <4>1. CASE q \in SimpleReq
        BY <2>2, <3>3, <4>1
      <4>2. CASE q \in CommitReq
        BY <2>3, <3>3, <4>2 DEF Lifetimes, CommitLifetime, Runs, Resting, t
      <4>. QED  BY <4>1, <4>2
    <3>4. ASSUME NEW q \in SimpleReq, Target[q] = t, pc[q] = "create", pc'[q] = "adding", UNCHANGED live
          PROVE  RowLifetime(r)'
      <4>1. q = r
        BY <2>2, <3>4
      <4>2. ~live'[t].here
        BY <3>4, <4>1, Unborn DEF t
      <4>. QED  BY <2>4, <3>4, <4>1, <4>2 DEF RowLifetime, t
    <3>5. ASSUME NEW q \in CreateReq, Target[q] = t, ttl'[t] = want[q]
          PROVE  ttl'[t] = want[r]
      BY <2>2, <3>5
    <3>6. ttl'[t] = want[r] => RowLifetime(r)'
      BY <3>1 DEF RowLifetime, t
    <3>. QED  BY <2>1, <2>7, <3>2, <3>3, <3>4, <3>5, <3>6 DEF LifetimeStep
  <2>. QED  BY <2>5, <2>6, <2>7
<1>2. ASSUME NEW q \in CommitReq, Runs(q)', NEW r \in CreateReq, Target[r] = Target[q]
      PROVE  want'[q] = want'[r]
  <2>0. WantStep(q) /\ WantStep(r) /\ CommitLifetime(q) /\ RowLifetime(r) /\ q \in Request
    BY <1>0 DEF LifetimeEffects, Request, Lifetimes
  <2>1. pc'[r] = "created"
    <3>1. pc'[q] # "idle"
      BY <1>2 DEF Runs, Resting
    <3>2. SentOK(q)'
      BY <2>0 DEF Base
    <3>. QED  BY <1>2, <3>1, <3>2, RequestAssumption DEF SentOK, CreationReturned
  <2>2. want'[r] = want[r]
    BY <2>0, <2>1 DEF WantStep
  <2>3. CASE pc[q] = "idle"
    <3>1. state[Target[q]] \in PreCommit /\ want'[q] = ttl[Target[q]]
      BY <1>2, <2>0, <2>3 DEF WantStep
    <3>. QED  BY <1>2, <2>0, <2>2, <3>1 DEF RowLifetime, Exists, PreCommit, NoRow
  <2>4. CASE pc[q] # "idle"
    <3>1. Runs(q)
      <4>1. ASSUME NEW p \in Request, StepOf(p) PROVE Runs(q)
        BY <1>2, <2>0, <2>4, <4>1 DEF StepOf, Runs
      <4>2. CASE \A p \in Request : pc'[p] = pc[p]
        BY <1>2, <2>0, <4>2 DEF Runs
      <4>3. CASE \A p \in Request : IF pc[p] \in Resting THEN pc'[p] = pc[p] ELSE pc'[p] = "done"
        BY <1>2, <2>0, <4>3 DEF Runs, Resting
      <4>. QED  BY <4>1, <4>2, <4>3, ServerMoves DEF Base
    <3>. QED  BY <1>2, <2>0, <2>2, <2>4, <3>1 DEF WantStep, CommitLifetime
  <2>. QED  BY <2>3, <2>4
<1>. QED  BY <1>1, <1>2 DEF Lifetimes, CommitLifetime

LEMMA LifetimesAlways == ServerSpec /\ []Calm => []Lifetimes
<1>1. ServerInit => Lifetimes
  <2>1. ServerInit => \A r \in Request : pc[r] = "idle"
    BY DEF ServerInit, RequestInit
  <2>2. ServerInit => \A t \in Transfer : ~Exists(t)
    BY DEF ServerInit, StoreInit, Exists
  <2>3. \A r \in SimpleReq \cup CreateReq : Target[r] \in Transfer
    BY RequestAssumption DEF Request
  <2>. QED  BY <2>1, <2>2, <2>3 DEF Lifetimes, RowLifetime, CommitLifetime, Runs, Resting, Request
<1>2. Base /\ Calm /\ Lifetimes /\ [ServerNext]_serverVars => Lifetimes'
  BY BaseNext, LifetimesNext
<1>. QED  BY <1>1, <1>2, BaseAlways, PTL DEF ServerSpec

\* The expiry of a new code.
LEMMA NewExpiry ==
  ASSUME Base, Lifetimes, [ServerNext]_serverVars, NEW r \in SimpleReq \cup CreateReq,
         code[Target[r]] = NoCode, code'[Target[r]] # NoCode
  PROVE  expires'[Target[r]] = now + want[r]
<1>. DEFINE t == Target[r]
<1>0. t \in Transfer /\ CodeStep(t) /\ RowLifetime(r) /\ ReconcileOK
  BY OthersLifetime, RequestAssumption DEF Base, LifetimeEffects, Request, Lifetimes
<1>1. ASSUME NEW q \in SimpleReq, Target[q] = t PROVE q = r
  BY <1>1, RequestAssumption
<1>2. ASSUME NEW q \in CommitReq, Target[q] = t, pc[q] = "allocate" PROVE want[q] = want[r]
  BY <1>2, CommitOwner DEF Lifetimes, CommitLifetime, Runs, Resting
<1>3. ASSUME step = "publish", subject = t PROVE ttl[t] = want[r]
  BY <1>0, <1>3 DEF ReconcileOK, RowLifetime, Exists, PreCommit, NoRow
<1>. QED  BY <1>0, <1>1, <1>2, <1>3 DEF CodeStep

\* The expiry written at publication is the publication time plus the lifetime
\* the sender asked for, also when reconciliation publishes after a crash.
THEOREM ExpiresAsRequested == ServerSpec /\ []Calm => ExpiryAsRequested
<1>1. Base /\ Lifetimes /\ [ServerNext]_serverVars =>
        [\A r \in SimpleReq \cup CreateReq : LET t == Target[r] IN
            code[t] = NoCode /\ code'[t] # NoCode => expires'[t] = now + want[r]]_serverVars
  BY NewExpiry
<1>. QED  BY <1>1, BaseAlways, LifetimesAlways, PTL DEF ServerSpec, ExpiryAsRequested

-----------------------------------------------------------------------------
(* The abstract specification.                                             *)

\* Every transfer belongs to the session that drew its identifier.
Owned == \A t \in Transfer : \E r \in SimpleReq \cup CreateReq : Target[r] = t

\* An expiry is written with the code, and goes with it.
ExpiryWithCode == \A t \in Transfer : code[t] = NoCode => expires[t] = 0

LEMMA ExpiryWithCodeNext ==
  ASSUME StoreInv, ExpiryWithCode, StoreStep
  PROVE  ExpiryWithCode'
<1>. USE DEF StoreInv, StoreTypeOK, ExpiryWithCode
<1>1. CASE UNCHANGED <<code, expires>>
  BY <1>1
<1>2. CASE \E u \in Transfer, at \in Time, minutes \in TTL : CreateTransfer(u, at, minutes)
  BY <1>2 DEF CreateTransfer
<1>3. CASE \E u \in Transfer : Purge(u)
  BY <1>3 DEF Purge
<1>4. CASE \E u \in Transfer, at \in Time, minutes \in TTL, c \in Code : Allocate(u, at, minutes, c)
  BY <1>4, StoreAssumption DEF Allocate
<1>. QED
  BY <1>1, <1>2, <1>3, <1>4 DEF StoreStep, StoreNext, SetState, Fail, SetNoteAndTTL, ExpireDue,
     InsertSegment, SetSegmentProgress, CreateClaim, RenewClaim, CompleteClaim, transferVars, storeVars

LEMMA ExpiryWithCodeAlways == ServerSpec => []ExpiryWithCode
<1>1. ServerInit => ExpiryWithCode
  BY DEF ServerInit, StoreInit, ExpiryWithCode
<1>2. ServerTypes /\ ExpiryWithCode /\ [ServerNext]_serverVars => ExpiryWithCode'
  BY ServerNextTypes, ExpiryWithCodeNext DEF ServerTypes
<1>. QED  BY <1>1, <1>2, ServerTypesAlways, PTL DEF ServerSpec

\* What the server shows of a transfer, once no code leads to a broken payload.
Face(t, r) ==
    IF Resolves(t) THEN "payload"
    ELSE IF code[t] # NoCode THEN "ended"
    ELSE IF Exists(t) THEN "hidden"
    ELSE IF pc[r] = "idle" THEN "absent"
    ELSE IF pc[r] \in Resting THEN "over"
    ELSE "hidden"

Faces ==
    /\ DOMAIN ShownNow = Transfer
    /\ \A r \in SimpleReq \cup CreateReq : ShownNow[Target[r]] = Face(Target[r], r)

LEMMA ShownFaces == Base => Faces
<1>. SUFFICES ASSUME Base PROVE Faces
  OBVIOUS
<1>. SUFFICES ASSUME NEW r \in SimpleReq \cup CreateReq PROVE ShownNow[Target[r]] = Face(Target[r], r)
  BY DEF Faces, ShownNow
<1>1. PICK t \in Transfer : t = Target[r]
  BY RequestAssumption DEF Request
<1>2. (CHOOSE q \in SimpleReq \cup CreateReq : Target[q] = t) = r
  BY <1>1, RequestAssumption
<1>3. ShownNow[t] = ShownBy(t, r)
  BY <1>2 DEF ShownNow
<1>4. Resolves(t) => Intact(t, live[t])
  BY LiveIntact DEF Base, RowOK, Resolves, Committed
<1>5. code[t] # NoCode => Exists(t)
  BY DEF Base, ServerTypes, StoreInv, CodeHasRow
<1>6. Resolves(t) => code[t] # NoCode
  BY DEF Resolves, Committed
<1>7. ShownBy(t, r) = Face(t, r)
  BY <1>4, <1>5, <1>6 DEF ShownBy, Face, Resting
<1>. QED  BY <1>1, <1>3, <1>7

\* A step that takes no time does to one transfer what Handoff allows.
LEMMA FaceSteps ==
  ASSUME Base, Base', Calm, Lifetimes, ExpiryWithCode, ExpiryWithCode', Faces, Faces',
         [ServerNext]_serverVars, now' = now, NEW r \in SimpleReq \cup CreateReq
  PROVE  LET t == Target[r] IN
         Promise!Begin(t) \/ Promise!Publish(t) \/ Promise!Forget(t) \/ Promise!Stay(t)
<1>1. PICK t \in Transfer : t = Target[r]
  BY RequestAssumption DEF Request
<1>2. ShownNow[t] = Face(t, r) /\ ShownNow'[t] = Face(t, r)'
  BY <1>1 DEF Faces
<1>3. Effects(t) /\ RowStep(t)
  BY BaseNext DEF Effects
<1>4. r \in Request /\ WantStep(r) /\ (pc[r] = "idle" => pc'[r] \in {"idle", "create"})
  BY OthersLifetime DEF LifetimeEffects, Request, WantStep, Base
<1>5. /\ pc[r] # "idle" => pc'[r] # "idle"
      /\ pc[r] \notin {"idle", "create"} => pc'[r] \notin {"idle", "create"}
      /\ pc[r] \in {"created", "done"} => pc'[r] = pc[r]
  BY <1>4, ServerMoves DEF Base, StepOf, Runs, Resting
<1>6. /\ code[t] # NoCode => Exists(t)
      /\ code'[t] # NoCode => Exists(t)'
      /\ state'[t] = "COMMITTED" => code'[t] # NoCode
  BY DEF Base, ServerTypes, StoreInv, CodeHasRow, CommittedHasCode
<1>7. /\ code[t] = NoCode => expires[t] = 0
      /\ code'[t] = NoCode => expires'[t] = 0
  BY DEF ExpiryWithCode
<1>8. Born(t) => pc[r] \notin {"idle", "create"}
  BY <1>1, RequestAssumption DEF Born
<1>9. Born(t)' => pc'[r] \notin {"idle", "create"}
  BY <1>1, RequestAssumption DEF Born
<1>10. Exists(t) => pc[r] \notin {"idle", "create"}
  BY <1>8 DEF Base, BornOK
<1>11. Exists(t) /\ ~Exists(t)' => pc'[r] \in {"created", "done"}
  <2>1. RequestOK(r)'
    BY <1>4 DEF Base
  <2>. QED  BY <1>1, <1>4, <1>5, <1>10, <2>1 DEF RequestOK, Runs, Resting, Exists, PreCommit, NoRow
<1>12. CASE RowSame(t)
  BY <1>1, <1>2, <1>4, <1>5, <1>6, <1>7, <1>12 DEF RowSame, Face, Resolves, Committed, Exists, Resting,
     Promise!Begin, Promise!Forget, Promise!Stay
<1>13. CASE ~Exists(t) /\ ~Born(t) /\ Born(t)' /\ state'[t] = "CREATED" /\ code'[t] = NoCode
  <2>1. pc[r] = "create"
    BY <1>1, <1>4, <1>9, <1>13 DEF Born
  <2>2. Face(t, r) = "hidden" /\ Face(t, r)' = "hidden"
    BY <1>6, <1>13, <2>1 DEF Face, Resolves, Committed, Resting, Exists, NoRow
  <2>. QED  BY <1>1, <1>2, <1>6, <1>7, <1>13, <2>2 DEF Promise!Stay
<1>14. CASE /\ state[t] \in PreCommit /\ code[t] = NoCode /\ code'[t] = NoCode
  <2>1. Face(t, r) = "hidden"
    BY <1>14 DEF Face, Resolves, Committed, Exists, PreCommit, NoRow
  <2>2. Face(t, r)' = IF Exists(t)' THEN "hidden" ELSE "over"
    BY <1>11, <1>14 DEF Face, Resolves, Committed, Exists, PreCommit, NoRow, Resting
  <2>. QED  BY <1>1, <1>2, <1>7, <1>14, <2>1, <2>2 DEF Promise!Forget, Promise!Stay
<1>15. CASE state[t] \in PreCommit /\ code[t] = NoCode /\ state'[t] = "COMMITTED"
  <2>1. Face(t, r) = "hidden"
    BY <1>15 DEF Face, Resolves, Committed, Exists, PreCommit, NoRow
  <2>2. expires'[t] = now + want[r]
    BY <1>1, <1>6, <1>15, NewExpiry
  <2>3. want[r] \in TTL /\ want[r] \in Nat \ {0} /\ now \in Nat
    <3>1. pc[r] # "idle"
      BY <1>10, <1>15 DEF Exists, PreCommit, NoRow
    <3>. QED  BY <3>1, StoreAssumption, ServiceAssumption DEF Base, ServerTypes, RequestTTL
  <2>4. Face(t, r)' = "payload"
    BY <1>6, <1>15, <2>2, <2>3 DEF Face, Resolves, Committed
  <2>. QED  BY <1>1, <1>2, <2>1, <2>2, <2>3, <2>4 DEF Promise!Publish
<1>16. CASE /\ state[t] = "COMMITTED" /\ expires[t] <= now
            /\ state'[t] = "EXPIRED" /\ code'[t] = code[t] /\ expires'[t] = expires[t]
  <2>1. code[t] # NoCode /\ ~Resolves(t) /\ ~Resolves(t)'
    <3>1. now \in Nat /\ expires[t] \in Nat
      BY ServiceAssumption DEF Base, ServerTypes, StoreInv, StoreTypeOK
    <3>. QED  BY <1>16, <3>1 DEF Resolves, Committed, Base, ServerTypes, StoreInv, CommittedHasCode
  <2>. QED  BY <1>1, <1>2, <1>16, <2>1 DEF Face, Promise!Stay
<1>17. CASE /\ Ended(t) /\ Ended(t)' /\ (Exists(t)' => Exists(t))
            /\ (~Exists(t)' /\ code'[t] = NoCode) \/ (code'[t] = code[t] /\ expires'[t] = expires[t])
  <2>1. ~Resolves(t) /\ ~Resolves(t)'
    BY <1>17 DEF Ended, Resolves, Committed, Terminal, NoRow
  <2>. QED
    BY <1>1, <1>2, <1>4, <1>5, <1>6, <1>7, <1>11, <1>17, <2>1 DEF Face, Resting,
       Promise!Begin, Promise!Forget, Promise!Stay
<1>. QED  BY <1>3, <1>12, <1>13, <1>14, <1>15, <1>16, <1>17 DEF RowStep

\* Time ends what was published, and nothing else.
LEMMA FaceTicks ==
  ASSUME Base, Faces, Faces', TimePasses, NEW r \in SimpleReq \cup CreateReq
  PROVE  LET t == Target[r] IN
         ShownNow'[t] = IF ShownNow[t] = "payload" /\ expires[t] <= now' THEN "ended" ELSE ShownNow[t]
<1>1. PICK t \in Transfer : t = Target[r]
  BY RequestAssumption DEF Request
<1>2. ShownNow[t] = Face(t, r) /\ ShownNow'[t] = Face(t, r)'
  BY <1>1 DEF Faces
<1>3. now \in Nat /\ now' = now + 1 /\ expires[t] \in Nat
  BY ServiceAssumption DEF Base, ServerTypes, StoreInv, StoreTypeOK, TimePasses, Tick
<1>4. UNCHANGED <<state, code, expires, pc>>
  BY DEF TimePasses, Tick, storeVars, requestVars
<1>. QED  BY <1>1, <1>2, <1>3, <1>4 DEF Face, Resolves, Committed, Exists

\* The server implements Handoff: through crashes, restarts, failing requests and
\* sweeps, and while it is down, a payload appears whole in one step, is there
\* until its lifetime ends and not a moment longer, and never comes back.
THEOREM PromiseKept == ASSUME Owned PROVE ServerSpec /\ []Calm => KeepsPromise
<1>1. ServerInit /\ Faces => Promise!Init
  <2>. SUFFICES ASSUME ServerInit, Faces, NEW t \in Transfer PROVE ShownNow[t] = "absent"
    BY DEF ServerInit, StoreInit, Promise!Init, Faces, ShownNow
  <2>1. PICK r \in SimpleReq \cup CreateReq : Target[r] = t
    BY DEF Owned
  <2>2. r \in Request
    BY DEF Request
  <2>. QED  BY <2>1, <2>2 DEF Faces, Face, ServerInit, StoreInit, RequestInit, Resolves, Committed, Exists
<1>2. ASSUME Base, Base', Calm, Lifetimes, ExpiryWithCode, ExpiryWithCode', Faces, Faces',
             [ServerNext]_serverVars
      PROVE  Promise!Next
  <2>1. (ShownNow \in [Transfer -> Promise!Shown])'
    <3>1. ASSUME NEW t \in Transfer PROVE (ShownNow[t] \in Promise!Shown)'
      <4>1. PICK r \in SimpleReq \cup CreateReq : Target[r] = t
        BY DEF Owned
      <4>. QED  BY <1>2, <4>1 DEF Faces, Face, Promise!Shown
    <3>. QED  BY <3>1 DEF ShownNow
  <2>2. CASE now' = now
    <3>1. ASSUME NEW t \in Transfer
          PROVE  Promise!Begin(t) \/ Promise!Publish(t) \/ Promise!Forget(t) \/ Promise!Stay(t)
      BY <1>2, <2>2, FaceSteps DEF Owned
    <3>. QED  BY <2>1, <2>2, <3>1 DEF Promise!Next, Promise!Work
  <2>3. CASE TimePasses
    <3>1. ShownNow' = [t \in Transfer |-> IF ShownNow[t] = "payload" /\ expires[t] <= now'
                                          THEN "ended" ELSE ShownNow[t]]
      <4>1. ASSUME NEW t \in Transfer
            PROVE  ShownNow'[t] = IF ShownNow[t] = "payload" /\ expires[t] <= now'
                                  THEN "ended" ELSE ShownNow[t]
        BY <1>2, <2>3, FaceTicks DEF Owned
      <4>2. ShownNow' = [t \in Transfer |-> ShownNow'[t]]
        BY DEF ShownNow
      <4>. QED  BY <4>1, <4>2
    <3>2. now' = now + 1 /\ UNCHANGED expires
      BY <2>3 DEF TimePasses, Tick, storeVars
    <3>. QED  BY <2>1, <3>1, <3>2 DEF Promise!Next, Promise!Tick
  <2>. QED  BY <1>2, <2>2, <2>3, ClockMoves DEF Base
<1>. QED
  BY <1>1, <1>2, BaseAlways, LifetimesAlways, ExpiryWithCodeAlways, ShownFaces, PTL
  DEF ServerSpec, KeepsPromise, Promise!Spec

-----------------------------------------------------------------------------
(* Directories in live have rows.                                          *)

RowsKept == \A t \in Transfer : Exists(t) => Exists(t)'

\* Only Purge deletes a row.
LEMMA CallsKeepRows ==
  ASSUME StoreInv, NEW t \in Transfer, NEW at, NEW c, NEW s, NEW n
  PROVE  /\ \A new : new # NoRow /\ SetState(t, new) => RowsKept
         /\ Fail(t) => RowsKept
         /\ CreateTransfer(t, at, n) => RowsKept
         /\ SetNoteAndTTL(t, n) => RowsKept
         /\ Allocate(t, at, n, c) => RowsKept
         /\ ExpireDue(at) => RowsKept
         /\ InsertSegment(t, s) => RowsKept
         /\ SetSegmentProgress(t, s, n) => RowsKept
         /\ UNCHANGED transferVars => RowsKept
         /\ UNCHANGED storeVars => RowsKept
<1>. USE DEF StoreInv, StoreTypeOK, RowsKept, Exists, NoRow
<1>1. ASSUME NEW new PROVE new # NoRow /\ SetState(t, new) => RowsKept
  BY DEF SetState
<1>2. Fail(t) => RowsKept
  BY DEF Fail
<1>3. CreateTransfer(t, at, n) => RowsKept
  BY DEF CreateTransfer
<1>4. Allocate(t, at, n, c) => RowsKept
  BY DEF Allocate
<1>5. ExpireDue(at) => RowsKept
  BY DEF ExpireDue
<1>6. UNCHANGED state => RowsKept
  OBVIOUS
<1>. QED
  BY <1>1, <1>2, <1>3, <1>4, <1>5, <1>6 DEF SetNoteAndTTL, InsertSegment, SetSegmentProgress,
     transferVars, storeVars

\* Who may delete the row of t.
RowGoes(t) ==
    Exists(t) /\ ~Exists(t)' =>
        \/ \E r \in SimpleReq \cup CreateReq : Target[r] = t /\ pc[r] = "purge" /\ ~gone[r]
        \/ \E j \in Sweeper : jpc[j] = "purge" /\ jid[j] = t
        \/ step = "purge" /\ subject = t

LEMMA PurgeGoes ==
  ASSUME StoreInv, NEW t \in Transfer, Purge(t)
  PROVE  \A u \in Transfer : u # t => Exists(u)' = Exists(u)
  BY DEF StoreInv, StoreTypeOK, Purge, Exists

LEMMA RequestGoes ==
  ASSUME ServerTypes, NEW r \in Request,
         \/ r \in SimpleReq /\ SimpleStep(r)
         \/ r \in CreateReq /\ CreateStep(r)
         \/ r \in PatchReq /\ PatchStep(r)
         \/ r \in CommitReq /\ CommitStep(r)
  PROVE  \A t \in Transfer : RowGoes(t)
<1>. DEFINE t == Target[r]
<1>0. StoreInv /\ t \in Transfer
  BY RequestAssumption DEF ServerTypes
<1>1. RowsKept => \A u \in Transfer : RowGoes(u)
  BY DEF RowsKept, RowGoes
<1>2. ASSUME r \in SimpleReq \cup CreateReq, Abort(r) PROVE \A u \in Transfer : RowGoes(u)
  <2>1. CASE UNCHANGED storeVars
    BY <1>0, <1>1, <2>1, CallsKeepRows
  <2>2. CASE pc[r] = "purge" /\ ~gone[r] /\ Purge(t)
    BY <1>0, <1>2, <2>2, PurgeGoes DEF RowGoes
  <2>. QED  BY <1>2, <2>1, <2>2 DEF Abort, AbortStaging, AbortPurge
<1>. HIDE DEF t
<1>3. UNCHANGED storeVars => RowsKept
  BY <1>0, CallsKeepRows
<1>4. SetState(t, "VERIFYING") \/ SetState(t, "UPLOADING") => RowsKept
  BY <1>0, CallsKeepRows DEF NoRow
<1>5. Publish(r) => RowsKept
  BY <1>0, <1>3, <1>4, CallsKeepRows DEF Publish, AllocateCode, MarkVerifying, RecordNoteAndTTL, StoreManifest,
     RenameToLive, Record, t
<1>6. CASE SimpleStep(r) /\ r \in SimpleReq
  <2>1. (BeginSimple(r) \/ CreateSimple(r) \/ (\E s \in Segment : AddFile(r, s)) \/ AddFileFails(r)
         \/ CommitSimple(r)) => RowsKept
    BY <1>0, <1>3, CallsKeepRows DEF BeginSimple, CreateSimple, AddFile, AddFileFails, CommitSimple, t
  <2>. QED  BY <1>1, <1>2, <1>5, <1>6, <2>1 DEF SimpleStep
<1>7. CASE CreateStep(r) /\ r \in CreateReq
  <2>1. (CreateStaging(r) \/ CreateRow(r) \/ (\E s \in Segment : CreateSegment(r, s))) => RowsKept
    BY <1>0, <1>3, CallsKeepRows DEF CreateStaging, CreateRow, CreateSegment, t
  <2>. QED  BY <1>1, <1>2, <1>7, <2>1 DEF CreateStep
<1>8. PatchStep(r) => RowsKept
  BY <1>0, <1>3, <1>4, CallsKeepRows DEF PatchStep, PatchReadSegment, PatchReadTransfer, PatchOpen,
     PatchTruncate, PatchMark, PatchWrite, PatchStop, PatchFinish, t
<1>9. CommitStep(r) => RowsKept
  BY <1>0, <1>3, <1>4, <1>5, CallsKeepRows DEF CommitStep, CommitRead, CommitList, CommitMkdir, CommitVerify,
     CommitMark, MaterializeMkdir, Place, MaterializeFinish, CommitFail, Record, t
<1>. QED  BY <1>1, <1>6, <1>7, <1>8, <1>9

LEMMA RowsGo ==
  ASSUME ServerTypes, [ServerNext]_serverVars
  PROVE  \A t \in Transfer : RowGoes(t)
<1>0. StoreInv
  BY DEF ServerTypes
<1>1. RowsKept => \A t \in Transfer : RowGoes(t)
  BY DEF RowsKept, RowGoes
<1>2. UNCHANGED storeVars \/ UNCHANGED transferVars => RowsKept
  BY DEF RowsKept, storeVars, transferVars, Exists
<1>3. ASSUME NEW j \in Sweeper, Sweep(j) PROVE \A t \in Transfer : RowGoes(t)
  <2>0. SweepStep(j) /\ (jpc[j] = "purge" => jid[j] \in Transfer)
    BY <1>3 DEF Sweep, ServerTypes, SweepTypes
  <2>1. CASE SweepPurge(j)
    BY <1>0, <2>0, <2>1, PurgeGoes DEF SweepPurge, RowGoes
  <2>2. SweepExpire(j) => RowsKept
    BY <1>0 DEF SweepExpire, ExpireDue, RowsKept, Exists, NoRow, StoreInv, StoreTypeOK
  <2>3. ASSUME NEW t \in Transfer, SweepAbandon(j, t) \/ SweepDelete(j, t) PROVE RowsKept
    BY <1>0, <2>3, CallsKeepRows DEF SweepAbandon, SweepDelete, NoRow
  <2>. QED
    BY <1>1, <1>2, <2>0, <2>1, <2>2, <2>3 DEF SweepStep, SweepStart, SweepStale, SweepUnpinned, SweepInvalidate,
       SweepTrashLive, SweepTrashStaging, SweepDeleteFails, SweepEmptyTrash
<1>4. ASSUME NEW c \in Receiver, (c \in Claim /\ HandleClaim(c)) \/ (c \in Download /\ HandleDownload(c))
      PROVE  RowsKept
  <2>0. ClaimStep(c) \/ DownloadStep(c)
    BY <1>4 DEF HandleClaim, HandleDownload
  <2>1. ASSUME LookupExpire(c) PROVE RowsKept
    <3>1. found[c] \in Transfer
      BY <2>1 DEF ServerTypes, ReceiverTypes, LookupExpire
    <3>. QED  BY <1>0, <2>1, <3>1, CallsKeepRows DEF LookupExpire, NoRow
  <2>2. LookupExpire(c) \/ UNCHANGED transferVars
    BY <2>0 DEF ClaimStep, DownloadStep, Lookup, StatPayload, ManifestGet, ManifestRead, ManifestPut, OpenClaim,
       Fetch, OpenFile, Renew, Complete, StartStream, StreamEntry, CutStream, EndStream, CreateClaim,
       RenewClaim, CompleteClaim, transferVars, storeVars
  <2>. QED  BY <1>2, <2>1, <2>2
<1>5. CASE Restart
  <2>0. ReconcileStep
    BY <1>5 DEF Restart
  <2>1. ASSUME NEW t \in Transfer, PurgeRow(t) PROVE \A u \in Transfer : RowGoes(u)
    BY <1>0, <2>1, PurgeGoes DEF PurgeRow, RowGoes
  <2>2. ASSUME NEW t \in Transfer, FailRow(t) \/ CompleteInterruptedPublish(t) PROVE RowsKept
    BY <1>0, <1>2, <2>2, CallsKeepRows DEF FailRow, CompleteInterruptedPublish
  <2>. QED
    BY <1>1, <1>2, <2>0, <2>1, <2>2 DEF ReconcileStep, Begin, ListLive, ListStaging, ToTrashLoop, Finish,
       NextLoop, Visit, DiscardLive, DiscardStaging, TrashOrphan, RemoveOrphan
<1>6. ProcessDies \/ TimePasses \/ (\E r \in Request : ClientLeaves(r)) \/ UNCHANGED serverVars => RowsKept
  BY <1>2 DEF ProcessDies, Crash, TimePasses, Tick, ClientLeaves, Disconnect, serverVars
<1>7. ASSUME NEW r \in Request, (r \in SimpleReq /\ HandleSimple(r)) \/ (r \in CreateReq /\ HandleCreate(r))
               \/ (r \in PatchReq /\ HandlePatch(r)) \/ (r \in CommitReq /\ HandleCommit(r))
      PROVE  \A t \in Transfer : RowGoes(t)
  BY <1>7, RequestGoes DEF HandleSimple, HandleCreate, HandlePatch, HandleCommit
<1>8. SimpleReq \cup CreateReq \cup PatchReq \cup CommitReq \subseteq Request /\ Claim \cup Download \subseteq Receiver
  BY DEF Request, Receiver
<1>. QED  BY <1>1, <1>3, <1>4, <1>5, <1>6, <1>7, <1>8 DEF ServerNext

\* Stages of an upload before its payload has been renamed.
Young == {"adding", "segments", "verifying", "note", "manifest", "rename"}

\* A session that will purge its row has put nothing in live; who is past
\* ToTrash has left nothing there.
LiveKept ==
    /\ LiveHasRow
    /\ \A r \in SimpleReq \cup CreateReq :
        pc[r] \in Young \/ (pc[r] \in {"abort", "purge"} /\ ~gone[r]) => ~live[Target[r]].here
    /\ \A j \in Sweeper : jpc[j] \in {"trashStaging", "purge"} => ~live[jid[j]].here
    /\ step \in {"trashStaging", "purge"} => ~live[subject].here

\* How a session comes to the stages that LiveKept speaks of.
StageStep(r) ==
    /\ pc'[r] \in Young => pc[r] \in Young \cup {"create"}
    /\ pc'[r] \in {"abort", "purge"} /\ ~gone'[r] =>
        /\ ~gone[r]
        /\ \/ pc[r] \in Young \cup {"abort", "purge"}
           \/ pc[r] = "allocate" /\ PublishRefused(Target[r])

LEMMA SessionStages ==
  ASSUME ServerTypes, NEW r \in SimpleReq \cup CreateReq,
         \/ r \in SimpleReq /\ SimpleStep(r)
         \/ r \in CreateReq /\ CreateStep(r)
  PROVE  StageStep(r)
<1>0. DOMAIN pc = Request /\ r \in Request
  BY DEF ServerTypes, RequestTypes, Request
<1>1. ASSUME NEW next, Advance(r, next) PROVE pc'[r] = next
  BY <1>0, <1>1 DEF Advance
<1>2. UNCHANGED gone
  BY DEF SimpleStep, CreateStep, Publish, AllocateCode, MarkVerifying, RecordNoteAndTTL, StoreManifest,
     RenameToLive, BeginSimple, CreateSimple, AddFile, AddFileFails, CommitSimple, CreateStaging, CreateRow,
     CreateSegment, Abort, AbortStaging, AbortPurge
<1>3. CASE AllocateCode(r)
  BY <1>1, <1>2, <1>3 DEF AllocateCode, Answer, ErrorExit, StageStep, Young
<1>4. CASE MarkVerifying(r) \/ RecordNoteAndTTL(r) \/ StoreManifest(r) \/ RenameToLive(r)
  BY <1>1, <1>2, <1>4 DEF MarkVerifying, RecordNoteAndTTL, StoreManifest, RenameToLive, Record, ErrorExit,
     StageStep, Young
<1>5. CASE BeginSimple(r) \/ CreateSimple(r) \/ CreateStaging(r) \/ CreateRow(r)
  BY <1>1, <1>2, <1>5 DEF BeginSimple, CreateSimple, CreateStaging, CreateRow, StageStep, Young
<1>6. CASE (\E s \in Segment : AddFile(r, s)) \/ AddFileFails(r) \/ CommitSimple(r)
  BY <1>1, <1>2, <1>6 DEF AddFile, AddFileFails, CommitSimple, ErrorExit, StageStep, Young
<1>7. CASE \E s \in Segment : CreateSegment(r, s)
  BY <1>1, <1>2, <1>7 DEF CreateSegment, ErrorExit, StageStep, Young
<1>8. CASE Abort(r)
  BY <1>1, <1>2, <1>8 DEF Abort, AbortStaging, AbortPurge, StageStep, Young
<1>. QED  BY <1>3, <1>4, <1>5, <1>6, <1>7, <1>8 DEF SimpleStep, CreateStep, Publish

LEMMA StagesNext ==
  ASSUME ServerTypes, [ServerNext]_serverVars, NEW r \in SimpleReq \cup CreateReq
  PROVE  StageStep(r)
<1>0. r \in Request /\ gone \in [Request -> BOOLEAN]
  BY DEF ServerTypes, RequestTypes, Request
<1>1. ASSUME pc'[r] = pc[r], gone'[r] = gone[r] \/ gone'[r] PROVE StageStep(r)
  BY <1>1 DEF StageStep, Young
<1>2. CASE ProcessDies
  BY <1>0, <1>2 DEF ProcessDies, KillRequests, StageStep, Young, Resting
<1>3. ASSUME NEW q \in Request, ClientLeaves(q) PROVE StageStep(r)
  <2>1. UNCHANGED pc /\ gone' = [gone EXCEPT ![q] = TRUE]
    BY <1>3 DEF ClientLeaves, Disconnect
  <2>. QED  BY <1>0, <1>1, <2>1
<1>4. ASSUME NEW q \in Request, (q \in SimpleReq /\ HandleSimple(q)) \/ (q \in CreateReq /\ HandleCreate(q))
               \/ (q \in PatchReq /\ HandlePatch(q)) \/ (q \in CommitReq /\ HandleCommit(q))
      PROVE  StageStep(r)
  <2>1. CASE q = r
    BY <1>4, <2>1, SessionStages, RequestAssumption DEF HandleSimple, HandleCreate
  <2>2. CASE q # r
    <3>1. pc'[r] = pc[r]
      BY <1>0, <1>4, <2>2, RequestMoves DEF StepOf, HandleSimple, HandleCreate, HandlePatch, HandleCommit
    <3>2. UNCHANGED gone
      BY <1>4 DEF HandleSimple, HandleCreate, HandlePatch, HandleCommit,
         SimpleStep, CreateStep, Publish, AllocateCode, MarkVerifying, RecordNoteAndTTL, StoreManifest,
         RenameToLive, BeginSimple, CreateSimple, AddFile, AddFileFails, CommitSimple, CreateStaging, CreateRow,
         CreateSegment, Abort, AbortStaging, AbortPurge, PatchStep, PatchReadSegment, PatchReadTransfer,
         PatchOpen, PatchTruncate, PatchMark, PatchWrite, PatchStop, PatchFinish, requestVars,
         CommitStep, CommitRead, CommitList, CommitMkdir, CommitVerify, CommitMark, MaterializeMkdir,
         Place, MaterializeFinish, CommitFail
    <3>. QED  BY <1>1, <3>1, <3>2
  <2>. QED  BY <2>1, <2>2
<1>5. TimePasses \/ UNCHANGED serverVars \/ (\E j \in Sweeper : Sweep(j)) \/ Restart
      \/ (\E c \in Claim : HandleClaim(c)) \/ (\E d \in Download : HandleDownload(d))
      => UNCHANGED <<pc, gone>>
  BY DEF TimePasses, serverVars, Sweep, Restart, HandleClaim, HandleDownload, requestVars
<1>6. SimpleReq \cup CreateReq \cup PatchReq \cup CommitReq \subseteq Request
  BY DEF Request
<1>. QED  BY <1>1, <1>2, <1>3, <1>4, <1>5, <1>6 DEF ServerNext

\* A sweep, or reconciliation, gets past the first half of ToTrash by doing it.
LEMMA SweepTrashes ==
  ASSUME ServerTypes, [ServerNext]_serverVars, NEW j \in Sweeper, jpc'[j] \in {"trashStaging", "purge"}
  PROVE  \/ jpc[j] \in {"trashStaging", "purge"} /\ jid'[j] = jid[j]
         \/ ~live'[jid'[j]].here
<1>0. DOMAIN jpc = Sweeper /\ jid \in [Sweeper -> Transfer \cup {NoTransfer}] /\ live \in [Transfer -> Dir]
  BY DEF ServerTypes, SweepTypes, FilesOK, LayoutTypeOK
<1>1. CASE UNCHANGED janitorVars
  BY <1>1 DEF janitorVars
<1>2. CASE ProcessDies
  BY <1>2 DEF ProcessDies, KillSweeps
<1>3. ASSUME NEW k \in Sweeper, Sweep(k)
      PROVE  \/ jpc[j] \in {"trashStaging", "purge"} /\ jid'[j] = jid[j]
             \/ ~live'[jid'[j]].here
  <2>0. SweepStep(k)
    BY <1>3 DEF Sweep
  <2>1. CASE k # j
    <3>1. jpc'[j] = jpc[j] /\ jid'[j] = jid[j]
      BY <1>0, <2>0, <2>1 DEF SweepStep, SweepStart, SweepExpire, SweepStale, SweepAbandon, SweepUnpinned,
         SweepDelete, SweepInvalidate, SweepTrashLive, SweepTrashStaging, SweepDeleteFails, SweepPurge,
         SweepEmptyTrash, JGoto
    <3>. QED  BY <3>1
  <2>2. CASE k = j
    <3>1. SweepTrashLive(j) \/ SweepTrashStaging(j)
      BY <1>0, <2>0, <2>2 DEF SweepStep, SweepStart, SweepExpire, SweepStale, SweepAbandon, SweepUnpinned,
         SweepDelete, SweepInvalidate, SweepDeleteFails, SweepPurge, SweepEmptyTrash, JGoto
    <3>2. SweepTrashLive(j) => jid[j] \in Transfer
      BY DEF SweepTrashLive, ServerTypes, SweepTypes
    <3>. QED  BY <1>0, <3>1, <3>2, AbsentDir DEF SweepTrashLive, SweepTrashStaging, TrashLive
  <2>. QED  BY <2>1, <2>2
<1>. QED
  BY <1>1, <1>2, <1>3 DEF ServerNext, serverVars, HandleSimple, HandleCreate, HandlePatch, HandleCommit,
     ClientLeaves, HandleClaim, HandleDownload, Restart, TimePasses

LEMMA RestartTrashes ==
  ASSUME ServerTypes, [ServerNext]_serverVars, step' \in {"trashStaging", "purge"}
  PROVE  \/ step \in {"trashStaging", "purge"} /\ subject' = subject
         \/ ~live'[subject'].here
<1>0. live \in [Transfer -> Dir]
  BY DEF ServerTypes, FilesOK, LayoutTypeOK
<1>1. CASE UNCHANGED reconcileVars
  BY <1>1 DEF reconcileVars
<1>2. CASE ProcessDies
  BY <1>2 DEF ProcessDies, Crash, Stop
<1>3. CASE Restart
  <2>0. ReconcileStep
    BY <1>3 DEF Restart
  <2>1. ASSUME NEW t \in Transfer, DiscardLive(t) PROVE ~live'[subject'].here
    BY <1>0, <2>1, AbsentDir DEF DiscardLive, TrashLive, Goto
  <2>2. ASSUME NEW t \in Transfer, DiscardStaging(t) PROVE step \in {"trashStaging", "purge"} /\ subject' = subject
    BY <2>2 DEF DiscardStaging, Goto, Visited
  <2>3. ASSUME NEW t \in Transfer, Visit(t) PROVE FALSE
    BY <2>3 DEF Visit, Goto, Visited, Decision, DecideCommitted, DecidePreCommit
  <2>4. ASSUME NEW t \in Transfer, CompleteInterruptedPublish(t) \/ FailRow(t) \/ PurgeRow(t) \/ TrashOrphan(t)
                                   \/ RemoveOrphan(t)
        PROVE  FALSE
    BY <2>4 DEF CompleteInterruptedPublish, FailRow, PurgeRow, TrashOrphan, RemoveOrphan, Goto, Visited
  <2>5. Begin \/ ListLive \/ ListStaging \/ ToTrashLoop \/ Finish => FALSE
    BY DEF Begin, ListLive, ListStaging, ToTrashLoop, Finish, NextLoop, Picking
  <2>. QED  BY <2>0, <2>1, <2>2, <2>3, <2>4, <2>5 DEF ReconcileStep
<1>. QED
  BY <1>1, <1>2, <1>3 DEF ServerNext, serverVars, HandleSimple, HandleCreate, HandlePatch, HandleCommit,
     ClientLeaves, HandleClaim, HandleDownload, Sweep, TimePasses

LEMMA LiveKeptNext ==
  ASSUME Base, Calm, CodesLeft, LiveKept, [ServerNext]_serverVars
  PROVE  LiveKept'
<1>0. Base' /\ \A t \in Transfer : Effects(t) /\ RowGoes(t) /\ ArrivalStep(t) /\ BornOK(t) /\ RowOK(t)
  BY BaseNext, RowsGo, OthersLifetime DEF Base, LifetimeEffects
<1>1. LiveHasRow'
  <2>. SUFFICES ASSUME NEW t \in Transfer, live'[t].here, ~Exists(t)' PROVE FALSE
    BY DEF LiveHasRow
  <2>0. LiveStep(t) /\ RowGoes(t)
    BY <1>0 DEF Effects
  <2>1. live[t].here /\ live'[t] = live[t]
    BY <2>0, AbsentDir DEF LiveStep, RowSame, Exists, NoRow
  <2>2. Exists(t)
    BY <2>1 DEF LiveKept, LiveHasRow
  <2>. QED  BY <2>0, <2>1, <2>2 DEF RowGoes, LiveKept
<1>2. ASSUME NEW r \in SimpleReq \cup CreateReq,
             pc'[r] \in Young \/ (pc'[r] \in {"abort", "purge"} /\ ~gone'[r])
      PROVE  ~live'[Target[r]].here
  <2>. DEFINE t == Target[r]
  <2>0. t \in Transfer /\ StageStep(r) /\ ArrivalStep(t) /\ r \in Request
    BY <1>0, StagesNext, RequestAssumption DEF Base, Request
  <2>1. ~live[t].here
    <3>1. CASE pc[r] = "create"
      BY <3>1, Unborn
    <3>2. CASE pc[r] = "allocate" /\ PublishRefused(t)
      <4>1. state[t] \in PreCommit /\ code[t] = NoCode
        BY <2>0, <3>2 DEF Base, RequestOK, Runs, Resting
      <4>. QED  BY <2>0, <3>2, <4>1 DEF PublishRefused, PublishNew, CodesLeft
    <3>3. CASE pc[r] \in Young \/ (pc[r] \in {"abort", "purge"} /\ ~gone[r])
      BY <3>3 DEF LiveKept
    <3>. QED  BY <1>2, <2>0, <3>1, <3>2, <3>3 DEF StageStep
  <2>2. ASSUME NEW q \in SimpleReq \cup CommitReq, Target[q] = t, pc[q] = "rename", pc'[q] = "allocate"
        PROVE  FALSE
    <3>1. CASE q \in SimpleReq
      BY <1>2, <2>2, <3>1, RequestAssumption DEF Young
    <3>2. CASE q \in CommitReq
      <4>1. r \in CreateReq /\ pc[r] = "created"
        BY <2>2, <3>2, CommitOwner
      <4>2. pc[r] \notin Young \cup {"create", "abort", "purge", "allocate"}
        BY <4>1 DEF Young
      <4>. QED  BY <1>2, <2>0, <4>2 DEF StageStep
    <3>. QED  BY <3>1, <3>2
  <2>. QED  BY <2>0, <2>1, <2>2 DEF ArrivalStep
<1>3. ASSUME NEW t \in Transfer, Ended(t), ~live[t].here PROVE ~live'[t].here
  BY <1>0, <1>3, AbsentDir DEF Effects, LiveStep, Ended, Terminal, NoRow
<1>4. ASSUME NEW j \in Sweeper, jpc'[j] \in {"trashStaging", "purge"} PROVE ~live'[jid'[j]].here
  <2>1. CASE jpc[j] \in {"trashStaging", "purge"} /\ jid'[j] = jid[j]
    <3>1. jid[j] \in Transfer /\ SweepOK(j)
      BY <2>1 DEF Base, ServerTypes, SweepTypes
    <3>2. Ended(jid[j]) /\ ~live[jid[j]].here
      BY <2>1, <3>1, StoreAssumption DEF SweepOK, LiveKept
    <3>. QED  BY <1>3, <2>1, <3>1, <3>2
  <2>. QED  BY <1>4, <2>1, SweepTrashes DEF Base
<1>5. ASSUME step' \in {"trashStaging", "purge"} PROVE ~live'[subject'].here
  <2>1. CASE step \in {"trashStaging", "purge"} /\ subject' = subject
    <3>1. subject \in Transfer /\ Ended(subject) /\ ~live[subject].here
      BY <2>1 DEF Base, ReconcileOK, LiveKept
    <3>. QED  BY <1>3, <2>1, <3>1
  <2>. QED  BY <1>5, <2>1, RestartTrashes DEF Base
<1>. QED  BY <1>1, <1>2, <1>4, <1>5 DEF LiveKept

\* A directory never reaches live, and never stays there, without a row that
\* leads to its deletion: rows are written before the rename and purged after
\* ToTrash, on every error path, sweep and restart.
THEOREM LiveDirsHaveRows == ASSUME EnoughCodes PROVE ServerSpec /\ []Calm => []LiveHasRow
<1>1. ServerInit => LiveKept
  BY AbsentDir, RequestAssumption DEF ServerInit, StoreInit, LayoutInit, RequestInit, JanitorInit, LiveKept,
     LiveHasRow, Young, Request
<1>2. Base => CodesLeft
  BY CodesLast DEF Base, ServerTypes, StoreInv, StoreTypeOK
<1>3. Base /\ Calm /\ LiveKept /\ [ServerNext]_serverVars => LiveKept'
  BY <1>2, LiveKeptNext
<1>4. LiveKept => LiveHasRow
  BY DEF LiveKept
<1>. QED  BY <1>1, <1>3, <1>4, BaseAlways, PTL DEF ServerSpec

-----------------------------------------------------------------------------
(* Acknowledged bytes.                                                     *)

\* Bytes are accepted for transfer t.
Uploads(t) == state[t] \in {"CREATED", "UPLOADING"}

\* The sender of t knows its identifier: the creation has returned.
Opened(t) == \E q \in CreateReq : Target[q] = t /\ pc[q] = "created"

\* The first n bytes of segment s are staged.
Stored(t, s, n) ==
    LET i == staging[t].seg[s] IN
    /\ n > 0 => i \in 1..Len(file[t][s])
    /\ \A b \in 1..n : b <= Len(file[t][s][i]) /\ file[t][s][i][b]

\* What a row has recorded is staged, and covers what was acknowledged.
BytesOK(t, s) ==
    /\ ~Opened(t) => acked[t][s] = 0 /\ received[t][s] = 0
    /\ Uploads(t) => acked[t][s] <= received[t][s] /\ Stored(t, s, received[t][s])

\* A PATCH works on the file that the row describes, from the recorded offset on.
PatchOK(r) ==
    LET t == Target[r]  s == PatchSegment[r] IN
    Runs(r) /\ Uploads(t) =>
        /\ <<t, s>> \in segrows
        /\ received[t][s] <= pos[r]
        /\ off[r] = received[t][s]
        /\ pc[r] \in {"readTransfer", "open", "truncate", "markUploading"} => pos[r] = off[r]
        /\ pc[r] \in {"truncate", "markUploading", "writing", "finish"} =>
            fd[r] = staging[t].seg[s] /\ fd[r] \in 1..Len(file[t][s])
        /\ pc[r] \in {"markUploading", "writing", "finish"} => Stored(t, s, pos[r])

BytesKept ==
    /\ \A t \in Transfer, s \in Segment : BytesOK(t, s)
    /\ \A r \in PatchReq : PatchOK(r)

\* What everybody but a PATCH leaves alone while bytes are accepted.
RowLeft(t) ==
    Uploads(t)' /\ Opened(t) =>
        /\ Uploads(t)
        /\ \A s \in Segment : /\ received'[t][s] = received[t][s]
                              /\ <<t, s>> \in segrows => <<t, s>> \in segrows'
RowsLeft ==
    /\ \A t \in Transfer : RowLeft(t)
    /\ \A t \in Transfer, s \in Segment : received'[t][s] \in {received[t][s], 0}

StagedSame(t, s) ==
    /\ staging'[t].seg[s] = staging[t].seg[s]
    /\ \A i \in 1..Len(file[t][s]) : i \in 1..Len(file'[t][s]) /\ file'[t][s][i] = file[t][s][i]
DirLeft(t) == Uploads(t)' /\ Opened(t) => \A s \in Segment : StagedSame(t, s)
DirsLeft == \A t \in Transfer : DirLeft(t)

\* Calls of the repository.
LEMMA CallsLeave ==
  ASSUME StoreInv, NEW t \in Transfer, NEW at, NEW c, NEW n
  PROVE  /\ \A new : new \notin {"CREATED", "UPLOADING"} /\ SetState(t, new) => RowsLeft
         /\ Fail(t) => RowsLeft
         /\ SetNoteAndTTL(t, n) => RowsLeft
         /\ Allocate(t, at, n, c) => RowsLeft
         /\ Purge(t) => RowsLeft
         /\ CreateTransfer(t, at, n) /\ ~Opened(t) => RowsLeft
         /\ \A s \in Segment : InsertSegment(t, s) /\ ~Opened(t) => RowsLeft
<1>. USE DEF StoreInv, StoreTypeOK, Uploads
<1>0. UNCHANGED segmentVars /\ (\A u \in Transfer : Uploads(u)' /\ Opened(u) => Uploads(u)) => RowsLeft
  BY DEF RowsLeft, RowLeft, segmentVars
<1>1. ASSUME NEW new PROVE new \notin {"CREATED", "UPLOADING"} /\ SetState(t, new) => RowsLeft
  BY <1>0 DEF SetState
<1>2. Fail(t) => RowsLeft
  BY <1>0 DEF Fail
<1>3. SetNoteAndTTL(t, n) => RowsLeft
  BY <1>0 DEF SetNoteAndTTL
<1>4. Allocate(t, at, n, c) => RowsLeft
  BY <1>0 DEF Allocate
<1>5. Purge(t) => RowsLeft
  BY DEF Purge, RowsLeft, RowLeft, NoRow
<1>6. CreateTransfer(t, at, n) /\ ~Opened(t) => RowsLeft
  BY <1>0 DEF CreateTransfer
<1>7. ASSUME NEW s \in Segment, InsertSegment(t, s), ~Opened(t) PROVE RowsLeft
  <2>1. UNCHANGED state /\ segrows \subseteq segrows'
    BY <1>7 DEF InsertSegment, transferVars
  <2>2. \A u \in Transfer, v \in Segment :
            received'[u][v] = IF u = t /\ v = s THEN 0 ELSE received[u][v]
    BY <1>7 DEF InsertSegment
  <2>. QED  BY <1>7, <2>1, <2>2 DEF RowsLeft, RowLeft
<1>. QED  BY <1>1, <1>2, <1>3, <1>4, <1>5, <1>6, <1>7

LEMMA OtherCallsLeave ==
  ASSUME StoreInv
  PROVE  /\ \A at : ExpireDue(at) => RowsLeft
         /\ UNCHANGED <<transferVars, segmentVars>> => RowsLeft
         /\ UNCHANGED storeVars => RowsLeft
  BY DEF StoreInv, StoreTypeOK, Uploads, ExpireDue, RowsLeft, RowLeft, transferVars, segmentVars, storeVars

\* Operations on directories.
LEMMA OpsLeave ==
  ASSUME FilesOK, NEW t \in Transfer
  PROVE  /\ MkdirAll(t) \/ WriteManifest(t) \/ RemoveSegdir(t) => DirsLeft
         /\ TrashLive(t) \/ EmptyTrash \/ UNCHANGED fileVars => DirsLeft
         /\ \A s \in Segment : AddPayloadFile(t, s) => DirsLeft
         /\ ~Opened(t) \/ ~Uploads(t)' =>
                /\ PrepareStaging(t) \/ RemoveStaging(t) \/ TrashStaging(t) \/ PublishDir(t) => DirsLeft
                /\ \A s \in Segment : PlaceSegment(t, s) => DirsLeft
<1>0. staging \in [Transfer -> Dir] /\ file \in [Transfer -> [Segment -> Seq(Seq(BOOLEAN))]]
  BY DEF FilesOK, LayoutTypeOK
<1>1. UNCHANGED file /\ (\A u \in Transfer, v \in Segment : staging'[u].seg[v] = staging[u].seg[v]) => DirsLeft
  BY DEF DirsLeft, DirLeft, StagedSame
<1>2. MkdirAll(t) \/ WriteManifest(t) \/ RemoveSegdir(t) => DirsLeft
  <2>1. ASSUME NEW d, d.seg = staging[t].seg, staging' = [staging EXCEPT ![t] = d], UNCHANGED file PROVE DirsLeft
    BY <1>0, <1>1, <2>1
  <2>2. staging[t] \in Dir
    BY <1>0
  <2>3. MkdirAll(t) => DirsLeft
    BY <2>1, <2>2 DEF MkdirAll, Dir
  <2>4. WriteManifest(t) => DirsLeft
    BY <2>1, <2>2 DEF WriteManifest, Dir
  <2>5. RemoveSegdir(t) => DirsLeft
    BY <2>1, <2>2 DEF RemoveSegdir, Dir
  <2>. QED  BY <2>3, <2>4, <2>5
<1>3. TrashLive(t) \/ EmptyTrash \/ UNCHANGED fileVars => DirsLeft
  BY <1>1 DEF TrashLive, EmptyTrash, fileVars
<1>4. ASSUME NEW s \in Segment, AddPayloadFile(t, s) PROVE DirsLeft
  <2>1. \A u \in Transfer, v \in Segment : staging'[u].seg[v] = staging[u].seg[v]
    BY <1>0, <1>4 DEF AddPayloadFile, Dir
  <2>2. \A u \in Transfer, v \in Segment :
            file'[u][v] = IF u = t /\ v = s THEN Append(file[t][s], Whole) ELSE file[u][v]
    BY <1>0, <1>4 DEF AddPayloadFile
  <2>3. \A i \in 1..Len(file[t][s]) : /\ i \in 1..Len(Append(file[t][s], Whole))
                                      /\ Append(file[t][s], Whole)[i] = file[t][s][i]
    BY <1>0, WholeFile, AppendProperties
  <2>. QED  BY <2>1, <2>2, <2>3 DEF DirsLeft, DirLeft, StagedSame
<1>5. ASSUME PrepareStaging(t) \/ RemoveStaging(t) \/ TrashStaging(t) \/ PublishDir(t)
               \/ (\E s \in Segment : PlaceSegment(t, s)),
             ~Opened(t) \/ ~Uploads(t)'
      PROVE  DirsLeft
  <2>1. UNCHANGED file /\ \A u \in Transfer : u # t => staging'[u] = staging[u]
    BY <1>0, <1>5 DEF PrepareStaging, RemoveStaging, TrashStaging, PublishDir, PlaceSegment
  <2>. QED  BY <1>5, <2>1 DEF DirsLeft, DirLeft, StagedSame
<1>. QED  BY <1>2, <1>3, <1>4, <1>5

\* Nobody knows the identifier of a simple upload, or of a creation under way.
LEMMA NotOpened ==
  ASSUME NEW r \in SimpleReq \cup CreateReq, r \in CreateReq => pc[r] # "created"
  PROVE  ~Opened(Target[r])
  BY RequestAssumption DEF Opened

LEMMA PublishLeaves ==
  ASSUME Base, NEW r \in SimpleReq \cup CommitReq, Publish(r)
  PROVE  RowsLeft /\ DirsLeft
<1>. DEFINE t == Target[r]
<1>0. StoreInv /\ FilesOK /\ t \in Transfer /\ r \in Request /\ r \notin PatchReq /\ RequestOK(r)
  BY RequestAssumption DEF Base, ServerTypes, Request
<1>1. UNCHANGED storeVars => RowsLeft
  BY <1>0, OtherCallsLeave
<1>2. UNCHANGED fileVars => DirsLeft
  BY <1>0, OpsLeave
<1>3. pc[r] = "rename" => ~Uploads(t)
  BY <1>0 DEF RequestOK, Uploads
<1>. HIDE DEF t
<1>4. AllocateCode(r) => RowsLeft /\ DirsLeft
  BY <1>0, <1>1, <1>2, CallsLeave DEF AllocateCode, t
<1>5. MarkVerifying(r) \/ RecordNoteAndTTL(r) => RowsLeft /\ DirsLeft
  BY <1>0, <1>1, <1>2, CallsLeave DEF MarkVerifying, RecordNoteAndTTL, Record, t
<1>6. StoreManifest(r) => RowsLeft /\ DirsLeft
  BY <1>0, <1>1, <1>2, OpsLeave DEF StoreManifest, t
<1>7. ASSUME RenameToLive(r) PROVE RowsLeft /\ DirsLeft
  <2>1. ~Uploads(t)' /\ UNCHANGED storeVars
    BY <1>3, <1>7 DEF RenameToLive, Uploads, storeVars
  <2>. QED  BY <1>0, <1>1, <1>2, <1>7, <2>1, OpsLeave DEF RenameToLive, t
<1>. QED  BY <1>4, <1>5, <1>6, <1>7 DEF Publish

LEMMA SessionLeaves ==
  ASSUME Base, NEW r \in SimpleReq \cup CreateReq,
         \/ r \in SimpleReq /\ SimpleStep(r)
         \/ r \in CreateReq /\ CreateStep(r)
  PROVE  RowsLeft /\ DirsLeft
<1>. DEFINE t == Target[r]
<1>0. StoreInv /\ FilesOK /\ t \in Transfer
  BY RequestAssumption DEF Base, ServerTypes, Request
<1>1. UNCHANGED storeVars => RowsLeft
  BY <1>0, OtherCallsLeave
<1>2. UNCHANGED fileVars => DirsLeft
  BY <1>0, OpsLeave
<1>3. ~Opened(t)
  BY NotOpened, RequestAssumption DEF CreateStep, CreateStaging, CreateRow, CreateSegment, Abort, AbortStaging,
     AbortPurge
<1>. HIDE DEF t
<1>4. BeginSimple(r) \/ CreateSimple(r) \/ CreateStaging(r) \/ CreateRow(r) => RowsLeft /\ DirsLeft
  BY <1>0, <1>1, <1>2, <1>3, CallsLeave, OpsLeave DEF BeginSimple, CreateSimple, CreateStaging, CreateRow, t
<1>5. (\E s \in Segment : AddFile(r, s)) \/ AddFileFails(r) \/ CommitSimple(r) => RowsLeft /\ DirsLeft
  BY <1>0, <1>1, <1>2, OpsLeave DEF AddFile, AddFileFails, CommitSimple, t
<1>6. (\E s \in Segment : CreateSegment(r, s)) => RowsLeft /\ DirsLeft
  BY <1>0, <1>1, <1>2, <1>3, CallsLeave DEF CreateSegment, t
<1>7. Abort(r) => RowsLeft /\ DirsLeft
  BY <1>0, <1>1, <1>2, <1>3, CallsLeave, OpsLeave DEF Abort, AbortStaging, AbortPurge, t
<1>. QED  BY <1>4, <1>5, <1>6, <1>7, PublishLeaves DEF SimpleStep, CreateStep

LEMMA CommitLeaves ==
  ASSUME Base, NEW r \in CommitReq, CommitStep(r)
  PROVE  RowsLeft /\ DirsLeft
<1>. DEFINE t == Target[r]
<1>0. StoreInv /\ FilesOK /\ t \in Transfer /\ r \notin PatchReq /\ RequestOK(r)
  BY RequestAssumption DEF Base, ServerTypes, Request
<1>1. UNCHANGED storeVars => RowsLeft
  BY <1>0, OtherCallsLeave
<1>2. UNCHANGED fileVars => DirsLeft
  BY <1>0, OpsLeave
<1>3. pc[r] = "place" => ~Uploads(t)
  BY <1>0 DEF RequestOK, Uploads
<1>. HIDE DEF t
<1>4. CommitRead(r) \/ CommitList(r) \/ CommitVerify(r) => RowsLeft /\ DirsLeft
  BY <1>1, <1>2 DEF CommitRead, CommitList, CommitVerify
<1>5. CommitMkdir(r) \/ MaterializeMkdir(r) \/ MaterializeFinish(r) => RowsLeft /\ DirsLeft
  BY <1>0, <1>1, <1>2, OpsLeave DEF CommitMkdir, MaterializeMkdir, MaterializeFinish, t
<1>6. CommitMark(r) \/ CommitFail(r) => RowsLeft /\ DirsLeft
  BY <1>0, <1>1, <1>2, CallsLeave DEF CommitMark, CommitFail, Record, t
<1>7. ASSUME NEW s \in Segment, Place(r, s) PROVE RowsLeft /\ DirsLeft
  <2>1. ~Uploads(t)' /\ UNCHANGED storeVars
    BY <1>3, <1>7 DEF Place, Uploads, storeVars
  <2>. QED  BY <1>0, <1>1, <1>2, <1>7, <2>1, OpsLeave DEF Place, t
<1>. QED  BY <1>4, <1>5, <1>6, <1>7, PublishLeaves DEF CommitStep

LEMMA SweepLeaves ==
  ASSUME Base, NEW j \in Sweeper, SweepStep(j)
  PROVE  RowsLeft /\ DirsLeft
<1>0. /\ StoreInv /\ FilesOK /\ SweepOK(j)
      /\ jpc[j] \in {"invalidate", "trashLive", "trashStaging", "purge"} => jid[j] \in Transfer
  BY DEF Base, ServerTypes, SweepTypes
<1>1. UNCHANGED storeVars => RowsLeft
  BY <1>0, OtherCallsLeave
<1>2. UNCHANGED fileVars => DirsLeft
  BY DEF DirsLeft, DirLeft, StagedSame, fileVars
<1>3. SweepExpire(j) => RowsLeft /\ DirsLeft
  BY <1>0, <1>2, OtherCallsLeave DEF SweepExpire
<1>4. ASSUME NEW t \in Transfer, SweepAbandon(j, t) \/ SweepDelete(j, t) PROVE RowsLeft /\ DirsLeft
  BY <1>0, <1>2, <1>4, CallsLeave DEF SweepAbandon, SweepDelete
<1>5. SweepPurge(j) => RowsLeft /\ DirsLeft
  BY <1>0, <1>2, CallsLeave DEF SweepPurge
<1>6. SweepTrashLive(j) => RowsLeft /\ DirsLeft
  BY <1>0, <1>1, OpsLeave DEF SweepTrashLive
<1>7. ASSUME SweepTrashStaging(j) PROVE RowsLeft /\ DirsLeft
  <2>1. PICK t \in Transfer : t = jid[j]
    BY <1>0, <1>7 DEF SweepTrashStaging
  <2>2. UNCHANGED storeVars /\ TrashStaging(t) /\ Ended(t)
    BY <1>0, <1>7, <2>1, StoreAssumption DEF SweepTrashStaging, SweepOK
  <2>3. ~Uploads(t)'
    BY <2>2 DEF Uploads, Ended, Terminal, NoRow, storeVars
  <2>. QED  BY <1>0, <1>1, <2>2, <2>3, OpsLeave
<1>8. SweepEmptyTrash(j) => RowsLeft /\ DirsLeft
  BY <1>1 DEF SweepEmptyTrash, EmptyTrash, DirsLeft, DirLeft, StagedSame
<1>. QED
  BY <1>1, <1>2, <1>3, <1>4, <1>5, <1>6, <1>7, <1>8 DEF SweepStep, SweepStart, SweepStale, SweepUnpinned,
     SweepInvalidate, SweepDeleteFails

LEMMA RestartLeaves ==
  ASSUME Base, ReconcileStep
  PROVE  RowsLeft /\ DirsLeft
<1>0. StoreInv /\ FilesOK /\ ReconcileOK
  BY DEF Base, ServerTypes
<1>1. UNCHANGED storeVars => RowsLeft
  BY <1>0, OtherCallsLeave
<1>2. UNCHANGED fileVars => DirsLeft
  BY DEF DirsLeft, DirLeft, StagedSame, fileVars
<1>3. Begin \/ ListLive \/ ListStaging \/ ToTrashLoop => RowsLeft /\ DirsLeft
  BY <1>1, <1>2 DEF Begin, ListLive, ListStaging, ToTrashLoop, NextLoop
<1>4. Finish => RowsLeft /\ DirsLeft
  BY <1>1 DEF Finish, EmptyTrash, DirsLeft, DirLeft, StagedSame
<1>5. ASSUME NEW t \in Transfer, CompleteInterruptedPublish(t) \/ FailRow(t) \/ PurgeRow(t)
      PROVE  RowsLeft /\ DirsLeft
  BY <1>0, <1>1, <1>2, <1>5, CallsLeave DEF CompleteInterruptedPublish, FailRow, PurgeRow
<1>6. ASSUME NEW t \in Transfer, Visit(t) \/ TrashOrphan(t) PROVE RowsLeft /\ DirsLeft
  BY <1>1, <1>2, <1>6 DEF Visit, TrashOrphan
<1>7. ASSUME NEW t \in Transfer, DiscardLive(t) PROVE RowsLeft /\ DirsLeft
  BY <1>0, <1>1, <1>7, OpsLeave DEF DiscardLive
<1>8. ASSUME NEW t \in Transfer, DiscardStaging(t) PROVE RowsLeft /\ DirsLeft
  <2>1. ~Uploads(t)' /\ UNCHANGED storeVars
    BY <1>0, <1>8 DEF DiscardStaging, ReconcileOK, Uploads, Ended, Terminal, NoRow, storeVars
  <2>. QED  BY <1>0, <1>1, <1>8, <2>1, OpsLeave DEF DiscardStaging
<1>9. ASSUME NEW t \in Transfer, RemoveOrphan(t) PROVE RowsLeft /\ DirsLeft
  <2>1. ~Uploads(t)' /\ UNCHANGED storeVars
    BY <1>0, <1>9 DEF RemoveOrphan, Picking, ReconcileOK, Uploads, Exists, NoRow, storeVars
  <2>. QED  BY <1>0, <1>1, <1>9, <2>1, OpsLeave DEF RemoveOrphan
<1>. QED  BY <1>3, <1>4, <1>5, <1>6, <1>7, <1>8, <1>9 DEF ReconcileStep

LEMMA ReceiverLeaves ==
  ASSUME Base, NEW c \in Receiver, ClaimStep(c) \/ DownloadStep(c)
  PROVE  RowsLeft /\ DirsLeft
<1>0. StoreInv
  BY DEF Base, ServerTypes
<1>1. UNCHANGED fileVars
  BY DEF ClaimStep, DownloadStep, Lookup, LookupExpire, StatPayload, ManifestGet, ManifestRead,
     ManifestPut, OpenClaim, Fetch, OpenFile, Renew, Complete, StartStream, StreamEntry, CutStream, EndStream
<1>2. ASSUME LookupExpire(c) PROVE RowsLeft
  <2>1. found[c] \in Transfer
    BY <1>2 DEF Base, ServerTypes, ReceiverTypes, LookupExpire
  <2>. QED  BY <1>0, <1>2, <2>1, CallsLeave DEF LookupExpire
<1>3. LookupExpire(c) \/ UNCHANGED <<transferVars, segmentVars>>
  BY DEF ClaimStep, DownloadStep, Lookup, StatPayload, ManifestGet, ManifestRead, ManifestPut, OpenClaim,
     Fetch, OpenFile, Renew, Complete, StartStream, StreamEntry, CutStream, EndStream, CreateClaim,
     RenewClaim, CompleteClaim, transferVars, segmentVars, storeVars
<1>4. RowsLeft
  BY <1>0, <1>2, <1>3, OtherCallsLeave
<1>. QED  BY <1>1, <1>4 DEF DirsLeft, DirLeft, StagedSame, fileVars

\* Only a PATCH touches what has been uploaded.
LEMMA OthersLeave ==
  ASSUME Base, [ServerNext]_serverVars, \A r \in PatchReq : ~HandlePatch(r)
  PROVE  RowsLeft /\ DirsLeft /\ UNCHANGED patchVars
<1>0. StoreInv /\ FilesOK /\ Claim \cup Download \subseteq Receiver
  BY DEF Base, ServerTypes, Receiver
<1>1. UNCHANGED storeVars /\ UNCHANGED fileVars => RowsLeft /\ DirsLeft
  BY <1>0, OtherCallsLeave DEF DirsLeft, DirLeft, StagedSame, fileVars
<1>2. ProcessDies \/ TimePasses \/ (\E r \in Request : ClientLeaves(r)) \/ UNCHANGED serverVars
      => UNCHANGED <<storeVars, fileVars, patchVars>>
  BY DEF ProcessDies, Crash, TimePasses, Tick, ClientLeaves, Disconnect, serverVars
<1>3. ASSUME NEW r \in SimpleReq, HandleSimple(r) PROVE RowsLeft /\ DirsLeft /\ UNCHANGED patchVars
  BY <1>3, SessionLeaves DEF HandleSimple, SimpleStep
<1>4. ASSUME NEW r \in CreateReq, HandleCreate(r) PROVE RowsLeft /\ DirsLeft /\ UNCHANGED patchVars
  BY <1>4, SessionLeaves DEF HandleCreate, CreateStep
<1>5. ASSUME NEW r \in CommitReq, HandleCommit(r) PROVE RowsLeft /\ DirsLeft /\ UNCHANGED patchVars
  BY <1>5, CommitLeaves DEF HandleCommit
<1>6. ASSUME NEW j \in Sweeper, Sweep(j) PROVE RowsLeft /\ DirsLeft /\ UNCHANGED patchVars
  BY <1>6, SweepLeaves DEF Sweep
<1>7. ASSUME NEW c \in Claim, HandleClaim(c) PROVE RowsLeft /\ DirsLeft /\ UNCHANGED patchVars
  BY <1>0, <1>7, ReceiverLeaves DEF HandleClaim
<1>8. ASSUME NEW d \in Download, HandleDownload(d) PROVE RowsLeft /\ DirsLeft /\ UNCHANGED patchVars
  BY <1>0, <1>8, ReceiverLeaves DEF HandleDownload
<1>9. Restart => RowsLeft /\ DirsLeft /\ UNCHANGED patchVars
  BY RestartLeaves DEF Restart
<1>. QED  BY <1>1, <1>2, <1>3, <1>4, <1>5, <1>6, <1>7, <1>8, <1>9 DEF ServerNext

\* Written bytes stay written.
LEMMA StoredStays ==
  ASSUME NEW t \in Transfer, NEW s \in Segment, NEW n \in Nat, NEW m \in Nat, m <= n, Stored(t, s, n)
  PROVE  Stored(t, s, m)
  BY DEF Stored

\* What a PATCH does not work on.
LEMMA PatchElsewhere ==
  ASSUME Base, Base', NEW r \in PatchReq, PatchStep(r), NEW u \in Transfer, NEW v \in Segment,
         u # Target[r] \/ v # PatchSegment[r]
  PROVE  StagedSame(u, v) /\ received'[u][v] = received[u][v] /\ acked'[u][v] = acked[u][v]
<1>. DEFINE t == Target[r]
            s == PatchSegment[r]
<1>0. /\ t \in Transfer /\ s \in Segment /\ FilesOK /\ FilesOK' /\ StoreInv
      /\ acked \in [Transfer -> [Segment -> 0..SegLen]]
  BY RequestAssumption DEF Base, ServerTypes, PatchTypes, Request
<1>. HIDE DEF t, s
<1>a. u # t \/ v # s
  BY DEF t, s
<1>1. UNCHANGED <<staging, file>> => StagedSame(u, v)
  BY DEF StagedSame
<1>2. file'[u][v] = file[u][v] /\ staging'[u].seg[v] = staging[u].seg[v] => StagedSame(u, v)
  BY DEF StagedSame
<1>3. ASSUME OpenSegment(t, s) PROVE StagedSame(u, v)
  <2>1. CASE UNCHANGED <<file, staging>>
    BY <1>1, <2>1
  <2>2. CASE /\ file' = [file EXCEPT ![t][s] = Append(file[t][s], <<>>)]
             /\ staging' = [staging EXCEPT ![t].seg[s] = Len(file[t][s]) + 1]
    <3>1. file'[u][v] = file[u][v]
      BY <1>0, <1>a, <2>2 DEF FilesOK
    <3>2. staging'[u].seg[v] = staging[u].seg[v]
      BY <1>0, <1>a, <2>2 DEF FilesOK, LayoutTypeOK, Dir
    <3>. QED  BY <1>2, <3>1, <3>2
  <2>. QED  BY <1>3, <2>1, <2>2 DEF OpenSegment
<1>4. ASSUME NEW i, NEW f, file' = [file EXCEPT ![t][s][i] = f], UNCHANGED staging PROVE StagedSame(u, v)
  <2>1. file' = [file EXCEPT ![t] = [file[t] EXCEPT ![s] = [file[t][s] EXCEPT ![i] = f]]]
    BY <1>4
  <2>2. file'[u][v] = file[u][v]
    BY <1>0, <1>a, <2>1 DEF FilesOK
  <2>. QED  BY <1>2, <1>4, <2>2
<1>5. StagedSame(u, v)
  <2>1. PatchOpen(r) => StagedSame(u, v)
    BY <1>1, <1>3 DEF PatchOpen, fileVars, t, s
  <2>2. PatchTruncate(r) => StagedSame(u, v)
    BY <1>4 DEF PatchTruncate, Truncate, t, s
  <2>3. PatchWrite(r) => StagedSame(u, v)
    BY <1>4 DEF PatchWrite, Write, t, s
  <2>. QED
    BY <1>1, <2>1, <2>2, <2>3 DEF PatchStep, PatchReadSegment, PatchReadTransfer, PatchMark, PatchStop,
       PatchFinish, fileVars
<1>6. received'[u][v] = received[u][v] /\ acked'[u][v] = acked[u][v]
  <2>1. ASSUME PatchFinish(r) PROVE received'[u][v] = received[u][v] /\ acked'[u][v] = acked[u][v]
    <3>1. CASE UNCHANGED <<acked, storeVars>>
      BY <3>1 DEF storeVars
    <3>2. ASSUME NEW n, SetSegmentProgress(t, s, n) PROVE received'[u][v] = received[u][v]
      BY <1>0, <1>a, <3>2 DEF SetSegmentProgress, StoreInv, StoreTypeOK
    <3>3. ASSUME NEW n, acked' = [acked EXCEPT ![t][s] = n] PROVE acked'[u][v] = acked[u][v]
      BY <1>0, <1>a, <3>3
    <3>. QED  BY <2>1, <3>1, <3>2, <3>3 DEF PatchFinish, t, s
  <2>2. PatchFinish(r) \/ UNCHANGED <<received, acked>>
    BY DEF PatchStep, PatchReadSegment, PatchReadTransfer, PatchOpen, PatchTruncate, PatchMark, PatchWrite,
       PatchStop, patchVars, storeVars, SetState, segmentVars
  <2>. QED  BY <2>1, <2>2
<1>. QED  BY <1>5, <1>6

\* The rows and the other PATCHes.
LEMMA PatchBeside ==
  ASSUME Base, NEW r \in PatchReq, PatchStep(r)
  PROVE  /\ \A u \in Transfer : (Uploads(u)' => Uploads(u)) /\ (Opened(u)' <=> Opened(u))
         /\ UNCHANGED segrows
         /\ \A q \in PatchReq : q # r => /\ pc'[q] = pc[q] /\ off'[q] = off[q]
                                         /\ pos'[q] = pos[q] /\ fd'[q] = fd[q]
         /\ Opened(Target[r])
<1>0. r \in Request /\ Target[r] \in Transfer /\ SentOK(r) /\ RequestOK(r) /\ StoreInv /\ PatchTypes
  BY RequestAssumption DEF Base, ServerTypes, Request
<1>1. StepOf(r)
  BY <1>0, RequestMoves DEF Base
<1>2. \A u \in Transfer : Opened(u)' <=> Opened(u)
  <2>1. \A q \in CreateReq : pc'[q] = pc[q]
    BY <1>1, RequestAssumption DEF StepOf, Request
  <2>. QED  BY <2>1 DEF Opened
<1>3. \A u \in Transfer : Uploads(u)' => Uploads(u)
  <2>1. CASE PatchMark(r)
    <3>1. Uploads(Target[r])
      BY <1>0, <2>1 DEF PatchMark, RequestOK, Runs, Resting, Uploads
    <3>. QED  BY <1>0, <2>1, <3>1 DEF PatchMark, SetState, Uploads, StoreInv, StoreTypeOK
  <2>2. CASE UNCHANGED state
    BY <2>2 DEF Uploads
  <2>. QED
    BY <2>1, <2>2 DEF PatchStep, PatchReadSegment, PatchReadTransfer, PatchOpen, PatchTruncate, PatchWrite,
       PatchStop, PatchFinish, SetSegmentProgress, transferVars, storeVars
<1>4. UNCHANGED segrows
  BY DEF PatchStep, PatchReadSegment, PatchReadTransfer, PatchOpen, PatchTruncate, PatchMark, PatchWrite,
     PatchStop, PatchFinish, SetSegmentProgress, SetState, segmentVars, storeVars
<1>5. \A q \in PatchReq : q # r => pc'[q] = pc[q]
  BY <1>1 DEF StepOf, Request
<1>6. \A q \in PatchReq : q # r => off'[q] = off[q] /\ pos'[q] = pos[q] /\ fd'[q] = fd[q]
  BY <1>0 DEF PatchTypes, PatchStep, PatchReadSegment, PatchReadTransfer, PatchOpen, PatchTruncate, PatchMark,
     PatchWrite, PatchStop, PatchFinish, patchVars
<1>7. Opened(Target[r])
  <2>1. CASE Sent(r)
    BY <2>1 DEF Sent, CreationReturned, Opened
  <2>2. CASE pc[r] # "idle"
    BY <1>0, <2>2 DEF SentOK, CreationReturned, Opened
  <2>. QED
    BY <2>1, <2>2 DEF PatchStep, PatchReadSegment, PatchReadTransfer, PatchOpen, PatchTruncate, PatchMark,
       PatchWrite, PatchStop, PatchFinish
<1>. QED  BY <1>2, <1>3, <1>4, <1>5, <1>6, <1>7

\* What was stored before a truncation to n, or a write at n, is stored after it.
LEMMA AlignedBytes ==
  ASSUME NEW f \in Seq(BOOLEAN), NEW n \in Nat, \A b \in 1..n : b <= Len(f) /\ f[b]
  PROVE  \A b \in 1..n : b <= Len(Aligned(f, n)) /\ Aligned(f, n)[b]
<1>0. Len(Aligned(f, n)) = n
  BY AlignedFile
<1>1. \A b \in 1..n : b <= Len(Aligned(f, n))
  BY <1>0
<1>2. \A b \in 1..n : Aligned(f, n)[b] = IF b <= Len(f) THEN f[b] ELSE FALSE
  BY AlignedFile
<1>. QED  BY <1>1, <1>2, Zenon

LEMMA WrittenBytes ==
  ASSUME NEW f \in Seq(BOOLEAN), NEW n \in Nat, \A b \in 1..n : b <= Len(f) /\ f[b]
  PROVE  \A b \in 1..(n + 1) : b <= Len(Written(f, n)) /\ Written(f, n)[b]
<1>0. Len(f) \in Nat
  BY LenProperties
<1>a. Len(Written(f, n)) = IF Len(f) > n THEN Len(f) ELSE n + 1
  BY WrittenFile
<1>1. \A b \in 1..(n + 1) : b <= Len(Written(f, n)) /\ b \in 1..Len(Written(f, n))
  BY <1>0, <1>a
<1>2. \A b \in 1..Len(Written(f, n)) :
          Written(f, n)[b] = IF b = n + 1 THEN TRUE ELSE IF b <= Len(f) THEN f[b] ELSE FALSE
  BY WrittenFile
<1>3. \A b \in 1..(n + 1) : b = n + 1 \/ b \in 1..n
  OBVIOUS
<1>. QED  BY <1>1, <1>2, <1>3, Zenon

LEMMA StoredLater ==
  ASSUME NEW t \in Transfer, NEW s \in Segment, NEW n \in Nat, NEW m \in Nat, m <= n, Stored(t, s, n)'
  PROVE  Stored(t, s, m)'
  BY DEF Stored

\* A PATCH at its own segment.
LEMMA PatchOwn ==
  ASSUME Base, Base', NEW r \in PatchReq, PatchStep(r),
         NEW t \in Transfer, t = Target[r], NEW s \in Segment, s = PatchSegment[r],
         BytesOK(t, s), PatchOK(r)
  PROVE  BytesOK(t, s)' /\ PatchOK(r)'
<1>0. /\ r \in Request /\ StoreInv /\ FilesOK /\ FilesOK' /\ PatchTypes /\ PatchTypes' /\ RequestOK(r)
      /\ RequestTypes /\ RequestTypes'
  BY DEF Base, ServerTypes, Request
<1>1. /\ Opened(t) /\ Opened(t)' /\ UNCHANGED segrows
      /\ Uploads(t)' => Uploads(t)
  BY PatchBeside
<1>2. SUFFICES ASSUME Uploads(t)'
               PROVE  BytesOK(t, s)' /\ PatchOK(r)'
  BY <1>1 DEF BytesOK, PatchOK
<1>3. /\ acked[t][s] <= received[t][s] /\ Stored(t, s, received[t][s])
      /\ received[t][s] \in 0..SegLen /\ acked[t][s] \in 0..SegLen
      /\ off[r] \in 0..SegLen /\ pos[r] \in 0..SegLen /\ SegLen \in Nat
  BY <1>0, <1>1, <1>2, SegLenAssumption DEF BytesOK, StoreInv, StoreTypeOK, PatchTypes
<1>4. file[t][s] \in Seq(Seq(BOOLEAN)) /\ Len(file[t][s]) \in Nat /\ staging[t].seg[s] \in 0..Len(file[t][s])
  BY <1>0, LenProperties DEF FilesOK, LayoutTypeOK, Dir
<1>5. Runs(r) =>
        /\ <<t, s>> \in segrows
        /\ received[t][s] <= pos[r]
        /\ off[r] = received[t][s]
        /\ pc[r] \in {"readTransfer", "open", "truncate", "markUploading"} => pos[r] = off[r]
        /\ pc[r] \in {"truncate", "markUploading", "writing", "finish"} =>
            fd[r] = staging[t].seg[s] /\ fd[r] \in 1..Len(file[t][s])
        /\ pc[r] \in {"markUploading", "writing", "finish"} => Stored(t, s, pos[r])
  BY <1>1, <1>2 DEF PatchOK
<1>6. UNCHANGED <<staging, file>> => \A n : Stored(t, s, n)' <=> Stored(t, s, n)
  BY DEF Stored
<1>7. ASSUME UNCHANGED <<staging, file, received, acked, off, pos, fd>>, pc'[r] \in Resting PROVE BytesOK(t, s)' /\ PatchOK(r)'
  BY <1>1, <1>3, <1>6, <1>7 DEF BytesOK, PatchOK, Runs
<1>a. \A next : Advance(r, next) => pc'[r] = next
  BY <1>0 DEF Advance, RequestTypes
<1>b. /\ pc[r] \in {"readTransfer", "open", "truncate", "markUploading", "writing", "finish"} => Runs(r)
      /\ pc'[r] = "done" => pc'[r] \in Resting
  BY DEF Runs, Resting
<1>8. ASSUME PatchReadSegment(r) PROVE BytesOK(t, s)' /\ PatchOK(r)'
  <2>0. UNCHANGED <<staging, file, received, acked, fd>>
    BY <1>8 DEF PatchReadSegment, fileVars, storeVars, segmentVars
  <2>1. CASE <<t, s>> \in segrows
    <3>1. off'[r] = received[t][s] /\ pos'[r] = received[t][s] /\ pc'[r] = "readTransfer"
      BY <1>0, <1>8, <1>a, <2>1 DEF PatchReadSegment, PatchTypes
    <3>. QED  BY <1>1, <1>3, <1>6, <2>0, <2>1, <3>1 DEF BytesOK, PatchOK
  <2>2. CASE <<t, s>> \notin segrows
    BY <1>7, <1>8, <1>a, <1>b, <2>0, <2>2 DEF PatchReadSegment
  <2>. QED  BY <2>1, <2>2
<1>9. ASSUME PatchReadTransfer(r) PROVE BytesOK(t, s)' /\ PatchOK(r)'
  <2>0. UNCHANGED <<staging, file, received, acked, off, pos, fd>>
    BY <1>9 DEF PatchReadTransfer, fileVars, storeVars, segmentVars
  <2>1. pc'[r] = "open" \/ pc'[r] = "done"
    BY <1>9, <1>a DEF PatchReadTransfer
  <2>2. pc[r] = "readTransfer"
    BY <1>9 DEF PatchReadTransfer
  <2>. QED  BY <1>1, <1>3, <1>5, <1>6, <1>7, <1>b, <2>0, <2>1, <2>2 DEF BytesOK, PatchOK
<1>10. ASSUME PatchOpen(r) PROVE BytesOK(t, s)' /\ PatchOK(r)'
  <2>0. UNCHANGED <<received, acked, off, pos>> /\ pc[r] = "open"
    BY <1>10 DEF PatchOpen, storeVars, segmentVars
  <2>1. CASE UNCHANGED <<fd, fileVars>> /\ pc'[r] = "done"
    BY <1>7, <1>b, <2>0, <2>1 DEF fileVars
  <2>2. CASE OpenSegment(t, s) /\ fd' = [fd EXCEPT ![r] = staging'[t].seg[s]] /\ pc'[r] = "truncate"
    <3>1. fd'[r] = staging'[t].seg[s]
      BY <1>0, <2>2 DEF PatchTypes
    <3>2. staging'[t].seg[s] \in 1..Len(file'[t][s]) /\ Stored(t, s, received[t][s])'
      <4>1. CASE staging[t].seg[s] # NoFile
        BY <1>3, <1>4, <1>6, <2>0, <2>2, <4>1 DEF OpenSegment, NoFile
      <4>2. CASE staging[t].seg[s] = NoFile
        <5>1. received[t][s] = 0
          BY <1>3, <4>2 DEF Stored, NoFile
        <5>2. file'[t][s] = Append(file[t][s], <<>>)
          <6>1. PICK x : x = Append(file[t][s], <<>>)
            OBVIOUS
          <6>2. file' = [file EXCEPT ![t] = [file[t] EXCEPT ![s] = x]]
            BY <2>2, <4>2, <6>1 DEF OpenSegment
          <6>. QED  BY <1>0, <6>1, <6>2 DEF FilesOK
        <5>3. staging'[t].seg[s] = Len(file[t][s]) + 1
          BY <1>0, <2>2, <4>2 DEF OpenSegment, FilesOK, LayoutTypeOK, Dir
        <5>4. Len(file'[t][s]) = Len(file[t][s]) + 1
          BY <1>4, <5>2
        <5>. QED  BY <1>4, <2>0, <5>1, <5>3, <5>4 DEF Stored
      <4>. QED  BY <4>1, <4>2
    <3>. QED  BY <1>1, <1>3, <1>5, <1>b, <2>0, <2>2, <3>1, <3>2 DEF BytesOK, PatchOK
  <2>. QED  BY <1>10, <1>a, <2>1, <2>2 DEF PatchOpen
<1>11. ASSUME PatchTruncate(r) PROVE BytesOK(t, s)' /\ PatchOK(r)'
  <2>0. UNCHANGED <<staging, received, acked, off, pos, fd>> /\ pc[r] = "truncate"
    BY <1>11 DEF PatchTruncate, Truncate, storeVars, segmentVars, patchVars
  <2>1. pc'[r] = "markUploading" \/ pc'[r] = "writing"
    BY <1>11, <1>a DEF PatchTruncate
  <2>2. PICK i \in 1..Len(file[t][s]) : i = fd[r] /\ i = staging[t].seg[s]
    BY <1>5, <1>b, <2>0
  <2>3. PICK f \in Seq(BOOLEAN) : f = file[t][s][i]
    BY <1>4
  <2>4. PICK n \in Nat : n = off[r] /\ n = pos[r] /\ n = received[t][s]
    BY <1>3, <1>5, <1>b, <2>0
  <2>5. /\ Aligned(f, n) \in Seq(BOOLEAN) /\ Len(Aligned(f, n)) = n
        /\ \A b \in 1..n : Aligned(f, n)[b] = IF b <= Len(f) THEN f[b] ELSE FALSE
    BY AlignedFile
  <2>6. file' = [file EXCEPT ![t][s][i] = Aligned(f, n)]
    <3>1. file' = [file EXCEPT ![t][s][fd[r]] = Aligned(file[t][s][fd[r]], off[r])]
      BY <1>11 DEF PatchTruncate, Truncate
    <3>. QED  BY <2>2, <2>3, <2>4, <3>1
  <2>7. file'[t][s][i] = Aligned(f, n) /\ Len(file'[t][s]) = Len(file[t][s])
    <3>1. PICK x \in Seq(BOOLEAN) : x = Aligned(f, n)
      BY <2>5
    <3>2. file' = [file EXCEPT ![t][s][i] = x]
      BY <2>6, <3>1
    <3>3. PICK g : g = [file[t][s] EXCEPT ![i] = x]
      OBVIOUS
    <3>4. file' = [file EXCEPT ![t] = [file[t] EXCEPT ![s] = g]]
      BY <3>2, <3>3
    <3>5. file'[t][s] = g
      BY <1>0, <3>4 DEF FilesOK
    <3>6. g[i] = x /\ Len(g) = Len(file[t][s])
      BY <1>4, <3>3, SeqUpdate
    <3>. QED  BY <3>1, <3>5, <3>6
  <2>8. \A b \in 1..n : b <= Len(f) /\ f[b]
    <3>1. Stored(t, s, n)
      BY <1>3, <2>4
    <3>. QED  BY <2>2, <2>3, <3>1, Zenon DEF Stored
  <2>9. Stored(t, s, n)'
    <3>1. \A b \in 1..n : b <= Len(Aligned(f, n)) /\ Aligned(f, n)[b]
      BY <2>8, AlignedBytes
    <3>2. staging'[t].seg[s] = i /\ i \in 1..Len(file'[t][s])
      BY <2>0, <2>2, <2>7
    <3>. QED  BY <2>7, <3>1, <3>2, Zenon DEF Stored
  <2>. QED  BY <1>1, <1>3, <1>5, <1>b, <2>0, <2>1, <2>2, <2>4, <2>7, <2>9 DEF BytesOK, PatchOK
<1>12. ASSUME PatchMark(r) PROVE BytesOK(t, s)' /\ PatchOK(r)'
  <2>0. UNCHANGED <<staging, file, received, acked, off, pos, fd>> /\ pc[r] = "markUploading"
    BY <1>12 DEF PatchMark, SetState, fileVars, segmentVars, patchVars
  <2>1. pc'[r] = "writing"
    BY <1>12, <1>a DEF PatchMark
  <2>. QED  BY <1>1, <1>3, <1>5, <1>6, <1>b, <2>0, <2>1 DEF BytesOK, PatchOK
<1>13. ASSUME PatchWrite(r) PROVE BytesOK(t, s)' /\ PatchOK(r)'
  <2>0. UNCHANGED <<staging, received, acked, off, fd, pc>> /\ pc[r] = "writing"
    BY <1>13 DEF PatchWrite, Write, storeVars, segmentVars, requestVars
  <2>1. pos'[r] = pos[r] + 1
    BY <1>0, <1>13 DEF PatchWrite, PatchTypes
  <2>2. PICK i \in 1..Len(file[t][s]) : i = fd[r] /\ i = staging[t].seg[s]
    BY <1>5, <1>b, <2>0
  <2>3. PICK f \in Seq(BOOLEAN) : f = file[t][s][i]
    BY <1>4
  <2>4. PICK n \in Nat : n = pos[r]
    BY <1>3
  <2>5. /\ Written(f, n) \in Seq(BOOLEAN)
        /\ Len(Written(f, n)) = IF Len(f) > n THEN Len(f) ELSE n + 1
        /\ \A b \in 1..Len(Written(f, n)) :
               Written(f, n)[b] = IF b = n + 1 THEN TRUE ELSE IF b <= Len(f) THEN f[b] ELSE FALSE
    BY WrittenFile
  <2>6. file' = [file EXCEPT ![t][s][i] = Written(f, n)]
    <3>1. file' = [file EXCEPT ![t][s][fd[r]] = Written(file[t][s][fd[r]], pos[r])]
      BY <1>13 DEF PatchWrite, Write, Written
    <3>. QED  BY <2>2, <2>3, <2>4, <3>1
  <2>7. file'[t][s][i] = Written(f, n) /\ Len(file'[t][s]) = Len(file[t][s])
    <3>1. PICK x \in Seq(BOOLEAN) : x = Written(f, n)
      BY <2>5
    <3>2. file' = [file EXCEPT ![t][s][i] = x]
      BY <2>6, <3>1
    <3>3. PICK g : g = [file[t][s] EXCEPT ![i] = x]
      OBVIOUS
    <3>4. file' = [file EXCEPT ![t] = [file[t] EXCEPT ![s] = g]]
      BY <3>2, <3>3
    <3>5. file'[t][s] = g
      BY <1>0, <3>4 DEF FilesOK
    <3>6. g[i] = x /\ Len(g) = Len(file[t][s])
      BY <1>4, <3>3, SeqUpdate
    <3>. QED  BY <3>1, <3>5, <3>6
  <2>8. \A b \in 1..n : b <= Len(f) /\ f[b]
    <3>1. Stored(t, s, n)
      BY <1>5, <1>b, <2>0, <2>4
    <3>. QED  BY <2>2, <2>3, <3>1, Zenon DEF Stored
  <2>10. \A b \in 1..(n + 1) : b <= Len(Written(f, n)) /\ Written(f, n)[b]
    BY <2>8, WrittenBytes
  <2>11. Stored(t, s, n + 1)'
    <3>1. staging'[t].seg[s] = i /\ i \in 1..Len(file'[t][s])
      BY <2>0, <2>2, <2>7
    <3>. QED  BY <2>7, <2>10, <3>1, Zenon DEF Stored
  <2>12. Stored(t, s, received[t][s])'
    <3>1. PICK m \in Nat : m = received[t][s] /\ m <= n + 1
      BY <1>3, <1>5, <1>b, <2>0, <2>4
    <3>2. Stored(t, s, m)'
      BY <2>4, <2>11, <3>1, StoredLater
    <3>. QED  BY <2>0, <3>1, <3>2
  <2>. QED  BY <1>1, <1>3, <1>5, <1>b, <2>0, <2>1, <2>2, <2>4, <2>7, <2>11, <2>12 DEF BytesOK, PatchOK
<1>14. ASSUME PatchStop(r) PROVE BytesOK(t, s)' /\ PatchOK(r)'
  <2>0. UNCHANGED <<staging, file, received, acked, off, pos, fd>> /\ pc[r] = "writing"
    BY <1>14 DEF PatchStop, storeVars, fileVars, segmentVars, patchVars
  <2>1. pc'[r] = "finish"
    BY <1>14, <1>a DEF PatchStop
  <2>. QED  BY <1>1, <1>3, <1>5, <1>6, <1>b, <2>0, <2>1 DEF BytesOK, PatchOK
<1>15. ASSUME PatchFinish(r) PROVE BytesOK(t, s)' /\ PatchOK(r)'
  <2>0. UNCHANGED <<staging, file, off, pos, fd>> /\ pc[r] = "finish"
    BY <1>15 DEF PatchFinish, fileVars
  <2>1. pc'[r] \in Resting
    BY <1>15, <1>a, <1>b DEF PatchFinish
  <2>2. CASE UNCHANGED <<acked, storeVars>>
    BY <1>7, <2>0, <2>1, <2>2 DEF storeVars, segmentVars
  <2>3. CASE /\ SetSegmentProgress(t, s, pos[r])
             /\ acked' = [acked EXCEPT ![t][s] = IF @ > pos[r] THEN @ ELSE pos[r]]
    <3>1. received'[t][s] = pos[r]
      BY <1>0, <1>5, <1>b, <2>0, <2>3 DEF SetSegmentProgress, StoreInv, StoreTypeOK
    <3>2. acked'[t][s] = pos[r]
      BY <1>0, <1>3, <1>5, <1>b, <2>0, <2>3 DEF PatchTypes
    <3>. QED  BY <1>1, <1>3, <1>5, <1>6, <1>b, <2>0, <2>1, <3>1, <3>2 DEF BytesOK, PatchOK, Runs
  <2>. QED  BY <1>15, <2>2, <2>3 DEF PatchFinish
<1>. QED  BY <1>8, <1>9, <1>10, <1>11, <1>12, <1>13, <1>14, <1>15 DEF PatchStep
\* A step of nobody's PATCH moves a PATCH only to its end.
LEMMA PatchesStay ==
  ASSUME Base, [ServerNext]_serverVars, \A p \in PatchReq : ~HandlePatch(p)
  PROVE  /\ \A r \in PatchReq : Runs(r)' => Runs(r) /\ pc'[r] = pc[r]
         /\ \A t \in Transfer : Opened(t) => Opened(t)'
<1>0. ServerTypes /\ PatchReq \cup CreateReq \subseteq Request
  BY DEF Base, Request
<1>1. \/ \E p \in Request \ PatchReq : StepOf(p)
      \/ \A p \in Request : pc'[p] = pc[p]
      \/ \A p \in Request : IF pc[p] \in Resting THEN pc'[p] = pc[p] ELSE pc'[p] = "done"
  <2>1. CASE ProcessDies
    BY <2>1 DEF ProcessDies, KillRequests, Resting
  <2>2. ASSUME NEW p \in Request, (p \in SimpleReq /\ HandleSimple(p)) \/ (p \in CreateReq /\ HandleCreate(p))
                 \/ (p \in CommitReq /\ HandleCommit(p))
        PROVE  p \notin PatchReq /\ StepOf(p)
    BY <1>0, <2>2, RequestMoves, RequestAssumption DEF HandleSimple, HandleCreate, HandleCommit
  <2>3. SimpleReq \cup CreateReq \cup CommitReq \subseteq Request
    BY DEF Request
  <2>4. \/ TimePasses \/ (\E r \in Request : ClientLeaves(r)) \/ UNCHANGED serverVars
        \/ (\E j \in Sweeper : Sweep(j)) \/ Restart
        \/ (\E c \in Claim : HandleClaim(c)) \/ (\E d \in Download : HandleDownload(d))
        => UNCHANGED pc
    BY DEF TimePasses, ClientLeaves, Disconnect, serverVars, Sweep, Restart, HandleClaim, HandleDownload,
       requestVars
  <2>. QED  BY <2>1, <2>2, <2>3, <2>4 DEF ServerNext
<1>2. \A r \in PatchReq : Runs(r)' => Runs(r) /\ pc'[r] = pc[r]
  BY <1>0, <1>1 DEF Runs, Resting, StepOf
<1>3. \A p \in CreateReq : pc[p] = "created" => pc'[p] = "created"
  BY <1>0, <1>1 DEF Runs, Resting, StepOf
<1>. QED  BY <1>2, <1>3 DEF Opened

\* Files that stay where they are keep what is stored.
LEMMA StoredSame ==
  ASSUME NEW t \in Transfer, NEW s \in Segment, StagedSame(t, s), NEW n, Stored(t, s, n), n > 0 \/ n = 0
  PROVE  Stored(t, s, n)'
<1>1. CASE n = 0
  BY <1>1 DEF Stored
<1>2. CASE n > 0
  <2>1. PICK i \in 1..Len(file[t][s]) : i = staging[t].seg[s]
    BY <1>2 DEF Stored
  <2>2. i = staging'[t].seg[s] /\ i \in 1..Len(file'[t][s]) /\ file'[t][s][i] = file[t][s][i]
    BY <2>1 DEF StagedSame
  <2>3. \A b \in 1..n : b <= Len(file[t][s][i]) /\ file[t][s][i][b]
    BY <2>1, Zenon DEF Stored
  <2>4. \A b \in 1..n : b <= Len(file'[t][s][i]) /\ file'[t][s][i][b]
    BY <2>2, <2>3, Zenon
  <2>. QED  BY <2>2, <2>4, Zenon DEF Stored
<1>. QED  BY <1>1, <1>2

\* What a PATCH relies on, when nobody touches its segment.
LEMMA PatchKept ==
  ASSUME Base, NEW r \in PatchReq, NEW t \in Transfer, t = Target[r], NEW s \in Segment, s = PatchSegment[r],
         PatchOK(r), Runs(r)' => Runs(r) /\ pc'[r] = pc[r], Runs(r) /\ Uploads(t)' => Uploads(t),
         Runs(r) /\ Uploads(t)' =>
            /\ StagedSame(t, s) /\ received'[t][s] = received[t][s]
            /\ <<t, s>> \in segrows => <<t, s>> \in segrows',
         off'[r] = off[r], pos'[r] = pos[r], fd'[r] = fd[r]
  PROVE  PatchOK(r)'
<1>. SUFFICES ASSUME Runs(r)', Uploads(t)'
              PROVE  PatchOK(r)'
  BY DEF PatchOK
<1>1. Runs(r) /\ pc'[r] = pc[r] /\ Uploads(t) /\ StagedSame(t, s) /\ received'[t][s] = received[t][s]
      /\ (<<t, s>> \in segrows => <<t, s>> \in segrows')
  OBVIOUS
<1>2. pos[r] \in 0..SegLen /\ SegLen \in Nat
  BY SegLenAssumption DEF Base, ServerTypes, PatchTypes
<1>3. pc[r] \in {"markUploading", "writing", "finish"} => Stored(t, s, pos[r])'
  <2>1. pc[r] \in {"markUploading", "writing", "finish"} => Stored(t, s, pos[r])
    BY <1>1 DEF PatchOK
  <2>2. PICK n : n = pos[r]
    OBVIOUS
  <2>3. Stored(t, s, n) => Stored(t, s, n)'
    BY <1>1, <1>2, <2>2, StoredSame
  <2>. QED  BY <2>1, <2>2, <2>3
<1>4. pc[r] \in {"truncate", "markUploading", "writing", "finish"} =>
          fd[r] = staging'[t].seg[s] /\ fd[r] \in 1..Len(file'[t][s])
  BY <1>1 DEF PatchOK, StagedSame
<1>. QED  BY <1>1, <1>3, <1>4 DEF PatchOK
LEMMA BytesKeptNext ==
  ASSUME Base, Base', Calm, BytesKept, [ServerNext]_serverVars
  PROVE  BytesKept'
<1>0. /\ StoreInv /\ StoreInv' /\ PatchTypes /\ RequestTypes /\ Alone
      /\ \A r \in PatchReq : r \in Request /\ Target[r] \in Transfer /\ PatchSegment[r] \in Segment /\ SentOK(r)
  BY RequestAssumption DEF Base, ServerTypes, Calm, Request
<1>1. CASE \A p \in PatchReq : ~HandlePatch(p)
  <2>0. RowsLeft /\ DirsLeft /\ UNCHANGED patchVars
    BY <1>1, OthersLeave
  <2>1. /\ \A r \in PatchReq : Runs(r)' => Runs(r) /\ pc'[r] = pc[r]
        /\ \A t \in Transfer : Opened(t) => Opened(t)'
    BY <1>1, PatchesStay
  <2>2. ASSUME NEW t \in Transfer, NEW s \in Segment PROVE BytesOK(t, s)'
    <3>0. /\ acked'[t][s] = acked[t][s] /\ BytesOK(t, s) /\ received'[t][s] \in {received[t][s], 0}
          /\ received[t][s] \in Nat
      BY <1>0, <2>0 DEF patchVars, BytesKept, RowsLeft, StoreInv, StoreTypeOK
    <3>1. CASE ~Opened(t)
      <4>1. acked'[t][s] = 0 /\ received'[t][s] = 0
        BY <3>0, <3>1 DEF BytesOK
      <4>. QED  BY <4>1 DEF BytesOK, Stored
    <3>2. CASE Opened(t) /\ ~Uploads(t)'
      BY <2>1, <3>2 DEF BytesOK
    <3>3. CASE Opened(t) /\ Uploads(t)'
      <4>1. Uploads(t) /\ received'[t][s] = received[t][s] /\ StagedSame(t, s)
        BY <2>0, <3>3 DEF RowsLeft, RowLeft, DirsLeft, DirLeft
      <4>2. acked[t][s] <= received[t][s] /\ Stored(t, s, received[t][s])
        BY <3>0, <4>1 DEF BytesOK
      <4>3. PICK n : n = received[t][s]
        OBVIOUS
      <4>4. Stored(t, s, n)'
        BY <3>0, <4>1, <4>2, <4>3, StoredSame
      <4>. QED  BY <2>1, <3>0, <3>3, <4>1, <4>2, <4>3, <4>4 DEF BytesOK
    <3>. QED  BY <3>1, <3>2, <3>3
  <2>3. ASSUME NEW r \in PatchReq PROVE PatchOK(r)'
    <3>0. PICK t \in Transfer, s \in Segment : t = Target[r] /\ s = PatchSegment[r]
      BY <1>0
    <3>1. Runs(r) => Opened(t)
      BY <1>0, <3>0 DEF SentOK, Runs, Resting, CreationReturned, Opened
    <3>2. Runs(r) /\ Uploads(t)' =>
             /\ Uploads(t) /\ StagedSame(t, s) /\ received'[t][s] = received[t][s]
             /\ <<t, s>> \in segrows => <<t, s>> \in segrows'
      BY <2>0, <3>1 DEF RowsLeft, RowLeft, DirsLeft, DirLeft
    <3>3. PatchOK(r) /\ off'[r] = off[r] /\ pos'[r] = pos[r] /\ fd'[r] = fd[r]
      BY <2>0 DEF patchVars, BytesKept
    <3>. QED  BY <2>1, <3>0, <3>2, <3>3, PatchKept
  <2>. QED  BY <2>2, <2>3 DEF BytesKept
<1>2. ASSUME NEW p \in PatchReq, HandlePatch(p) PROVE BytesKept'
  <2>0. PatchStep(p)
    BY <1>2 DEF HandlePatch
  <2>1. /\ \A u \in Transfer : (Uploads(u)' => Uploads(u)) /\ (Opened(u)' <=> Opened(u))
        /\ UNCHANGED segrows
        /\ \A q \in PatchReq : q # p => /\ pc'[q] = pc[q] /\ off'[q] = off[q]
                                        /\ pos'[q] = pos[q] /\ fd'[q] = fd[q]
    BY <2>0, PatchBeside
  <2>2. PICK t \in Transfer, s \in Segment : t = Target[p] /\ s = PatchSegment[p]
    BY <1>0
  <2>3. BytesOK(t, s)' /\ PatchOK(p)'
    <3>1. BytesOK(t, s) /\ PatchOK(p)
      BY DEF BytesKept
    <3>. QED  BY <2>0, <2>2, <3>1, PatchOwn
  <2>4. ASSUME NEW u \in Transfer, NEW v \in Segment, u # t \/ v # s
        PROVE  StagedSame(u, v) /\ received'[u][v] = received[u][v] /\ acked'[u][v] = acked[u][v]
    BY <2>0, <2>2, <2>4, PatchElsewhere
  <2>5. ASSUME NEW u \in Transfer, NEW v \in Segment, u # t \/ v # s PROVE BytesOK(u, v)'
    <3>1. StagedSame(u, v) /\ received'[u][v] = received[u][v] /\ acked'[u][v] = acked[u][v]
      BY <2>4, <2>5
    <3>2. BytesOK(u, v) /\ received[u][v] \in Nat
      BY <1>0 DEF BytesKept, StoreInv, StoreTypeOK
    <3>3. PICK n : n = received[u][v]
      OBVIOUS
    <3>4. Stored(u, v, n) => Stored(u, v, n)'
      BY <3>1, <3>2, <3>3, StoredSame
    <3>. QED  BY <2>1, <3>1, <3>2, <3>3, <3>4 DEF BytesOK
  <2>6. ASSUME NEW q \in PatchReq, q # p PROVE PatchOK(q)'
    <3>0. PICK u \in Transfer, v \in Segment : u = Target[q] /\ v = PatchSegment[q]
      BY <1>0
    <3>1. PatchOK(q) /\ off'[q] = off[q] /\ pos'[q] = pos[q] /\ fd'[q] = fd[q] /\ pc'[q] = pc[q]
      BY <2>1, <2>6 DEF BytesKept
    <3>2. Runs(q)' => Runs(q) /\ pc'[q] = pc[q]
      BY <3>1 DEF Runs
    <3>3. Runs(q) => StagedSame(u, v) /\ received'[u][v] = received[u][v]
      <4>1. CASE u # t \/ v # s
        BY <2>4, <4>1
      <4>2. CASE u = t /\ v = s /\ Runs(q)
        <5>1. ~Runs(p)
          BY <1>0, <2>2, <2>6, <3>0, <4>2 DEF Alone, Rivals
        <5>2. PatchReadSegment(p)
          BY <2>0, <5>1 DEF PatchStep, PatchReadTransfer, PatchOpen, PatchTruncate, PatchMark, PatchWrite,
             PatchStop, PatchFinish, Runs, Resting
        <5>. QED  BY <5>2 DEF PatchReadSegment, StagedSame, fileVars, storeVars, segmentVars
      <4>. QED  BY <4>1, <4>2
    <3>. QED  BY <2>1, <3>0, <3>1, <3>2, <3>3, PatchKept
  <2>. QED  BY <2>3, <2>5, <2>6 DEF BytesKept
<1>. QED  BY <1>1, <1>2

\* Every byte whose offset a PATCH has answered is in the staged segment, and
\* the recorded progress covers it, for as long as the transfer accepts bytes:
\* UploadPatch may truncate a segment to the recorded offset and no further,
\* and neither a sweep, a crash nor the restart takes the segment away.
THEOREM AckedBytesStay == ServerSpec /\ []Calm => []AckedBytesKept
<1>1. ServerInit => BytesKept
  BY RequestAssumption DEF ServerInit, StoreInit, LayoutInit, RequestInit, PatchInit, BytesKept, BytesOK, PatchOK,
     Stored, Runs, Resting, Request
<1>2. Base /\ Base' /\ Calm /\ BytesKept /\ [ServerNext]_serverVars => BytesKept'
  BY BytesKeptNext
<1>3. Base /\ BytesKept => AckedBytesKept
  <2>. SUFFICES ASSUME Base, BytesKept, NEW t \in Transfer, NEW s \in Segment, Uploads(t), acked[t][s] > 0
                PROVE  /\ received[t][s] >= acked[t][s]
                       /\ staging[t].seg[s] # NoFile
                       /\ \A b \in 1..acked[t][s] : /\ b <= Len(file[t][s][staging[t].seg[s]])
                                                    /\ file[t][s][staging[t].seg[s]][b]
    BY DEF AckedBytesKept, Uploads
  <2>1. acked[t][s] <= received[t][s] /\ Stored(t, s, received[t][s])
    BY DEF BytesKept, BytesOK
  <2>2. acked[t][s] \in Nat /\ received[t][s] \in Nat
    BY SegLenAssumption DEF Base, ServerTypes, PatchTypes, StoreInv, StoreTypeOK
  <2>3. Stored(t, s, acked[t][s])
    BY <2>1, <2>2, StoredStays
  <2>4. \A b \in 1..acked[t][s] : /\ b <= Len(file[t][s][staging[t].seg[s]])
                                  /\ file[t][s][staging[t].seg[s]][b]
    BY <2>3, Zenon DEF Stored
  <2>5. staging[t].seg[s] # NoFile
    BY <2>2, <2>3 DEF Stored, NoFile
  <2>. QED  BY <2>1, <2>2, <2>4, <2>5
<1>. QED  BY <1>1, <1>2, <1>3, BaseAlways, PTL DEF ServerSpec
=============================================================================
