---------------------------- MODULE Publication ----------------------------
(***************************************************************************)
(* The requests that write to a transfer, and the publication protocol     *)
(* that a simple upload and a commit share (internal/transfer/publish.go). *)
(*                                                                         *)
(* A request is a process.  pc is the statement it is about to execute:    *)
(* each database call and each file system call is one step.  gone says    *)
(* that the client has disconnected, which cancels the request context:    *)
(* the handler runs on, and every database call it makes from then on      *)
(* returns an error without effect.  A request is sent at most once; a     *)
(* retry is another request with the same target.                          *)
(***************************************************************************)
EXTENDS ManifestCache

CONSTANTS SimpleReq,    \* POST /s and POST /s/raw, one per transfer
          CreateReq,    \* POST /v1/transfers, one per resumable transfer
          PatchReq,     \* PATCH /v1/uploads/{id}
          CommitReq,    \* POST /v1/transfers/{id}/commit
          Target,       \* Target[r]: the transfer the request is about
          PatchSegment, \* PatchSegment[r]: the segment a PATCH appends to
          Serial        \* a sender waits for its last request to end at the server

Request == SimpleReq \cup CreateReq \cup PatchReq \cup CommitReq

ASSUME RequestAssumption ==
    /\ Target \in [Request -> Transfer]
    /\ PatchSegment \in [PatchReq -> Segment]
    /\ SimpleReq \cap (CreateReq \cup PatchReq \cup CommitReq) = {}
    /\ CreateReq \cap (PatchReq \cup CommitReq) = {}
    /\ PatchReq \cap CommitReq = {}
    \* ids.Transfer draws a new identifier for every upload session.
    /\ \A r, q \in SimpleReq \cup CreateReq : Target[r] = Target[q] => r = q
    /\ Serial \in BOOLEAN

VARIABLES pc,       \* pc[r]: the next statement of request r
          gone,     \* gone[r]: the client of r has disconnected
          want,     \* want[r]: the lifetime to publish with
          parts,    \* parts[r]: the segments the handler is done with
          result,   \* result[r]: the code the handler answered, or NoCode
          until     \* until[r]: the expiry it answered with the code

requestVars == <<pc, gone, want, parts, result, until>>

\* Statements before and after which a request does not run.
Resting == {"idle", "created", "done"}

RequestInit ==
    /\ pc = [r \in Request |-> "idle"]
    /\ gone = [r \in Request |-> FALSE]
    /\ want = [r \in Request |-> 0]
    /\ parts = [r \in Request |-> {}]
    /\ result = [r \in Request |-> NoCode]
    /\ until = [r \in Request |-> 0]

Advance(r, next) == pc' = [pc EXCEPT ![r] = next]

\* An upload session that fails is aborted; a commit that fails just returns.
ErrorExit(r) ==
    Advance(r, IF r \in SimpleReq \cup CreateReq THEN "abort" ELSE "done")

\* A database write of request r, which a cancelled context refuses.
Record(r, write, next) ==
    \/ ~gone[r] /\ write /\ Advance(r, next)
    \/ gone[r] /\ UNCHANGED storeVars /\ ErrorExit(r)

\* A resumable transfer is known to its sender once its creation returned.
CreationReturned(r) ==
    \E q \in CreateReq : Target[q] = Target[r] /\ pc[q] = "created"

\* Two requests of one sender that it never sends at the same time: PATCHes of
\* one segment, commits, and a commit and a PATCH.
Rivals(r, q) ==
    /\ r # q /\ Target[r] = Target[q]
    /\ r \in PatchReq /\ q \in PatchReq => PatchSegment[r] = PatchSegment[q]

\* The sender sends a PATCH or a commit.  A client that loses a connection sends
\* again, and nothing in the server waits for the handler that still runs: only
\* a Serial sender is sure that it has ended.
Sent(r) ==
    /\ pc[r] = "idle"
    /\ CreationReturned(r)
    /\ Serial => \A q \in PatchReq \cup CommitReq : Rivals(r, q) => pc[q] \in Resting

\* Statements that run before the request body has been read to its end.
ReadingBody == {"create", "adding", "readTransfer", "open", "truncate",
                "markUploading", "writing"}

\* The client of a running request disconnects.  net/http notices it only once
\* the body has been read.
Disconnect(r) ==
    /\ pc[r] \notin Resting \cup ReadingBody
    /\ ~gone[r]
    /\ gone' = [gone EXCEPT ![r] = TRUE]
    /\ UNCHANGED <<pc, want, parts, result, until, storeVars, fileVars, now>>

-----------------------------------------------------------------------------
(* publish: for an already materialized staging tree.                      *)

MarkVerifying(r) ==
    /\ pc[r] = "verifying"
    /\ Record(r, SetState(Target[r], "VERIFYING"), "note")
    /\ UNCHANGED <<gone, want, parts, result, until, fileVars, now>>

\* Seeded fault: the lifetime stays in memory.
SkipNoteAndTTL(r) ==
    /\ pc[r] = "note"
    /\ Advance(r, "manifest")
    /\ UNCHANGED <<gone, want, parts, result, until, storeVars, fileVars, now>>

RecordNoteAndTTL(r) ==
    /\ pc[r] = "note"
    /\ Record(r, SetNoteAndTTL(Target[r], want[r]), "manifest")
    /\ UNCHANGED <<gone, want, parts, result, until, fileVars, now>>

\* Seeded fault: the code is allocated before the rename.
AllocateBeforeRename(r) ==
    /\ pc[r] = "manifest"
    /\ \/ WriteManifest(Target[r]) /\ Advance(r, "allocate")
       \/ ~staging[Target[r]].here /\ UNCHANGED fileVars /\ ErrorExit(r)
    /\ UNCHANGED <<gone, want, parts, result, until, storeVars, now>>

\* writeAndDigestManifest, then SealPayload, which changes permissions only.
StoreManifest(r) ==
    /\ pc[r] = "manifest"
    /\ \/ WriteManifest(Target[r]) /\ Advance(r, "rename")
       \/ ~staging[Target[r]].here /\ UNCHANGED fileVars /\ ErrorExit(r)
    /\ UNCHANGED <<gone, want, parts, result, until, storeVars, now>>

RenameToLive(r) ==
    /\ pc[r] = "rename"
    /\ \/ PublishDir(Target[r]) /\ Advance(r, "allocate")
       \/ ~CanPublish(Target[r]) /\ UNCHANGED fileVars /\ ErrorExit(r)
    /\ UNCHANGED <<gone, want, parts, result, until, storeVars, now>>

\* The handler returns a code and its expiry.
Answer(r, c, at) ==
    /\ Advance(r, "done")
    /\ result' = [result EXCEPT ![r] = c]
    /\ until' = [until EXCEPT ![r] = at]

\* The transaction, and the manifest of what it published goes into the cache.
AllocateCode(r) ==
    LET t == Target[r] IN
    /\ pc[r] = "allocate"
    /\ \/ \E c \in Code :
            /\ ~gone[r]
            /\ Allocate(t, now, want[r], c)
            /\ Answer(r, c, now + want[r])
            /\ CachePut(t)
       \/ /\ ~gone[r] /\ PublishAgain(t)
          /\ Answer(r, code[t], expires[t])
          /\ CachePut(t)
          /\ UNCHANGED storeVars
       \/ /\ gone[r] \/ PublishRefused(t)
          /\ ErrorExit(r)
          /\ UNCHANGED <<result, until, storeVars, cached>>
    /\ UNCHANGED <<gone, want, parts, fileVars, now>>

Publish(r) ==
    \/ AllocateCode(r)
    \/ /\ \/ MarkVerifying(r) \/ RecordNoteAndTTL(r)
          \/ StoreManifest(r) \/ RenameToLive(r)
       /\ UNCHANGED cached

-----------------------------------------------------------------------------
(* Abort of an upload session, and the error path of a creation.           *)

AbortStaging(r) ==
    /\ pc[r] = "abort"
    /\ RemoveStaging(Target[r])
    /\ Advance(r, "purge")
    /\ UNCHANGED <<gone, want, parts, result, until, storeVars, now>>

AbortPurge(r) ==
    /\ pc[r] = "purge"
    /\ IF gone[r] THEN UNCHANGED storeVars ELSE Purge(Target[r])
    /\ Advance(r, "done")
    /\ UNCHANGED <<gone, want, parts, result, until, fileVars, now>>

Abort(r) == AbortStaging(r) \/ AbortPurge(r)

\* The process dies and takes its requests with it.
KillRequests ==
    /\ pc' = [r \in Request |-> IF pc[r] \in Resting THEN pc[r] ELSE "done"]
    /\ gone' = [r \in Request |-> FALSE]
    /\ UNCHANGED <<want, parts, result, until>>
=============================================================================
