------------------------------ MODULE Uploads ------------------------------
(***************************************************************************)
(* The two ways bytes enter: simple upload sessions                        *)
(* (internal/transfer/simple.go) and resumable transfers with their tus    *)
(* PATCH handlers (internal/transfer/advanced.go).                         *)
(***************************************************************************)
EXTENDS Publication

VARIABLES off,      \* off[r]: the offset PATCH r starts at
          pos,      \* pos[r]: offset + written
          fd,       \* fd[r]: the inode PATCH r has open
          first,    \* first[r]: PATCH r read the state CREATED
          acked     \* acked[t][s]: the highest offset a PATCH answered

patchVars == <<off, pos, fd, first, acked>>

PatchInit ==
    /\ off = [r \in PatchReq |-> 0]
    /\ pos = [r \in PatchReq |-> 0]
    /\ fd = [r \in PatchReq |-> NoFile]
    /\ first = [r \in PatchReq |-> FALSE]
    /\ acked = [t \in Transfer |-> [s \in Segment |-> 0]]

-----------------------------------------------------------------------------
(* Simple uploads.                                                         *)

\* BeginSimple, up to the insert.  The lifetime is a field of the form.
BeginSimple(r) ==
    /\ pc[r] = "idle"
    /\ PrepareStaging(Target[r])
    /\ \E minutes \in TTL : want' = [want EXCEPT ![r] = minutes]
    /\ Advance(r, "create")
    /\ UNCHANGED <<gone, parts, result, until, storeVars, now>>

\* The row is created with the default lifetime; an error removes the tree.
CreateSimple(r) ==
    /\ pc[r] = "create"
    /\ \/ /\ CreateTransfer(Target[r], now, DefaultTTL)
          /\ Advance(r, "adding")
          /\ UNCHANGED fileVars
       \/ /\ RemoveStaging(Target[r])
          /\ Advance(r, "done")
          /\ UNCHANGED storeVars
    /\ UNCHANGED <<gone, want, parts, result, until, now>>

\* One file part, streamed to disk and hashed on the way through.
AddFile(r, s) ==
    /\ pc[r] = "adding"
    /\ s \notin parts[r]
    /\ AddPayloadFile(Target[r], s)
    /\ parts' = [parts EXCEPT ![r] = @ \cup {s}]
    /\ UNCHANGED <<pc, gone, want, result, until, storeVars, now>>

\* A part is refused, the stream breaks, or the disk is full.
AddFileFails(r) ==
    /\ pc[r] = "adding"
    /\ ErrorExit(r)
    /\ UNCHANGED <<gone, want, parts, result, until, storeVars, fileVars, now>>

CommitSimple(r) ==
    /\ pc[r] = "adding"
    /\ parts[r] = Segment
    /\ Advance(r, "verifying")
    /\ UNCHANGED <<gone, want, parts, result, until, storeVars, fileVars, now>>

SimpleStep(r) ==
    /\ \/ Publish(r)
       \/ /\ \/ BeginSimple(r) \/ CreateSimple(r)
             \/ \E s \in Segment : AddFile(r, s)
             \/ AddFileFails(r) \/ CommitSimple(r) \/ Abort(r)
          /\ UNCHANGED cached
    /\ UNCHANGED patchVars

-----------------------------------------------------------------------------
(* Creation of a resumable transfer.                                       *)

CreateStaging(r) ==
    /\ pc[r] = "idle"
    /\ PrepareStaging(Target[r])
    /\ \E minutes \in TTL : want' = [want EXCEPT ![r] = minutes]
    /\ Advance(r, "create")
    /\ UNCHANGED <<gone, parts, result, until, storeVars, now>>

CreateRow(r) ==
    /\ pc[r] = "create"
    /\ \/ /\ CreateTransfer(Target[r], now, want[r])
          /\ Advance(r, "segments")
          /\ UNCHANGED fileVars
       \/ /\ RemoveStaging(Target[r])
          /\ Advance(r, "done")
          /\ UNCHANGED storeVars
    /\ UNCHANGED <<gone, want, parts, result, until, now>>

\* InsertSegment for each declared segment; any error undoes the creation.
CreateSegment(r, s) ==
    LET t == Target[r] IN
    /\ pc[r] = "segments"
    /\ s \notin parts[r]
    /\ \/ /\ ~gone[r]
          /\ InsertSegment(t, s)
          /\ parts' = [parts EXCEPT ![r] = @ \cup {s}]
          /\ Advance(r, IF parts'[r] = Segment THEN "created" ELSE "segments")
       \/ /\ gone[r] \/ ~Exists(t)
          /\ ErrorExit(r)
          /\ UNCHANGED <<parts, storeVars>>
    /\ UNCHANGED <<gone, want, result, until, fileVars, now>>

CreateStep(r) ==
    /\ \/ CreateStaging(r) \/ CreateRow(r)
       \/ \E s \in Segment : CreateSegment(r, s)
       \/ Abort(r)
    /\ UNCHANGED patchVars

-----------------------------------------------------------------------------
(* UploadPatch: appends to a segment at an exact offset.  A request whose  *)
(* offset is not the one the row holds is refused and does nothing, so the *)
(* offset of a request that goes on is the received_length it read.        *)

PatchReadSegment(r) ==
    LET t == Target[r]  s == PatchSegment[r] IN
    /\ Sent(r)
    /\ IF <<t, s>> \in segrows
       THEN /\ off' = [off EXCEPT ![r] = received[t][s]]
            /\ pos' = [pos EXCEPT ![r] = received[t][s]]
            /\ Advance(r, "readTransfer")
       ELSE Advance(r, "done") /\ UNCHANGED <<off, pos>>
    /\ UNCHANGED <<gone, want, parts, result, until, fd, first, acked,
                   storeVars, fileVars, now>>

PatchReadTransfer(r) ==
    LET t == Target[r] IN
    /\ pc[r] = "readTransfer"
    /\ IF state[t] \in {"CREATED", "UPLOADING"}
       THEN /\ first' = [first EXCEPT ![r] = (state[t] = "CREATED")]
            /\ Advance(r, "open")
       ELSE Advance(r, "done") /\ UNCHANGED first
    /\ UNCHANGED <<gone, want, parts, result, until, off, pos, fd, acked,
                   storeVars, fileVars, now>>

PatchOpen(r) ==
    LET t == Target[r]  s == PatchSegment[r] IN
    /\ pc[r] = "open"
    /\ \/ /\ OpenSegment(t, s)
          /\ fd' = [fd EXCEPT ![r] = staging'[t].seg[s]]
          /\ Advance(r, "truncate")
       \/ /\ ~staging[t].segdir
          /\ Advance(r, "done")
          /\ UNCHANGED <<fd, fileVars>>
    /\ UNCHANGED <<gone, want, parts, result, until, off, pos, first, acked,
                   storeVars, now>>

\* Seeded fault: the segment starts over instead of resuming.
PatchTruncateAll(r) ==
    /\ pc[r] = "truncate"
    /\ Truncate(Target[r], PatchSegment[r], fd[r], 0)
    /\ Advance(r, IF first[r] THEN "markUploading" ELSE "writing")
    /\ UNCHANGED <<gone, want, parts, result, until, patchVars, storeVars, now>>

PatchTruncate(r) ==
    /\ pc[r] = "truncate"
    /\ Truncate(Target[r], PatchSegment[r], fd[r], off[r])
    /\ Advance(r, IF first[r] THEN "markUploading" ELSE "writing")
    /\ UNCHANGED <<gone, want, parts, result, until, patchVars, storeVars, now>>

\* SetState(UPLOADING), decided by the state read three statements earlier.
PatchMark(r) ==
    /\ pc[r] = "markUploading"
    /\ SetState(Target[r], "UPLOADING")
    /\ Advance(r, "writing")
    /\ UNCHANGED <<gone, want, parts, result, until, patchVars, fileVars, now>>

PatchWrite(r) ==
    /\ pc[r] = "writing"
    /\ pos[r] < SegLen
    /\ Write(Target[r], PatchSegment[r], fd[r], pos[r])
    /\ pos' = [pos EXCEPT ![r] = @ + 1]
    /\ UNCHANGED <<requestVars, off, fd, first, acked, storeVars, now>>

\* The body ends, breaks or overruns the declared length: in each case what
\* was written is kept.
PatchStop(r) ==
    /\ pc[r] = "writing"
    /\ Advance(r, "finish")
    /\ UNCHANGED <<gone, want, parts, result, until, patchVars, storeVars,
                   fileVars, now>>

\* finishPatch, then the answer with the new offset.
PatchFinish(r) ==
    LET t == Target[r]  s == PatchSegment[r] IN
    /\ pc[r] = "finish"
    /\ IF gone[r]
       THEN UNCHANGED <<acked, storeVars>>
       ELSE /\ SetSegmentProgress(t, s, pos[r])
            /\ acked' = [acked EXCEPT ![t][s] = IF @ > pos[r] THEN @ ELSE pos[r]]
    /\ Advance(r, "done")
    /\ UNCHANGED <<gone, want, parts, result, until, off, pos, fd, first,
                   fileVars, now>>

PatchStep(r) ==
    \/ PatchReadSegment(r) \/ PatchReadTransfer(r) \/ PatchOpen(r)
    \/ PatchTruncate(r) \/ PatchMark(r) \/ PatchWrite(r) \/ PatchStop(r)
    \/ PatchFinish(r)
=============================================================================
