------------------------------- MODULE Commit ------------------------------
(***************************************************************************)
(* Service.Commit for resumable transfers (internal/transfer/advanced.go)  *)
(* and the materialization it runs (internal/materialize).  The manifest   *)
(* is taken to be valid and to match the declared segments; a manifest     *)
(* that is refused returns before anything is written.  The order in which *)
(* segments are placed is the manifest's, which the sender chooses.        *)
(*                                                                         *)
(* A segment stands for its stored file; extracting a pack into payload    *)
(* files is part of placing it.                                            *)
(***************************************************************************)
EXTENDS Publication

\* GetTransfer and the switch on its state.  A committed transfer answers with
\* the code it already has.
CommitRead(r) ==
    LET t == Target[r] IN
    /\ Sent(r)
    /\ CASE Committed(t) ->
              Answer(r, code[t], expires[t]) /\ UNCHANGED want
         [] state[t] \in PreCommit ->
              /\ Advance(r, "list")
              /\ want' = [want EXCEPT ![r] = ttl[t]]
              /\ UNCHANGED <<result, until>>
         [] OTHER ->
              Advance(r, "done") /\ UNCHANGED <<want, result, until>>
    /\ UNCHANGED <<gone, parts, storeVars, fileVars, now>>

\* ListSegments; parts remembers which of them the rows call complete.
CommitList(r) ==
    LET t == Target[r] IN
    /\ pc[r] = "list"
    /\ IF ~gone[r] /\ \A s \in Segment : <<t, s>> \in segrows
       THEN /\ parts' = [parts EXCEPT ![r] = {s \in Segment : received[t][s] = SegLen}]
            /\ Advance(r, "outboards")
       ELSE Advance(r, "done") /\ UNCHANGED parts
    /\ UNCHANGED <<gone, want, result, until, storeVars, fileVars, now>>

CommitMkdir(r) ==
    /\ pc[r] = "outboards"
    /\ MkdirAll(Target[r])
    /\ Advance(r, "digest")
    /\ UNCHANGED <<gone, want, parts, result, until, storeVars, now>>

\* Every segment is read once: length and digest must be the declared ones.
SegmentsIntact(t) ==
    \A s \in Segment : /\ staging[t].seg[s] # NoFile
                       /\ file[t][s][staging[t].seg[s]] = Whole

CommitVerify(r) ==
    /\ pc[r] = "digest"
    /\ Advance(r, IF parts[r] = Segment /\ SegmentsIntact(Target[r])
                  THEN "mark" ELSE "done")
    /\ UNCHANGED <<gone, want, parts, result, until, storeVars, fileVars, now>>

CommitMark(r) ==
    /\ pc[r] = "mark"
    /\ Record(r, SetState(Target[r], "VERIFYING"), "payload")
    /\ parts' = [parts EXCEPT ![r] = {}]
    /\ UNCHANGED <<gone, want, result, until, fileVars, now>>

\* materialize.Run: the payload directory, then each segment in turn.
MaterializeMkdir(r) ==
    /\ pc[r] = "payload"
    /\ MkdirAll(Target[r])
    /\ Advance(r, "place")
    /\ UNCHANGED <<gone, want, parts, result, until, storeVars, now>>

Place(r, s) ==
    /\ pc[r] = "place"
    /\ s \notin parts[r]
    /\ \/ /\ PlaceSegment(Target[r], s)
          /\ parts' = [parts EXCEPT ![r] = @ \cup {s}]
          /\ UNCHANGED pc
       \/ /\ staging[Target[r]].seg[s] = NoFile
          /\ Advance(r, "fail")
          /\ UNCHANGED <<parts, fileVars>>
    /\ UNCHANGED <<gone, want, result, until, storeVars, now>>

\* verify re-reads the payload (a cancelled context stops it), and the segments
\* directory must be empty.
PayloadIntact(t) ==
    \A s \in Segment : /\ staging[t].pay[s] # NoFile
                       /\ PayloadFile(t, staging[t], s) = Whole

MaterializeFinish(r) ==
    LET t == Target[r] IN
    /\ pc[r] = "place"
    /\ parts[r] = Segment
    /\ \/ /\ PayloadIntact(t)
          /\ RemoveSegdir(t)
          /\ Advance(r, "verifying")
       \/ /\ gone[r] \/ ~PayloadIntact(t) \/ ~CanRemoveSegdir(t)
          /\ Advance(r, "fail")
          /\ UNCHANGED fileVars
    /\ UNCHANGED <<gone, want, parts, result, until, storeVars, now>>

\* store.Fail; its own error is ignored.
CommitFail(r) ==
    /\ pc[r] = "fail"
    /\ IF gone[r] THEN UNCHANGED storeVars ELSE Fail(Target[r])
    /\ Advance(r, "done")
    /\ UNCHANGED <<gone, want, parts, result, until, fileVars, now>>

CommitStep(r) ==
    \/ Publish(r)
    \/ /\ \/ CommitRead(r) \/ CommitList(r) \/ CommitMkdir(r) \/ CommitVerify(r)
          \/ CommitMark(r) \/ MaterializeMkdir(r)
          \/ \E s \in Segment : Place(r, s)
          \/ MaterializeFinish(r) \/ CommitFail(r)
       /\ UNCHANGED cached
=============================================================================
