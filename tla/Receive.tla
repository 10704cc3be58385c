------------------------------ MODULE Receive ------------------------------
(***************************************************************************)
(* `ss recv' on a remote machine (internal/client, recv.go): download      *)
(* every segment of a handoff into a hidden working directory, turn them   *)
(* into a payload tree, verify it and rename it to the destination.        *)
(*                                                                         *)
(* Several runs of the command name the same destination, one after the    *)
(* other or, with Overlap, at once; they share the working directory       *)
(* .<destination>.sss-partial and whatever an earlier run left there.      *)
(*                                                                         *)
(* A byte is the handoff it belongs to, or Junk when it is no handoff's    *)
(* (damaged in transit, or a hole); a digest tells these apart.  Files are *)
(* inodes, so a descriptor follows its file through a rename.  Segments    *)
(* are numbered in manifest order.  Two handoffs number their segments and *)
(* name the files made of them alike, as two versions of one tree do.      *)
(***************************************************************************)
EXTENDS Integers, Sequences, FiniteSets, FiniteSetsExt

CONSTANTS Receiver,      \* runs of the command; each runs at most once
          Handoff, Junk,
          Of,            \* Of[r]: the handoff run r receives
          Segment,       \* segment numbers
          Files,         \* Files[h]: the segments of handoff h
          Packs,         \* the segments that are tar.zst packs, not raw files
          Length,        \* Length[h][s]: the bytes of its segment s
          GroupSize,
          Workers,       \* concurrent downloads of one run
          TreeMayFail,   \* a verification tree may be missing or unreadable
          Overlap,       \* runs may overlap in time
          MaxKills       \* how many runs may be killed

ASSUME ReceiveAssumption ==
    /\ Of \in [Receiver -> Handoff]
    /\ Segment \subseteq Nat /\ IsFiniteSet(Segment)
    /\ Files \in [Handoff -> (SUBSET Segment) \ {{}}]
    /\ Packs \subseteq Segment
    /\ Length \in [Handoff -> [Segment -> Nat \ {0}]] /\ GroupSize \in Nat \ {0}
    /\ Workers \in Nat \ {0}
    /\ TreeMayFail \in BOOLEAN /\ Overlap \in BOOLEAN
    /\ MaxKills \in Nat
    /\ Junk \notin Handoff

VARIABLES partial,   \* the working directory
          dest,      \* the destination
          file,      \* file[s]: the inodes made for segment s and its payload file
          pc,        \* where each run is
          job,       \* job[r][s]: run r's download of segment s
          todo,      \* segments run r has still to place in the payload
          kills,     \* runs killed so far
          unproved   \* history: bytes have reached the disk before their proof

recvVars == <<partial, dest, file, pc, job, todo, kills, unproved>>

NoFile == 0
NoStream == -1
MaxAttempts == 3

Byte == Handoff \cup {Junk}
Whole(h, s) == [i \in 1..Length[h][s] |-> h]
SegLen(r, s) == Length[Of[r]][s]

NoFiles == [s \in Segment |-> NoFile]
NoDir == [here |-> FALSE, segdir |-> FALSE, paydir |-> FALSE,
          seg |-> NoFiles, pay |-> NoFiles]
NoDest == [here |-> FALSE, pay |-> NoFiles, of |-> Junk]

\* A download: its step, the file it writes, how far it is, where its response
\* body is positioned and how many attempts in a row have failed.
NoJob == [at |-> "none", fd |-> NoFile, offset |-> 0, stream |-> NoStream, attempts |-> 0]
NoJobs == [s \in Segment |-> NoJob]

InFlight == {"tree", "open", "trim", "loop", "repair", "write", "stat", "get", "copy", "hash"}
Finished == {"ok", "failed", "dropped"}
Ended == {"done", "failed", "dead"}
Running(r) == pc[r] \notin Ended \cup {"idle"}

JobsAt(r, a) == {s \in Files[Of[r]] : job[r][s].at = a}

\* setErr and cancel: one failed download cancels the context of the others.
Cancelled(r) == JobsAt(r, "failed") # {}

ReceiveInit ==
    /\ partial = NoDir /\ dest = NoDest
    /\ file = [s \in Segment |-> <<>>]
    /\ pc = [r \in Receiver |-> "idle"]
    /\ job = [r \in Receiver |-> NoJobs]
    /\ todo = [r \in Receiver |-> {}]
    /\ kills = 0
    /\ unproved = FALSE

-----------------------------------------------------------------------------
(* Files of the working directory.                                         *)

SegFile(s) == file[s][partial.seg[s]]

\* The inodes of s that a name or an open descriptor holds, the number the next
\* file gets, and the inodes once it has been made with bytes c.
Held(s) == {partial.seg[s], partial.pay[s], dest.pay[s]} \cup {job[r][s].fd : r \in Receiver}
NewInode(s) == Min((1..(Len(file[s]) + 1)) \ Held(s))
Create(s, c) ==
    file' = [file EXCEPT ![s] =
               [i \in 1..Max({Len(@), NewInode(s)}) |->
                   IF i = NewInode(s) THEN c ELSE @[i]]]

\* os.OpenFile with O_CREATE below the segments directory: the descriptor.
Opened(s) == IF partial.seg[s] = NoFile THEN NewInode(s) ELSE partial.seg[s]
OpenSegment(s) ==
    /\ partial.segdir
    /\ partial' = [partial EXCEPT !.seg[s] = Opened(s)]
    /\ IF partial.seg[s] = NoFile THEN Create(s, <<>>) ELSE UNCHANGED file

\* n bytes b written at offset o of f; a gap before them reads as zeros.
Spliced(f, o, n, b) ==
    [i \in 1..Max({Len(f), o + n}) |->
        IF i > o /\ i <= o + n THEN b ELSE IF i <= Len(f) THEN f[i] ELSE Junk]

\* f cut, or filled up with zeros, to n bytes.
Truncated(f, n) == [i \in 1..n |-> IF i <= Len(f) THEN f[i] ELSE Junk]

\* Run r stops here; its descriptors are closed.
Stop(r, how) ==
    /\ pc' = [pc EXCEPT ![r] = how]
    /\ job' = [job EXCEPT ![r] = NoJobs]
    /\ todo' = [todo EXCEPT ![r] = {}]

Goto(r, a) == pc' = [pc EXCEPT ![r] = a] /\ UNCHANGED <<job, todo>>

\* The download of s takes the value j; nothing else of any run changes.
SetJob(r, s, j) == job' = [job EXCEPT ![r][s] = j] /\ UNCHANGED <<pc, todo>>
JobGoto(r, s, a) == SetJob(r, s, [job[r][s] EXCEPT !.at = a])
JobEnd(r, s, a) == SetJob(r, s, [NoJob EXCEPT !.at = a])

-----------------------------------------------------------------------------
(* Recv up to the download.                                                *)

\* Claim, which may be refused, and resolveDestination of a path given with --to:
\* never overwrite.
Begin(r) ==
    /\ pc[r] = "idle"
    /\ Overlap \/ \A o \in Receiver : ~Running(o)
    /\ \/ Goto(r, "failed")
       \/ ~dest.here /\ Goto(r, "mkdir")
    /\ UNCHANGED <<partial, dest, file, kills, unproved>>

\* MkdirAll of the segments directory; whatever an earlier run left stays.
MakeSegmentsDir(r) ==
    /\ pc[r] = "mkdir"
    /\ partial' = [partial EXCEPT !.here = TRUE, !.segdir = TRUE]
    /\ pc' = [pc EXCEPT ![r] = "fetch"]
    /\ job' = [job EXCEPT ![r] = [s \in Segment |->
                  IF s \in Files[Of[r]] THEN [NoJob EXCEPT !.at = "queued"] ELSE NoJob]]
    /\ UNCHANGED <<dest, file, todo, kills, unproved>>

-----------------------------------------------------------------------------
(* What a request of run r may come back with.  A cancelled context fails  *)
(* every new request as a network error does.                              *)

\* SegmentReader: a body from the offset asked for, a network error (an answer
\* that ignores the range counts as one), or the server's refusal.
SegmentReader(r) ==
    IF Cancelled(r) THEN {"network"} ELSE {"body", "network", "refused"}

\* SegmentRangeReader, read to the end of its one group and proved; its caller
\* does not tell failures apart.
SegmentRangeReader(r) ==
    IF Cancelled(r) THEN {"failed"} ELSE {"group", "failed"}

\* OutboardBytes: the verification tree, or none, or one of the wrong size.
OutboardBytes(r) ==
    IF Cancelled(r) THEN {"none"} ELSE IF TreeMayFail THEN {"tree", "none"} ELSE {"tree"}

-----------------------------------------------------------------------------
(* fetchSegments: a pool of workers fed in manifest order.  A worker whose *)
(* download failed returns, and the feeder may then drop what is queued.   *)

At(r, s, a) == pc[r] = "fetch" /\ s \in Segment /\ job[r][s].at = a

Feed(r, s) ==
    /\ At(r, s, "queued") /\ s = Min(JobsAt(r, "queued"))
    /\ \/ /\ Cardinality({o \in Segment : job[r][o].at \in InFlight \cup {"failed"}}) < Workers
          /\ JobGoto(r, s, "tree")
       \/ Cancelled(r) /\ JobGoto(r, s, "dropped")
    /\ UNCHANGED <<partial, dest, file, kills, unproved>>

\* Without a tree the segment is fetched and hashed whole.
FetchTree(r, s) ==
    /\ At(r, s, "tree")
    /\ \/ "tree" \in OutboardBytes(r) /\ JobGoto(r, s, "open")
       \/ "none" \in OutboardBytes(r) /\ JobGoto(r, s, "stat")
    /\ UNCHANGED <<partial, dest, file, kills, unproved>>

-----------------------------------------------------------------------------
(* fetchVerified: one verification group at a time.                        *)

GroupFloor(n) == n - (n % GroupSize)

\* Open and stat: resume from the last group boundary on disk.
OpenVerified(r, s) ==
    LET size == IF partial.seg[s] = NoFile THEN 0 ELSE Len(SegFile(s)) IN
    /\ At(r, s, "open")
    /\ \/ /\ OpenSegment(s)
          /\ SetJob(r, s, [NoJob EXCEPT !.at = "trim", !.fd = Opened(s),
                             !.offset = IF GroupFloor(size) > SegLen(r, s)
                                        THEN GroupFloor(SegLen(r, s)) ELSE GroupFloor(size)])
       \/ ~partial.segdir /\ JobEnd(r, s, "failed") /\ UNCHANGED <<partial, file>>
    /\ UNCHANGED <<dest, kills, unproved>>

\* Seeded fault: starts over instead of resuming.
TrimAll(r, s) ==
    /\ At(r, s, "trim")
    /\ file' = [file EXCEPT ![s][job[r][s].fd] = <<>>]
    /\ SetJob(r, s, [job[r][s] EXCEPT !.at = "loop", !.offset = 0])
    /\ UNCHANGED <<partial, dest, kills, unproved>>

\* Truncate: the tail above the boundary cannot be proved and is discarded.
TrimVerified(r, s) ==
    /\ At(r, s, "trim")
    /\ file' = [file EXCEPT ![s][job[r][s].fd] = Truncated(@, job[r][s].offset)]
    /\ JobGoto(r, s, "loop")
    /\ UNCHANGED <<partial, dest, kills, unproved>>

Want(r, s) == Min({GroupSize, SegLen(r, s) - job[r][s].offset})

\* Seeded fault: one attempt too many.
FetchingOnceMore(r, s) ==
    At(r, s, "loop") /\ job[r][s].offset < SegLen(r, s) /\ job[r][s].attempts <= MaxAttempts

\* The loop has a group to fetch and attempts left.
Fetching(r, s) ==
    At(r, s, "loop") /\ job[r][s].offset < SegLen(r, s) /\ job[r][s].attempts < MaxAttempts

\* A stream from the current offset.  A network error is retried, a refusal
\* (claim expired, segment gone) is not.
OpenStream(r, s) ==
    LET j == job[r][s] IN
    /\ Fetching(r, s) /\ j.stream = NoStream
    /\ \/ "body" \in SegmentReader(r) /\ SetJob(r, s, [j EXCEPT !.stream = j.offset])
       \/ "network" \in SegmentReader(r) /\ SetJob(r, s, [j EXCEPT !.attempts = @ + 1])
       \/ "refused" \in SegmentReader(r) /\ JobEnd(r, s, "failed")
    /\ UNCHANGED <<partial, dest, file, kills, unproved>>

\* Seeded fault: a broken stream is reopened without counting the attempt.
ReadForever(r, s) ==
    LET j == job[r][s] IN
    /\ Fetching(r, s) /\ j.stream # NoStream
    /\ \/ SetJob(r, s, [j EXCEPT !.stream = NoStream])
       \/ /\ j.stream = j.offset
          /\ SetJob(r, s, [j EXCEPT !.at = "write", !.stream = @ + Want(r, s)])
    /\ UNCHANGED <<partial, dest, file, kills, unproved>>

\* ReadFull and VerifyGroup.  The stream breaks or ends; or a group arrives and
\* is authentic, which takes a stream that stands at the offset; or it is not.
ReadGroup(r, s) ==
    LET j == job[r][s]
        read == [j EXCEPT !.stream = @ + Want(r, s)]
    IN  /\ Fetching(r, s) /\ j.stream # NoStream
        /\ \/ SetJob(r, s, [j EXCEPT !.stream = NoStream, !.attempts = @ + 1])
           \/ /\ read.stream <= SegLen(r, s)
              /\ \/ j.stream = j.offset /\ SetJob(r, s, [read EXCEPT !.at = "write"])
                 \/ SetJob(r, s, [read EXCEPT !.at = "repair"])
        /\ UNCHANGED <<partial, dest, file, kills, unproved>>

\* Seeded fault: the group is written as it came when the side request fails.
RepairGivesIn(r, s) ==
    LET j == job[r][s] IN
    /\ At(r, s, "repair")
    /\ file' = [file EXCEPT ![s][j.fd] = Spliced(@, j.offset, Want(r, s), Junk)]
    /\ SetJob(r, s, [j EXCEPT !.at = "loop", !.offset = @ + Want(r, s)])
    /\ UNCHANGED <<partial, dest, kills, unproved>>

\* repairGroup: a side request for this group alone.  When it fails the loop
\* goes round with the stream where it is.
RepairGroup(r, s) ==
    LET j == job[r][s] IN
    /\ At(r, s, "repair")
    /\ \/ "group" \in SegmentRangeReader(r) /\ JobGoto(r, s, "write")
       \/ SetJob(r, s, [j EXCEPT !.at = "loop", !.attempts = @ + 1])
    /\ UNCHANGED <<partial, dest, file, kills, unproved>>

\* WriteAt.  A full disk stops it after n bytes and fails the download.
WriteGroup(r, s) ==
    LET j == job[r][s]
        Write(n) == file' = [file EXCEPT ![s][j.fd] = Spliced(@, j.offset, n, Of[r])]
    IN  /\ At(r, s, "write")
        /\ \/ /\ Write(Want(r, s))
              /\ SetJob(r, s, [j EXCEPT !.at = "loop", !.offset = @ + Want(r, s), !.attempts = 0])
           \/ \E n \in 0..(Want(r, s) - 1) : Write(n) /\ JobEnd(r, s, "failed")
        /\ UNCHANGED <<partial, dest, kills, unproved>>

\* The loop ends: every group is there, or three attempts in a row failed.
FinishVerified(r, s) ==
    LET j == job[r][s] IN
    /\ At(r, s, "loop")
    /\ \/ j.offset >= SegLen(r, s) /\ JobEnd(r, s, "ok")
       \/ /\ j.offset < SegLen(r, s) /\ j.attempts >= MaxAttempts
          /\ JobEnd(r, s, "failed")
    /\ UNCHANGED <<partial, dest, file, kills, unproved>>

-----------------------------------------------------------------------------
(* fetchSegment: the whole segment, hashed at the end.                     *)

\* The next round of the loop, if one of its three is left.
Retry(j) ==
    IF j.attempts + 1 < MaxAttempts
    THEN [NoJob EXCEPT !.at = "stat", !.attempts = j.attempts + 1]
    ELSE [NoJob EXCEPT !.at = "failed"]

\* Stat; a file longer than the segment is removed.
StatWhole(r, s) ==
    LET size == IF partial.seg[s] = NoFile THEN 0 ELSE Len(SegFile(s))
        from == IF size > SegLen(r, s) THEN 0 ELSE size
    IN  /\ At(r, s, "stat")
        /\ partial' = IF size > SegLen(r, s) THEN [partial EXCEPT !.seg[s] = NoFile] ELSE partial
        /\ SetJob(r, s, [job[r][s] EXCEPT !.offset = from,
                            !.at = IF from < SegLen(r, s) THEN "get" ELSE "hash"])
        /\ UNCHANGED <<dest, file, kills, unproved>>

\* SegmentReader from the size found, then open and seek.
GetWhole(r, s) ==
    LET j == job[r][s] IN
    /\ At(r, s, "get")
    /\ \/ /\ "body" \in SegmentReader(r) /\ OpenSegment(s)
          /\ SetJob(r, s, [j EXCEPT !.at = "copy", !.fd = Opened(s)])
       \/ /\ "network" \in SegmentReader(r)
          /\ SetJob(r, s, Retry(j)) /\ UNCHANGED <<partial, file>>
       \/ /\ "refused" \in SegmentReader(r)    \* or the file cannot be opened
          /\ JobEnd(r, s, "failed") /\ UNCHANGED <<partial, file>>
    /\ UNCHANGED <<dest, kills, unproved>>

\* CopyBuffer: bytes reach the disk as they arrive, proved or not, until the
\* body ends or breaks.
CopyWhole(r, s) ==
    LET j == job[r][s] IN
    /\ At(r, s, "copy")
    /\ \/ /\ j.offset < SegLen(r, s)
          /\ \E b \in {Of[r], Junk} :
                file' = [file EXCEPT ![s][j.fd] = Spliced(@, j.offset, 1, b)]
          /\ SetJob(r, s, [j EXCEPT !.offset = @ + 1])
          /\ unproved' = TRUE
       \/ /\ j.offset = SegLen(r, s) /\ UNCHANGED <<file, unproved>>
          /\ SetJob(r, s, [j EXCEPT !.at = "hash", !.fd = NoFile])
       \/ SetJob(r, s, Retry(j)) /\ UNCHANGED <<file, unproved>>
    /\ UNCHANGED <<partial, dest, kills>>

\* HashFile by path; a segment that is not the declared one is discarded.
HashWhole(r, s) ==
    /\ At(r, s, "hash")
    /\ \/ /\ partial.seg[s] = NoFile
          /\ JobEnd(r, s, "failed") /\ UNCHANGED partial
       \/ /\ partial.seg[s] # NoFile /\ SegFile(s) = Whole(Of[r], s)
          /\ JobEnd(r, s, "ok") /\ UNCHANGED partial
       \/ /\ partial.seg[s] # NoFile /\ SegFile(s) # Whole(Of[r], s)
          /\ partial' = [partial EXCEPT !.seg[s] = NoFile]
          /\ SetJob(r, s, Retry(job[r][s]))
    /\ UNCHANGED <<dest, file, kills, unproved>>

-----------------------------------------------------------------------------
(* materialize.Run and publication.                                        *)

\* wg.Wait: every download has ended.  A failure keeps the working directory
\* for the next run; otherwise the payload directory is made.
FetchEnd(r) ==
    /\ pc[r] = "fetch"
    /\ \A s \in Files[Of[r]] : job[r][s].at \in Finished
    /\ \/ Cancelled(r) /\ Stop(r, "failed") /\ UNCHANGED partial
       \/ /\ ~Cancelled(r)
          /\ partial' = [partial EXCEPT !.here = TRUE, !.paydir = TRUE]
          /\ pc' = [pc EXCEPT ![r] = "place"]
          /\ job' = [job EXCEPT ![r] = NoJobs]
          /\ todo' = [todo EXCEPT ![r] = Files[Of[r]]]
    /\ UNCHANGED <<dest, file, kills, unproved>>

Placed(r, s) ==
    /\ todo' = [todo EXCEPT ![r] = @ \ {s}]
    /\ pc' = [pc EXCEPT ![r] = IF todo[r] = {s} THEN "verify" ELSE "place"]
    /\ UNCHANGED job

\* A raw segment becomes the payload file, over one an earlier run placed.
PlaceRaw(r) ==
    LET s == Min(todo[r]) IN
    /\ pc[r] = "place" /\ s \notin Packs
    /\ partial.seg[s] # NoFile /\ partial.paydir
    /\ partial' = [partial EXCEPT !.pay[s] = partial.seg[s], !.seg[s] = NoFile]
    /\ Placed(r, s)
    /\ UNCHANGED <<dest, file, kills, unproved>>

\* The payload file of pack s is created with O_EXCL and holds bytes c; its
\* directory is made again if it is gone.
Extract(s, c) ==
    /\ partial.seg[s] # NoFile /\ partial.pay[s] = NoFile
    /\ Create(s, c)
    /\ partial' = [partial EXCEPT !.paydir = TRUE, !.seg[s] = NoFile, !.pay[s] = NewInode(s)]

\* extractPack of a pack that reads as the declared archive.
PlacePack(r) ==
    LET s == Min(todo[r]) IN
    /\ pc[r] = "place" /\ s \in Packs
    /\ partial.seg[s] # NoFile /\ SegFile(s) = Whole(Of[r], s)
    /\ Extract(s, Whole(Of[r], s))
    /\ Placed(r, s)
    /\ UNCHANGED <<dest, kills, unproved>>

\* The segment is gone; or a raw file has no payload directory to go to; or the
\* pack, which has then left the segments directory, is unreadable or would make
\* a file that is there already.
PlaceFails(r) ==
    LET s == Min(todo[r]) IN
    /\ pc[r] = "place"
    /\ \/ partial.seg[s] = NoFile
       \/ s \notin Packs /\ ~partial.paydir
       \/ s \in Packs /\ (SegFile(s) # Whole(Of[r], s) \/ partial.pay[s] # NoFile)
    /\ partial' = IF s \in Packs THEN [partial EXCEPT !.seg[s] = NoFile] ELSE partial
    /\ Goto(r, "clear")
    /\ UNCHANGED <<dest, file, kills, unproved>>

\* Seeded fault: only the presence of the files is checked.
VerifyPresence(r) ==
    /\ pc[r] = "verify"
    /\ \/ /\ \A s \in Files[Of[r]] : partial.pay[s] # NoFile
          /\ Goto(r, "segdir")
       \/ /\ \E s \in Files[Of[r]] : partial.pay[s] = NoFile
          /\ Goto(r, "clear")
    /\ UNCHANGED <<partial, dest, file, kills, unproved>>

\* Metadata and verify: every declared file is there with its declared bytes.
Verify(r) ==
    LET right == \A s \in Files[Of[r]] :
                    partial.pay[s] # NoFile /\ file[s][partial.pay[s]] = Whole(Of[r], s)
    IN  /\ pc[r] = "verify"
        /\ Goto(r, IF right THEN "segdir" ELSE "clear")
        /\ UNCHANGED <<partial, dest, file, kills, unproved>>

\* os.Remove of the segments directory, which must be empty or gone.
RemoveSegmentsDir(r) ==
    /\ pc[r] = "segdir"
    /\ \/ /\ partial.seg = NoFiles
          /\ partial' = [partial EXCEPT !.segdir = FALSE]
          /\ Goto(r, "lstat")
       \/ partial.seg # NoFiles /\ Goto(r, "clear") /\ UNCHANGED partial
    /\ UNCHANGED <<dest, file, kills, unproved>>

LstatDest(r) ==
    /\ pc[r] = "lstat"
    /\ Goto(r, IF dest.here THEN "clear" ELSE "rename")
    /\ UNCHANGED <<partial, dest, file, kills, unproved>>

\* os.Rename(payload, dest); a destination with files in it refuses it.
RenamePayload(r) ==
    /\ pc[r] = "rename"
    /\ \/ /\ partial.paydir /\ ~dest.here
          /\ dest' = [here |-> TRUE, pay |-> partial.pay, of |-> Of[r]]
          /\ partial' = [partial EXCEPT !.paydir = FALSE, !.pay = NoFiles]
          /\ Goto(r, "sweep")
       \/ (~partial.paydir \/ dest.here) /\ Goto(r, "clear") /\ UNCHANGED <<partial, dest>>
    /\ UNCHANGED <<file, kills, unproved>>

\* RemoveAllForce(partial), one entry at a time, after a failure ("clear") or
\* after publication ("sweep").
RemovePartial(r) ==
    /\ pc[r] \in {"clear", "sweep"}
    /\ \/ \E s \in Segment :
             /\ partial.seg[s] # NoFile
             /\ partial' = [partial EXCEPT !.seg[s] = NoFile]
             /\ Goto(r, pc[r])
       \/ \E s \in Segment :
             /\ partial.pay[s] # NoFile
             /\ partial' = [partial EXCEPT !.pay[s] = NoFile]
             /\ Goto(r, pc[r])
       \/ /\ partial.seg = NoFiles /\ partial.pay = NoFiles
          /\ partial' = NoDir
          /\ Stop(r, IF pc[r] = "sweep" THEN "done" ELSE "failed")
    /\ UNCHANGED <<dest, file, kills, unproved>>

-----------------------------------------------------------------------------
(* A killed run: between two steps, in the middle of a write that leaves   *)
(* part of a group, or in the middle of an extraction.                     *)

Kill(r) ==
    /\ Running(r) /\ kills < MaxKills
    /\ kills' = kills + 1
    /\ \/ UNCHANGED <<partial, file>>
       \/ \E s \in Segment :
             /\ At(r, s, "write")
             /\ \E n \in 1..(Want(r, s) - 1) :
                   file' = [file EXCEPT ![s][job[r][s].fd] =
                              Spliced(@, job[r][s].offset, n, Of[r])]
             /\ UNCHANGED partial
       \/ /\ pc[r] = "place" /\ Min(todo[r]) \in Packs
          /\ Extract(Min(todo[r]), <<>>)
    /\ Stop(r, "dead")
    /\ UNCHANGED <<dest, unproved>>

JobStep(r, s) ==
    \/ Feed(r, s) \/ FetchTree(r, s)
    \/ OpenVerified(r, s) \/ TrimVerified(r, s) \/ OpenStream(r, s) \/ ReadGroup(r, s)
    \/ RepairGroup(r, s) \/ WriteGroup(r, s) \/ FinishVerified(r, s)
    \/ StatWhole(r, s) \/ GetWhole(r, s) \/ CopyWhole(r, s) \/ HashWhole(r, s)

RunStep(r) ==
    \/ MakeSegmentsDir(r) \/ FetchEnd(r)
    \/ PlaceRaw(r) \/ PlacePack(r) \/ PlaceFails(r)
    \/ Verify(r) \/ RemoveSegmentsDir(r) \/ LstatDest(r) \/ RenamePayload(r)
    \/ RemovePartial(r)

ReceiveNext ==
    \E r \in Receiver :
        \/ Begin(r) \/ RunStep(r) \/ Kill(r)
        \/ \E s \in Segment : JobStep(r, s)

ReceiveSpec == ReceiveInit /\ [][ReceiveNext]_recvVars

\* The scheduler runs the main goroutine of a run and each of its downloads.
\* Nobody is obliged to start a run.
ReceiveFairness ==
    \A r \in Receiver :
        /\ WF_recvVars(RunStep(r))
        /\ \A s \in Segment : WF_recvVars(JobStep(r, s))

ReceiveFairSpec == ReceiveSpec /\ ReceiveFairness

-----------------------------------------------------------------------------
(* Properties.                                                             *)

\* Types of the variables, and the bounds the download loops keep to: no offset
\* or stream past the end of the segment, no more attempts than allowed.
ReceiveTypeOK ==
    LET Dir == [Segment -> Nat]
    IN  /\ partial \in [here : BOOLEAN, segdir : BOOLEAN, paydir : BOOLEAN, seg : Dir, pay : Dir]
        /\ dest \in [here : BOOLEAN, pay : Dir, of : Byte]
        /\ \A s \in Segment : \A i \in DOMAIN file[s] :
              /\ file[s][i] \in Seq(Byte)
              /\ \E h \in Handoff : Len(file[s][i]) <= Length[h][s]
        /\ pc \in [Receiver -> Ended \cup {"idle", "mkdir", "fetch", "place", "verify",
                     "segdir", "lstat", "rename", "clear", "sweep"}]
        /\ \A r \in Receiver, s \in Segment : job[r][s] \in
              [at : InFlight \cup Finished \cup {"none", "queued"}, fd : Nat,
               offset : 0..SegLen(r, s), stream : NoStream..SegLen(r, s), attempts : 0..MaxAttempts]
        /\ todo \in [Receiver -> SUBSET Segment]
        /\ kills \in 0..MaxKills /\ unproved \in BOOLEAN

\* A destination that exists holds every file of the handoff, whole, from the
\* moment it appears: through damaged downloads, killed runs and whatever they
\* left in the working directory.
DestWhole ==
    dest.here => \A s \in Files[dest.of] :
        dest.pay[s] # NoFile /\ file[s][dest.pay[s]] = Whole(dest.of, s)

\* With verification trees a download that reports success has the authentic
\* segment on disk, the part an earlier run had left there included, although
\* nothing is hashed again.
FetchedAuthentic ==
    ~unproved => \A r \in Receiver, s \in Segment :
        job[r][s].at = "ok" => partial.seg[s] # NoFile /\ SegFile(s) = Whole(Of[r], s)

\* A group that was proved and has reached the disk is not fetched again: however runs fail, are
\* killed and are repeated, the whole groups of a segment file stay as long as
\* segments are being downloaded.
KeepsGroups ==
    [][\A s \in Segment :
        /\ partial.seg[s] # NoFile /\ ~unproved
        /\ \A r \in Receiver : pc'[r] \in {"idle", "mkdir", "fetch", "failed", "dead"}
        /\ \A r \in Receiver : pc[r] \notin {"clear", "sweep", "place"}
        => /\ partial'.seg[s] = partial.seg[s]
           /\ GroupFloor(Len(SegFile(s)')) >= GroupFloor(Len(SegFile(s)))]_recvVars

\* A run that has begun ends: it publishes, reports an error or is killed.  No
\* failing network keeps it in a loop and no worker waits for ever.
ReceiveEnds == \A r \in Receiver : Running(r) ~> ~Running(r)
=============================================================================
