------------------------------ MODULE Layout -------------------------------
(***************************************************************************)
(* The payload directories of sss (internal/store/files).                  *)
(*                                                                         *)
(* A transfer owns at most one directory under each of staging, live and   *)
(* trash.  A directory is a record of what it holds for each segment of    *)
(* the transfer: the staged segment file (segments/<id>) and the published *)
(* payload file, both as inode numbers so that a rename keeps the file an  *)
(* open descriptor refers to.  A file is the sequence of its bytes, each   *)
(* TRUE when it is the byte the sender declared and FALSE when it is a     *)
(* hole; a digest can tell the two apart and a size cannot.                *)
(*                                                                         *)
(* rename(2) is atomic and so is each operator below.  The model covers    *)
(* process crashes, which keep the file system as it is; it does not cover *)
(* power loss, so fsync has no effect here.                                *)
(***************************************************************************)
EXTENDS Transfers, Sequences

VARIABLES staging, live, trash,   \* one directory per transfer, or Absent
          file                    \* file[t][s]: the inodes made for a segment

fileVars == <<staging, live, trash, file>>

NoFile == 0

Dir == [here : BOOLEAN, segdir : BOOLEAN, manifest : BOOLEAN,
        seg : [Segment -> Nat], pay : [Segment -> Nat]]

\* What a path that does not exist looks like.
Absent == [here |-> FALSE, segdir |-> FALSE, manifest |-> FALSE,
           seg |-> [s \in Segment |-> NoFile], pay |-> [s \in Segment |-> NoFile]]

\* The tree PrepareStaging makes: payload, segments and packs, all empty.
Prepared == [Absent EXCEPT !.here = TRUE, !.segdir = TRUE]

\* The bytes of a segment that arrived in full.
Whole == [i \in 1..SegLen |-> TRUE]

PayloadFile(t, d, s) == file[t][s][d.pay[s]]

\* ManifestExists and livePayloadValid: the manifest is there and every entry
\* it lists is a file of the declared size.  Contents are not read.
PayloadValid(t, d) ==
    /\ d.manifest
    /\ \A s \in Segment : d.pay[s] # NoFile /\ Len(PayloadFile(t, d, s)) = SegLen

\* The payload as the sender declared it, byte for byte.
Intact(t, d) ==
    /\ d.manifest
    /\ \A s \in Segment : d.pay[s] # NoFile /\ PayloadFile(t, d, s) = Whole

LayoutInit ==
    /\ staging = [t \in Transfer |-> Absent]
    /\ live = [t \in Transfer |-> Absent]
    /\ trash = [t \in Transfer |-> Absent]
    /\ file = [t \in Transfer |-> [s \in Segment |-> <<>>]]

-----------------------------------------------------------------------------
(* Operations on directories.                                              *)

PrepareStaging(t) ==
    /\ staging' = [staging EXCEPT ![t] = Prepared]
    /\ UNCHANGED <<live, trash, file>>

\* os.MkdirAll below the staging root: the root comes back if it was gone,
\* without a segments directory.
MkdirAll(t) ==
    /\ staging' = [staging EXCEPT ![t].here = TRUE]
    /\ UNCHANGED <<live, trash, file>>

RemoveStaging(t) ==
    /\ staging' = [staging EXCEPT ![t] = Absent]
    /\ UNCHANGED <<live, trash, file>>

\* WriteManifest: a durable temp file and a rename inside an existing root.
WriteManifest(t) ==
    /\ staging[t].here
    /\ staging' = [staging EXCEPT ![t].manifest = TRUE]
    /\ UNCHANGED <<live, trash, file>>

\* Publish: a directory already in live counts as published by an earlier
\* attempt; otherwise staging is renamed to live.
CanPublish(t) == live[t].here \/ staging[t].here

PublishDir(t) ==
    /\ CanPublish(t)
    /\ live' = IF live[t].here THEN live ELSE [live EXCEPT ![t] = staging[t]]
    /\ staging' = IF live[t].here THEN staging ELSE [staging EXCEPT ![t] = Absent]
    /\ UNCHANGED <<trash, file>>

\* ToTrash visits live first and staging second; each half deletes what an
\* earlier pass left in the trash slot before it renames.
TrashLive(t) ==
    /\ live' = [live EXCEPT ![t] = Absent]
    /\ trash' = IF live[t].here THEN [trash EXCEPT ![t] = live[t]] ELSE trash
    /\ UNCHANGED <<staging, file>>

TrashStaging(t) ==
    /\ staging' = [staging EXCEPT ![t] = Absent]
    /\ trash' = IF staging[t].here THEN [trash EXCEPT ![t] = staging[t]] ELSE trash
    /\ UNCHANGED <<live, file>>

EmptyTrash ==
    /\ trash' = [t \in Transfer |-> Absent]
    /\ UNCHANGED <<staging, live, file>>

\* ListLiveIDs and ListStagingIDs.
ListLiveIDs == {t \in Transfer : live[t].here}
ListStagingIDs == {t \in Transfer : staging[t].here}

-----------------------------------------------------------------------------
(* Operations on the files of a segment.                                   *)

\* Seeded fault: a short write goes unnoticed.
AddShortFile(t, s) ==
    /\ staging[t].here
    /\ file' = [file EXCEPT ![t][s] = Append(@, <<>>)]
    /\ staging' = [staging EXCEPT ![t].pay[s] = Len(file[t][s]) + 1]
    /\ UNCHANGED <<live, trash>>

\* A file streamed straight into the staged payload (AddFile).
AddPayloadFile(t, s) ==
    /\ staging[t].here
    /\ file' = [file EXCEPT ![t][s] = Append(@, Whole)]
    /\ staging' = [staging EXCEPT ![t].pay[s] = Len(file[t][s]) + 1]
    /\ UNCHANGED <<live, trash>>

\* open(O_CREATE | O_WRONLY) of a staged segment.
OpenSegment(t, s) ==
    /\ staging[t].segdir
    /\ IF staging[t].seg[s] = NoFile
       THEN /\ file' = [file EXCEPT ![t][s] = Append(@, <<>>)]
            /\ staging' = [staging EXCEPT ![t].seg[s] = Len(file[t][s]) + 1]
       ELSE UNCHANGED <<file, staging>>
    /\ UNCHANGED <<live, trash>>

\* The bytes of f up to offset n, padded with a hole when f is shorter.
Aligned(f, n) == [i \in 1..n |-> IF i <= Len(f) THEN f[i] ELSE FALSE]

\* Truncate and Write go through a descriptor: they reach inode i wherever
\* its directory has been moved to since it was opened.
Truncate(t, s, i, offset) ==
    /\ file' = [file EXCEPT ![t][s][i] = Aligned(@, offset)]
    /\ UNCHANGED <<staging, live, trash>>

\* A write at pos leaves the bytes after it alone.
Write(t, s, i, pos) ==
    /\ file' = [file EXCEPT ![t][s][i] =
                    [j \in 1..(IF Len(@) > pos THEN Len(@) ELSE pos + 1) |->
                        IF j = pos + 1 THEN TRUE
                        ELSE IF j <= Len(@) THEN @[j] ELSE FALSE]]
    /\ UNCHANGED <<staging, live, trash>>

\* Materialization renames the staged segment onto its payload path.
PlaceSegment(t, s) ==
    /\ staging[t].seg[s] # NoFile
    /\ staging' = [staging EXCEPT ![t].pay[s] = staging[t].seg[s],
                                  ![t].seg[s] = NoFile]
    /\ UNCHANGED <<live, trash, file>>

\* os.Remove of the segments directory succeeds when it is empty or gone.
CanRemoveSegdir(t) == \A s \in Segment : staging[t].seg[s] = NoFile

RemoveSegdir(t) ==
    /\ CanRemoveSegdir(t)
    /\ staging' = [staging EXCEPT ![t].segdir = FALSE]
    /\ UNCHANGED <<live, trash, file>>

-----------------------------------------------------------------------------
LayoutTypeOK ==
    /\ staging \in [Transfer -> Dir]
    /\ live \in [Transfer -> Dir]
    /\ trash \in [Transfer -> Dir]
    /\ \A t \in Transfer, s \in Segment : \A i \in DOMAIN file[t][s] :
            /\ file[t][s][i] \in Seq(BOOLEAN)
            /\ Len(file[t][s][i]) <= SegLen
=============================================================================
