--------------------------- MODULE Payload_proofs ---------------------------
(***************************************************************************)
(* The inductive invariant that the promises of Delivery_proofs rest on,   *)
(* for any number of transfers, requests, sweeps, receivers and crashes.   *)
(* It needs two conditions, Alone and Undisturbed.  The code depends on    *)
(* them and does not enforce them: the run two_commits breaks the first,   *)
(* and sweeps with Slow = TRUE the second.                                 *)
(***************************************************************************)
EXTENDS Server_proofs

-----------------------------------------------------------------------------
(* The conditions.                                                         *)

\* Request r is being handled.
Runs(r) == pc[r] \notin Resting

\* No sender has two requests at work that it never sends at the same time.
Alone ==
    \A r, q \in PatchReq \cup CommitReq : Rivals(r, q) => ~Runs(r) \/ ~Runs(q)

\* No sweep is about to abandon a transfer that a request is at work on.
Undisturbed ==
    \A j \in Sweeper, r \in Request :
        jpc[j] = "abandon" /\ Target[r] \in jlist[j] => ~Runs(r)

Calm == Alone /\ Undisturbed

-----------------------------------------------------------------------------
(* The inductive invariant.                                                *)

\* The insert of transfer t lies in the past: no row of it appears any more.
Born(t) ==
    \E q \in SimpleReq \cup CreateReq : Target[q] = t /\ pc[q] \notin {"idle", "create"}

\* The row of t is on its way out, or gone.
Ended(t) == state[t] \in Terminal \cup {"DELETING", NoRow}

\* The payload file of s that directory d refers to is there and whole.
Good(t, d, s) ==
    /\ d.pay[s] \in 1..Len(file[t][s])
    /\ file[t][s][d.pay[s]] = Whole

\* What was never inserted has left nothing behind.
BornOK(t) == ~Born(t) => ~Exists(t) /\ ~live[t].here

\* A code belongs to a transfer that is or was published; a committed transfer
\* has a payload; a payload in live is whole, and out of reach of any PATCH.
RowOK(t) ==
    /\ code[t] # NoCode => state[t] \in {"COMMITTED", "EXPIRED", "DELETING"}
    /\ state[t] = "COMMITTED" => live[t].here
    /\ live[t].here => /\ state[t] \notin {"CREATED", "UPLOADING"}
                       /\ live[t].manifest
                       /\ \A s \in Segment : Good(t, live[t], s)

\* A PATCH or a commit is sent once the creation has returned.
SentOK(r) == r \in PatchReq \cup CommitReq /\ pc[r] # "idle" => CreationReturned(r)

\* What a request at work relies on.
RequestOK(r) ==
    LET t == Target[r] IN
    /\ r \in SimpleReq \cup CreateReq /\ Runs(r) /\ pc[r] # "create" =>
            state[t] \in PreCommit /\ code[t] = NoCode
    /\ r \in SimpleReq /\ pc[r] \in {"idle", "create"} => parts[r] = {}
    /\ r \in CommitReq /\ Runs(r) => state[t] \in PreCommit /\ code[t] = NoCode
    /\ r \in PatchReq /\ Runs(r) /\ pc[r] # "readTransfer" =>
            state[t] \in {"CREATED", "UPLOADING"}
    /\ r \notin PatchReq =>
        /\ pc[r] \in {"payload", "place", "fail", "note", "manifest", "rename", "allocate"} =>
                state[t] = "VERIFYING"
        /\ pc[r] = "adding" => \A s \in parts[r] : Good(t, staging[t], s)
        /\ pc[r] \in {"verifying", "note", "manifest", "rename"} =>
                \A s \in Segment : Good(t, staging[t], s)
        /\ pc[r] = "rename" => staging[t].manifest
        /\ pc[r] = "allocate" => live[t].here

\* What the lists of a sweep may hold.
SweepOK(j) ==
    /\ \A t \in jlist[j] :
        /\ Born(t)
        /\ IF jpc[j] = "abandon" THEN code[t] = NoCode ELSE Ended(t)
    /\ jid[j] # NoTransfer => Born(jid[j]) /\ Ended(jid[j])

\* A lookup that decided to expire a transfer was right, and stays right.
ReceiverOK(c) ==
    found[c] # NoTransfer =>
        /\ Born(found[c])
        /\ cpc[c] = "expire" =>
            ~Exists(found[c]) \/ (code[found[c]] # NoCode /\ expires[found[c]] <= now)

\* Nothing is served before readiness.
QuietOK ==
    IF phase = "ready" THEN step = "pick"
    ELSE /\ \A r \in Request : ~Runs(r)
         /\ \A j \in Sweeper : jpc[j] = "idle" /\ jlist[j] = {} /\ jid[j] = NoTransfer
         /\ \A c \in Receiver : cpc[c] \in AtRest

\* Reconciliation acts on what the rows and the directories still say.
ReconcileOK ==
    /\ phase = "down" => step = "pick"
    /\ phase = "rows" =>
        \A t \in todo : step = "pick" \/ subject # t => known[t] = state[t]
    /\ phase \notin {"ready", "down"} => \A t \in Transfer : known[t] = NoRow => ~Exists(t)
    /\ phase \in {"live", "staging", "trash"} => \A t \in todo : known[t] = NoRow
    /\ step = "publish" => state[subject] \in PreCommit /\ live[subject].here
    /\ step = "fail" => state[subject] \in PreCommit /\ ~live[subject].here
    /\ step \in {"trashLive", "trashStaging", "purge"} =>
        /\ Ended(subject)
        /\ live[subject].here => state[subject] \in {"DELETING", NoRow}
    /\ step # "pick" => subject \in Transfer

Base ==
    /\ ServerTypes
    /\ \A t \in Transfer : BornOK(t) /\ RowOK(t)
    /\ \A r \in Request : SentOK(r) /\ RequestOK(r)
    /\ \A j \in Sweeper : SweepOK(j)
    /\ \A c \in Receiver : ReceiverOK(c)
    /\ QuietOK
    /\ ReconcileOK

-----------------------------------------------------------------------------
(* What a step may do to one transfer.                                     *)

RowSame(t) == state'[t] = state[t] /\ code'[t] = code[t] /\ expires'[t] = expires[t]

\* The life of a row: inserted once, worked on before it is published, published
\* with a payload in place, expired in time, taken away.
RowStep(t) ==
    \/ RowSame(t)
    \/ ~Exists(t) /\ ~Born(t) /\ Born(t)' /\ state'[t] = "CREATED" /\ code'[t] = NoCode
    \/ /\ state[t] \in PreCommit /\ code[t] = NoCode /\ code'[t] = NoCode
       /\ state'[t] \in PreCommit \cup {"FAILED", "ABANDONED", NoRow}
       /\ live[t].here => state'[t] \notin {"CREATED", "UPLOADING"}
    \/ /\ state[t] \in PreCommit /\ code[t] = NoCode /\ live[t].here
       /\ state'[t] = "COMMITTED"
       /\ ~Up \/ \E r \in Request : Target[r] = t /\ Runs(r)
    \/ /\ state[t] = "COMMITTED" /\ expires[t] <= now
       /\ state'[t] = "EXPIRED" /\ code'[t] = code[t] /\ expires'[t] = expires[t]
    \/ /\ Ended(t) /\ Ended(t)' /\ (Exists(t)' => Exists(t))
       /\ \/ ~Exists(t)' /\ code'[t] = NoCode
          \/ /\ code'[t] = code[t] /\ expires'[t] = expires[t]
             /\ code[t] # NoCode => state'[t] \in {"EXPIRED", "DELETING"}

\* A payload reaches live whole, from a row that is being verified, and leaves
\* when its row has ended.
LiveStep(t) ==
    \/ live'[t] = live[t]
    \/ live'[t] = Absent /\ Ended(t) /\ RowSame(t)
    \/ /\ ~live[t].here /\ live'[t] = staging[t] /\ staging[t].manifest
       /\ \A s \in Segment : Good(t, staging[t], s)
       /\ state[t] = "VERIFYING" /\ RowSame(t)

\* Files are overwritten only while the transfer is being uploaded.
FilesKept(t) ==
    \A s \in Segment :
        /\ Len(file[t][s]) <= Len(file'[t][s])
        /\ \/ state[t] \in {"CREATED", "UPLOADING"}
           \/ \A i \in 1..Len(file[t][s]) : file'[t][s][i] = file[t][s][i]

Effects(t) == RowStep(t) /\ LiveStep(t) /\ FilesKept(t)

\* Nothing of transfer t changes.
Untouched(t) ==
    /\ RowSame(t) /\ ttl'[t] = ttl[t]
    /\ staging'[t] = staging[t] /\ live'[t] = live[t] /\ file'[t] = file[t]

\* Requests go forward.
PcStep ==
    \A q \in Request :
        /\ pc[q] \notin {"idle", "create"} => pc'[q] \notin {"idle", "create"}
        /\ q \in CreateReq /\ pc[q] = "created" => pc'[q] = "created"

-----------------------------------------------------------------------------
(* What such steps keep.                                                   *)

\* The lengths of inode tables are numbers.
LEMMA TableLen ==
  ASSUME FilesOK, NEW t \in Transfer, NEW s \in Segment
  PROVE  Len(file[t][s]) \in Nat
  BY LenProperties DEF FilesOK

LEMMA UntouchedEffects ==
  ASSUME Base, NEW t \in Transfer, Untouched(t)
  PROVE  Effects(t)
<1>1. \A s \in Segment : Len(file[t][s]) \in Nat
  BY TableLen DEF Base, ServerTypes
<1>. QED  BY <1>1 DEF Effects, RowStep, LiveStep, FilesKept, Untouched

LEMMA BornStays ==
  ASSUME NEW t \in Transfer, PcStep, Born(t)
  PROVE  Born(t)'
<1>1. SimpleReq \cup CreateReq \subseteq Request
  BY DEF Request
<1>. QED  BY <1>1 DEF Born, PcStep

LEMMA GoodKept ==
  ASSUME FilesOK, FilesOK', NEW t \in Transfer, NEW s \in Segment, NEW d, Good(t, d, s), FilesKept(t),
         state[t] \notin {"CREATED", "UPLOADING"}
  PROVE  /\ d.pay[s] \in 1..Len(file'[t][s])
         /\ file'[t][s][d.pay[s]] = Whole
<1>1. Len(file[t][s]) \in Nat /\ Len(file'[t][s]) \in Nat
  BY TableLen, LenProperties DEF FilesOK
<1>. QED  BY <1>1 DEF Good, FilesKept

\* The row and the payload stay as they should be.
LEMMA RowKept ==
  ASSUME Base, NEW t \in Transfer, Effects(t), ServerTypes', PcStep
  PROVE  RowOK(t)' /\ BornOK(t)'
<1>. USE DEF Exists, NoRow, PreCommit, Terminal, Ended
<1>0. /\ RowOK(t) /\ BornOK(t) /\ RowStep(t) /\ LiveStep(t) /\ FilesKept(t)
      /\ StoreInv /\ FilesOK /\ FilesOK' /\ ~Absent.here
  BY AbsentDir DEF Base, ServerTypes, Effects
<1>1. code'[t] # NoCode => state'[t] \in {"COMMITTED", "EXPIRED", "DELETING"}
  BY <1>0 DEF RowOK, RowStep, RowSame
<1>2. state'[t] = "COMMITTED" => live'[t].here
  BY <1>0 DEF RowOK, RowStep, LiveStep, RowSame
<1>3. live'[t].here => state'[t] \notin {"CREATED", "UPLOADING"}
  BY <1>0 DEF RowOK, BornOK, RowStep, LiveStep, RowSame
<1>4. live'[t].here => live'[t].manifest /\ \A s \in Segment : Good(t, live[t], s)'
  <2>. SUFFICES ASSUME live'[t].here, NEW s \in Segment PROVE live'[t].manifest /\ Good(t, live[t], s)'
    BY <1>0 DEF RowOK, LiveStep
  <2>1. CASE live'[t] = live[t]
    <3>1. Good(t, live[t], s) /\ state[t] \notin {"CREATED", "UPLOADING"} /\ live[t].manifest
      BY <1>0, <2>1 DEF RowOK
    <3>2. live[t].pay[s] \in 1..Len(file'[t][s]) /\ file'[t][s][live[t].pay[s]] = Whole
      BY <1>0, <3>1, GoodKept
    <3>. QED  BY <2>1, <3>1, <3>2 DEF Good
  <2>2. CASE live'[t] # live[t]
    <3>1. /\ live'[t] = staging[t] /\ staging[t].manifest /\ Good(t, staging[t], s)
          /\ state[t] = "VERIFYING"
      BY <1>0, <2>2 DEF LiveStep
    <3>2. staging[t].pay[s] \in 1..Len(file'[t][s]) /\ file'[t][s][staging[t].pay[s]] = Whole
      BY <1>0, <3>1, GoodKept
    <3>. QED  BY <3>1, <3>2 DEF Good
  <2>. QED  BY <2>1, <2>2
<1>5. BornOK(t)'
  <2>1. Born(t) => Born(t)'
    BY BornStays
  <2>. QED  BY <1>0, <2>1 DEF BornOK, RowStep, LiveStep, RowSame
<1>. QED  BY <1>1, <1>2, <1>3, <1>4, <1>5 DEF RowOK

\* A list a sweep works on stays right, whatever else happens.
LEMMA SweepKept ==
  ASSUME Base, Calm, \A t \in Transfer : Effects(t), PcStep, NEW j \in Sweeper,
         (jpc'[j] = "abandon") = (jpc[j] = "abandon"), jlist'[j] \subseteq jlist[j],
         jid'[j] = jid[j] \/ jid'[j] = NoTransfer
  PROVE  SweepOK(j)'
<1>0. /\ SweepOK(j) /\ SweepTypes /\ QuietOK /\ Undisturbed
      /\ jlist[j] \in SUBSET Transfer /\ jid[j] \in Transfer \cup {NoTransfer}
  BY DEF Base, ServerTypes, SweepTypes, Calm
<1>1. ASSUME NEW t \in Transfer, Born(t), Ended(t) PROVE Born(t)' /\ Ended(t)'
  <2>1. Born(t)' /\ RowStep(t)
    BY <1>1, BornStays DEF Effects
  <2>. QED  BY <1>1, <2>1 DEF RowStep, RowSame, Ended, PreCommit, Terminal, NoRow
<1>2. ASSUME NEW t \in jlist[j], jpc[j] = "abandon" PROVE Born(t)' /\ code'[t] = NoCode
  <2>1. t \in Transfer /\ code[t] = NoCode /\ Born(t) /\ RowStep(t)
    BY <1>0, <1>2 DEF SweepOK, Effects
  <2>2. Up /\ \A r \in Request : Target[r] = t => ~Runs(r)
    BY <1>0, <1>2 DEF QuietOK, Up, Undisturbed
  <2>3. code'[t] = NoCode
    BY <2>1, <2>2 DEF RowStep, RowSame
  <2>. QED  BY <2>1, <2>3, BornStays
<1>3. ASSUME NEW t \in jlist[j], jpc[j] # "abandon" PROVE Born(t)' /\ Ended(t)'
  BY <1>0, <1>1, <1>3 DEF SweepOK
<1>4. ASSUME NEW t, t = jid[j], t # NoTransfer PROVE Born(t)' /\ Ended(t)'
  BY <1>0, <1>1, <1>4 DEF SweepOK
<1>. QED  BY <1>2, <1>3, <1>4 DEF SweepOK

\* A receiver that has nothing new to expire.
LEMMA ReceiverKept ==
  ASSUME Base, Calm, \A t \in Transfer : Effects(t), PcStep, ServerTypes', NEW c \in Receiver,
         found'[c] = found[c], cpc'[c] = "expire" => cpc[c] = "expire", now <= now'
  PROVE  ReceiverOK(c)'
<1>0. ReceiverOK(c) /\ found[c] \in Transfer \cup {NoTransfer} /\ now \in Nat /\ now' \in Nat
      /\ StoreInv
  BY ServiceAssumption DEF Base, ServerTypes, ReceiverTypes
<1>1. CASE found[c] = NoTransfer
  BY <1>1 DEF ReceiverOK
<1>2. CASE found[c] # NoTransfer
  <2>. DEFINE t == found[c]
  <2>1. t \in Transfer /\ Born(t) /\ RowStep(t) /\ RowOK(t)
    BY <1>0, <1>2 DEF ReceiverOK, Effects, Base
  <2>2. Born(t)'
    BY <2>1, BornStays
  <2>3. expires[t] \in Nat
    BY <1>0, <2>1 DEF StoreInv, StoreTypeOK
  <2>4. ~Exists(t) => ~Exists(t)'
    BY <2>1 DEF RowStep, RowSame, Exists, Ended, PreCommit, NoRow
  <2>5. code[t] # NoCode /\ expires[t] <= now =>
            ~Exists(t)' \/ (code'[t] # NoCode /\ expires'[t] <= now')
    BY <1>0, <2>1, <2>3 DEF RowStep, RowSame, Exists
  <2>. QED  BY <1>0, <1>2, <2>2, <2>4, <2>5 DEF ReceiverOK, Exists
<1>. QED  BY <1>1, <1>2

\* Request r relies on the row of its transfer.
Busy(r) ==
    /\ Runs(r)
    /\ r \in SimpleReq \cup CreateReq => pc[r] # "create"
    /\ r \in PatchReq => pc[r] # "readTransfer"

\* That row is not published yet.
LEMMA BusyRow ==
  ASSUME Base, NEW r \in Request, Busy(r)
  PROVE  Target[r] \in Transfer /\ state[Target[r]] \in PreCommit /\ code[Target[r]] = NoCode
<1>1. Target[r] \in Transfer
  BY RequestAssumption
<1>2. RequestOK(r) /\ RowOK(Target[r])
  BY <1>1 DEF Base
<1>. QED  BY <1>1, <1>2 DEF RequestOK, RowOK, Busy, PreCommit, Request

\* A request nobody interferes with.
LEMMA RequestKept ==
  ASSUME Base, NEW r \in Request, pc'[r] = pc[r], parts'[r] = parts[r],
         Busy(r) => Untouched(Target[r])
  PROVE  RequestOK(r)'
<1>0. RequestOK(r)
  BY DEF Base
<1>1. CASE ~Busy(r)
  <2>1. r \in PatchReq => r \notin CommitReq /\ r \notin SimpleReq /\ r \notin CreateReq
    BY RequestAssumption
  <2>2. CASE ~Runs(r)
    BY <1>0, <2>2 DEF RequestOK, Runs, Resting
  <2>3. CASE r \in PatchReq /\ pc[r] = "readTransfer"
    BY <2>1, <2>3 DEF RequestOK
  <2>4. CASE r \in SimpleReq \cup CreateReq /\ pc[r] = "create"
    <3>1. r \notin CommitReq /\ r \notin PatchReq
      BY <2>4, RequestAssumption
    <3>. QED  BY <1>0, <2>4, <3>1 DEF RequestOK
  <2>. QED  BY <1>1, <2>2, <2>3, <2>4 DEF Busy
<1>2. CASE Busy(r)
  BY <1>0, <1>2 DEF RequestOK, Runs, Busy, Untouched, RowSame, Good
<1>. QED  BY <1>1, <1>2

-----------------------------------------------------------------------------
(* Steps that are about one transfer.                                      *)

OnlyRow(t) ==
    \A u \in Transfer : u # t => RowSame(u) /\ ttl'[u] = ttl[u]

OnlyDir(t) ==
    \A u \in Transfer : u # t =>
        staging'[u] = staging[u] /\ live'[u] = live[u] /\ file'[u] = file[u]

\* A call of the repository about one transfer leaves the other rows alone.
LEMMA RowLocal ==
  ASSUME StoreInv, NEW t \in Transfer, NEW at, NEW minutes, NEW c, NEW new, NEW s, NEW n
  PROVE  /\ CreateTransfer(t, at, minutes) => OnlyRow(t)
         /\ SetState(t, new) => OnlyRow(t)
         /\ Fail(t) => OnlyRow(t)
         /\ Purge(t) => OnlyRow(t)
         /\ SetNoteAndTTL(t, minutes) => OnlyRow(t)
         /\ Allocate(t, at, minutes, c) => OnlyRow(t)
         /\ InsertSegment(t, s) => OnlyRow(t)
         /\ SetSegmentProgress(t, s, n) => OnlyRow(t)
         /\ UNCHANGED storeVars => OnlyRow(t)
<1>. USE DEF StoreInv, StoreTypeOK, OnlyRow, RowSame
<1>1. CreateTransfer(t, at, minutes) => OnlyRow(t)
  BY DEF CreateTransfer
<1>2. (SetState(t, new) => OnlyRow(t)) /\ (Fail(t) => OnlyRow(t))
  BY DEF SetState, Fail
<1>3. Purge(t) => OnlyRow(t)
  BY DEF Purge
<1>4. SetNoteAndTTL(t, minutes) => OnlyRow(t)
  BY DEF SetNoteAndTTL
<1>5. Allocate(t, at, minutes, c) => OnlyRow(t)
  BY DEF Allocate
<1>6. /\ InsertSegment(t, s) => OnlyRow(t)
      /\ SetSegmentProgress(t, s, n) => OnlyRow(t)
      /\ UNCHANGED storeVars => OnlyRow(t)
  BY DEF InsertSegment, SetSegmentProgress, transferVars, storeVars
<1>. QED  BY <1>1, <1>2, <1>3, <1>4, <1>5, <1>6

\* An operation on the files of one transfer leaves those of the others alone.
LEMMA DirLocal ==
  ASSUME FilesOK, NEW t \in Transfer, NEW s, NEW i, NEW n
  PROVE  /\ PrepareStaging(t) => OnlyDir(t)
         /\ MkdirAll(t) => OnlyDir(t)
         /\ RemoveStaging(t) => OnlyDir(t)
         /\ WriteManifest(t) => OnlyDir(t)
         /\ PublishDir(t) => OnlyDir(t)
         /\ TrashLive(t) => OnlyDir(t)
         /\ TrashStaging(t) => OnlyDir(t)
         /\ RemoveSegdir(t) => OnlyDir(t)
         /\ AddPayloadFile(t, s) => OnlyDir(t)
         /\ OpenSegment(t, s) => OnlyDir(t)
         /\ Truncate(t, s, i, n) => OnlyDir(t)
         /\ Write(t, s, i, n) => OnlyDir(t)
         /\ PlaceSegment(t, s) => OnlyDir(t)
         /\ UNCHANGED fileVars => OnlyDir(t)
<1>. USE DEF FilesOK, LayoutTypeOK, OnlyDir
<1>1. (PrepareStaging(t) => OnlyDir(t)) /\ (MkdirAll(t) => OnlyDir(t))
  BY DEF PrepareStaging, MkdirAll
<1>2. (RemoveStaging(t) => OnlyDir(t)) /\ (WriteManifest(t) => OnlyDir(t))
  BY DEF RemoveStaging, WriteManifest
<1>3. (PublishDir(t) => OnlyDir(t)) /\ (RemoveSegdir(t) => OnlyDir(t))
  BY DEF PublishDir, RemoveSegdir
<1>4. (TrashLive(t) => OnlyDir(t)) /\ (TrashStaging(t) => OnlyDir(t))
  BY DEF TrashLive, TrashStaging
<1>5. AddPayloadFile(t, s) => OnlyDir(t)
  BY DEF AddPayloadFile
<1>6. OpenSegment(t, s) => OnlyDir(t)
  BY DEF OpenSegment
<1>7. (Truncate(t, s, i, n) => OnlyDir(t)) /\ (Write(t, s, i, n) => OnlyDir(t))
  BY DEF Truncate, Write
<1>8. PlaceSegment(t, s) => OnlyDir(t)
  BY DEF PlaceSegment
<1>9. UNCHANGED fileVars => OnlyDir(t)
  BY DEF fileVars
<1>. QED  BY <1>1, <1>2, <1>3, <1>4, <1>5, <1>6, <1>7, <1>8, <1>9

\* While a request is at work, no other request is at work on its transfer,
\* except a PATCH beside a PATCH of another segment.
LEMMA OthersRest ==
  ASSUME Base, Calm, NEW r \in Request, NEW q \in Request, q # r, Target[q] = Target[r], Runs(q),
         \/ r \in SimpleReq \cup CreateReq /\ pc[r] # "created"
         \/ Runs(r)
  PROVE  r \in PatchReq /\ q \in PatchReq
<1>0. SentOK(r) /\ SentOK(q) /\ Alone
  BY DEF Base, Calm
<1>1. CASE r \in SimpleReq \cup CreateReq
  <2>1. q \notin SimpleReq \cup CreateReq
    BY <1>1, RequestAssumption
  <2>2. pc[q] # "idle"
    BY DEF Runs, Resting
  <2>3. PICK p \in CreateReq : Target[p] = Target[q] /\ pc[p] = "created"
    BY <1>0, <2>1, <2>2 DEF SentOK, CreationReturned, Request
  <2>4. p = r
    BY <1>1, <2>3, RequestAssumption
  <2>. QED  BY <2>3, <2>4, RequestAssumption DEF Runs, Resting
<1>2. CASE r \in PatchReq \cup CommitReq
  <2>1. Runs(r) /\ pc[r] # "idle"
    BY <1>2, RequestAssumption DEF Runs, Resting
  <2>2. PICK p \in CreateReq : Target[p] = Target[r] /\ pc[p] = "created"
    BY <1>0, <1>2, <2>1 DEF SentOK, CreationReturned
  <2>3. q \notin SimpleReq \cup CreateReq
    BY <2>2, RequestAssumption DEF Runs, Resting
  <2>4. q \in PatchReq \cup CommitReq
    BY <2>3 DEF Request
  <2>5. ~Rivals(r, q)
    BY <1>0, <1>2, <2>1, <2>4 DEF Alone
  <2>. QED  BY <2>5 DEF Rivals
<1>. QED  BY <1>1, <1>2 DEF Request

\* A step in which only request r moves.
Moves(r) ==
    /\ Up
    /\ UNCHANGED <<reconcileVars, janitorVars, receiverVars, now>>
    /\ \A q \in Request : q # r => pc'[q] = pc[q] /\ parts'[q] = parts[q]
    /\ pc[r] # "created"
    /\ pc[r] \notin {"idle", "create"} => pc'[r] \notin {"idle", "create"}
    /\ r \in PatchReq \cup CommitReq /\ pc[r] = "idle" => CreationReturned(r)

\* A step of request r that is right about its own transfer is right.
LEMMA RequestStep ==
  ASSUME Base, Calm, ServerTypes', NEW r \in Request, Moves(r),
         Effects(Target[r]), OnlyRow(Target[r]), OnlyDir(Target[r]), RequestOK(r)',
         r \in SimpleReq \cup CreateReq \/ Runs(r) \/ Untouched(Target[r]),
         r \in PatchReq /\ state[Target[r]] \in {"CREATED", "UPLOADING"} =>
            state'[Target[r]] \in {"CREATED", "UPLOADING"}
  PROVE  Base' /\ \A u \in Transfer : Effects(u)
<1>. USE DEF Moves
<1>. DEFINE t == Target[r]
<1>0. t \in Transfer
  BY RequestAssumption
<1>1. \A u \in Transfer : u # t => Untouched(u)
  BY DEF OnlyRow, OnlyDir, Untouched
<1>2. \A u \in Transfer : Effects(u)
  BY <1>1, UntouchedEffects
<1>3. PcStep
  BY DEF PcStep
<1>4. \A u \in Transfer : BornOK(u)' /\ RowOK(u)'
  BY <1>2, <1>3, RowKept
<1>5. \A q \in Request : SentOK(q)'
  <2>. SUFFICES ASSUME NEW q \in Request, q \in PatchReq \cup CommitReq, pc'[q] # "idle"
                PROVE  CreationReturned(q)'
    BY DEF SentOK
  <2>1. CreationReturned(q)
    BY DEF Base, SentOK
  <2>2. CreateReq \subseteq Request
    BY DEF Request
  <2>. QED  BY <1>3, <2>1, <2>2 DEF CreationReturned, PcStep
<1>6. \A q \in Request : RequestOK(q)'
  <2>. SUFFICES ASSUME NEW q \in Request, q # r PROVE RequestOK(q)'
    OBVIOUS
  <2>0. pc'[q] = pc[q] /\ parts'[q] = parts[q] /\ Target[q] \in Transfer
    BY RequestAssumption
  <2>1. CASE Runs(q) => Untouched(Target[q])
    BY <2>0, <2>1, RequestKept DEF Busy
  <2>2. CASE Runs(q) /\ ~Untouched(Target[q])
    <3>1. Target[q] = t
      BY <1>1, <2>0, <2>2
    <3>2. r \in PatchReq /\ q \in PatchReq
      BY <2>2, <3>1, OthersRest
    <3>3. RequestOK(q)
      BY DEF Base
    <3>4. q \notin SimpleReq /\ q \notin CreateReq /\ q \notin CommitReq
      BY <3>2, RequestAssumption
    <3>. QED  BY <2>0, <3>1, <3>2, <3>3, <3>4 DEF RequestOK, Runs
  <2>. QED  BY <2>1, <2>2
<1>7. \A j \in Sweeper : SweepOK(j)'
  BY <1>2, <1>3, SweepKept DEF janitorVars
<1>8. \A c \in Receiver : ReceiverOK(c)'
  <2>1. now <= now'
    BY DEF Base, ServerTypes
  <2>. QED  BY <1>2, <1>3, <2>1, ReceiverKept DEF receiverVars
<1>9. QuietOK' /\ ReconcileOK'
  BY DEF Base, QuietOK, ReconcileOK, Up, reconcileVars
<1>. QED  BY <1>2, <1>4, <1>5, <1>6, <1>7, <1>8, <1>9 DEF Base

-----------------------------------------------------------------------------
(* What the calls a request makes do to its transfer.                      *)

\* The writes to a row that is not published yet.
LEMMA RowWrites ==
  ASSUME Base, NEW t \in Transfer, state[t] \in PreCommit, code[t] = NoCode,
         NEW minutes, NEW s, NEW n
  PROVE  /\ SetState(t, "VERIFYING") => RowStep(t) /\ state'[t] = "VERIFYING" /\ code'[t] = NoCode
         /\ SetState(t, "UPLOADING") /\ ~live[t].here =>
                RowStep(t) /\ state'[t] = "UPLOADING" /\ code'[t] = NoCode
         /\ Fail(t) => RowStep(t)
         /\ Purge(t) => RowStep(t)
         /\ SetNoteAndTTL(t, minutes) => RowSame(t)
         /\ InsertSegment(t, s) => RowSame(t)
         /\ SetSegmentProgress(t, s, n) => RowSame(t)
         /\ UNCHANGED storeVars => RowSame(t)
         /\ RowSame(t) => RowStep(t)
<1>. USE DEF StoreInv, StoreTypeOK, RowStep, RowSame, Exists, NoRow, PreCommit
<1>0. StoreInv
  BY DEF Base, ServerTypes
<1>1. SetState(t, "VERIFYING") => RowStep(t) /\ state'[t] = "VERIFYING" /\ code'[t] = NoCode
  BY <1>0 DEF SetState
<1>2. SetState(t, "UPLOADING") /\ ~live[t].here =>
        RowStep(t) /\ state'[t] = "UPLOADING" /\ code'[t] = NoCode
  BY <1>0 DEF SetState
<1>3. (Fail(t) => RowStep(t)) /\ (Purge(t) => RowStep(t))
  BY <1>0 DEF Fail, Purge
<1>4. /\ SetNoteAndTTL(t, minutes) => RowSame(t)
      /\ InsertSegment(t, s) => RowSame(t)
      /\ SetSegmentProgress(t, s, n) => RowSame(t)
      /\ UNCHANGED storeVars => RowSame(t)
  BY DEF SetNoteAndTTL, InsertSegment, SetSegmentProgress, transferVars, storeVars
<1>. QED  BY <1>1, <1>2, <1>3, <1>4

\* The operations on staging leave the published payload and every file alone.
LEMMA StagingEffects ==
  ASSUME Base, NEW t \in Transfer,
         \/ PrepareStaging(t) \/ MkdirAll(t) \/ RemoveStaging(t) \/ WriteManifest(t)
         \/ RemoveSegdir(t) \/ TrashStaging(t) \/ (\E s \in Segment : PlaceSegment(t, s))
         \/ UNCHANGED fileVars
  PROVE  LiveStep(t) /\ FilesKept(t) /\ file' = file
<1>1. live' = live /\ file' = file
  BY DEF PrepareStaging, MkdirAll, RemoveStaging, WriteManifest, RemoveSegdir, TrashStaging,
         PlaceSegment, fileVars
<1>2. \A s \in Segment : Len(file[t][s]) \in Nat
  BY TableLen DEF Base, ServerTypes
<1>. QED  BY <1>1, <1>2 DEF LiveStep, FilesKept

\* A new file leaves the others alone.
LEMMA AppendKeeps ==
  ASSUME FilesOK, NEW t \in Transfer, NEW s \in Segment, NEW f \in Seq(BOOLEAN), Len(f) <= SegLen,
         file' = [file EXCEPT ![t][s] = Append(@, f)]
  PROVE  /\ FilesKept(t)
         /\ \A v \in Segment : v # s => file'[t][v] = file[t][v]
         /\ Len(file'[t][s]) = Len(file[t][s]) + 1
         /\ file'[t][s][Len(file[t][s]) + 1] = f
<1>1. /\ file[t][s] \in Seq(Seq(BOOLEAN))
      /\ \A v \in Segment : Len(file[t][v]) \in Nat
  BY TableLen DEF FilesOK
<1>2. file' = [file EXCEPT ![t] = [file[t] EXCEPT ![s] = Append(file[t][s], f)]]
  OBVIOUS
<1>3. \A v \in Segment : file'[t][v] = IF v = s THEN Append(file[t][s], f) ELSE file[t][v]
  BY <1>2 DEF FilesOK
<1>4. PICK y : y = Append(file[t][s], f)
  OBVIOUS
<1>5. /\ Len(y) = Len(file[t][s]) + 1
      /\ \A i \in 1..Len(file[t][s]) : y[i] = file[t][s][i]
      /\ y[Len(file[t][s]) + 1] = f
  BY <1>1, <1>4, AppendProperties
<1>6. \A v \in Segment : file'[t][v] = IF v = s THEN y ELSE file[t][v]
  BY <1>3, <1>4
<1>7. FilesKept(t)
  <2>. SUFFICES ASSUME NEW v \in Segment
                PROVE  /\ Len(file[t][v]) <= Len(file'[t][v])
                       /\ \A i \in 1..Len(file[t][v]) : file'[t][v][i] = file[t][v][i]
    BY DEF FilesKept
  <2>1. CASE v = s
    BY <1>1, <1>5, <1>6, <2>1
  <2>2. CASE v # s
    BY <1>1, <1>6, <2>2
  <2>. QED  BY <2>1, <2>2
<1>. QED  BY <1>5, <1>6, <1>7

\* No write through a descriptor makes or removes an inode.
LEMMA DescriptorLens ==
  ASSUME FilesOK, FilesOK', NEW t \in Transfer, NEW s \in Segment, NEW i, NEW f,
         file' = [file EXCEPT ![t][s][i] = f]
  PROVE  \A v \in Segment : Len(file'[t][v]) = Len(file[t][v])
<1>1. file[t][s] \in Seq(Seq(BOOLEAN)) /\ file'[t][s] \in Seq(Seq(BOOLEAN))
  BY DEF FilesOK
<1>2. file' = [file EXCEPT ![t] = [file[t] EXCEPT ![s] = [file[t][s] EXCEPT ![i] = f]]]
  OBVIOUS
<1>3. \A v \in Segment : file'[t][v] = IF v = s THEN [file[t][s] EXCEPT ![i] = f] ELSE file[t][v]
  BY <1>2 DEF FilesOK
<1>4. DOMAIN file'[t][s] = DOMAIN file[t][s]
  BY <1>3
<1>5. Len(file'[t][s]) = Len(file[t][s])
  BY <1>1, <1>4, LenProperties
<1>. QED  BY <1>3, <1>5

-----------------------------------------------------------------------------
(* The steps of the requests.                                              *)

\* What the components around request r do meanwhile: nothing.
Beside(r) ==
    /\ Up
    /\ UNCHANGED <<reconcileVars, janitorVars, receiverVars, now>>
    /\ \A q \in Request : q # r => parts'[q] = parts[q]

\* A running request that goes on.
LEMMA GoesOn ==
  ASSUME Base, Calm, ServerTypes', NEW r \in Request, Beside(r), Runs(r),
         NEW n, Advance(r, n), n \notin {"idle", "create"},
         RowStep(Target[r]), LiveStep(Target[r]), FilesKept(Target[r]),
         OnlyRow(Target[r]), OnlyDir(Target[r]), RequestOK(r)',
         r \in PatchReq /\ state[Target[r]] \in {"CREATED", "UPLOADING"} =>
            state'[Target[r]] \in {"CREATED", "UPLOADING"}
  PROVE  Base' /\ \A u \in Transfer : Effects(u)
<1>1. pc'[r] = n /\ \A q \in Request : q # r => pc'[q] = pc[q]
  BY DEF Advance, Base, ServerTypes, RequestTypes
<1>2. Moves(r)
  BY <1>1 DEF Moves, Beside, Runs, Resting
<1>3. Effects(Target[r])
  BY DEF Effects
<1>. QED  BY <1>2, <1>3, RequestStep

\* A handler that gives up leaves everything as it is.
LEMMA GivesUp ==
  ASSUME Base, Calm, ServerTypes', NEW r \in Request, Beside(r), Runs(r), pc[r] # "create",
         r \notin PatchReq, ErrorExit(r), UNCHANGED <<storeVars, fileVars>>
  PROVE  Base' /\ \A u \in Transfer : Effects(u)
<1>. DEFINE t == Target[r]
<1>0. t \in Transfer /\ RequestTypes /\ RequestOK(r) /\ StoreInv /\ FilesOK
  BY RequestAssumption DEF Base, ServerTypes
<1>. HIDE DEF t
<1>1. RowSame(t) /\ RowStep(t) /\ OnlyRow(t)
  BY <1>0, RowLocal DEF RowStep, RowSame, storeVars
<1>2. LiveStep(t) /\ FilesKept(t) /\ OnlyDir(t)
  BY <1>0, StagingEffects, DirLocal
<1>3. PICK n : Advance(r, n) /\ n = IF r \in SimpleReq \cup CreateReq THEN "abort" ELSE "done"
  BY DEF ErrorExit
<1>4. pc'[r] = n
  BY <1>0, <1>3 DEF Advance, RequestTypes
<1>5. RequestOK(r)'
  BY <1>0, <1>1, <1>3, <1>4 DEF RequestOK, Runs, Resting, RowSame, Request, t
<1>. QED  BY <1>1, <1>2, <1>3, <1>5, GoesOn DEF t

\* publish: the payload is whole before the rename, and the rename comes before
\* the code.
LEMMA PublishKeeps ==
  ASSUME Base, Calm, ServerTypes', NEW r \in SimpleReq \cup CommitReq, Publish(r), Beside(r)
  PROVE  Base' /\ \A u \in Transfer : Effects(u)
<1>. DEFINE t == Target[r]
<1>0. /\ r \in Request /\ t \in Transfer /\ r \notin PatchReq /\ r \notin CreateReq
      /\ StoreInv /\ FilesOK /\ RequestTypes /\ RequestOK(r) /\ RowOK(t)
  BY RequestAssumption DEF ServerTypes, Request, Base
<1>1. pc[r] \in {"verifying", "note", "manifest", "rename", "allocate"}
  BY DEF Publish, AllocateCode, MarkVerifying, RecordNoteAndTTL, StoreManifest, RenameToLive
<1>2. Runs(r) /\ state[t] \in PreCommit /\ code[t] = NoCode
  BY <1>0, <1>1 DEF RequestOK, Runs, Resting
<1>3. now' = now /\ parts' = parts
  BY DEF Publish, AllocateCode, MarkVerifying, RecordNoteAndTTL, StoreManifest, RenameToLive
<1>. HIDE DEF t
<1>4. ASSUME NEW n, Advance(r, n), n \notin {"idle", "create"},
             RowStep(t), LiveStep(t), FilesKept(t), OnlyRow(t), OnlyDir(t), RequestOK(r)'
      PROVE  Base' /\ \A u \in Transfer : Effects(u)
  BY <1>0, <1>2, <1>4, GoesOn DEF t
<1>5. ASSUME ErrorExit(r), UNCHANGED <<storeVars, fileVars>>
      PROVE  Base' /\ \A u \in Transfer : Effects(u)
  BY <1>0, <1>1, <1>2, <1>5, GivesUp
<1>6. ASSUME NEW n, Advance(r, n) PROVE pc'[r] = n
  BY <1>0, <1>6 DEF Advance, RequestTypes
<1>7. UNCHANGED fileVars => LiveStep(t) /\ FilesKept(t) /\ OnlyDir(t)
  BY <1>0, StagingEffects, DirLocal
<1>8. UNCHANGED storeVars => RowSame(t) /\ RowStep(t) /\ OnlyRow(t)
  BY <1>0, <1>2, RowWrites, RowLocal
<1>9. ASSUME MarkVerifying(r) PROVE Base' /\ \A u \in Transfer : Effects(u)
  <2>1. UNCHANGED fileVars
    BY <1>9 DEF MarkVerifying
  <2>2. CASE SetState(t, "VERIFYING") /\ Advance(r, "note")
    <3>1. RowStep(t) /\ OnlyRow(t) /\ state'[t] = "VERIFYING" /\ code'[t] = NoCode
      BY <1>0, <1>2, <2>2, RowWrites, RowLocal
    <3>2. pc'[r] = "note" /\ pc[r] = "verifying"
      BY <1>6, <1>9, <2>2 DEF MarkVerifying
    <3>3. RequestOK(r)'
      BY <1>0, <1>3, <2>1, <3>1, <3>2 DEF RequestOK, Good, PreCommit, fileVars, t
    <3>. QED  BY <1>4, <1>7, <2>1, <2>2, <3>1, <3>3
  <2>. QED  BY <1>5, <1>9, <2>1, <2>2 DEF MarkVerifying, Record, t
<1>10. ASSUME RecordNoteAndTTL(r) PROVE Base' /\ \A u \in Transfer : Effects(u)
  <2>1. UNCHANGED fileVars
    BY <1>10 DEF RecordNoteAndTTL
  <2>2. CASE SetNoteAndTTL(t, want[r]) /\ Advance(r, "manifest")
    <3>1. RowSame(t) /\ RowStep(t) /\ OnlyRow(t)
      BY <1>0, <1>2, <2>2, RowWrites, RowLocal
    <3>2. pc'[r] = "manifest" /\ pc[r] = "note"
      BY <1>6, <1>10, <2>2 DEF RecordNoteAndTTL
    <3>3. RequestOK(r)'
      BY <1>0, <1>2, <1>3, <2>1, <3>1, <3>2 DEF RequestOK, RowSame, Good, fileVars, t
    <3>. QED  BY <1>4, <1>7, <2>1, <2>2, <3>1, <3>3
  <2>. QED  BY <1>5, <1>10, <2>1, <2>2 DEF RecordNoteAndTTL, Record, t
<1>11. ASSUME StoreManifest(r) PROVE Base' /\ \A u \in Transfer : Effects(u)
  <2>1. UNCHANGED storeVars
    BY <1>11 DEF StoreManifest
  <2>2. CASE WriteManifest(t) /\ Advance(r, "rename")
    <3>1. LiveStep(t) /\ FilesKept(t) /\ OnlyDir(t) /\ file' = file
      BY <1>0, <2>2, StagingEffects, DirLocal
    <3>2. staging'[t].manifest /\ staging'[t].pay = staging[t].pay
      BY <1>0, <2>2 DEF WriteManifest, FilesOK, LayoutTypeOK, Dir
    <3>3. pc'[r] = "rename" /\ pc[r] = "manifest"
      BY <1>6, <1>11, <2>2 DEF StoreManifest
    <3>4. RequestOK(r)'
      BY <1>0, <1>2, <1>3, <1>8, <2>1, <3>1, <3>2, <3>3 DEF RequestOK, RowSame, Good, t
    <3>. QED  BY <1>4, <1>8, <2>1, <2>2, <3>1, <3>4
  <2>. QED  BY <1>5, <1>11, <2>1, <2>2 DEF StoreManifest, t
<1>12. ASSUME RenameToLive(r) PROVE Base' /\ \A u \in Transfer : Effects(u)
  <2>1. UNCHANGED storeVars /\ pc[r] = "rename"
    BY <1>12 DEF RenameToLive
  <2>2. CASE PublishDir(t) /\ Advance(r, "allocate")
    <3>1. /\ state[t] = "VERIFYING" /\ staging[t].manifest
          /\ \A s \in Segment : Good(t, staging[t], s)
      BY <1>0, <2>1 DEF RequestOK, t
    <3>2. OnlyDir(t) /\ file' = file
      BY <1>0, <2>2, DirLocal DEF PublishDir
    <3>3. LiveStep(t) /\ live'[t].here
      BY <1>0, <1>8, <2>1, <2>2, <3>1 DEF PublishDir, CanPublish, LiveStep, FilesOK, LayoutTypeOK
    <3>4. FilesKept(t)
      BY <1>0, <3>2, TableLen DEF FilesKept
    <3>5. pc'[r] = "allocate"
      BY <1>6, <2>2
    <3>6. RequestOK(r)'
      BY <1>0, <1>2, <1>8, <2>1, <3>1, <3>3, <3>5 DEF RequestOK, RowSame, t
    <3>. QED  BY <1>4, <1>8, <2>1, <2>2, <3>2, <3>3, <3>4, <3>6
  <2>. QED  BY <1>5, <1>12, <2>1, <2>2 DEF RenameToLive, t
<1>13. ASSUME AllocateCode(r) PROVE Base' /\ \A u \in Transfer : Effects(u)
  <2>1. UNCHANGED fileVars /\ pc[r] = "allocate" /\ live[t].here
    BY <1>0, <1>13 DEF AllocateCode, RequestOK, t
  <2>2. ASSUME Advance(r, "done"), RowStep(t), OnlyRow(t)
        PROVE  Base' /\ \A u \in Transfer : Effects(u)
    <3>1. pc'[r] = "done"
      BY <1>6, <2>2
    <3>2. RequestOK(r)'
      BY <1>0, <3>1 DEF RequestOK, Runs, Resting
    <3>. QED  BY <1>4, <1>7, <2>1, <2>2, <3>2
  <2>3. ASSUME NEW c \in Code, Allocate(t, now, want[r], c) PROVE RowStep(t) /\ OnlyRow(t)
    <3>1. OnlyRow(t)
      BY <1>0, <2>3, RowLocal
    <3>2. state'[t] = "COMMITTED"
      BY <1>0, <2>3 DEF Allocate, StoreInv, StoreTypeOK
    <3>. QED  BY <1>0, <1>2, <2>1, <3>1, <3>2 DEF RowStep, t
  <2>. QED  BY <1>5, <1>8, <1>13, <2>1, <2>2, <2>3 DEF AllocateCode, Answer, t
<1>. QED  BY <1>9, <1>10, <1>11, <1>12, <1>13 DEF Publish

\* The abort of an upload session takes the row away before anyone knows it.
LEMMA AbortKeeps ==
  ASSUME Base, Calm, ServerTypes', NEW r \in SimpleReq \cup CreateReq, Abort(r), Beside(r)
  PROVE  Base' /\ \A u \in Transfer : Effects(u)
<1>. DEFINE t == Target[r]
<1>0. /\ r \in Request /\ t \in Transfer /\ r \notin PatchReq /\ r \notin CommitReq
      /\ StoreInv /\ FilesOK /\ RequestTypes /\ RequestOK(r)
  BY RequestAssumption DEF ServerTypes, Request, Base
<1>1. pc[r] \in {"abort", "purge"}
  BY DEF Abort, AbortStaging, AbortPurge
<1>2. Runs(r) /\ state[t] \in PreCommit /\ code[t] = NoCode
  BY <1>0, <1>1 DEF RequestOK, Runs, Resting
<1>. HIDE DEF t
<1>3. CASE AbortStaging(r)
  <2>1. RemoveStaging(t) /\ Advance(r, "purge") /\ UNCHANGED storeVars
    BY <1>3 DEF AbortStaging, t
  <2>2. LiveStep(t) /\ FilesKept(t) /\ OnlyDir(t)
    BY <1>0, <2>1, StagingEffects, DirLocal
  <2>3. RowSame(t) /\ RowStep(t) /\ OnlyRow(t)
    BY <1>0, <1>2, <2>1, RowWrites, RowLocal
  <2>4. pc'[r] = "purge"
    BY <1>0, <2>1 DEF Advance, RequestTypes
  <2>5. RequestOK(r)'
    BY <1>0, <1>2, <2>3, <2>4 DEF RequestOK, RowSame, t
  <2>. QED  BY <1>0, <1>2, <2>1, <2>2, <2>3, <2>5, GoesOn DEF t
<1>4. CASE AbortPurge(r)
  <2>1. (UNCHANGED storeVars \/ Purge(t)) /\ Advance(r, "done") /\ UNCHANGED fileVars
    BY <1>4 DEF AbortPurge, t
  <2>2. LiveStep(t) /\ FilesKept(t) /\ OnlyDir(t)
    BY <1>0, <2>1, StagingEffects, DirLocal
  <2>3. RowStep(t) /\ OnlyRow(t)
    BY <1>0, <1>2, <2>1, RowWrites, RowLocal
  <2>4. pc'[r] = "done"
    BY <1>0, <2>1 DEF Advance, RequestTypes
  <2>5. RequestOK(r)'
    BY <1>0, <2>4 DEF RequestOK, Runs, Resting
  <2>. QED  BY <1>0, <1>2, <2>1, <2>2, <2>3, <2>5, GoesOn DEF t
<1>. QED  BY <1>3, <1>4 DEF Abort

\* The first two statements of an upload session and of a creation: the staging
\* tree, then the row, which no other row of this transfer precedes.
LEMMA SessionBegins ==
  ASSUME Base, Calm, ServerTypes', NEW r \in SimpleReq \cup CreateReq, Beside(r), parts' = parts,
         NEW next \in {"adding", "segments"}, next = "adding" => r \in SimpleReq, NEW minutes,
         \/ /\ pc[r] = "idle" /\ PrepareStaging(Target[r]) /\ Advance(r, "create")
            /\ UNCHANGED storeVars
         \/ /\ pc[r] = "create" /\ RemoveStaging(Target[r]) /\ Advance(r, "done")
            /\ UNCHANGED storeVars
         \/ /\ pc[r] = "create" /\ CreateTransfer(Target[r], now, minutes) /\ Advance(r, next)
            /\ UNCHANGED fileVars
  PROVE  Base' /\ \A u \in Transfer : Effects(u)
<1>. DEFINE t == Target[r]
<1>0. /\ r \in Request /\ t \in Transfer /\ r \notin PatchReq /\ r \notin CommitReq
      /\ StoreInv /\ FilesOK /\ RequestTypes /\ RequestOK(r)
      /\ \A q \in SimpleReq \cup CreateReq : Target[q] = t => q = r
  BY RequestAssumption DEF ServerTypes, Request, Base
<1>1. ~Born(t)
  BY <1>0 DEF Born
<1>2. pc'[r] \in {"create", "done", next} /\ \A q \in Request : q # r => pc'[q] = pc[q]
  BY <1>0 DEF Advance, RequestTypes
<1>3. Moves(r)
  BY <1>0, <1>2 DEF Moves, Beside, Advance, RequestTypes
<1>. HIDE DEF t
<1>4. LiveStep(t) /\ FilesKept(t) /\ OnlyDir(t)
  BY <1>0, StagingEffects, DirLocal DEF t
<1>5. CASE UNCHANGED storeVars
  <2>1. RowStep(t) /\ OnlyRow(t)
    BY <1>0, <1>5, RowLocal DEF RowStep, RowSame, storeVars
  <2>2. pc'[r] \in {"create", "done"} /\ (pc'[r] = "create" => pc[r] = "idle")
    BY <1>0, <1>5 DEF Advance, RequestTypes, CreateTransfer, Exists, StoreInv, StoreTypeOK, storeVars, NoRow, t
  <2>3. RequestOK(r)'
    BY <1>0, <2>2 DEF RequestOK, Runs, Resting
  <2>. QED  BY <1>0, <1>3, <1>4, <2>1, <2>3, RequestStep DEF Effects, t
<1>6. CASE CreateTransfer(t, now, minutes) /\ Advance(r, next) /\ UNCHANGED fileVars /\ pc[r] = "create"
  <2>1. pc'[r] = next
    BY <1>0, <1>6 DEF Advance, RequestTypes
  <2>2. Born(t)'
    BY <2>1 DEF Born, t
  <2>3. ~Exists(t) /\ state'[t] = "CREATED" /\ code'[t] = NoCode
    BY <1>0, <1>6 DEF CreateTransfer, StoreInv, StoreTypeOK
  <2>4. RowStep(t) /\ OnlyRow(t)
    BY <1>0, <1>1, <1>6, <2>2, <2>3, RowLocal DEF RowStep
  <2>5. RequestOK(r)'
    BY <1>0, <1>6, <2>1, <2>3 DEF RequestOK, PreCommit, t
  <2>. QED  BY <1>0, <1>3, <1>4, <2>4, <2>5, RequestStep DEF Effects, t
<1>. QED  BY <1>5, <1>6 DEF t

\* A file part is whole once it is counted.
LEMMA AddFileKeeps ==
  ASSUME Base, Calm, ServerTypes', NEW r \in SimpleReq, NEW s \in Segment, AddFile(r, s), Beside(r)
  PROVE  Base' /\ \A u \in Transfer : Effects(u)
<1>. DEFINE t == Target[r]
<1>0. /\ r \in Request /\ t \in Transfer /\ r \notin PatchReq /\ r \notin CommitReq
      /\ StoreInv /\ FilesOK /\ FilesOK' /\ RequestTypes /\ RequestOK(r)
  BY RequestAssumption DEF ServerTypes, Request, Base
<1>1. /\ pc[r] = "adding" /\ pc' = pc /\ AddPayloadFile(t, s) /\ UNCHANGED storeVars
      /\ parts' = [parts EXCEPT ![r] = @ \cup {s}]
  BY DEF AddFile
<1>2. Runs(r) /\ state[t] \in PreCommit /\ code[t] = NoCode
  BY <1>0, <1>1 DEF RequestOK, Runs, Resting
<1>. HIDE DEF t
<1>3. /\ FilesKept(t) /\ OnlyDir(t) /\ live' = live
      /\ \A v \in Segment : v # s => file'[t][v] = file[t][v]
      /\ Len(file'[t][s]) = Len(file[t][s]) + 1
      /\ file'[t][s][Len(file[t][s]) + 1] = Whole
      /\ Len(file[t][s]) \in Nat
  <2>1. file' = [file EXCEPT ![t][s] = Append(@, Whole)]
    BY <1>1 DEF AddPayloadFile
  <2>2. Whole \in Seq(BOOLEAN) /\ Len(Whole) <= SegLen
    BY WholeFile, SegLenAssumption
  <2>3. OnlyDir(t) /\ live' = live
    BY <1>0, <1>1, DirLocal DEF AddPayloadFile
  <2>. QED  BY <1>0, <2>1, <2>2, <2>3, AppendKeeps, TableLen
<1>4. \A v \in Segment : staging'[t].pay[v] = IF v = s THEN Len(file[t][s]) + 1 ELSE staging[t].pay[v]
  <2>1. PICK n : n = Len(file[t][s]) + 1
    OBVIOUS
  <2>2. staging' = [staging EXCEPT ![t] = [staging[t] EXCEPT !.pay = [staging[t].pay EXCEPT ![s] = n]]]
    BY <1>1, <2>1, Zenon DEF AddPayloadFile
  <2>3. staging[t] \in Dir
    BY <1>0 DEF FilesOK, LayoutTypeOK
  <2>4. staging'[t].pay = [staging[t].pay EXCEPT ![s] = n]
    BY <1>0, <2>2, <2>3 DEF FilesOK, LayoutTypeOK, Dir
  <2>. QED  BY <2>1, <2>3, <2>4 DEF Dir
<1>5. parts'[r] = parts[r] \cup {s} /\ parts[r] \subseteq Segment
  BY <1>0, <1>1 DEF RequestTypes
<1>6. \A v \in parts'[r] : Good(t, staging[t], v)'
  <2>. SUFFICES ASSUME NEW v \in parts[r] \cup {s} PROVE Good(t, staging[t], v)'
    BY <1>5
  <2>1. CASE v = s
    BY <1>3, <1>4, <2>1 DEF Good
  <2>2. CASE v # s
    <3>1. Good(t, staging[t], v) /\ v \in Segment
      BY <1>0, <1>1, <1>5, <2>2 DEF RequestOK, t
    <3>. QED  BY <1>3, <1>4, <2>2, <3>1 DEF Good
  <2>. QED  BY <2>1, <2>2
<1>7. RowSame(t) /\ RowStep(t) /\ OnlyRow(t)
  BY <1>0, <1>1, <1>2, RowWrites, RowLocal
<1>8. LiveStep(t)
  BY <1>3 DEF LiveStep
<1>9. RequestOK(r)'
  BY <1>0, <1>1, <1>2, <1>6, <1>7 DEF RequestOK, RowSame, t
<1>10. Moves(r)
  BY <1>0, <1>1 DEF Moves, Beside, t
<1>. QED  BY <1>0, <1>2, <1>3, <1>7, <1>8, <1>9, <1>10, RequestStep DEF Effects, t

LEMMA SimpleKeeps ==
  ASSUME Base, Calm, ServerTypes', NEW r \in SimpleReq, HandleSimple(r)
  PROVE  Base' /\ \A u \in Transfer : Effects(u)
<1>. DEFINE t == Target[r]
<1>0. /\ r \in Request /\ t \in Transfer /\ r \notin PatchReq /\ r \notin CommitReq
      /\ StoreInv /\ FilesOK /\ RequestTypes /\ RequestOK(r)
  BY RequestAssumption DEF ServerTypes, Request, Base
<1>1. SimpleStep(r) /\ Up /\ UNCHANGED <<reconcileVars, janitorVars, receiverVars>>
  BY DEF HandleSimple
<1>2. now' = now /\ \A q \in Request : q # r => parts'[q] = parts[q]
  BY <1>0, <1>1 DEF SimpleStep, Publish, AllocateCode, MarkVerifying, RecordNoteAndTTL,
     StoreManifest, RenameToLive, BeginSimple, CreateSimple, AddFile, AddFileFails, CommitSimple,
     Abort, AbortStaging, AbortPurge, RequestTypes
<1>3. Beside(r)
  BY <1>1, <1>2 DEF Beside
<1>. HIDE DEF t
<1>4. CASE BeginSimple(r) \/ CreateSimple(r)
  BY <1>3, <1>4, SessionBegins DEF BeginSimple, CreateSimple
<1>5. CASE AddFileFails(r)
  <2>1. Runs(r) /\ pc[r] # "create" /\ ErrorExit(r) /\ UNCHANGED <<storeVars, fileVars>>
    BY <1>5 DEF AddFileFails, Runs, Resting
  <2>. QED  BY <1>0, <1>3, <2>1, GivesUp
<1>6. CASE CommitSimple(r)
  <2>1. /\ pc[r] = "adding" /\ parts[r] = Segment /\ Advance(r, "verifying") /\ parts' = parts
        /\ UNCHANGED storeVars /\ UNCHANGED fileVars
    BY <1>6 DEF CommitSimple
  <2>2. Runs(r) /\ state[t] \in PreCommit /\ code[t] = NoCode
    BY <1>0, <2>1 DEF RequestOK, Runs, Resting, t
  <2>3. RowSame(t) /\ RowStep(t) /\ OnlyRow(t)
    BY <1>0, <2>1, <2>2, RowWrites, RowLocal
  <2>4. LiveStep(t) /\ FilesKept(t) /\ OnlyDir(t)
    BY <1>0, <2>1, StagingEffects, DirLocal
  <2>5. pc'[r] = "verifying"
    BY <1>0, <2>1 DEF Advance, RequestTypes
  <2>6. RequestOK(r)'
    BY <1>0, <2>1, <2>2, <2>3, <2>5 DEF RequestOK, RowSame, Good, fileVars, t
  <2>. QED  BY <1>0, <1>3, <2>1, <2>2, <2>3, <2>4, <2>6, GoesOn DEF t
<1>. QED
  BY <1>1, <1>3, <1>4, <1>5, <1>6, PublishKeeps, AbortKeeps, AddFileKeeps DEF SimpleStep

LEMMA CreateKeeps ==
  ASSUME Base, Calm, ServerTypes', NEW r \in CreateReq, HandleCreate(r)
  PROVE  Base' /\ \A u \in Transfer : Effects(u)
<1>. DEFINE t == Target[r]
<1>0. /\ r \in Request /\ t \in Transfer /\ r \notin PatchReq /\ r \notin CommitReq
      /\ r \notin SimpleReq /\ StoreInv /\ FilesOK /\ RequestTypes /\ RequestOK(r)
  BY RequestAssumption DEF ServerTypes, Request, Base
<1>1. CreateStep(r) /\ Up /\ UNCHANGED <<reconcileVars, janitorVars, receiverVars>>
  BY DEF HandleCreate
<1>2. now' = now /\ \A q \in Request : q # r => parts'[q] = parts[q]
  BY <1>0, <1>1 DEF CreateStep, CreateStaging, CreateRow, CreateSegment,
     Abort, AbortStaging, AbortPurge, RequestTypes
<1>3. Beside(r)
  BY <1>1, <1>2 DEF Beside
<1>. HIDE DEF t
<1>4. CASE CreateStaging(r) \/ CreateRow(r)
  BY <1>3, <1>4, SessionBegins DEF CreateStaging, CreateRow
<1>5. ASSUME NEW s \in Segment, CreateSegment(r, s)
      PROVE  Base' /\ \A u \in Transfer : Effects(u)
  <2>1. pc[r] = "segments" /\ UNCHANGED fileVars
    BY <1>5 DEF CreateSegment
  <2>2. Runs(r) /\ pc[r] # "create" /\ state[t] \in PreCommit /\ code[t] = NoCode
    BY <1>0, <2>1 DEF RequestOK, Runs, Resting, t
  <2>3. CASE ErrorExit(r) /\ UNCHANGED storeVars
    BY <1>0, <1>3, <2>1, <2>2, <2>3, GivesUp
  <2>4. ASSUME InsertSegment(t, s), NEW n \in {"created", "segments"}, Advance(r, n)
        PROVE  Base' /\ \A u \in Transfer : Effects(u)
    <3>1. RowSame(t) /\ RowStep(t) /\ OnlyRow(t)
      BY <1>0, <2>2, <2>4, RowWrites, RowLocal
    <3>2. LiveStep(t) /\ FilesKept(t) /\ OnlyDir(t)
      BY <1>0, <2>1, StagingEffects, DirLocal
    <3>3. pc'[r] = n
      BY <1>0, <2>4 DEF Advance, RequestTypes
    <3>4. RequestOK(r)'
      BY <1>0, <2>2, <2>4, <3>1, <3>3 DEF RequestOK, RowSame, t
    <3>. QED  BY <1>0, <1>3, <2>2, <2>4, <3>1, <3>2, <3>4, GoesOn DEF t
  <2>. QED  BY <1>5, <2>3, <2>4 DEF CreateSegment, t
<1>. QED  BY <1>1, <1>3, <1>4, <1>5, AbortKeeps DEF CreateStep

\* UploadPatch: while it holds a descriptor, its transfer is still being uploaded,
\* so what it overwrites is not published.
LEMMA PatchKeeps ==
  ASSUME Base, Calm, ServerTypes', NEW r \in PatchReq, HandlePatch(r)
  PROVE  Base' /\ \A u \in Transfer : Effects(u)
<1>. DEFINE t == Target[r]
            s == PatchSegment[r]
<1>0. /\ r \in Request /\ t \in Transfer /\ s \in Segment
      /\ r \notin SimpleReq /\ r \notin CreateReq /\ r \notin CommitReq
      /\ StoreInv /\ FilesOK /\ FilesOK' /\ RequestTypes /\ RequestOK(r) /\ RowOK(t)
  BY RequestAssumption DEF ServerTypes, Request, Base
<1>1. PatchStep(r) /\ Up /\ UNCHANGED <<reconcileVars, janitorVars, receiverVars>>
  BY DEF HandlePatch
<1>2. now' = now /\ parts' = parts
  BY <1>1 DEF PatchStep, PatchReadSegment, PatchReadTransfer, PatchOpen, PatchTruncate, PatchMark,
     PatchWrite, PatchStop, PatchFinish, requestVars
<1>3. Beside(r)
  BY <1>1, <1>2 DEF Beside
<1>4. ASSUME NEW n, Advance(r, n)
      PROVE  pc'[r] = n /\ \A q \in Request : q # r => pc'[q] = pc[q]
  BY <1>0, <1>4 DEF Advance, RequestTypes
<1>. HIDE DEF t, s
<1>5. UNCHANGED fileVars => LiveStep(t) /\ FilesKept(t) /\ OnlyDir(t)
  BY <1>0, StagingEffects, DirLocal
<1>6. UNCHANGED storeVars => RowSame(t) /\ RowStep(t) /\ OnlyRow(t)
  BY <1>0, RowLocal DEF RowStep, RowSame, storeVars
<1>7. CASE PatchReadSegment(r)
  <2>1. UNCHANGED storeVars /\ UNCHANGED fileVars /\ pc[r] = "idle" /\ CreationReturned(r)
    BY <1>7 DEF PatchReadSegment, Sent
  <2>2. pc'[r] \in {"readTransfer", "done"} /\ \A q \in Request : q # r => pc'[q] = pc[q]
    BY <1>4, <1>7 DEF PatchReadSegment
  <2>3. RequestOK(r)'
    BY <1>0, <2>2 DEF RequestOK, Runs, Resting
  <2>4. Moves(r)
    BY <1>3, <2>1, <2>2 DEF Moves, Beside
  <2>5. Untouched(t)
    BY <2>1 DEF Untouched, RowSame, storeVars, fileVars
  <2>6. Effects(t) /\ OnlyRow(t) /\ OnlyDir(t)
    BY <1>5, <1>6, <2>1 DEF Effects
  <2>7. state'[t] = state[t]
    BY <2>1 DEF storeVars
  <2>. QED  BY <1>0, <2>3, <2>4, <2>5, <2>6, <2>7, RequestStep DEF t
<1>8. CASE PatchReadTransfer(r)
  <2>1. /\ UNCHANGED storeVars /\ UNCHANGED fileVars /\ pc[r] = "readTransfer"
        /\ Advance(r, IF state[t] \in {"CREATED", "UPLOADING"} THEN "open" ELSE "done")
    BY <1>8 DEF PatchReadTransfer, t
  <2>2. pc'[r] = IF state[t] \in {"CREATED", "UPLOADING"} THEN "open" ELSE "done"
    BY <1>4, <2>1
  <2>3. state' = state
    BY <2>1 DEF storeVars
  <2>4. RequestOK(r)'
    BY <1>0, <2>2, <2>3 DEF RequestOK, Runs, Resting, t
  <2>5. Runs(r)
    BY <2>1 DEF Runs, Resting
  <2>. QED  BY <1>0, <1>3, <1>5, <1>6, <2>1, <2>3, <2>4, <2>5, GoesOn DEF t
<1>9. CASE pc[r] \in {"open", "truncate", "markUploading", "writing", "finish"}
  <2>1. Runs(r) /\ state[t] \in {"CREATED", "UPLOADING"} /\ ~live[t].here /\ code[t] = NoCode
    BY <1>0, <1>9 DEF RequestOK, Runs, Resting, RowOK, t
  <2>2. state[t] \in PreCommit
    BY <2>1 DEF PreCommit
  <2>3. RowStep(t) /\ OnlyRow(t) /\ state'[t] \in {"CREATED", "UPLOADING"}
    <3>1. CASE UNCHANGED storeVars
      BY <1>6, <2>1, <3>1 DEF storeVars
    <3>2. CASE PatchMark(r)
      BY <1>0, <2>1, <2>2, <3>2, RowWrites, RowLocal DEF PatchMark, t
    <3>3. CASE PatchFinish(r) /\ SetSegmentProgress(t, s, pos[r])
      <4>1. RowSame(t) /\ RowStep(t) /\ OnlyRow(t)
        BY <1>0, <2>1, <2>2, <3>3, RowWrites, RowLocal
      <4>. QED  BY <2>1, <4>1 DEF RowSame
    <3>. QED
      BY <1>1, <1>9, <3>1, <3>2, <3>3 DEF PatchStep, PatchReadSegment, Sent, PatchReadTransfer, PatchOpen,
         PatchTruncate, PatchWrite, PatchStop, PatchFinish, t, s
  <2>4. LiveStep(t) /\ FilesKept(t) /\ OnlyDir(t)
    <3>1. CASE UNCHANGED fileVars
      BY <1>5, <3>1
    <3>2. CASE OpenSegment(t, s)
      <4>1. OnlyDir(t) /\ live' = live
        BY <1>0, <3>2, DirLocal DEF OpenSegment
      <4>2. CASE file' = file
        BY <1>0, <4>1, <4>2, TableLen DEF LiveStep, FilesKept
      <4>3. CASE file' = [file EXCEPT ![t][s] = Append(@, <<>>)]
        <5>1. <<>> \in Seq(BOOLEAN) /\ Len(<<>>) <= SegLen
          BY SegLenAssumption
        <5>2. FilesKept(t)
          BY <1>0, <4>3, <5>1, AppendKeeps
        <5>. QED  BY <4>1, <5>2 DEF LiveStep
      <4>. QED  BY <3>2, <4>2, <4>3 DEF OpenSegment
    <3>3. ASSUME NEW i, NEW n \in 0..SegLen, Truncate(t, s, i, n) \/ Write(t, s, i, n)
          PROVE  LiveStep(t) /\ FilesKept(t) /\ OnlyDir(t)
      <4>a. OnlyDir(t)
        BY <1>0, <3>3, DirLocal
      <4>1. OnlyDir(t) /\ live' = live
        BY <3>3, <4>a DEF Truncate, Write
      <4>2. \A v \in Segment : Len(file'[t][v]) = Len(file[t][v]) /\ Len(file[t][v]) \in Nat
        <5>1. PICK f : file' = [file EXCEPT ![t][s][i] = f]
          BY <3>3 DEF Truncate, Write
        <5>. QED  BY <1>0, <5>1, DescriptorLens, TableLen
      <4>. QED  BY <2>1, <4>1, <4>2 DEF LiveStep, FilesKept
    <3>4. off[r] \in 0..SegLen /\ pos[r] \in 0..SegLen
      BY DEF Base, ServerTypes, PatchTypes
    <3>. QED
      BY <1>1, <1>9, <3>1, <3>2, <3>3, <3>4 DEF PatchStep, PatchReadSegment, Sent, PatchReadTransfer,
         PatchOpen, PatchTruncate, PatchMark, PatchWrite, PatchStop, PatchFinish, t, s
  <2>5. RequestOK(r)'
    BY <1>0, <2>3 DEF RequestOK, t
  <2>6. CASE PatchWrite(r)
    <3>1. Moves(r)
      BY <1>3, <1>9, <2>6 DEF Moves, Beside, PatchWrite, requestVars
    <3>. QED  BY <1>0, <2>1, <2>3, <2>4, <2>5, <3>1, RequestStep DEF Effects, t
  <2>7. ASSUME NEW n \in {"truncate", "done", "markUploading", "writing", "finish"}, Advance(r, n)
        PROVE  Base' /\ \A u \in Transfer : Effects(u)
    BY <1>0, <1>3, <2>1, <2>3, <2>4, <2>5, <2>7, GoesOn DEF t
  <2>. QED
    BY <1>1, <1>9, <2>6, <2>7 DEF PatchStep, PatchReadSegment, Sent, PatchReadTransfer, PatchOpen,
       PatchTruncate, PatchMark, PatchStop, PatchFinish
<1>. QED
  BY <1>1, <1>7, <1>8, <1>9 DEF PatchStep, PatchOpen, PatchTruncate, PatchMark, PatchWrite, PatchStop,
     PatchFinish

\* Service.Commit up to its publication: nothing but the verification that the
\* materialization ends with lets it go on to publish.
LEMMA CommitKeeps ==
  ASSUME Base, Calm, ServerTypes', NEW r \in CommitReq, HandleCommit(r)
  PROVE  Base' /\ \A u \in Transfer : Effects(u)
<1>. DEFINE t == Target[r]
<1>0. /\ r \in Request /\ t \in Transfer /\ r \in SimpleReq \cup CommitReq
      /\ r \notin SimpleReq /\ r \notin CreateReq /\ r \notin PatchReq
      /\ StoreInv /\ FilesOK /\ FilesOK' /\ RequestTypes /\ RequestOK(r) /\ RowOK(t)
  BY RequestAssumption DEF ServerTypes, Request, Base
<1>1. CommitStep(r) /\ Up /\ UNCHANGED <<reconcileVars, janitorVars, receiverVars>>
  BY DEF HandleCommit
<1>2. now' = now /\ \A q \in Request : q # r => parts'[q] = parts[q]
  BY <1>0, <1>1 DEF CommitStep, Publish, AllocateCode, MarkVerifying, RecordNoteAndTTL,
     StoreManifest, RenameToLive, CommitRead, CommitList, CommitMkdir, CommitVerify, CommitMark,
     MaterializeMkdir, Place, MaterializeFinish, CommitFail, RequestTypes
<1>3. Beside(r)
  BY <1>1, <1>2 DEF Beside
<1>4. ASSUME NEW n, Advance(r, n)
      PROVE  pc'[r] = n /\ \A q \in Request : q # r => pc'[q] = pc[q]
  BY <1>0, <1>4 DEF Advance, RequestTypes
<1>. HIDE DEF t
<1>5. UNCHANGED fileVars => LiveStep(t) /\ FilesKept(t) /\ OnlyDir(t)
  BY <1>0, StagingEffects, DirLocal
<1>6. UNCHANGED storeVars => RowSame(t) /\ RowStep(t) /\ OnlyRow(t)
  BY <1>0, RowLocal DEF RowStep, RowSame, storeVars
<1>7. CASE CommitRead(r)
  <2>1. /\ UNCHANGED storeVars /\ UNCHANGED fileVars /\ pc[r] = "idle" /\ CreationReturned(r)
    BY <1>7 DEF CommitRead, Sent
  <2>2. \E n \in {"list", "done"} : Advance(r, n) /\ (n = "list" => state[t] \in PreCommit)
    BY <1>7 DEF CommitRead, Answer, t
  <2>3. /\ pc'[r] \in {"list", "done"} /\ (pc'[r] = "list" => state[t] \in PreCommit)
        /\ \A q \in Request : q # r => pc'[q] = pc[q]
    BY <1>4, <2>2
  <2>4. Untouched(t)
    BY <2>1 DEF Untouched, RowSame, storeVars, fileVars
  <2>5. state[t] \in PreCommit => code[t] = NoCode
    BY <1>0 DEF RowOK, PreCommit
  <2>6. RequestOK(r)'
    BY <1>0, <2>3, <2>4, <2>5 DEF RequestOK, Runs, Resting, Untouched, RowSame, t
  <2>7. Moves(r)
    BY <1>3, <2>1, <2>3 DEF Moves, Beside
  <2>8. Effects(t) /\ OnlyRow(t) /\ OnlyDir(t)
    BY <1>5, <1>6, <2>1 DEF Effects
  <2>. QED  BY <1>0, <2>4, <2>6, <2>7, <2>8, RequestStep DEF t
<1>8. CASE pc[r] \in {"list", "outboards", "digest", "mark", "payload", "place", "fail"}
  <2>1. Runs(r) /\ state[t] \in PreCommit /\ code[t] = NoCode /\ pc[r] # "create"
    BY <1>0, <1>8 DEF RequestOK, Runs, Resting, t
  <2>2. ASSUME NEW n, n \notin {"idle", "create"}, Advance(r, n), RowStep(t), OnlyRow(t), LiveStep(t), FilesKept(t),
               OnlyDir(t), RequestOK(r)'
        PROVE  Base' /\ \A u \in Transfer : Effects(u)
    BY <1>0, <1>3, <2>1, <2>2, GoesOn DEF t
  \* The statements that keep the row.
  <2>3. ASSUME UNCHANGED storeVars, NEW n \in {"done", "outboards", "digest", "mark"}, Advance(r, n),
               LiveStep(t), FilesKept(t), OnlyDir(t)
        PROVE  Base' /\ \A u \in Transfer : Effects(u)
    <3>1. RowSame(t) /\ RowStep(t) /\ OnlyRow(t) /\ pc'[r] = n
      BY <1>4, <1>6, <2>3
    <3>2. RequestOK(r)'
      BY <1>0, <2>1, <2>3, <3>1 DEF RequestOK, RowSame, t
    <3>. QED  BY <2>2, <2>3, <3>1, <3>2
  <2>4. CASE CommitList(r) \/ CommitVerify(r)
    BY <1>5, <2>3, <2>4 DEF CommitList, CommitVerify
  <2>5. CASE CommitMkdir(r)
    <3>1. LiveStep(t) /\ FilesKept(t) /\ OnlyDir(t)
      BY <1>0, <2>5, StagingEffects, DirLocal DEF CommitMkdir, t
    <3>. QED  BY <2>3, <2>5, <3>1 DEF CommitMkdir
  <2>6. CASE CommitMark(r)
    <3>1. UNCHANGED fileVars
      BY <2>6 DEF CommitMark
    <3>2. CASE SetState(t, "VERIFYING") /\ Advance(r, "payload")
      <4>1. RowStep(t) /\ OnlyRow(t) /\ state'[t] = "VERIFYING" /\ code'[t] = NoCode /\ pc'[r] = "payload"
        BY <1>0, <1>4, <2>1, <3>2, RowWrites, RowLocal
      <4>2. RequestOK(r)'
        BY <1>0, <4>1 DEF RequestOK, PreCommit, t
      <4>. QED  BY <1>5, <2>2, <3>1, <3>2, <4>1, <4>2
    <3>3. CASE ErrorExit(r) /\ UNCHANGED storeVars
      BY <1>0, <1>3, <2>1, <3>1, <3>3, GivesUp
    <3>. QED  BY <2>6, <3>2, <3>3 DEF CommitMark, Record, t
  <2>7. ASSUME pc[r] \in {"payload", "place"}, UNCHANGED storeVars, NEW n \in {"place", "fail"},
               Advance(r, n), LiveStep(t), FilesKept(t), OnlyDir(t)
        PROVE  Base' /\ \A u \in Transfer : Effects(u)
    <3>1. RowSame(t) /\ RowStep(t) /\ OnlyRow(t) /\ pc'[r] = n /\ state[t] = "VERIFYING"
      BY <1>0, <1>4, <1>6, <2>7 DEF RequestOK, t
    <3>2. RequestOK(r)'
      BY <1>0, <2>1, <2>7, <3>1 DEF RequestOK, RowSame, t
    <3>. QED  BY <2>2, <2>7, <3>1, <3>2
  <2>8. CASE MaterializeMkdir(r)
    <3>1. LiveStep(t) /\ FilesKept(t) /\ OnlyDir(t)
      BY <1>0, <2>8, StagingEffects, DirLocal DEF MaterializeMkdir, t
    <3>. QED  BY <2>7, <2>8, <3>1 DEF MaterializeMkdir
  <2>9. ASSUME NEW s \in Segment, Place(r, s)
        PROVE  Base' /\ \A u \in Transfer : Effects(u)
    <3>1. pc[r] = "place" /\ UNCHANGED storeVars
      BY <2>9 DEF Place
    <3>2. CASE UNCHANGED fileVars /\ Advance(r, "fail")
      BY <1>5, <2>7, <3>1, <3>2
    <3>3. CASE PlaceSegment(t, s) /\ pc' = pc
      <4>1. LiveStep(t) /\ FilesKept(t) /\ OnlyDir(t)
        BY <1>0, <3>3, StagingEffects, DirLocal
      <4>2. RowSame(t) /\ RowStep(t) /\ OnlyRow(t) /\ state[t] = "VERIFYING"
        BY <1>0, <1>6, <3>1 DEF RequestOK, t
      <4>3. RequestOK(r)'
        BY <1>0, <2>1, <3>1, <3>3, <4>2 DEF RequestOK, RowSame, t
      <4>4. Moves(r)
        BY <1>3, <3>1, <3>3 DEF Moves, Beside
      <4>. QED  BY <1>0, <2>1, <4>1, <4>2, <4>3, <4>4, RequestStep DEF Effects, t
    <3>. QED  BY <2>9, <3>2, <3>3 DEF Place, t
  <2>10. CASE MaterializeFinish(r)
    <3>1. pc[r] = "place" /\ UNCHANGED storeVars
      BY <2>10 DEF MaterializeFinish
    <3>2. CASE UNCHANGED fileVars /\ Advance(r, "fail")
      BY <1>5, <2>7, <3>1, <3>2
    <3>3. CASE PayloadIntact(t) /\ RemoveSegdir(t) /\ Advance(r, "verifying")
      <4>1. LiveStep(t) /\ FilesKept(t) /\ OnlyDir(t) /\ file' = file
        BY <1>0, <3>3, StagingEffects, DirLocal
      <4>2. RowSame(t) /\ RowStep(t) /\ OnlyRow(t) /\ pc'[r] = "verifying"
        BY <1>4, <1>6, <3>1, <3>3
      <4>3. staging[t] \in Dir /\ staging'[t].pay = staging[t].pay
        BY <1>0, <3>3 DEF RemoveSegdir, FilesOK, LayoutTypeOK, Dir
      <4>4. \A s \in Segment : Good(t, staging[t], s)'
        <5>. SUFFICES ASSUME NEW s \in Segment PROVE Good(t, staging[t], s)'
          OBVIOUS
        <5>1. /\ staging[t].pay[s] \in Nat /\ staging[t].pay[s] <= Len(file[t][s])
              /\ Len(file[t][s]) \in Nat
          BY <1>0, <4>3, TableLen DEF FilesOK, Dir
        <5>2. staging[t].pay[s] # 0 /\ file[t][s][staging[t].pay[s]] = Whole
          BY <3>3 DEF PayloadIntact, PayloadFile, NoFile
        <5>. QED  BY <4>1, <4>3, <5>1, <5>2 DEF Good
      <4>5. RequestOK(r)'
        BY <1>0, <2>1, <4>2, <4>4 DEF RequestOK, RowSame, t
      <4>. QED  BY <2>2, <3>3, <4>1, <4>2, <4>5
    <3>. QED  BY <2>10, <3>2, <3>3 DEF MaterializeFinish, t
  <2>11. CASE CommitFail(r)
    <3>1. (UNCHANGED storeVars \/ Fail(t)) /\ UNCHANGED fileVars /\ Advance(r, "done")
      BY <2>11 DEF CommitFail, t
    <3>2. RowStep(t) /\ OnlyRow(t) /\ pc'[r] = "done"
      BY <1>0, <1>4, <1>6, <2>1, <3>1, RowWrites, RowLocal
    <3>3. RequestOK(r)'
      BY <1>0, <3>2 DEF RequestOK, Runs, Resting
    <3>. QED  BY <1>5, <2>2, <3>1, <3>2, <3>3
  <2>. QED
    BY <1>0, <1>1, <1>3, <1>8, <2>4, <2>5, <2>6, <2>8, <2>9, <2>10, <2>11, PublishKeeps
    DEF CommitStep, CommitRead, Sent
<1>. QED
  BY <1>0, <1>1, <1>3, <1>7, <1>8, PublishKeeps
  DEF CommitStep, CommitList, CommitMkdir, CommitVerify, CommitMark, MaterializeMkdir, Place,
      MaterializeFinish, CommitFail

-----------------------------------------------------------------------------
(* The steps of everyone else.                                             *)

\* Steps beside the requests: what they touch, no request relies on.
LEMMA OtherStep ==
  ASSUME Base, Calm, ServerTypes', UNCHANGED <<reconcileVars, pc, parts>>,
         \A u \in Transfer : Effects(u),
         \A r \in Request : Busy(r) => Untouched(Target[r]),
         \A j \in Sweeper : SweepOK(j)', \A c \in Receiver : ReceiverOK(c)',
         Up \/ UNCHANGED <<janitorVars, receiverVars, storeVars, fileVars>>
  PROVE  Base'
<1>1. PcStep
  BY DEF PcStep
<1>2. \A u \in Transfer : BornOK(u)' /\ RowOK(u)'
  BY <1>1, RowKept
<1>3. \A r \in Request : RequestOK(r)'
  BY RequestKept
<1>4. \A r \in Request : SentOK(r)'
  BY DEF Base, SentOK, CreationReturned
<1>5. QuietOK'
  BY DEF Base, QuietOK, Up, Runs, reconcileVars, janitorVars, receiverVars
<1>6. ReconcileOK'
  <2>1. CASE Up
    BY <2>1 DEF Base, QuietOK, ReconcileOK, Up, reconcileVars
  <2>2. CASE UNCHANGED <<storeVars, fileVars>>
    BY <2>2 DEF Base, ReconcileOK, Ended, Exists, reconcileVars, storeVars, fileVars
  <2>. QED  BY <2>1, <2>2
<1>. QED  BY <1>2, <1>3, <1>4, <1>5, <1>6 DEF Base

\* A step that leaves the rows of transfers and the files as they are.
LEMMA NothingTouched ==
  ASSUME Base, UNCHANGED <<state, code, expires, ttl, staging, live, file>>
  PROVE  /\ \A u \in Transfer : Untouched(u) /\ Effects(u)
         /\ \A r \in Request : Untouched(Target[r])
<1>1. \A u \in Transfer : Untouched(u)
  BY DEF Untouched, RowSame
<1>2. \A u \in Transfer : Effects(u)
  BY <1>1, UntouchedEffects
<1>. QED  BY <1>1, <1>2, RequestAssumption

\* The clock, a client that leaves, and a step of nothing.
LEMMA IdleKeeps ==
  ASSUME Base, Calm, ServerTypes',
         UNCHANGED <<storeVars, fileVars, reconcileVars, pc, parts, janitorVars, receiverVars>>,
         now <= now'
  PROVE  Base' /\ \A u \in Transfer : Effects(u)
<1>1. /\ \A u \in Transfer : Effects(u)
      /\ \A r \in Request : Untouched(Target[r])
  BY NothingTouched DEF storeVars, fileVars
<1>2. PcStep
  BY DEF PcStep
<1>3. \A j \in Sweeper : SweepOK(j)'
  BY <1>1, <1>2, SweepKept DEF janitorVars
<1>4. \A c \in Receiver : ReceiverOK(c)'
  BY <1>1, <1>2, ReceiverKept DEF receiverVars
<1>. QED  BY <1>1, <1>3, <1>4, OtherStep

\* A step of sweep j that is right about the transfers it touches, none of which
\* a request relies on, and about its own lists.
LEMMA SweepStepKeeps ==
  ASSUME Base, Calm, ServerTypes', NEW j \in Sweeper,
         UNCHANGED <<reconcileVars, requestVars, receiverVars, now>>, Up,
         \A u \in Transfer : Effects(u),
         \A u \in Transfer :
            \/ Untouched(u)
            \/ state[u] \notin PreCommit
            \/ jpc[j] = "abandon" /\ u \in jlist[j],
         \A i \in Sweeper : i # j => jpc'[i] = jpc[i] /\ jlist'[i] = jlist[i] /\ jid'[i] = jid[i],
         \/ /\ (jpc'[j] = "abandon") = (jpc[j] = "abandon") /\ jlist'[j] \subseteq jlist[j]
            /\ jid'[j] = jid[j] \/ jid'[j] = NoTransfer
         \/ SweepOK(j)'
  PROVE  Base'
<1>1. PcStep
  BY DEF PcStep, requestVars
<1>2. \A i \in Sweeper : SweepOK(i)'
  BY <1>1, SweepKept
<1>3. now <= now'
  BY DEF Base, ServerTypes
<1>4. \A c \in Receiver : ReceiverOK(c)'
  BY <1>1, <1>3, ReceiverKept DEF receiverVars
<1>5. \A r \in Request : Busy(r) => Untouched(Target[r])
  <2>. SUFFICES ASSUME NEW r \in Request, Busy(r) PROVE Untouched(Target[r])
    OBVIOUS
  <2>1. Target[r] \in Transfer /\ state[Target[r]] \in PreCommit
    BY BusyRow
  <2>2. ~(jpc[j] = "abandon" /\ Target[r] \in jlist[j])
    BY DEF Calm, Undisturbed, Busy
  <2>. QED  BY <2>1, <2>2
<1>6. UNCHANGED <<pc, parts>>
  BY DEF requestVars
<1>. QED  BY <1>2, <1>4, <1>5, <1>6, OtherStep

\* The sweep: it abandons what nobody is at work on, and takes away what has ended.
LEMMA SweepKeeps ==
  ASSUME Base, Calm, ServerTypes', NEW j \in Sweeper, Sweep(j)
  PROVE  Base' /\ \A u \in Transfer : Effects(u)
<1>0. /\ StoreInv /\ FilesOK /\ SweepTypes /\ SweepOK(j) /\ now \in Nat
      /\ SweepStep(j) /\ Up /\ UNCHANGED <<reconcileVars, requestVars, receiverVars>>
      /\ \A u \in Transfer : RowOK(u) /\ BornOK(u)
      /\ jlist[j] \in SUBSET Transfer /\ jid[j] \in Transfer \cup {NoTransfer}
  BY ServiceAssumption DEF ServerTypes, Base, Sweep, SweepTypes
<1>1. now' = now
  BY <1>0 DEF SweepStep, SweepStart, SweepExpire, SweepStale, SweepAbandon, SweepUnpinned, SweepDelete,
     SweepInvalidate, SweepTrashLive, SweepTrashStaging, SweepDeleteFails, SweepPurge, SweepEmptyTrash
<1>2. ASSUME NEW n, JGoto(j, n)
      PROVE  jpc'[j] = n /\ \A i \in Sweeper : i # j => jpc'[i] = jpc[i]
  BY <1>0, <1>2 DEF JGoto, SweepTypes
<1>3. UNCHANGED storeVars /\ UNCHANGED fileVars => \A u \in Transfer : Untouched(u) /\ Effects(u)
  BY NothingTouched DEF storeVars, fileVars
<1>4. ASSUME NEW t \in Transfer, OnlyRow(t), OnlyDir(t)
      PROVE  \A u \in Transfer : u # t => Untouched(u) /\ Effects(u)
  BY <1>4, UntouchedEffects DEF OnlyRow, OnlyDir, Untouched
<1>5. CASE SweepStart(j) \/ SweepInvalidate(j) \/ SweepDeleteFails(j)
  <2>1. UNCHANGED storeVars /\ UNCHANGED fileVars
    BY <1>5 DEF SweepStart, SweepInvalidate, SweepDeleteFails
  <2>2. /\ jpc[j] # "abandon" /\ jpc'[j] # "abandon" /\ jlist' = jlist
        /\ jid'[j] = jid[j] \/ jid'[j] = NoTransfer
        /\ \A i \in Sweeper : i # j => jpc'[i] = jpc[i] /\ jid'[i] = jid[i]
    BY <1>0, <1>2, <1>5 DEF SweepStart, SweepInvalidate, SweepDeleteFails, SweepTypes
  <2>. QED  BY <1>0, <1>1, <1>3, <2>1, <2>2, SweepStepKeeps
<1>6. CASE SweepExpire(j)
  <2>1. /\ ExpireDue(jnow[j]) /\ UNCHANGED fileVars /\ jpc[j] = "expire" /\ jpc'[j] = "stale"
        /\ jlist' = jlist /\ jid' = jid /\ \A i \in Sweeper : i # j => jpc'[i] = jpc[i]
    BY <1>2, <1>6 DEF SweepExpire
  <2>2. ASSUME NEW u \in Transfer PROVE Effects(u) /\ (Untouched(u) \/ state[u] \notin PreCommit)
    <3>1. jnow[j] \in Nat /\ jnow[j] <= now /\ expires[u] \in Nat
      BY <1>0 DEF SweepTypes, StoreInv, StoreTypeOK
    <3>2. RowStep(u) /\ (state[u] \in PreCommit => RowSame(u) /\ ttl' = ttl)
      BY <1>0, <2>1, <3>1 DEF ExpireDue, RowStep, RowSame, PreCommit
    <3>3. LiveStep(u) /\ FilesKept(u)
      BY <2>1, StagingEffects
    <3>. QED  BY <2>1, <3>2, <3>3 DEF Effects, Untouched, fileVars
  <2>. QED  BY <1>0, <1>1, <2>1, <2>2, SweepStepKeeps
<1>7. CASE SweepStale(j) \/ SweepUnpinned(j)
  <2>1. UNCHANGED storeVars /\ UNCHANGED fileVars /\ jid' = jid
    BY <1>7 DEF SweepStale, SweepUnpinned
  <2>2. /\ jpc'[j] \in {"abandon", "delete"}
        /\ \A i \in Sweeper : i # j => jpc'[i] = jpc[i] /\ jlist'[i] = jlist[i]
    BY <1>0, <1>2, <1>7 DEF SweepStale, SweepUnpinned, SweepTypes
  <2>3. \A t \in jlist'[j] :
            /\ t \in Transfer /\ Exists(t)
            /\ IF jpc'[j] = "abandon" THEN state[t] \in PreCommit ELSE state[t] \in Terminal
    BY <1>0, <1>2, <1>7 DEF SweepStale, SweepUnpinned, StaleStaging, UnpinnedExpired, SweepTypes,
       Exists, PreCommit, Terminal, NoRow
  <2>4. SweepOK(j)'
    <3>1. PcStep
      BY <1>0 DEF PcStep, requestVars
    <3>2. ASSUME NEW t \in Transfer, Exists(t) PROVE Born(t)'
      BY <1>0, <3>1, <3>2, BornStays DEF BornOK
    <3>3. \A t \in Transfer : state[t] \in PreCommit => code[t] = NoCode
      BY <1>0 DEF RowOK, PreCommit
    <3>4. UNCHANGED <<state, code>>
      BY <2>1 DEF storeVars
    <3>5. jid[j] # NoTransfer => Born(jid[j])' /\ Ended(jid[j])'
      BY <1>0, <2>1, <3>1, <3>4, BornStays DEF SweepOK, Ended
    <3>. QED  BY <2>1, <2>3, <3>2, <3>3, <3>4, <3>5 DEF SweepOK, Ended
  <2>. QED  BY <1>0, <1>1, <1>3, <2>1, <2>2, <2>4, SweepStepKeeps
<1>8. ASSUME NEW t \in Transfer, SweepAbandon(j, t)
      PROVE  Base' /\ \A u \in Transfer : Effects(u)
  <2>1. /\ SetState(t, "ABANDONED") /\ UNCHANGED fileVars /\ jpc[j] = "abandon" /\ jpc' = jpc
        /\ jid' = jid /\ t \in jlist[j] /\ jlist'[j] \subseteq jlist[j]
        /\ \A i \in Sweeper : i # j => jlist'[i] = jlist[i]
    BY <1>0, <1>8 DEF SweepAbandon, SweepTypes
  <2>2. OnlyRow(t) /\ OnlyDir(t) /\ LiveStep(t) /\ FilesKept(t)
    BY <1>0, <2>1, RowLocal, DirLocal, StagingEffects
  <2>3. code[t] = NoCode /\ state[t] # "COMMITTED" /\ state[t] \in State \cup {NoRow}
    BY <1>0, <2>1 DEF SweepOK, StoreInv, CommittedHasCode, StoreTypeOK
  <2>4. RowStep(t)
    BY <1>0, <2>1, <2>3 DEF SetState, RowStep, RowSame, StoreInv, StoreTypeOK, Exists, Ended, State,
       PreCommit, Terminal, NoRow
  <2>5. \A u \in Transfer : Effects(u) /\ (Untouched(u) \/ u = t)
    BY <1>4, <2>2, <2>4 DEF Effects
  <2>. QED  BY <1>0, <1>1, <2>1, <2>5, SweepStepKeeps
<1>9. ASSUME NEW t \in Transfer, SweepDelete(j, t)
      PROVE  Base' /\ \A u \in Transfer : Effects(u)
  <2>1. /\ SetState(t, "DELETING") /\ UNCHANGED fileVars /\ jpc[j] = "delete"
        /\ jpc'[j] = "invalidate" /\ jid'[j] = t /\ t \in jlist[j] /\ jlist'[j] \subseteq jlist[j]
        /\ \A i \in Sweeper : i # j => jpc'[i] = jpc[i] /\ jlist'[i] = jlist[i] /\ jid'[i] = jid[i]
    BY <1>0, <1>2, <1>9 DEF SweepDelete, SweepTypes
  <2>2. OnlyRow(t) /\ OnlyDir(t) /\ LiveStep(t) /\ FilesKept(t)
    BY <1>0, <2>1, RowLocal, DirLocal, StagingEffects
  <2>3. Ended(t) /\ Born(t)
    BY <1>0, <2>1 DEF SweepOK
  <2>4. RowStep(t) /\ Ended(t)'
    BY <1>0, <2>1, <2>3 DEF SetState, RowStep, RowSame, StoreInv, StoreTypeOK, CodeHasRow, Exists, Ended,
       Terminal, NoRow
  <2>5. \A u \in Transfer : Effects(u) /\ (Untouched(u) \/ u = t)
    BY <1>4, <2>2, <2>4 DEF Effects
  <2>6. state[t] \notin PreCommit
    BY <2>3 DEF Ended, PreCommit, Terminal, NoRow
  <2>7. SweepOK(j)'
    <3>1. PcStep
      BY <1>0 DEF PcStep, requestVars
    <3>2. ASSUME NEW u \in Transfer, Born(u), Ended(u) PROVE Born(u)' /\ Ended(u)'
      BY <2>4, <2>5, <3>1, <3>2, BornStays DEF Untouched, RowSame, Ended
    <3>3. \A u \in jlist[j] : Born(u) /\ Ended(u) /\ u \in Transfer
      BY <1>0, <2>1 DEF SweepOK
    <3>. QED  BY <2>1, <2>3, <3>2, <3>3 DEF SweepOK
  <2>. QED  BY <1>0, <1>1, <2>1, <2>5, <2>6, <2>7, SweepStepKeeps
<1>10. CASE SweepTrashLive(j) \/ SweepTrashStaging(j) \/ SweepPurge(j)
  <2>1. PICK t \in Transfer : t = jid[j] /\ jid[j] # NoTransfer
    BY <1>0, <1>10, StoreAssumption DEF SweepTrashLive, SweepTrashStaging, SweepPurge, SweepTypes
  <2>2. /\ jpc[j] # "abandon" /\ jpc'[j] # "abandon" /\ jlist' = jlist
        /\ jid'[j] = jid[j] \/ jid'[j] = NoTransfer
        /\ \A i \in Sweeper : i # j => jpc'[i] = jpc[i] /\ jid'[i] = jid[i]
    BY <1>0, <1>2, <1>10 DEF SweepTrashLive, SweepTrashStaging, SweepPurge, SweepTypes
  <2>3. Ended(t) /\ state[t] \notin PreCommit
    BY <1>0, <2>1 DEF SweepOK, Ended, PreCommit, Terminal, NoRow
  <2>4. Effects(t) /\ OnlyRow(t) /\ OnlyDir(t)
    <3>1. CASE SweepTrashLive(j)
      <4>1. TrashLive(t) /\ UNCHANGED storeVars
        BY <2>1, <3>1 DEF SweepTrashLive
      <4>2. OnlyRow(t) /\ OnlyDir(t)
        BY <1>0, <4>1, RowLocal, DirLocal
      <4>3. RowSame(t) /\ live'[t] = Absent /\ file' = file
        BY <1>0, <4>1 DEF TrashLive, RowSame, storeVars, FilesOK, LayoutTypeOK
      <4>4. FilesKept(t)
        BY <1>0, <4>3, TableLen DEF FilesKept
      <4>. QED  BY <2>3, <4>2, <4>3, <4>4 DEF Effects, RowStep, LiveStep
    <3>2. CASE SweepTrashStaging(j)
      <4>1. TrashStaging(t) /\ UNCHANGED storeVars
        BY <2>1, <3>2 DEF SweepTrashStaging
      <4>2. OnlyRow(t) /\ OnlyDir(t) /\ LiveStep(t) /\ FilesKept(t)
        BY <1>0, <4>1, RowLocal, DirLocal, StagingEffects
      <4>. QED  BY <4>1, <4>2 DEF Effects, RowStep, RowSame, storeVars
    <3>3. CASE SweepPurge(j)
      <4>1. Purge(t) /\ UNCHANGED fileVars
        BY <2>1, <3>3 DEF SweepPurge
      <4>2. OnlyRow(t) /\ OnlyDir(t) /\ LiveStep(t) /\ FilesKept(t)
        BY <1>0, <4>1, RowLocal, DirLocal, StagingEffects
      <4>3. state'[t] = NoRow /\ code'[t] = NoCode
        BY <1>0, <4>1 DEF Purge, StoreInv, StoreTypeOK
      <4>. QED  BY <2>3, <4>2, <4>3 DEF Effects, RowStep, Ended, Exists
    <3>. QED  BY <1>10, <3>1, <3>2, <3>3
  <2>5. \A u \in Transfer : Effects(u) /\ (Untouched(u) \/ u = t)
    BY <1>4, <2>4
  <2>. QED  BY <1>0, <1>1, <2>2, <2>3, <2>5, SweepStepKeeps
<1>11. CASE SweepEmptyTrash(j)
  <2>1. /\ UNCHANGED <<storeVars, staging, live, file>>
        /\ jpc[j] = "delete" /\ jpc'[j] = "idle" /\ jlist' = jlist /\ jid' = jid
        /\ \A i \in Sweeper : i # j => jpc'[i] = jpc[i]
    BY <1>2, <1>11 DEF SweepEmptyTrash, EmptyTrash
  <2>2. \A u \in Transfer : Untouched(u) /\ Effects(u)
    BY <2>1, NothingTouched DEF storeVars
  <2>. QED  BY <1>0, <1>1, <2>1, <2>2, SweepStepKeeps
<1>. QED
  BY <1>0, <1>5, <1>6, <1>7, <1>8, <1>9, <1>10, <1>11 DEF SweepStep

\* Receivers only ever expire a transfer whose lifetime is over.
LEMMA ReceiverKeeps ==
  ASSUME Base, Calm, ServerTypes', NEW c \in Receiver, Up,
         (c \in Claim /\ ClaimStep(c)) \/ (c \in Download /\ DownloadStep(c)),
         UNCHANGED <<reconcileVars, requestVars, janitorVars>>
  PROVE  Base' /\ \A u \in Transfer : Effects(u)
<1>0. /\ StoreInv /\ FilesOK /\ ReceiverTypes /\ ReceiverOK(c) /\ now \in Nat
      /\ \A u \in Transfer : RowOK(u) /\ BornOK(u)
      /\ UNCHANGED <<pc, parts>> /\ PcStep
  BY ServiceAssumption DEF ServerTypes, Base, PcStep, requestVars
<1>1. ASSUME NEW n, CGoto(c, n)
      PROVE  cpc'[c] = n /\ \A d \in Receiver : d # c => cpc'[d] = cpc[d]
  BY <1>0, <1>1 DEF CGoto, ReceiverTypes
<1>2. ASSUME \A u \in Transfer : Effects(u), now' = now,
             \A r \in Request : Busy(r) => Untouched(Target[r]),
             \A d \in Receiver : d # c => cpc'[d] = cpc[d] /\ found'[d] = found[d],
             \/ found'[c] = found[c] /\ (cpc'[c] = "expire" => cpc[c] = "expire")
             \/ ReceiverOK(c)'
      PROVE  Base'
  <2>1. \A j \in Sweeper : SweepOK(j)'
    BY <1>0, <1>2, SweepKept DEF janitorVars
  <2>2. now <= now'
    BY <1>0, <1>2
  <2>3. \A d \in Receiver : ReceiverOK(d)'
    BY <1>0, <1>2, <2>2, ReceiverKept
  <2>. QED  BY <1>0, <1>2, <2>1, <2>3, OtherStep
<1>3. ASSUME NEW t \in Transfer, Lookup(c, t)
      PROVE  Base' /\ \A u \in Transfer : Effects(u)
  <2>1. /\ UNCHANGED <<storeVars, fileVars, now>> /\ code[t] # NoCode
        /\ found' = [found EXCEPT ![c] = t]
    BY <1>3 DEF Lookup
  <2>2. /\ \A u \in Transfer : Effects(u)
        /\ \A r \in Request : Untouched(Target[r])
    BY <2>1, NothingTouched DEF storeVars, fileVars
  <2>3. /\ found'[c] = t /\ \A d \in Receiver : d # c => found'[d] = found[d]
    BY <1>0, <2>1 DEF ReceiverTypes
  <2>4. \E n : CGoto(c, n) /\ (n = "expire" => state[t] = "COMMITTED" /\ ~Resolves(t))
    BY <1>3 DEF Lookup
  <2>5. /\ cpc'[c] = "expire" => state[t] = "COMMITTED" /\ ~Resolves(t)
        /\ \A d \in Receiver : d # c => cpc'[d] = cpc[d]
    BY <1>1, <2>4
  <2>6. Born(t)'
    <3>1. Exists(t)
      BY <1>0, <2>1 DEF StoreInv, CodeHasRow
    <3>. QED  BY <1>0, <3>1, BornStays DEF BornOK
  <2>7. ReceiverOK(c)'
    <3>1. expires[t] \in Nat
      BY <1>0 DEF StoreInv, StoreTypeOK
    <3>2. UNCHANGED <<code, expires, now>>
      BY <2>1 DEF storeVars
    <3>. QED  BY <1>0, <2>1, <2>3, <2>5, <2>6, <3>1, <3>2 DEF ReceiverOK, Resolves, Committed
  <2>. QED  BY <1>2, <2>1, <2>2, <2>3, <2>5, <2>7
<1>4. CASE LookupExpire(c)
  <2>1. PICK t \in Transfer : t = found[c]
    BY <1>0, <1>4 DEF LookupExpire, ReceiverTypes
  <2>2. /\ SetState(t, "EXPIRED") /\ UNCHANGED fileVars /\ now' = now /\ found' = found
        /\ cpc'[c] = "done" /\ \A d \in Receiver : d # c => cpc'[d] = cpc[d]
    BY <1>1, <1>4, <2>1 DEF LookupExpire
  <2>3. ~Exists(t) \/ (code[t] # NoCode /\ expires[t] <= now)
    BY <1>0, <1>4, <2>1, StoreAssumption DEF LookupExpire, ReceiverOK
  <2>4. RowStep(t) /\ (state[t] \in PreCommit => UNCHANGED storeVars)
    BY <1>0, <2>2, <2>3 DEF SetState, RowStep, RowSame, RowOK, Exists, Ended, StoreInv, StoreTypeOK, Terminal,
       PreCommit, NoRow, storeVars
  <2>5. OnlyRow(t) /\ OnlyDir(t) /\ LiveStep(t) /\ FilesKept(t)
    BY <1>0, <2>2, RowLocal, DirLocal, StagingEffects
  <2>6. \A u \in Transfer : Effects(u) /\ (Untouched(u) \/ u = t)
    <3>1. \A u \in Transfer : u # t => Untouched(u)
      BY <2>5 DEF OnlyRow, OnlyDir, Untouched
    <3>. QED  BY <2>4, <2>5, <3>1, UntouchedEffects DEF Effects
  <2>7. state[t] \in PreCommit => Untouched(t)
    BY <2>2, <2>4 DEF Untouched, RowSame, storeVars, fileVars
  <2>8. \A r \in Request : Busy(r) => Untouched(Target[r])
    BY <2>6, <2>7, BusyRow
  <2>. QED  BY <1>2, <2>2, <2>6, <2>8
<1>5. ASSUME UNCHANGED <<state, code, expires, ttl, fileVars, now, found>>,
             \A d \in Receiver : d # c => cpc'[d] = cpc[d], cpc'[c] # "expire"
      PROVE  Base' /\ \A u \in Transfer : Effects(u)
  <2>1. /\ \A u \in Transfer : Effects(u)
        /\ \A r \in Request : Untouched(Target[r])
    BY <1>5, NothingTouched DEF fileVars
  <2>. QED  BY <1>2, <1>5, <2>1
<1>6. CASE \/ StatPayload(c) \/ ManifestGet(c) \/ ManifestRead(c) \/ ManifestPut(c) \/ Fetch(c)
           \/ (\E s \in Segment : OpenFile(c, s)) \/ StartStream(c) \/ CutStream(c) \/ EndStream(c)
  <2>1. UNCHANGED <<state, code, expires, ttl, fileVars, now, found>>
    BY <1>6 DEF StatPayload, ManifestGet, ManifestRead, ManifestPut, Fetch, OpenFile, StartStream,
       CutStream, EndStream, storeVars
  <2>2. \E n : CGoto(c, n) /\ n # "expire"
    BY <1>6 DEF StatPayload, ManifestGet, ManifestRead, ManifestPut, Fetch, OpenFile, StartStream,
       CutStream, EndStream, AfterManifest
  <2>. QED  BY <1>1, <1>5, <2>1, <2>2
<1>7. CASE OpenClaim(c) \/ Renew(c) \/ Complete(c)
  <2>1. UNCHANGED <<state, code, expires, ttl, fileVars, now, found>>
    BY <1>7 DEF OpenClaim, Renew, Complete, CreateClaim, RenewClaim, CompleteClaim, transferVars, storeVars
  <2>2. \E n : CGoto(c, n) /\ n # "expire"
    BY <1>7 DEF OpenClaim, Renew, Complete
  <2>. QED  BY <1>1, <1>5, <2>1, <2>2
<1>8. ASSUME NEW s \in Segment, StreamEntry(c, s)
      PROVE  Base' /\ \A u \in Transfer : Effects(u)
  <2>1. UNCHANGED <<state, code, expires, ttl, fileVars, now, found, cpc>> /\ cpc[c] = "stream"
    BY <1>8 DEF StreamEntry, storeVars
  <2>. QED  BY <1>5, <2>1
<1>. QED
  BY <1>3, <1>4, <1>6, <1>7, <1>8 DEF ClaimStep, DownloadStep

\* A crash leaves the rows and the directories as they are.
LEMMA DeathKeeps ==
  ASSUME Base, Calm, ServerTypes', ProcessDies
  PROVE  Base' /\ \A u \in Transfer : Effects(u)
<1>0. /\ UNCHANGED <<storeVars, fileVars, now>> /\ Stop /\ KillRequests /\ KillSweeps /\ KillReceivers
      /\ RequestTypes /\ now \in Nat /\ ReceiverTypes
  BY ServiceAssumption DEF ProcessDies, Crash, Base, ServerTypes
<1>1. /\ \A u \in Transfer : Effects(u)
      /\ \A r \in Request : Untouched(Target[r])
  BY <1>0, NothingTouched DEF storeVars, fileVars
<1>2. \A r \in Request : /\ pc'[r] = IF pc[r] \in Resting THEN pc[r] ELSE "done"
                         /\ parts'[r] = parts[r]
  BY <1>0 DEF KillRequests
<1>3. PcStep
  BY <1>2 DEF PcStep, Resting
<1>4. \A u \in Transfer : BornOK(u)' /\ RowOK(u)'
  BY <1>1, <1>3, RowKept
<1>5. \A r \in Request : RequestOK(r)'
  BY <1>2 DEF Base, RequestOK, Runs, Resting
<1>6. \A r \in Request : SentOK(r)'
  <2>. SUFFICES ASSUME NEW r \in PatchReq \cup CommitReq, pc'[r] # "idle"
                PROVE  CreationReturned(r)'
    BY DEF SentOK
  <2>1. r \in Request /\ pc[r] # "idle" /\ CreateReq \subseteq Request
    BY <1>2 DEF Request, Resting
  <2>2. CreationReturned(r)
    BY <2>1 DEF Base, SentOK
  <2>. QED  BY <1>3, <2>1, <2>2 DEF CreationReturned, PcStep
<1>7. \A j \in Sweeper : jpc'[j] = "idle" /\ jlist'[j] = {} /\ jid'[j] = NoTransfer
  BY <1>0 DEF KillSweeps
<1>8. \A j \in Sweeper : SweepOK(j)'
  BY <1>7 DEF SweepOK
<1>9. \A c \in Receiver : cpc'[c] \in AtRest /\ cpc'[c] # "expire" /\ found'[c] = found[c]
  BY <1>0 DEF KillReceivers, AtRest
<1>10. now <= now'
  BY <1>0
<1>11. \A c \in Receiver : ReceiverOK(c)'
  BY <1>1, <1>3, <1>9, <1>10, ReceiverKept
<1>12. QuietOK'
  BY <1>0, <1>2, <1>7, <1>9 DEF QuietOK, Stop, Runs, Resting
<1>13. ReconcileOK'
  BY <1>0 DEF ReconcileOK, Stop
<1>. QED  BY <1>1, <1>4, <1>5, <1>6, <1>8, <1>11, <1>12, <1>13 DEF Base

\* What reconciliation decides is right: only payloads that are not there are
\* missed, and a pre-commit row with a payload is published.
LEMMA DecisionOK ==
  ASSUME Base, NEW t \in Transfer, known[t] = state[t]
  PROVE  /\ Decision(t) \in {"pick", "publish", "fail", "trashLive"}
         /\ Decision(t) = "publish" => state[t] \in PreCommit /\ live[t].here
         /\ Decision(t) = "fail" => state[t] \in PreCommit /\ ~live[t].here
         /\ Decision(t) = "trashLive" => state[t] = "DELETING"
<1>0. RowOK(t) /\ FilesOK
  BY DEF Base, ServerTypes
<1>1. live[t].here => PayloadValid(t, live[t])
  <2>. SUFFICES ASSUME live[t].here, NEW s \in Segment
                PROVE  live[t].manifest /\ live[t].pay[s] # NoFile /\ Len(PayloadFile(t, live[t], s)) = SegLen
    BY <1>0 DEF PayloadValid, RowOK
  <2>1. live[t].manifest /\ Good(t, live[t], s)
    BY <1>0 DEF RowOK
  <2>2. Len(file[t][s]) \in Nat
    BY <1>0, TableLen
  <2>. QED  BY <2>1, <2>2, WholeFile DEF Good, PayloadFile, NoFile
<1>2. PayloadValid(t, live[t]) => live[t].here
  BY <1>0 DEF PayloadValid, FilesOK, Absent
<1>3. state[t] = "COMMITTED" => live[t].here
  BY <1>0 DEF RowOK
<1>. QED  BY <1>1, <1>2, <1>3 DEF Decision, DecideCommitted, DecidePreCommit, PreCommit

LEMMA RestartKeeps ==
  ASSUME Base, Calm, ServerTypes', Restart
  PROVE  Base' /\ \A u \in Transfer : Effects(u)
<1>0. /\ StoreInv /\ FilesOK /\ ReconcileTypes /\ QuietOK /\ ReconcileOK /\ now \in Nat
      /\ ReconcileStep /\ UNCHANGED <<requestVars, janitorVars, receiverVars>>
      /\ \A u \in Transfer : RowOK(u)
  BY ServiceAssumption DEF Base, ServerTypes, Restart
<1>1. ~Up /\ now' = now
  BY <1>0 DEF ReconcileStep, Begin, ListLive, ListStaging, ToTrashLoop, NextLoop, Finish, Visit,
     CompleteInterruptedPublish, FailRow, DiscardLive, DiscardStaging, PurgeRow, TrashOrphan, RemoveOrphan,
     Picking, Up, QuietOK
<1>2. /\ \A r \in Request : ~Runs(r)
      /\ \A j \in Sweeper : jpc[j] = "idle" /\ jlist[j] = {} /\ jid[j] = NoTransfer
      /\ \A c \in Receiver : cpc[c] \in AtRest
  BY <1>0, <1>1 DEF QuietOK, Up
<1>3. ASSUME \A u \in Transfer : Effects(u), phase' = "ready" => step' = "pick", ReconcileOK'
      PROVE  Base' /\ \A u \in Transfer : Effects(u)
  <2>1. PcStep /\ UNCHANGED <<pc, parts>>
    BY <1>0 DEF PcStep, requestVars
  <2>2. \A u \in Transfer : BornOK(u)' /\ RowOK(u)'
    BY <1>3, <2>1, RowKept
  <2>3. \A r \in Request : RequestOK(r)'
    BY <1>2, <2>1, RequestKept DEF Busy
  <2>4. \A r \in Request : SentOK(r)'
    BY <2>1 DEF Base, SentOK, CreationReturned
  <2>5. \A j \in Sweeper : SweepOK(j)'
    BY <1>0, <1>3, <2>1, SweepKept DEF janitorVars
  <2>6. now <= now'
    BY <1>0, <1>1
  <2>7. \A c \in Receiver : ReceiverOK(c)'
    BY <1>0, <1>3, <2>1, <2>6, ReceiverKept DEF receiverVars
  <2>8. QuietOK'
    BY <1>0, <1>2, <1>3 DEF QuietOK, Runs, requestVars, janitorVars, receiverVars
  <2>. QED  BY <1>3, <2>2, <2>3, <2>4, <2>5, <2>7, <2>8 DEF Base
<1>4. UNCHANGED <<storeVars, staging, live, file>> => \A u \in Transfer : Effects(u)
  BY NothingTouched DEF storeVars
<1>5. ASSUME NEW t \in Transfer, Effects(t), OnlyRow(t), OnlyDir(t)
      PROVE  \A u \in Transfer : Effects(u)
  BY <1>5, UntouchedEffects DEF OnlyRow, OnlyDir, Untouched
<1>6. CASE Begin
  <2>1. \A u \in Transfer : Effects(u)
    BY <1>4, <1>6 DEF Begin, fileVars
  <2>2. ReconcileOK' /\ phase' # "ready"
    BY <1>6 DEF Begin, ReconcileOK, Exists, storeVars, fileVars
  <2>. QED  BY <1>3, <2>1, <2>2
<1>7. CASE ListLive \/ ListStaging \/ ToTrashLoop
  <2>1. UNCHANGED <<storeVars, fileVars, known, step, subject>> /\ step = "pick"
        /\ phase \in {"rows", "live", "staging"} /\ phase' \in {"live", "staging", "trash"}
        /\ \A t \in todo' : known[t] = NoRow
    BY <1>7 DEF ListLive, ListStaging, ToTrashLoop, NextLoop, Picking
  <2>2. \A u \in Transfer : Effects(u)
    BY <1>4, <2>1 DEF fileVars
  <2>3. ReconcileOK' /\ phase' # "ready"
    BY <1>0, <2>1 DEF ReconcileOK, Exists, storeVars
  <2>. QED  BY <1>3, <2>2, <2>3
<1>8. CASE Finish
  <2>1. UNCHANGED <<storeVars, staging, live, file>> /\ phase' = "ready" /\ step' = "pick"
    BY <1>8 DEF Finish, EmptyTrash, Picking
  <2>2. \A u \in Transfer : Effects(u)
    BY <1>4, <2>1
  <2>3. ReconcileOK'
    BY <2>1 DEF ReconcileOK
  <2>. QED  BY <1>3, <2>1, <2>2, <2>3
<1>9. ASSUME NEW t \in Transfer, Visit(t)
      PROVE  Base' /\ \A u \in Transfer : Effects(u)
  <2>1. UNCHANGED <<storeVars, fileVars, phase, known>> /\ phase = "rows" /\ step = "pick" /\ t \in todo
    BY <1>9 DEF Visit, Visited, Goto, Picking
  <2>2. known[t] = state[t]
    BY <1>0, <2>1 DEF ReconcileOK
  <2>3. \A u \in Transfer : Effects(u)
    BY <1>4, <2>1 DEF fileVars
  <2>4. CASE Decision(t) = "pick"
    <3>1. todo' = todo \ {t} /\ step' = "pick"
      BY <1>9, <2>4 DEF Visit, Visited
    <3>2. ReconcileOK'
      BY <1>0, <2>1, <3>1 DEF ReconcileOK, Exists, storeVars
    <3>. QED  BY <1>3, <2>1, <2>3, <3>2
  <2>5. CASE Decision(t) # "pick"
    <3>1. todo' = todo /\ step' = Decision(t) /\ subject' = t
      BY <1>9, <2>5 DEF Visit, Goto
    <3>2. ReconcileOK'
      BY <1>0, <2>1, <2>2, <2>5, <3>1, DecisionOK
      DEF ReconcileOK, Exists, Ended, storeVars, fileVars
    <3>. QED  BY <1>3, <2>1, <2>3, <3>2
  <2>. QED  BY <2>4, <2>5
\* The statements about one transfer, the subject.
<1>10. ASSUME NEW t \in Transfer, step # "pick", subject = t, Effects(t), OnlyRow(t), OnlyDir(t),
              Exists(t)' => Exists(t), phase' = phase, known' = known,
              \/ todo' = todo /\ subject' = t /\ step' # "pick"
              \/ todo' = todo \ {t} /\ step' = "pick",
              step' \in {"pick", "trashLive", "trashStaging", "purge"},
              step' # "pick" => Ended(t)' /\ (live'[t].here => state'[t] \in {"DELETING", NoRow})
       PROVE  Base' /\ \A u \in Transfer : Effects(u)
  <2>1. phase \notin {"ready", "down"}
    BY <1>0, <1>1, <1>10 DEF ReconcileOK, Up
  <2>2. \A u \in Transfer : u # t => state'[u] = state[u]
    BY <1>10 DEF OnlyRow, RowSame
  <2>3. \A u \in Transfer : known[u] = NoRow => ~Exists(u)'
    BY <1>0, <1>10, <2>1, <2>2 DEF ReconcileOK, Exists
  <2>4. todo' \subseteq todo /\ todo \subseteq Transfer
    BY <1>0, <1>10 DEF ReconcileTypes
  <2>5. phase = "rows" => \A u \in todo' : step' = "pick" \/ subject' # u => known[u] = state'[u]
    BY <1>0, <1>10, <2>2, <2>4 DEF ReconcileOK
  <2>6. ReconcileOK'
    BY <1>0, <1>10, <2>1, <2>3, <2>4, <2>5 DEF ReconcileOK
  <2>. QED  BY <1>3, <1>5, <1>10, <2>1, <2>6
<1>11. ASSUME NEW t \in Transfer, CompleteInterruptedPublish(t)
       PROVE  Base' /\ \A u \in Transfer : Effects(u)
  <2>1. /\ UNCHANGED fileVars /\ step = "publish" /\ subject = t
        /\ todo' = todo \ {t} /\ step' = "pick" /\ phase' = phase /\ known' = known
        /\ state[t] \in PreCommit /\ live[t].here
    BY <1>0, <1>11 DEF CompleteInterruptedPublish, Visited, ReconcileOK
  <2>2. OnlyDir(t) /\ LiveStep(t) /\ FilesKept(t)
    BY <1>0, <2>1, DirLocal, StagingEffects
  <2>3. RowStep(t) /\ OnlyRow(t)
    <3>1. CASE UNCHANGED storeVars
      BY <1>0, <3>1, RowLocal DEF RowStep, RowSame, storeVars
    <3>2. CASE \E c \in Code : Allocate(t, now, ttl[t], c)
      <4>1. OnlyRow(t)
        BY <1>0, <3>2, RowLocal
      <4>2. state'[t] = "COMMITTED" /\ code[t] = NoCode
        BY <1>0, <3>2 DEF Allocate, PublishNew, StoreInv, StoreTypeOK
      <4>. QED  BY <1>1, <2>1, <4>1, <4>2 DEF RowStep
    <3>. QED  BY <1>11, <3>1, <3>2 DEF CompleteInterruptedPublish
  <2>4. Exists(t)
    BY <2>1 DEF Exists, PreCommit, NoRow
  <2>. QED  BY <1>10, <2>1, <2>2, <2>3, <2>4 DEF Effects
<1>12. ASSUME NEW t \in Transfer, FailRow(t)
       PROVE  Base' /\ \A u \in Transfer : Effects(u)
  <2>1. /\ UNCHANGED fileVars /\ step = "fail" /\ subject = t /\ phase' = phase /\ known' = known
        /\ state[t] \in PreCommit /\ ~live[t].here /\ Fail(t)
    BY <1>0, <1>12 DEF FailRow, Visited, Goto, ReconcileOK
  <2>2. OnlyDir(t) /\ LiveStep(t) /\ FilesKept(t)
    BY <1>0, <2>1, DirLocal, StagingEffects
  <2>3. code[t] = NoCode /\ Exists(t)
    BY <1>0, <2>1 DEF RowOK, PreCommit, Exists, NoRow
  <2>4. RowStep(t) /\ OnlyRow(t)
    BY <1>0, <2>1, <2>3, RowWrites, RowLocal
  <2>5. state'[t] = "FAILED" /\ live' = live
    BY <1>0, <2>1, <2>3 DEF Fail, StoreInv, StoreTypeOK, fileVars
  <2>6. \/ todo' = todo /\ subject' = t /\ step' = "trashLive"
        \/ todo' = todo \ {t} /\ step' = "pick"
    BY <1>12 DEF FailRow, Visited, Goto
  <2>7. Ended(t)' /\ ~live'[t].here
    BY <2>1, <2>5 DEF Ended, Terminal
  <2>. QED  BY <1>10, <2>1, <2>2, <2>3, <2>4, <2>6, <2>7 DEF Effects
<1>13. ASSUME NEW t \in Transfer, DiscardLive(t)
       PROVE  Base' /\ \A u \in Transfer : Effects(u)
  <2>1. /\ UNCHANGED storeVars /\ step = "trashLive" /\ subject = t /\ TrashLive(t)
        /\ phase' = phase /\ known' = known /\ todo' = todo /\ subject' = t /\ step' = "trashStaging"
        /\ Ended(t)
    BY <1>0, <1>13 DEF DiscardLive, Goto, ReconcileOK
  <2>2. OnlyDir(t) /\ OnlyRow(t)
    BY <1>0, <2>1, DirLocal, RowLocal
  <2>3. RowSame(t) /\ live'[t] = Absent /\ file' = file
    BY <1>0, <2>1 DEF TrashLive, RowSame, storeVars, FilesOK, LayoutTypeOK
  <2>4. FilesKept(t)
    BY <1>0, <2>3, TableLen DEF FilesKept
  <2>5. Effects(t)
    BY <2>1, <2>3, <2>4 DEF Effects, RowStep, LiveStep
  <2>6. Ended(t)' /\ ~live'[t].here /\ (Exists(t)' => Exists(t))
    BY <2>1, <2>3, AbsentDir DEF Ended, RowSame, Exists
  <2>. QED  BY <1>10, <2>1, <2>2, <2>5, <2>6
<1>14. ASSUME NEW t \in Transfer, DiscardStaging(t)
       PROVE  Base' /\ \A u \in Transfer : Effects(u)
  <2>1. /\ UNCHANGED storeVars /\ step = "trashStaging" /\ subject = t /\ TrashStaging(t)
        /\ phase' = phase /\ known' = known
        /\ \/ todo' = todo /\ subject' = t /\ step' = "purge"
           \/ todo' = todo \ {t} /\ step' = "pick"
        /\ Ended(t) /\ (live[t].here => state[t] \in {"DELETING", NoRow})
    BY <1>0, <1>14 DEF DiscardStaging, Goto, Visited, ReconcileOK
  <2>2. OnlyDir(t) /\ OnlyRow(t) /\ LiveStep(t) /\ FilesKept(t)
    BY <1>0, <2>1, DirLocal, RowLocal, StagingEffects
  <2>3. RowSame(t) /\ live' = live
    BY <2>1 DEF TrashStaging, RowSame, storeVars
  <2>4. Ended(t)' /\ (live'[t].here => state'[t] \in {"DELETING", NoRow}) /\ (Exists(t)' => Exists(t))
    BY <2>1, <2>3 DEF Ended, RowSame, Exists
  <2>. QED  BY <1>10, <2>1, <2>2, <2>3, <2>4 DEF Effects, RowStep
<1>15. ASSUME NEW t \in Transfer, PurgeRow(t)
       PROVE  Base' /\ \A u \in Transfer : Effects(u)
  <2>1. /\ UNCHANGED fileVars /\ step = "purge" /\ subject = t /\ Purge(t)
        /\ phase' = phase /\ known' = known /\ todo' = todo \ {t} /\ step' = "pick"
        /\ Ended(t)
    BY <1>0, <1>15 DEF PurgeRow, Visited, ReconcileOK
  <2>2. OnlyDir(t) /\ OnlyRow(t) /\ LiveStep(t) /\ FilesKept(t)
    BY <1>0, <2>1, DirLocal, RowLocal, StagingEffects
  <2>3. state'[t] = NoRow /\ code'[t] = NoCode
    BY <1>0, <2>1 DEF Purge, StoreInv, StoreTypeOK
  <2>4. RowStep(t) /\ ~Exists(t)'
    BY <2>1, <2>3 DEF RowStep, Ended, Exists
  <2>. QED  BY <1>10, <2>1, <2>2, <2>4 DEF Effects
<1>16. ASSUME NEW t \in Transfer, TrashOrphan(t)
       PROVE  Base' /\ \A u \in Transfer : Effects(u)
  <2>1. /\ UNCHANGED <<storeVars, fileVars, phase, known, todo>> /\ phase = "live" /\ t \in todo
        /\ step = "pick" /\ step' = "trashLive" /\ subject' = t
    BY <1>16 DEF TrashOrphan, Goto, Picking
  <2>2. ~Exists(t)
    BY <1>0, <2>1 DEF ReconcileOK
  <2>3. \A u \in Transfer : Effects(u)
    BY <1>4, <2>1 DEF fileVars
  <2>4. ReconcileOK'
    BY <1>0, <2>1, <2>2 DEF ReconcileOK, Ended, Exists, storeVars, fileVars
  <2>. QED  BY <1>3, <2>1, <2>3, <2>4
<1>17. ASSUME NEW t \in Transfer, RemoveOrphan(t)
       PROVE  Base' /\ \A u \in Transfer : Effects(u)
  <2>1. /\ UNCHANGED <<storeVars, phase, known>> /\ phase = "staging" /\ todo' = todo \ {t}
        /\ step = "pick" /\ step' = "pick" /\ RemoveStaging(t)
    BY <1>17 DEF RemoveOrphan, Visited, Picking
  <2>2. OnlyDir(t) /\ OnlyRow(t) /\ LiveStep(t) /\ FilesKept(t)
    BY <1>0, <2>1, DirLocal, RowLocal, StagingEffects
  <2>3. \A u \in Transfer : Effects(u)
    BY <1>5, <2>1, <2>2 DEF Effects, RowStep, RowSame, storeVars
  <2>4. ReconcileOK'
    BY <1>0, <2>1 DEF ReconcileOK, Exists, storeVars
  <2>. QED  BY <1>3, <2>1, <2>3, <2>4
<1>. QED
  BY <1>0, <1>6, <1>7, <1>8, <1>9, <1>11, <1>12, <1>13, <1>14, <1>15, <1>16, <1>17 DEF ReconcileStep

-----------------------------------------------------------------------------
(* The invariant.                                                          *)

LEMMA BaseInit == ServerInit => Base
<1>. SUFFICES ASSUME ServerInit PROVE Base
  OBVIOUS
<1>1. ServerTypes
  BY ServerInitTypes
<1>2. \A r \in Request : pc[r] = "idle" /\ parts[r] = {}
  BY DEF ServerInit, RequestInit
<1>3. \A t \in Transfer : /\ state[t] = NoRow /\ code[t] = NoCode /\ ~live[t].here
  BY AbsentDir DEF ServerInit, StoreInit, LayoutInit
<1>4. \A t \in Transfer : BornOK(t) /\ RowOK(t)
  BY <1>3 DEF BornOK, RowOK, Exists, NoRow
<1>5. \A r \in Request : SentOK(r) /\ RequestOK(r)
  BY <1>2 DEF SentOK, RequestOK, Runs, Resting
<1>6. \A j \in Sweeper : SweepOK(j)
  BY DEF ServerInit, JanitorInit, SweepOK
<1>7. \A c \in Receiver : ReceiverOK(c)
  BY DEF ServerInit, ClaimsInit, ReceiverOK
<1>8. QuietOK /\ ReconcileOK
  BY DEF ServerInit, QuietOK, ReconcileOK
<1>. QED  BY <1>1, <1>4, <1>5, <1>6, <1>7, <1>8 DEF Base

LEMMA BaseNext ==
  ASSUME Base, Calm, [ServerNext]_serverVars
  PROVE  Base' /\ \A u \in Transfer : Effects(u)
<1>0. ServerTypes' /\ now \in Nat
  BY ServerNextTypes, ServiceAssumption DEF Base, ServerTypes
<1>1. CASE UNCHANGED serverVars
  <2>1. /\ UNCHANGED <<storeVars, fileVars, reconcileVars, pc, parts, janitorVars, receiverVars>>
        /\ now <= now'
    BY <1>0, <1>1 DEF serverVars, requestVars
  <2>. QED  BY <1>0, <2>1, IdleKeeps
<1>2. ASSUME NEW r \in Request, ClientLeaves(r) PROVE Base' /\ \A u \in Transfer : Effects(u)
  <2>1. /\ UNCHANGED <<storeVars, fileVars, reconcileVars, pc, parts, janitorVars, receiverVars>>
        /\ now <= now'
    BY <1>0, <1>2 DEF ClientLeaves, Disconnect
  <2>. QED  BY <1>0, <2>1, IdleKeeps
<1>3. CASE TimePasses
  <2>1. /\ UNCHANGED <<storeVars, fileVars, reconcileVars, pc, parts, janitorVars, receiverVars>>
        /\ now <= now'
    BY <1>0, <1>3 DEF TimePasses, Tick, requestVars
  <2>. QED  BY <1>0, <2>1, IdleKeeps
<1>4. ASSUME NEW c \in Claim, HandleClaim(c) PROVE Base' /\ \A u \in Transfer : Effects(u)
  BY <1>0, <1>4, ReceiverKeeps DEF HandleClaim, Receiver
<1>5. ASSUME NEW d \in Download, HandleDownload(d) PROVE Base' /\ \A u \in Transfer : Effects(u)
  BY <1>0, <1>5, ReceiverKeeps DEF HandleDownload, Receiver
<1>. QED
  BY <1>0, <1>1, <1>2, <1>3, <1>4, <1>5, SimpleKeeps, CreateKeeps, PatchKeeps, CommitKeeps, SweepKeeps,
     RestartKeeps, DeathKeeps DEF ServerNext

\* While the conditions hold, so does the invariant.
LEMMA BaseAlways == ServerSpec /\ []Calm => []Base
<1>1. Base /\ Calm /\ [ServerNext]_serverVars => Base'
  BY BaseNext
<1>. QED  BY <1>1, BaseInit, PTL DEF ServerSpec
=============================================================================
