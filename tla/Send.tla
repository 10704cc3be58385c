-------------------------------- MODULE Send -------------------------------
(***************************************************************************)
(* The sending client (internal/client/send.go with internal/pack): one    *)
(* command that is run again until it prints a code.  Between runs only    *)
(* the session file and the packs stay; a run can be killed at any step,   *)
(* its sources can be edited under it, and a request can be lost, answered *)
(* in vain or reach the server late.                                       *)
(*                                                                         *)
(* The server is what its API promises: HEAD answers while there is a row, *)
(* PATCH appends at the exact offset of an open transfer, a commit is      *)
(* repeatable.  Uploads, Commit and Janitor show how it does that.         *)
(***************************************************************************)
EXTENDS Naturals, Sequences

CONSTANTS Raw, Pack,    \* segments: large files, and packs of small ones
          Length,       \* Length[s]: what segment s has on the wire
          Transfer,     \* transfer ids, numbers
          Worker,       \* the upload pool
          LastVersion,  \* a file has versions 0..LastVersion
          MaxFaults,    \* bound on losses, kills, edits and expiries together
          None, Short  \* no such thing; a pack file that was cut short

Segment == Raw \cup Pack
Version == 0..LastVersion
MaxAttempts == 3

ASSUME SendAssumption ==
    /\ Raw \cap Pack = {} /\ Segment # {} /\ Worker # {}
    /\ Length \in [Segment -> Nat \ {0}]
    /\ Transfer \subseteq Nat /\ Transfer # {}
    /\ {LastVersion, MaxFaults} \subseteq Nat
    /\ {None, Short} \cap Version = {} /\ None # Short

VARIABLES source,     \* source[s]: the version of the files of s
          pc,         \* the next statement of Send, "idle" between runs
          plan,       \* what Scan saw; it also stands for the fingerprint
          resumed,
          sess,       \* the session in memory
          packs,      \* packs[s]: the digest of the pack this run uploads
          result,     \* how the last run ended
          todo,       \* segments not yet handed to a worker
          worker,     \* worker[w]: its statement, segment, offset and attempts
          cancelled, failure,
          sessfile,   \* sessfile[p]: the session file for fingerprint p
          packfile,   \* packfile[p][s]: the pack file, or None
          tstate,     \* tstate[t]: the transfer on the server
          declared,   \* declared[t]: the digests it was created with
          got,        \* got[t][s]: the bytes accepted, each by its version
          late,       \* requests the client has given up and the server may yet serve
          answered,   \* transfers whose code has been printed
          dropped,    \* transfers whose session was given up
          faults

runVars == <<pc, plan, resumed, sess, packs, result>>
poolVars == <<todo, worker, cancelled, failure>>
diskVars == <<sessfile, packfile>>
serverVars == <<tstate, declared, got>>
vars == <<source, runVars, poolVars, diskVars, serverVars, late, answered, dropped, faults>>

Plan == [Segment -> Version]
NoPacks == [s \in Pack |-> None]
Session == [t : Transfer, packs : [Pack -> Version \cup {None}]]

ASSUME NoSessionAssumption == None \notin Session

Idle == [at |-> "returned", seg |-> None, off |-> 0, tries |-> 0]

\* FAILED and ABANDONED rows are both "dead": they answer HEAD until the next
\* sweep deletes them, and refuse everything else.
TState == {"gone", "open", "dead", "committed"}

SendInit ==
    /\ source = [s \in Segment |-> 0]
    /\ pc = "idle" /\ plan = source /\ resumed = FALSE
    /\ sess = None /\ packs = NoPacks /\ result = "none"
    /\ todo = {} /\ worker = [w \in Worker |-> Idle]
    /\ cancelled = FALSE /\ failure = "none"
    /\ sessfile = [p \in Plan |-> None]
    /\ packfile = [p \in Plan |-> NoPacks]
    /\ tstate = [t \in Transfer |-> "gone"]
    /\ declared = [t \in Transfer |-> source]
    /\ got = [t \in Transfer |-> [s \in Segment |-> <<>>]]
    /\ late = {} /\ answered = {} /\ dropped = {}
    /\ faults = 0

Fault == faults < MaxFaults /\ faults' = faults + 1

\* The run returns e to the command line, and what it had in memory is gone.
End(e) ==
    /\ pc' = "idle" /\ result' = e
    /\ resumed' = FALSE /\ sess' = None /\ packs' = NoPacks
    /\ todo' = {} /\ worker' = [w \in Worker |-> Idle]
    /\ cancelled' = FALSE /\ failure' = "none"

Continue(next) == pc' = next /\ UNCHANGED result

-----------------------------------------------------------------------------
(* Scan, session and packs.                                                *)

\* pack.Scan and the fingerprint.  The user runs the command until it succeeds.
Scan ==
    /\ pc = "idle" /\ result # "code"
    /\ plan' = source
    /\ result' = "none"
    /\ pc' = "load"
    /\ UNCHANGED <<source, resumed, sess, packs, poolVars, diskVars, serverVars, late, answered, dropped, faults>>

\* removeSession: the file, and the packs the session names.
RemoveSession(x) ==
    /\ sessfile' = [sessfile EXCEPT ![plan] = None]
    /\ packfile' = [packfile EXCEPT ![plan] =
                      [s \in Pack |-> IF x.packs[s] # None THEN None ELSE @[s]]]

\* VerifyUnchanged: sizes and modification times are those of the scan.
Unchanged == source = plan

\* loadSession, and VerifyUnchanged when it finds one.
LoadSession ==
    LET x == sessfile[plan] IN
    /\ pc = "load"
    /\ \/ /\ x = None
          /\ Continue("pack")
          /\ UNCHANGED <<resumed, sess, packs, poolVars, diskVars, dropped>>
       \/ /\ x # None /\ Unchanged
          /\ resumed' = TRUE /\ sess' = x
          /\ Continue("pack")
          /\ UNCHANGED <<packs, poolVars, diskVars, dropped>>
       \/ /\ x # None /\ ~Unchanged
          /\ RemoveSession(x)
          /\ dropped' = dropped \cup {x.t}
          /\ End("SOURCE_CHANGED")
    /\ UNCHANGED <<source, plan, serverVars, late, answered, faults>>

\* packUsable: the file is there in its full size.
Reusable(s) == resumed /\ sess.packs[s] # None /\ packfile[plan][s] \in Version

ReusePack(s) ==
    /\ pc = "pack" /\ packs[s] = None
    /\ Reusable(s)
    /\ packs' = [packs EXCEPT ![s] = sess.packs[s]]
    /\ UNCHANGED <<source, pc, plan, resumed, sess, result, poolVars, diskVars, serverVars,
                   late, answered, dropped, faults>>

\* pack.Build reads the files as they are now: it notices another size, not
\* other bytes.
BuildPack(s) ==
    /\ pc = "pack" /\ packs[s] = None
    /\ ~Reusable(s)
    /\ \/ /\ packs' = [packs EXCEPT ![s] = source[s]]
          /\ packfile' = [packfile EXCEPT ![plan][s] = source[s]]
          /\ UNCHANGED <<pc, result, resumed, sess, poolVars>>
       \/ /\ source[s] # plan[s]
          /\ packfile' = [packfile EXCEPT ![plan][s] = None]
          /\ End("SOURCE_CHANGED")
    /\ UNCHANGED <<source, plan, sessfile, serverVars,
                   late, answered, dropped, faults>>

PacksReady ==
    /\ pc = "pack"
    /\ \A s \in Pack : packs[s] # None
    /\ pc' = IF resumed THEN "alive" ELSE "create"
    /\ UNCHANGED <<source, plan, resumed, sess, packs, result, poolVars, diskVars, serverVars,
                   late, answered, dropped, faults>>

\* HEAD of an upload finds its segment row.
Known(t) == tstate[t] # "gone"

\* sessionAlive: a HEAD that is lost counts like one that finds nothing.
CheckAlive ==
    /\ pc = "alive"
    /\ \/ /\ Known(sess.t)
          /\ pc' = "save"
          /\ UNCHANGED <<resumed, diskVars, dropped, faults>>
       \/ /\ IF Known(sess.t) THEN Fault ELSE UNCHANGED faults
          /\ RemoveSession(sess)
          /\ dropped' = dropped \cup {sess.t}
          /\ resumed' = FALSE
          /\ pc' = "create"
    /\ UNCHANGED <<source, plan, sess, packs, result, poolVars, serverVars, late, answered>>

\* The digests a run declares for its segments.
Digests == [s \in Segment |-> IF s \in Raw THEN plan[s] ELSE packs[s]]

\* Ids are never used twice: one is free again when nothing refers to it.
Free == {t \in Transfer :
            /\ tstate[t] = "gone"
            /\ \A p \in Plan : sessfile[p] # None => sessfile[p].t # t
            /\ \A q \in late : q.t # t}
FreshId == CHOOSE t \in Free : \A u \in Free : t <= u

Insert(t) ==
    /\ tstate' = [tstate EXCEPT ![t] = "open"]
    /\ declared' = [declared EXCEPT ![t] = Digests]
    /\ answered' = answered \ {t} /\ dropped' = dropped \ {t}
    /\ UNCHANGED got

\* POST /v1/transfers.  It carries no key: when the answer is lost the transfer
\* stays behind on the server.
Create ==
    /\ pc = "create" /\ Free # {}
    /\ \/ /\ Insert(FreshId)
          /\ sess' = [t |-> FreshId, packs |-> packs]
          /\ Continue("save")
          /\ UNCHANGED <<resumed, packs, poolVars, faults>>
       \/ /\ Fault
          /\ Insert(FreshId) \/ UNCHANGED <<serverVars, answered, dropped>>
          /\ End("NETWORK")
    /\ UNCHANGED <<source, plan, diskVars, late>>

\* Seeded fault: the session is kept in memory only.
WriteNothing(x) == UNCHANGED sessfile

\* saveSession.
WriteSession(x) == sessfile' = [sessfile EXCEPT ![plan] = x]

\* The session is saved before the first byte is sent; then the pool is started
\* with every segment still to be fed.
SaveSession ==
    /\ pc = "save"
    /\ sess' = [sess EXCEPT !.packs = packs]
    /\ WriteSession(sess')
    /\ todo' = Segment
    /\ worker' = [w \in Worker |-> [Idle EXCEPT !.at = "wait"]]
    /\ cancelled' = FALSE /\ failure' = "none"
    /\ pc' = "upload"
    /\ UNCHANGED <<source, plan, resumed, packs, result, packfile, serverVars,
                   late, answered, dropped, faults>>

-----------------------------------------------------------------------------
(* uploadSegments and uploadOne.                                           *)

Go(w, r) == worker' = [worker EXCEPT ![w] = r]

\* An unbuffered channel: a segment goes to a worker that waits for one.
Feed(w, s) ==
    /\ pc = "upload" /\ s \in todo /\ worker[w].at = "wait"
    /\ todo' = todo \ {s}
    /\ Go(w, [at |-> "head", seg |-> s, off |-> 0, tries |-> 0])
    /\ UNCHANGED <<source, runVars, cancelled, failure, diskVars, serverVars,
                   late, answered, dropped, faults>>

\* Seeded fault: the feeder sends without watching the context.
FeedStuck(s) == FALSE /\ UNCHANGED vars

\* The other case of the select: the segment is passed over.
FeedCancelled(s) ==
    /\ pc = "upload" /\ s \in todo /\ cancelled
    /\ todo' = todo \ {s}
    /\ UNCHANGED <<source, runVars, worker, cancelled, failure, diskVars, serverVars,
                   late, answered, dropped, faults>>

\* setErr, cancel and return.
WorkerFails(w, e) ==
    /\ Go(w, Idle)
    /\ cancelled' = TRUE
    /\ failure' = IF failure = "none" THEN e ELSE failure

Retry(w) ==
    IF worker[w].tries + 1 < MaxAttempts
    THEN /\ Go(w, [worker[w] EXCEPT !.at = "head", !.tries = @ + 1])
         /\ UNCHANGED <<cancelled, failure>>
    ELSE WorkerFails(w, "NETWORK")

\* A cancelled request fails of itself; any other loss is a fault.
Lost == IF cancelled THEN UNCHANGED faults ELSE Fault

\* UploadOffset, and opening the file when bytes are missing.
HeadOffset(w) ==
    LET s == worker[w].seg  n == Len(got[sess.t][s]) IN
    /\ worker[w].at = "head"
    /\ \/ Lost /\ WorkerFails(w, "NETWORK")
       \/ /\ UNCHANGED faults
          /\ IF ~Known(sess.t) THEN WorkerFails(w, "NOT_FOUND")
             ELSE IF n < Length[s] /\ s \in Pack /\ packfile[plan][s] = None
                  THEN WorkerFails(w, "SOURCE_CHANGED")
             ELSE /\ Go(w, IF n = Length[s] THEN [Idle EXCEPT !.at = "wait"]
                           ELSE [worker[w] EXCEPT !.at = "patch", !.off = n])
                  /\ UNCHANGED <<cancelled, failure>>
    /\ UNCHANGED <<source, runVars, todo, diskVars, serverVars, late, answered, dropped>>

\* The PATCH of worker w; its body is read from the file as it is now.
PatchOf(w) ==
    LET s == worker[w].seg
    IN  [op |-> "patch", t |-> sess.t, seg |-> s, off |-> worker[w].off,
         v |-> IF s \in Raw THEN source[s] ELSE packfile[plan][s]]

\* Seeded fault: the offset of a PATCH is not compared.
AcceptsAnywhere(q) == tstate[q.t] = "open"

\* Exact offset, open transfer.
Accepts(q) == tstate[q.t] = "open" /\ Len(got[q.t][q.seg]) = q.off

\* n bytes of the body of q arrive.
Take(q, n) == got' = [got EXCEPT ![q.t][q.seg] = @ \o [i \in 1..n |-> q.v]]

\* UploadPatch, answered, refused or lost.
Patch(w) ==
    LET q == PatchOf(w)  rest == Length[q.seg] - q.off IN
    /\ worker[w].at = "patch"
    /\ \/ /\ Accepts(q)
          /\ Take(q, rest)
          /\ Go(w, [Idle EXCEPT !.at = "wait"])
          /\ UNCHANGED <<cancelled, failure, late, faults>>
       \/ /\ ~Accepts(q)
          /\ CASE tstate[q.t] = "gone" -> WorkerFails(w, "NOT_FOUND")
               [] tstate[q.t] \in {"dead", "committed"} -> WorkerFails(w, "STATE_CONFLICT")
               [] OTHER -> Retry(w)
          /\ UNCHANGED <<got, late, faults>>
       \/ /\ Lost
          /\ late' = late \cup {q}
          /\ Retry(w)
          /\ UNCHANGED got
       \/ /\ Accepts(q) /\ Fault
          /\ \E n \in 0..rest : Take(q, n)
          /\ WorkerFails(w, "REFUSED")
          /\ UNCHANGED late
    /\ UNCHANGED <<source, runVars, todo, diskVars, tstate, declared, answered, dropped>>

\* The channel is closed, which ends the workers that wait, and wg.Wait returns.
UploadsEnd ==
    /\ pc = "upload" /\ todo = {}
    /\ \A w \in Worker : worker[w].at \in {"wait", "returned"}
    /\ \/ /\ failure = "none"
          /\ Continue("commit")
          /\ worker' = [w \in Worker |-> Idle]
          /\ UNCHANGED <<resumed, sess, packs, todo, cancelled, failure>>
       \/ /\ failure # "none"
          /\ End(failure)
    /\ UNCHANGED <<source, plan, diskVars, serverVars,
                   late, answered, dropped, faults>>

-----------------------------------------------------------------------------
(* Commit.                                                                 *)

CommitOf == [op |-> "commit", t |-> sess.t, plan |-> plan, digests |-> Digests]

Uniform(t, s, v) == got[t][s] = [i \in 1..Length[s] |-> v]

\* Seeded fault: only the lengths of the segments are compared.
LengthsMatch(q) == \A s \in Segment : Len(got[q.t][s]) = Length[s]

\* Every segment is complete and has the digest of the manifest and of its
\* declaration.
SegmentsMatch(q) ==
    /\ q.digests = declared[q.t]
    /\ \A s \in Segment : Uniform(q.t, s, q.digests[s])

\* A pack whose files differ from the manifest fails in materialization.
Committable(q) == tstate[q.t] = "open" /\ SegmentsMatch(q)

CommitEffect(q) ==
    tstate' = IF Committable(q)
              THEN [tstate EXCEPT ![q.t] = IF \A s \in Pack : q.digests[s] = q.plan[s]
                                           THEN "committed" ELSE "dead"]
              ELSE tstate

Commit ==
    /\ pc = "commit"
    /\ \/ /\ CommitEffect(CommitOf)
          /\ IF tstate'[sess.t] = "committed"
             THEN Continue("close") /\ UNCHANGED <<resumed, sess, packs, poolVars>>
             ELSE End("REFUSED")
          /\ UNCHANGED <<late, faults>>
       \/ /\ Fault
          /\ late' = late \cup {CommitOf}
          /\ End("NETWORK")
          /\ UNCHANGED tstate
    /\ UNCHANGED <<source, plan, diskVars, declared, got, answered, dropped>>

CloseSession ==
    /\ pc = "close"
    /\ RemoveSession(sess)
    /\ pc' = "print"
    /\ UNCHANGED <<source, plan, resumed, sess, packs, result, poolVars, serverVars,
                   late, answered, dropped, faults>>

ReportCode ==
    /\ pc = "print"
    /\ answered' = answered \cup {sess.t}
    /\ End("code")
    /\ UNCHANGED <<source, plan, diskVars, serverVars, late, dropped, faults>>

ClientStep ==
    \/ Scan \/ LoadSession \/ PacksReady \/ CheckAlive \/ Create \/ SaveSession
    \/ \E s \in Pack : ReusePack(s) \/ BuildPack(s)
    \/ \E s \in Segment : FeedCancelled(s) \/ \E w \in Worker : Feed(w, s)
    \/ \E w \in Worker : HeadOffset(w) \/ Patch(w)
    \/ UploadsEnd \/ Commit \/ CloseSession \/ ReportCode

-----------------------------------------------------------------------------
(* What happens around a run.                                              *)

\* Killed inside a step, saveSession leaves a file that does not parse and Build
\* one that is too short.
Kill ==
    /\ pc # "idle" /\ Fault
    /\ End("killed")
    /\ late' = late \cup {PatchOf(w) : w \in {x \in Worker : worker[x].at = "patch"}}
                    \cup (IF pc = "commit" THEN {CommitOf} ELSE {})
    /\ \/ /\ dropped' = IF pc = "print" THEN dropped \cup {sess.t} ELSE dropped
          /\ UNCHANGED diskVars
       \/ /\ pc = "save"
          /\ sessfile' = [sessfile EXCEPT ![plan] = None]
          /\ dropped' = dropped \cup {sess.t}
          /\ UNCHANGED packfile
       \/ /\ pc = "pack"
          /\ \E s \in Pack : /\ packs[s] = None /\ ~Reusable(s)
                             /\ packfile' = [packfile EXCEPT ![plan][s] = Short]
          /\ UNCHANGED <<sessfile, dropped>>
    /\ UNCHANGED <<source, plan, serverVars, answered>>

\* The files of a segment change, and their modification time with them.
Edit(s) ==
    /\ Fault /\ source[s] < LastVersion
    /\ source' = [source EXCEPT ![s] = @ + 1]
    /\ UNCHANGED <<runVars, poolVars, diskVars, serverVars, late, answered, dropped>>

\* The server gets to a request the client has given up, in part or not at all,
\* or stops while it serves a commit.
Arrive(q) ==
    /\ q \in late
    /\ late' = late \ {q}
    /\ \/ UNCHANGED <<tstate, got>>
       \/ /\ q.op = "patch" /\ Accepts(q)
          /\ \E n \in 1..(Length[q.seg] - q.off) : Take(q, n)
          /\ UNCHANGED tstate
       \/ /\ q.op = "commit" /\ Committable(q)
          /\ \/ CommitEffect(q)
             \/ tstate' = [tstate EXCEPT ![q.t] = "dead"]
          /\ UNCHANGED got
    /\ UNCHANGED <<source, runVars, poolVars, diskVars, declared, answered, dropped, faults>>

InUse(t) == \/ pc # "idle" /\ sess # None /\ sess.t = t
            \/ \E p \in Plan : sessfile[p] # None /\ sessfile[p].t = t

\* Sweeps: staging that is too old is abandoned, a handoff expires, and dead rows
\* are deleted.  Before its time comes nothing that is in use goes.
Age(t) ==
    /\ tstate[t] \in {"open", "committed"}
    /\ IF InUse(t) THEN Fault ELSE UNCHANGED faults
    /\ tstate' = [tstate EXCEPT ![t] = "dead"]
    /\ UNCHANGED <<source, runVars, poolVars, diskVars, declared, got, late, answered, dropped>>

Purge(t) ==
    /\ tstate[t] = "dead"
    /\ tstate' = [tstate EXCEPT ![t] = "gone"]
    /\ declared' = [declared EXCEPT ![t] = [s \in Segment |-> 0]]
    /\ got' = [got EXCEPT ![t] = [s \in Segment |-> <<>>]]
    /\ UNCHANGED <<source, runVars, poolVars, diskVars, late, answered, dropped, faults>>

Sweep == \E t \in Transfer : (~InUse(t) /\ Age(t)) \/ Purge(t)

SendNext ==
    \/ ClientStep
    \/ Kill
    \/ \E s \in Segment : Edit(s)
    \/ \E q \in late : Arrive(q)
    \/ \E t \in Transfer : Age(t) \/ Purge(t)

\* The command runs, and is run again until it prints a code; sweeps go on.
SendSpec == SendInit /\ [][SendNext]_vars /\ WF_vars(ClientStep) /\ WF_vars(Sweep)

-----------------------------------------------------------------------------
(* Properties.                                                             *)

\* Variables have their types, and no segment gets more bytes than it has.
SendTypeOK ==
    /\ source \in Plan /\ plan \in Plan
    /\ sess \in Session \cup {None}
    /\ packs \in [Pack -> Version \cup {None}]
    /\ sessfile \in [Plan -> Session \cup {None}]
    /\ packfile \in [Plan -> [Pack -> Version \cup {None, Short}]]
    /\ tstate \in [Transfer -> TState]
    /\ \A t \in Transfer, s \in Segment : Len(got[t][s]) \in 0..Length[s]

\* The code a run is about to print stands for the bytes that run scanned, in
\* every segment, although it may resume what runs before it uploaded, reuse their
\* packs, race their late requests, and lose the sources under its hands.
SentIsScanned ==
    pc \in {"close", "print"} /\ tstate[sess.t] = "committed"
    => \A s \in Segment : Uniform(sess.t, s, plan[s])

\* A handoff whose code was never printed, because the run was killed or the
\* answer lost, is found again by the next run: its session is still there, unless
\* a run has given it up.
CodeRecoverable ==
    \A t \in Transfer : tstate[t] = "committed" =>
        \/ t \in answered \cup dropped
        \/ \E p \in Plan : sessfile[p] # None /\ sessfile[p].t = t
        \/ pc = "print" /\ sess.t = t

\* Once the faults are over, running the command again sooner or later prints a
\* code: every run ends, so that a failing worker never leaves the feeder waiting,
\* and no session, pack or transfer left by earlier runs stands in the way for ever.
RerunSucceeds == <>(result = "code")

\* SOURCE_CHANGED is only reported when a source has changed since the scan.
SourceChangedOnlyIfChanged == result = "SOURCE_CHANGED" => source # plan
=============================================================================
