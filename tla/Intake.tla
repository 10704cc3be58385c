------------------------------- MODULE Intake ------------------------------
(***************************************************************************)
(* How the server takes uploads in (internal/api/public with               *)
(* internal/admission): idempotency keys and disk admission around the     *)
(* simple, raw and create handlers, up to the moment a transfer is gone    *)
(* again.  Every request makes at most one transfer, and both have one     *)
(* name.  Staging, publication and the sweep are modelled step by step in  *)
(* Publication, Uploads, Commit and Janitor; here they are only what they  *)
(* do to rows, keys and bytes.                                             *)
(***************************************************************************)
EXTENDS Idempotency, Admission, FiniteSets

CONSTANTS SimpleT,      \* POST /s and /s/raw; the others are POST /v1/transfers
          KeyOf,        \* KeyOf[t]: the key of the request that makes t, or NoKey
          PrintOf,      \* PrintOf[t]: its fingerprint
          Size,         \* Size[t]: the bytes it declares or streams
          StagingTTL,   \* storage.staging_ttl_minutes
          MaxTime,      \* bound on the clock
          MaxCrash,     \* bound on process crashes
          MaxUploads,   \* limits.max_concurrent_uploads, the slots for PATCHes
          Slow          \* a handler may outlast the lifetimes it works with

ASSUME IntakeAssumption ==
    /\ SimpleT \subseteq Transfer
    /\ KeyOf \in [Transfer -> Key \cup {NoKey}]
    /\ PrintOf \in [Transfer -> Fingerprint]
    /\ Size \in [Transfer -> Nat \ {0}]
    /\ {StagingTTL, MaxTime, MaxCrash} \subseteq Nat
    /\ 0..MaxTime \subseteq Time
    /\ MaxUploads \in Nat \ {0}
    /\ Slow \in BOOLEAN

VARIABLES pc,        \* pc[t]: the next statement of the request that makes t
          gone,      \* gone[t]: its client has left, which cancels its context
          answer,    \* answer[t]: the code it was answered, or NoCode
          live,      \* live[t]: its directory has been renamed to live
          patches,   \* patches[t]: how many PATCHes of t have passed a check and go on
          now,
          up,        \* startup reconciliation is done
          crashes

intakeVars == <<pc, gone, answer, live, now, up, crashes, patches>>
vars == <<storeVars, keyrow, admissionVars, intakeVars>>

IntakeInit ==
    /\ StoreInit /\ KeysInit /\ AdmissionInit
    /\ pc = [t \in Transfer |-> "idle"]
    /\ gone = [t \in Transfer |-> FALSE]
    /\ answer = [t \in Transfer |-> NoCode]
    /\ live = [t \in Transfer |-> FALSE]
    /\ patches = [t \in Transfer |-> 0]
    /\ now = 0
    /\ up = TRUE
    /\ crashes = 0

Resting == {"idle", "created", "done"}
\* A request that is over no longer has a client to lose.
Goto(t, next) ==
    /\ pc' = [pc EXCEPT ![t] = next]
    /\ gone' = [gone EXCEPT ![t] = @ /\ next \notin Resting]

-----------------------------------------------------------------------------
(* What the three handlers share.                                          *)

\* beginIdempotent.
Begin(t) ==
    LET k == KeyOf[t]  p == PrintOf[t] IN
    /\ pc[t] = "idle"
    /\ \/ /\ Fresh(k)
          /\ Remember(k, p, now)
          /\ Goto(t, "check")
          /\ UNCHANGED answer
       \/ /\ Replays(k, p)
          /\ answer' = [answer EXCEPT ![t] = keyrow[k].code]
          /\ Goto(t, "done")
          /\ UNCHANGED keyrow
       \/ /\ KeyRefused(k, p)
          /\ Goto(t, "done")
          /\ UNCHANGED <<answer, keyrow>>
    /\ UNCHANGED <<live, now, up, crashes, patches, storeVars, admissionVars>>

\* Admission, before anything is written.
Check(t) ==
    /\ pc[t] = "check"
    /\ Goto(t, IF (IF t \in SimpleT THEN CheckStreaming ELSE Admit(Size[t]))
               THEN "insert" ELSE "forget")
    /\ UNCHANGED <<answer, live, now, up, crashes, patches, storeVars, keyrow, admissionVars>>

\* The row; only a resumable transfer reserves.  A create handler has read its
\* body, so its client may be gone; the next byte of a simple upload may never
\* come.
Insert(t) ==
    /\ pc[t] = "insert"
    /\ \E minutes \in TTL :
        \/ /\ ~gone[t]
           /\ CreateTransfer(t, now, minutes)
           /\ reserved' = [reserved EXCEPT ![t] = IF t \in SimpleT THEN 0 ELSE Reserve(Size[t])]
           /\ Goto(t, IF t \in SimpleT THEN "body" ELSE "complete")
        \/ /\ gone[t]
           /\ Goto(t, "forget")
           /\ UNCHANGED <<reserved, storeVars>>
    /\ UNCHANGED <<answer, live, now, up, crashes, patches, keyrow, disk>>

\* completeIdempotent, then the answer.  A create has no code yet.  When the
\* context is cancelled the key stays as it is.
Finish(t) ==
    /\ pc[t] = "complete"
    /\ IF gone[t]
       THEN UNCHANGED <<keyrow, answer>>
       ELSE /\ CompleteIdempotency(KeyOf[t], t, code[t])
            /\ answer' = [answer EXCEPT ![t] = code[t]]
    /\ Goto(t, IF t \in SimpleT THEN "done" ELSE "created")
    /\ UNCHANGED <<live, now, up, crashes, patches, storeVars, admissionVars>>

\* forget, so that a retry may use the key.
ForgetKey(t) ==
    /\ pc[t] = "forget"
    /\ IF gone[t] THEN UNCHANGED keyrow ELSE ForgetIdempotency(KeyOf[t])
    /\ Goto(t, "abort")
    /\ UNCHANGED <<answer, live, now, up, crashes, patches, storeVars, admissionVars>>

\* Purge with everything that refers to the row.
PurgeRow(t) ==
    /\ Purge(t)
    /\ PurgeKeysOf(t)
    /\ reserved' = [reserved EXCEPT ![t] = 0]

\* The deferred Abort: what is staged goes, and what is in live stays; the row
\* goes only while the client is there.
AbortUpload(t) ==
    /\ pc[t] = "abort"
    /\ disk' = IF live[t] THEN disk ELSE [disk EXCEPT ![t] = 0]
    /\ IF gone[t] THEN UNCHANGED <<storeVars, keyrow, reserved>> ELSE PurgeRow(t)
    /\ Goto(t, "done")
    /\ UNCHANGED <<answer, live, now, up, crashes, patches>>

\* A client that has sent its whole request disconnects.
Leave(t) ==
    /\ pc[t] \notin Resting \cup {"body", "guard"}
    /\ t \in SimpleT => pc[t] \notin {"check", "insert"}
    /\ ~gone[t]
    /\ gone' = [gone EXCEPT ![t] = TRUE]
    /\ UNCHANGED <<pc, answer, live, now, up, crashes, patches, storeVars, keyrow, admissionVars>>

-----------------------------------------------------------------------------
(* Bytes.                                                                  *)

\* A unit of a simple upload is written, and checked after it is written, except
\* for a last one that is shorter.
Stream(t) ==
    /\ pc[t] = "body"
    /\ Exists(t)
    /\ disk[t] < Size[t]
    /\ disk' = [disk EXCEPT ![t] = @ + 1]
    /\ \/ Goto(t, "guard")
       \/ disk[t] + 1 = Size[t] /\ UNCHANGED <<pc, gone>>
    /\ UNCHANGED <<answer, live, now, up, crashes, patches, storeVars, keyrow, reserved>>

\* Seeded fault: what the check returns is dropped.
GuardIgnored(t) ==
    /\ pc[t] = "guard"
    /\ Goto(t, "body")
    /\ UNCHANGED <<answer, live, now, up, crashes, patches, storeVars, keyrow, admissionVars>>

Guard(t) ==
    /\ pc[t] = "guard"
    /\ Goto(t, IF CheckStreaming THEN "body" ELSE "forget")
    /\ UNCHANGED <<answer, live, now, up, crashes, patches, storeVars, keyrow, admissionVars>>

\* The body ends, or it breaks, is refused, or finds its directory gone.
EndBody(t) ==
    /\ pc[t] = "body"
    /\ \/ disk[t] = Size[t] /\ Goto(t, "verify")
       \/ Goto(t, "forget")
    /\ UNCHANGED <<answer, live, now, up, crashes, patches, storeVars, keyrow, admissionVars>>

\* The upload slots that PATCHes hold.
SlotsTaken == MapThenSumSet(LAMBDA t : patches[t], Transfer)

\* A PATCH of a resumable transfer takes a slot and starts, unless the watermark
\* is reached.  Its sender uploads segments in parallel.
StartPatch(t) ==
    /\ pc[t] = "created"
    /\ state[t] \in {"CREATED", "UPLOADING"}
    /\ disk[t] < Size[t]
    /\ SlotsTaken < MaxUploads
    /\ CheckStreaming
    /\ SetState(t, "UPLOADING")
    /\ patches' = [patches EXCEPT ![t] = @ + 1]
    /\ UNCHANGED <<pc, gone, answer, live, now, up, crashes, keyrow, admissionVars>>

\* It writes a unit, whatever has become of the state meanwhile, and goes on if
\* the check after it passes; what others write between the two might as well have
\* been written before both.
WritePatch(t) ==
    /\ patches[t] > 0
    /\ Exists(t)
    /\ disk[t] < Size[t]
    /\ disk' = [disk EXCEPT ![t] = @ + 1]
    /\ IF Below(1) THEN UNCHANGED patches ELSE patches' = [patches EXCEPT ![t] = @ - 1]
    /\ UNCHANGED <<pc, gone, answer, live, now, up, crashes, storeVars, keyrow, reserved>>

\* Its body ends or breaks.
EndPatch(t) ==
    /\ patches[t] > 0
    /\ patches' = [patches EXCEPT ![t] = @ - 1]
    /\ UNCHANGED <<pc, gone, answer, live, now, up, crashes, storeVars, keyrow, admissionVars>>

\* The commit of a resumable transfer starts.
StartCommit(t) ==
    /\ pc[t] = "created"
    /\ state[t] \in PreCommit
    /\ disk[t] = Size[t]
    /\ Goto(t, "verify")
    /\ UNCHANGED <<answer, live, now, up, crashes, patches, storeVars, keyrow, admissionVars>>

-----------------------------------------------------------------------------
(* Publication.                                                            *)

\* What a failed commit leads to: a simple upload is aborted, a resumable one
\* keeps its row.
Failed(t) == IF t \in SimpleT THEN "forget" ELSE "done"

\* SetState(VERIFYING).  A resumable transfer unpacks what it received before the
\* rename.
Verify(t) ==
    /\ pc[t] = "verify"
    /\ \/ /\ ~gone[t] /\ Exists(t)
          /\ SetState(t, "VERIFYING")
          /\ Goto(t, IF t \in SimpleT THEN "rename" ELSE "unpack")
       \/ /\ gone[t] \/ ~Exists(t)
          /\ Goto(t, Failed(t))
          /\ UNCHANGED storeVars
    /\ UNCHANGED <<answer, live, now, up, crashes, patches, keyrow, admissionVars>>

\* Packs stay beside what is extracted from them: at most as much again.
Unpack(t) ==
    /\ pc[t] = "unpack"
    /\ \/ /\ Exists(t)
          /\ \E more \in 0..Size[t] : disk' = [disk EXCEPT ![t] = @ + more]
          /\ Goto(t, "rename")
          /\ UNCHANGED storeVars
       \/ /\ IF gone[t] THEN UNCHANGED storeVars ELSE Fail(t)
          /\ Goto(t, "done")
          /\ UNCHANGED disk
    /\ UNCHANGED <<answer, live, now, up, crashes, patches, keyrow, reserved>>

Rename(t) ==
    /\ pc[t] = "rename"
    /\ live' = [live EXCEPT ![t] = Exists(t)]
    /\ Goto(t, IF Exists(t) THEN "allocate" ELSE Failed(t))
    /\ UNCHANGED <<answer, now, up, crashes, patches, storeVars, keyrow, admissionVars>>

\* Publish in the repository, which releases the reservation.
PublishRow(t, c) ==
    /\ Allocate(t, now, ttl[t], c)
    /\ reserved' = [reserved EXCEPT ![t] = 0]

\* The codes in use never run out.
AllocateCode(t) ==
    /\ pc[t] = "allocate"
    /\ \/ \E c \in Code :
            /\ ~gone[t]
            /\ PublishRow(t, c)
            /\ IF t \in SimpleT THEN Goto(t, "complete") /\ UNCHANGED answer
               ELSE Goto(t, "done") /\ answer' = [answer EXCEPT ![t] = c]
       \/ /\ gone[t] \/ ~Exists(t)
          /\ Goto(t, Failed(t))
          /\ UNCHANGED <<answer, storeVars, reserved>>
    /\ UNCHANGED <<live, now, up, crashes, patches, keyrow, disk>>

UploadStep(t) ==
    \/ Begin(t) \/ Check(t) \/ Insert(t) \/ Finish(t) \/ ForgetKey(t) \/ AbortUpload(t)
    \/ Stream(t) \/ Guard(t) \/ EndBody(t)
    \/ StartPatch(t) \/ WritePatch(t) \/ EndPatch(t) \/ StartCommit(t)
    \/ Verify(t) \/ Unpack(t) \/ Rename(t) \/ AllocateCode(t)

-----------------------------------------------------------------------------
(* The sweep.  Listing a transfer and deleting it is one step here.        *)

SweepExpire ==
    /\ \E t \in Transfer : state[t] = "COMMITTED" /\ expires[t] <= now
    /\ ExpireDue(now)
    /\ UNCHANGED <<keyrow, admissionVars, intakeVars>>

\* Unless Slow, not while a handler works on the transfer: the staging lifetime
\* counts from creation, whatever has happened since.
SweepAbandon(t) ==
    /\ t \in StaleStaging(now, StagingTTL)
    /\ Slow \/ pc[t] \in Resting \cup {"body"}
    /\ SetState(t, "ABANDONED")
    /\ UNCHANGED <<keyrow, admissionVars, intakeVars>>

SweepDelete(t) ==
    /\ t \in UnpinnedExpired(now)
    /\ PurgeRow(t)
    /\ disk' = [disk EXCEPT ![t] = 0]
    /\ live' = [live EXCEPT ![t] = FALSE]
    /\ UNCHANGED <<pc, gone, answer, now, up, crashes, patches>>

SweepKeys ==
    /\ \E k \in Key : Held(k) /\ keyrow[k].until <= now
    /\ PurgeExpiredIdempotency(now)
    /\ UNCHANGED <<storeVars, admissionVars, intakeVars>>

Sweep == SweepExpire \/ SweepKeys \/ \E t \in Transfer : SweepAbandon(t) \/ SweepDelete(t)

-----------------------------------------------------------------------------
(* Crash and startup reconciliation.                                       *)

Crash ==
    /\ crashes < MaxCrash
    /\ crashes' = crashes + 1
    /\ up' = FALSE
    /\ pc' = [t \in Transfer |-> IF pc[t] \in Resting THEN pc[t] ELSE "done"]
    /\ gone' = [t \in Transfer |-> FALSE]
    /\ patches' = [t \in Transfer |-> 0]
    /\ UNCHANGED <<answer, live, now, storeVars, keyrow, admissionVars>>

\* A publication that was interrupted is completed after the rename, and failed
\* before it.  Either way its key, if it has one, is left as it was.
Reconcile(t) ==
    /\ ~up
    /\ state[t] = "VERIFYING"
    /\ \/ /\ live[t]
          /\ \E c \in Code : PublishRow(t, c)
          /\ UNCHANGED disk
       \/ /\ ~live[t]
          /\ Fail(t)
          /\ disk' = [disk EXCEPT ![t] = 0]
          /\ UNCHANGED reserved
    /\ UNCHANGED <<keyrow, intakeVars>>

\* What has no row is removed, and the server is ready.
Ready ==
    /\ ~up
    /\ \A t \in Transfer : state[t] # "VERIFYING"
    /\ disk' = [t \in Transfer |-> IF Exists(t) THEN disk[t] ELSE 0]
    /\ up' = TRUE
    /\ UNCHANGED <<pc, gone, answer, live, now, crashes, patches, storeVars, keyrow, reserved>>

Restart == Ready \/ \E t \in Transfer : Reconcile(t)

\* Unless Slow, the clock waits for handlers, except for those that wait for
\* their client, and for these it stops before their key ends.
Tick ==
    /\ now < MaxTime
    /\ Slow \/ \A t \in Transfer :
                  \/ pc[t] \in Resting
                  \/ pc[t] = "body" /\ (Held(KeyOf[t]) => now + 1 < keyrow[KeyOf[t]].until)
    /\ now' = now + 1
    /\ UNCHANGED <<pc, gone, answer, live, up, crashes, patches, storeVars, keyrow, admissionVars>>

\* The modelled clock has run out and no request is being handled.
Ended ==
    /\ up /\ now = MaxTime
    /\ \A t \in Transfer : pc[t] \in Resting
    /\ UNCHANGED vars

IntakeNext ==
    \/ up /\ \E t \in Transfer : UploadStep(t)
    \/ up /\ \E t \in Transfer : Leave(t)
    \/ up /\ Sweep
    \/ Restart
    \/ Crash
    \/ Tick
    \/ Ended

IntakeSpec == IntakeInit /\ [][IntakeNext]_vars

\* The server's own steps and the clock go on while there are any; no client is
\* obliged to send anything.  Every handler is a finite run of steps, so none of
\* them can starve another for ever.
ServerStep ==
    \/ up /\ \E t \in Transfer : pc[t] \notin Resting \cup {"body"} /\ UploadStep(t)
    \/ up /\ Sweep
    \/ Restart
    \/ Tick

IntakeFairSpec == IntakeSpec /\ WF_vars(ServerStep)

-----------------------------------------------------------------------------
(* Properties.                                                             *)

\* Rows, keys and byte counts have their types; a transfer never occupies more
\* than it reserved for.
IntakeTypeOK ==
    /\ StoreTypeOK
    /\ keyrow \in [Key -> Entry \cup {NoEntry}]
    /\ \A t \in Transfer : reserved[t] \in {0, Reserve(Size[t])} /\ disk[t] \in 0..Reserve(Size[t])
    /\ answer \in [Transfer -> Code \cup {NoCode}]
    /\ live \in [Transfer -> BOOLEAN]
    /\ patches \in [Transfer -> Nat]

\* Repeating a request with its key never makes a second handoff beside the
\* first: not while the first request is still running, not after it failed, not
\* after its client left or the server crashed between publication and the
\* recording of the result.
OneHandoffPerKey ==
    \A t, u \in Transfer :
        t # u /\ KeyOf[t] = KeyOf[u] /\ KeyOf[t] # NoKey /\ Committed(t) /\ Committed(u)
        => created[t] + KeyTTL <= created[u] \/ created[u] + KeyTTL <= created[t]

\* The code a request is answered is that of its own transfer or of one that was
\* made with the same key and fingerprint: a remembered result never leads to a
\* stranger's handoff, although codes are used again after a purge.
AnswersOwnCode ==
    [][\A t \in Transfer : answer'[t] # answer[t] =>
        \E u \in Transfer :
            /\ code'[u] = answer'[t]
            /\ \/ u = t
               \/ KeyOf[u] = KeyOf[t] /\ KeyOf[t] # NoKey /\ PrintOf[u] = PrintOf[t]]_vars

\* What uploads have been sent, without what commits unpack beside it.
Sent(t) == IF disk[t] < Size[t] THEN disk[t] ELSE Size[t]

\* However uploads overlap, what they have been sent passes the watermark by less
\* than a unit for each upload slot and each simple upload: whoever passes a check
\* of CheckStreaming writes one unit before the next, also when others write
\* between the two, when transfers are abandoned or deleted under their handlers,
\* and whatever was reserved.
BoundedOvershoot ==
    MapThenSumSet(Sent, Transfer)
        < Limit + MaxUploads + Cardinality({t \in SimpleT : disk[t] > 0})

\* Concurrent uploads cannot overcommit the disk together (package admission):
\* what they occupy, unpacked or not, stays within the watermark.
NoOvercommit == Used <= Limit

\* A body that never ends holds the modelled clock back.
Waiting == \E t \in Transfer : pc[t] = "body"

\* A key whose request did not get to its result is free again in the end, also
\* when its client left or the server crashed.
PendingKey(k) == Held(k) /\ keyrow[k].transfer = NoTransfer

KeysReleased ==
    \A k \in Key : PendingKey(k) ~> ~PendingKey(k) \/ keyrow[k].until > MaxTime \/ Waiting
=============================================================================
