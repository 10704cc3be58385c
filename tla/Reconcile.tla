----------------------------- MODULE Reconcile -----------------------------
(***************************************************************************)
(* Startup reconciliation (internal/reconcile): it runs alone, before the  *)
(* listeners accept and before the janitor starts, and makes the rows and  *)
(* the directories that a crash left behind agree again.                   *)
(*                                                                         *)
(* known is the map AllTransferIDs returned; todo are the keys of it that  *)
(* the loop has not visited; phase is the loop the function is in, with    *)
(* "down" before the start and "ready" once readiness is declared; step is *)
(* the next statement for transfer subject.  Each database write and each  *)
(* half of ToTrash is a step of its own, and Crash may fall between any    *)
(* two of them.                                                            *)
(***************************************************************************)
EXTENDS Service

VARIABLES phase, known, todo, step, subject

reconcileVars == <<phase, known, todo, step, subject>>

Phase == {"down", "rows", "live", "staging", "trash", "ready"}
Step == {"pick", "publish", "fail", "trashLive", "trashStaging", "purge"}

\* The loop is between two transfers.
Picking(p) == phase = p /\ step = "pick"

Goto(t, s) ==
    /\ step' = s
    /\ subject' = t
    /\ UNCHANGED <<phase, known, todo>>

\* The loop body is done with transfer t.
Visited(t) ==
    /\ todo' = todo \ {t}
    /\ step' = "pick"
    /\ subject' = NoTransfer
    /\ UNCHANGED <<phase, known>>

-----------------------------------------------------------------------------
Begin ==
    /\ phase = "down"
    /\ phase' = "rows"
    /\ known' = state
    /\ todo' = AllTransferIDs
    /\ step' = "pick"
    /\ subject' = NoTransfer
    /\ UNCHANGED <<storeVars, fileVars, now>>

\* Seeded faults: a committed row is taken at its word, or judged by its staging
\* directory.
TrustCommitted(t) == "pick"
JudgeByStaging(t) == IF PayloadValid(t, staging[t]) THEN "pick" ELSE "trashLive"

\* A committed record without usable bytes must stop resolving.
DecideCommitted(t) == IF PayloadValid(t, live[t]) THEN "pick" ELSE "trashLive"

\* Seeded faults: VERIFYING is taken for an upload in progress, fails before
\* live is looked at, or is published before live is looked at.
KeepVerifying(t) ==
    IF PayloadValid(t, live[t]) THEN "publish"
    ELSE IF ~staging[t].here THEN "fail" ELSE "pick"
FailVerifyingFirst(t) ==
    IF known[t] = "VERIFYING" THEN "fail"
    ELSE IF PayloadValid(t, live[t]) THEN "publish"
    ELSE IF ~staging[t].here THEN "fail" ELSE "pick"
PublishVerifyingFirst(t) ==
    IF known[t] = "VERIFYING" THEN "publish"
    ELSE IF ~staging[t].here THEN "fail" ELSE "pick"

\* A valid live directory means that only the transaction is missing; otherwise
\* the transfer fails if it was being materialized or has no staging tree.
DecidePreCommit(t) ==
    IF PayloadValid(t, live[t]) THEN "publish"
    ELSE IF known[t] = "VERIFYING" \/ ~staging[t].here THEN "fail" ELSE "pick"

\* Seeded fault: an interrupted deletion is not resumed.
ForgetDeleting(t) ==
    CASE known[t] = "COMMITTED" -> DecideCommitted(t)
      [] known[t] \in PreCommit -> DecidePreCommit(t)
      [] OTHER -> "pick"

\* The switch on the state that AllTransferIDs returned.
Decision(t) ==
    CASE known[t] = "COMMITTED" -> DecideCommitted(t)
      [] known[t] \in PreCommit -> DecidePreCommit(t)
      [] known[t] = "DELETING" -> "trashLive"
      [] OTHER -> "pick"

Visit(t) ==
    /\ Picking("rows")
    /\ t \in todo
    /\ IF Decision(t) = "pick" THEN Visited(t) ELSE Goto(t, Decision(t))
    /\ UNCHANGED <<storeVars, fileVars, now>>

\* Seeded faults: a refused publication is tried again for ever, or the state is
\* written without a code.
RetryRefusedPublish(t) ==
    /\ phase = "rows" /\ step = "publish" /\ subject = t
    /\ \E c \in Code : Allocate(t, now, ttl[t], c)
    /\ Visited(t)
    /\ UNCHANGED <<fileVars, now>>
PublishStateOnly(t) ==
    /\ phase = "rows" /\ step = "publish" /\ subject = t
    /\ SetState(t, "COMMITTED")
    /\ Visited(t)
    /\ UNCHANGED <<fileVars, now>>

\* CompleteInterruptedPublish: the rename into live happened, the transaction
\* did not.  A refused publication is logged and the loop goes on.
CompleteInterruptedPublish(t) ==
    /\ phase = "rows" /\ step = "publish" /\ subject = t
    /\ \/ \E c \in Code : Allocate(t, now, ttl[t], c)
       \/ ~PublishNew(t) /\ UNCHANGED storeVars
    /\ Visited(t)
    /\ UNCHANGED <<fileVars, now>>

\* Only a transfer that was VERIFYING has directories to discard.
FailRow(t) ==
    /\ phase = "rows" /\ step = "fail" /\ subject = t
    /\ Fail(t)
    /\ IF known[t] = "VERIFYING" THEN Goto(t, "trashLive") ELSE Visited(t)
    /\ UNCHANGED <<fileVars, now>>

DiscardLive(t) ==
    /\ step = "trashLive" /\ subject = t
    /\ TrashLive(t)
    /\ Goto(t, "trashStaging")
    /\ UNCHANGED <<storeVars, now>>

DiscardStaging(t) ==
    /\ step = "trashStaging" /\ subject = t
    /\ TrashStaging(t)
    /\ IF phase = "rows" /\ known[t] \in {"COMMITTED", "DELETING"}
       THEN Goto(t, "purge") ELSE Visited(t)
    /\ UNCHANGED <<storeVars, now>>

PurgeRow(t) ==
    /\ phase = "rows" /\ step = "purge" /\ subject = t
    /\ Purge(t)
    /\ Visited(t)
    /\ UNCHANGED <<fileVars, now>>

\* The next loop starts from a directory listing; "known" is not refreshed.
NextLoop(from, to, ids) ==
    /\ Picking(from)
    /\ todo = {}
    /\ phase' = to
    /\ todo' = {t \in ids : known[t] = NoRow}
    /\ UNCHANGED <<known, step, subject, storeVars, fileVars, now>>

ListLive == NextLoop("rows", "live", ListLiveIDs)

\* ToTrash of a live directory that has no row.
TrashOrphan(t) ==
    /\ Picking("live")
    /\ t \in todo
    /\ Goto(t, "trashLive")
    /\ UNCHANGED <<storeVars, fileVars, now>>

ListStaging == NextLoop("live", "staging", ListStagingIDs)

RemoveOrphan(t) ==
    /\ Picking("staging")
    /\ t \in todo
    /\ RemoveStaging(t)
    /\ Visited(t)
    /\ UNCHANGED <<storeVars, now>>

ToTrashLoop == NextLoop("staging", "trash", {})

\* The last statement; Run then declares the service ready.
Finish ==
    /\ Picking("trash")
    /\ EmptyTrash
    /\ phase' = "ready"
    /\ UNCHANGED <<known, todo, step, subject, storeVars, now>>

Stop ==
    /\ phase' = "down"
    /\ known' = [t \in Transfer |-> NoRow]
    /\ todo' = {}
    /\ step' = "pick"
    /\ subject' = NoTransfer

\* The process dies: rows and directories stay as they are.
Crash ==
    /\ phase # "down"
    /\ Stop
    /\ UNCHANGED <<storeVars, fileVars, now>>

ReconcileStep ==
    \/ Begin \/ ListLive \/ ListStaging \/ ToTrashLoop \/ Finish
    \/ \E t \in Transfer :
        \/ Visit(t) \/ CompleteInterruptedPublish(t) \/ FailRow(t)
        \/ DiscardLive(t) \/ DiscardStaging(t) \/ PurgeRow(t)
        \/ TrashOrphan(t) \/ RemoveOrphan(t)
=============================================================================
