------------------------------ MODULE Janitor ------------------------------
(***************************************************************************)
(* The sweep (internal/janitor).  The ticker runs one sweep at a time and  *)
(* POST /local/cleanup can start another beside it, so a sweeper is a      *)
(* process.  The clock is read once per sweep, and both lists are read     *)
(* before the loops that act on them.                                      *)
(***************************************************************************)
EXTENDS ManifestCache

CONSTANTS Sweeper,      \* sweeps that may run at the same time
          StagingTTL,   \* storage.staging_ttl_minutes
          MaxFaults     \* bound on errors of ToTrash and Purge

ASSUME JanitorAssumption == StagingTTL \in Nat /\ MaxFaults \in Nat

VARIABLES jpc,      \* jpc[j]: the next statement of sweep j
          jnow,     \* jnow[j]: the clock reading of sweep j
          jlist,    \* jlist[j]: what is left of the list it is working on
          jid,      \* jid[j]: the transfer it is deleting, or NoTransfer
          faults    \* errors so far

janitorVars == <<jpc, jnow, jlist, jid, faults>>

JanitorInit ==
    /\ jpc = [j \in Sweeper |-> "idle"]
    /\ jnow = [j \in Sweeper |-> 0]
    /\ jlist = [j \in Sweeper |-> {}]
    /\ jid = [j \in Sweeper |-> NoTransfer]
    /\ faults = 0

JGoto(j, next) == jpc' = [jpc EXCEPT ![j] = next]

SweepStart(j) ==
    /\ jpc[j] = "idle"
    /\ jnow' = [jnow EXCEPT ![j] = now]
    /\ JGoto(j, "expire")
    /\ UNCHANGED <<jlist, jid, faults, storeVars, fileVars, now>>

SweepExpire(j) ==
    /\ jpc[j] = "expire"
    /\ ExpireDue(jnow[j])
    /\ JGoto(j, "stale")
    /\ UNCHANGED <<jnow, jlist, jid, faults, fileVars, now>>

SweepStale(j) ==
    /\ jpc[j] = "stale"
    /\ jlist' = [jlist EXCEPT ![j] = StaleStaging(jnow[j], StagingTTL)]
    /\ JGoto(j, "abandon")
    /\ UNCHANGED <<jnow, jid, faults, storeVars, fileVars, now>>

\* SetState(ABANDONED) for each transfer of the list, whatever its row says by
\* now.
SweepAbandon(j, t) ==
    /\ jpc[j] = "abandon"
    /\ t \in jlist[j]
    /\ SetState(t, "ABANDONED")
    /\ jlist' = [jlist EXCEPT ![j] = @ \ {t}]
    /\ UNCHANGED <<jpc, jnow, jid, faults, fileVars, now>>

\* Seeded fault: leases are compared with a later time than the sweep's own.
SweepUnpinnedAhead(j) ==
    /\ jpc[j] = "abandon"
    /\ jlist[j] = {}
    /\ jlist' = [jlist EXCEPT ![j] = UnpinnedExpired(jnow[j] + 1)]
    /\ JGoto(j, "delete")
    /\ UNCHANGED <<jnow, jid, faults, storeVars, fileVars, now>>

SweepUnpinned(j) ==
    /\ jpc[j] = "abandon"
    /\ jlist[j] = {}
    /\ jlist' = [jlist EXCEPT ![j] = UnpinnedExpired(jnow[j])]
    /\ JGoto(j, "delete")
    /\ UNCHANGED <<jnow, jid, faults, storeVars, fileVars, now>>

\* Seeded fault: the row is purged and its directories are forgotten.
SweepDeleteRowOnly(j, t) ==
    /\ jpc[j] = "delete"
    /\ t \in jlist[j]
    /\ SetState(t, "DELETING")
    /\ jlist' = [jlist EXCEPT ![j] = @ \ {t}]
    /\ jid' = [jid EXCEPT ![j] = t]
    /\ JGoto(j, "purge")
    /\ UNCHANGED <<jnow, faults, fileVars, now>>

SweepDelete(j, t) ==
    /\ jpc[j] = "delete"
    /\ t \in jlist[j]
    /\ SetState(t, "DELETING")
    /\ jlist' = [jlist EXCEPT ![j] = @ \ {t}]
    /\ jid' = [jid EXCEPT ![j] = t]
    /\ JGoto(j, "invalidate")
    /\ UNCHANGED <<jnow, faults, fileVars, now>>

\* InvalidateManifest.
SweepInvalidate(j) ==
    /\ jpc[j] = "invalidate"
    /\ CacheDrop(jid[j])
    /\ JGoto(j, "trashLive")
    /\ UNCHANGED <<jnow, jlist, jid, faults, storeVars, fileVars, now>>

SweepTrashLive(j) ==
    /\ jpc[j] = "trashLive"
    /\ TrashLive(jid[j])
    /\ JGoto(j, "trashStaging")
    /\ UNCHANGED <<jnow, jlist, jid, faults, storeVars, now>>

SweepTrashStaging(j) ==
    /\ jpc[j] = "trashStaging"
    /\ TrashStaging(jid[j])
    /\ JGoto(j, "purge")
    /\ UNCHANGED <<jnow, jlist, jid, faults, storeVars, now>>

\* ToTrash or Purge returns an error: the row stays DELETING and the loop goes on.
SweepDeleteFails(j) ==
    /\ jpc[j] \in {"trashLive", "trashStaging", "purge"}
    /\ faults < MaxFaults
    /\ faults' = faults + 1
    /\ jid' = [jid EXCEPT ![j] = NoTransfer]
    /\ JGoto(j, "delete")
    /\ UNCHANGED <<jnow, jlist, storeVars, fileVars, now>>

\* Seeded fault: the row is marked DELETED and kept.
SweepTombstone(j) ==
    /\ jpc[j] = "purge"
    /\ SetState(jid[j], "DELETED")
    /\ jid' = [jid EXCEPT ![j] = NoTransfer]
    /\ JGoto(j, "delete")
    /\ UNCHANGED <<jnow, jlist, faults, fileVars, now>>

SweepPurge(j) ==
    /\ jpc[j] = "purge"
    /\ Purge(jid[j])
    /\ jid' = [jid EXCEPT ![j] = NoTransfer]
    /\ JGoto(j, "delete")
    /\ UNCHANGED <<jnow, jlist, faults, fileVars, now>>

\* The sweep ends; what it remembered is forgotten with it.
SweepEmptyTrash(j) ==
    /\ jpc[j] = "delete"
    /\ jlist[j] = {}
    /\ EmptyTrash
    /\ JGoto(j, "idle")
    /\ jnow' = [jnow EXCEPT ![j] = 0]
    /\ UNCHANGED <<jlist, jid, faults, storeVars, now>>

SweepStep(j) ==
    \/ SweepInvalidate(j)
    \/ /\ \/ SweepStart(j) \/ SweepExpire(j) \/ SweepStale(j) \/ SweepUnpinned(j)
          \/ \E t \in Transfer : SweepAbandon(j, t) \/ SweepDelete(j, t)
          \/ SweepTrashLive(j) \/ SweepTrashStaging(j) \/ SweepDeleteFails(j)
          \/ SweepPurge(j) \/ SweepEmptyTrash(j)
       /\ UNCHANGED cached

KillSweeps ==
    /\ jpc' = [j \in Sweeper |-> "idle"]
    /\ jnow' = [j \in Sweeper |-> 0]
    /\ jlist' = [j \in Sweeper |-> {}]
    /\ jid' = [j \in Sweeper |-> NoTransfer]
    /\ UNCHANGED faults
=============================================================================
