------------------------------- MODULE Server ------------------------------
(***************************************************************************)
(* sssd: every component around one repository and one set of directories, *)
(* with the clock, and with process crashes.  After a crash nothing is     *)
(* served until reconciliation has declared readiness (internal/app).      *)
(***************************************************************************)
EXTENDS Reconcile, Uploads, Commit, Janitor, Claims

CONSTANTS MaxCrash,     \* bound on process crashes
          Slow          \* a handler may outlast the staging lifetime

ASSUME ServerAssumption == MaxCrash \in Nat /\ Slow \in BOOLEAN

VARIABLE crashes

serverVars == <<storeVars, fileVars, now, reconcileVars, requestVars, patchVars,
                janitorVars, receiverVars, cached, crashes>>

ServerInit ==
    /\ StoreInit
    /\ LayoutInit
    /\ now = 0
    /\ phase = "ready"
    /\ known = [t \in Transfer |-> NoRow]
    /\ todo = {}
    /\ step = "pick"
    /\ subject = NoTransfer
    /\ RequestInit
    /\ PatchInit
    /\ JanitorInit
    /\ ClaimsInit
    /\ CacheInit
    /\ crashes = 0

-----------------------------------------------------------------------------
(* The steps of each component leave the local state of the others alone.  *)

Up == phase = "ready"

HandleSimple(r) ==
    /\ Up
    /\ SimpleStep(r)
    /\ UNCHANGED <<reconcileVars, janitorVars, receiverVars, crashes>>

HandleCreate(r) ==
    /\ Up
    /\ CreateStep(r)
    /\ UNCHANGED <<reconcileVars, janitorVars, receiverVars, cached, crashes>>

HandlePatch(r) ==
    /\ Up
    /\ PatchStep(r)
    /\ UNCHANGED <<reconcileVars, janitorVars, receiverVars, cached, crashes>>

HandleCommit(r) ==
    /\ Up
    /\ CommitStep(r)
    /\ UNCHANGED <<reconcileVars, patchVars, janitorVars, receiverVars, crashes>>

ClientLeaves(r) ==
    /\ Up
    /\ Disconnect(r)
    /\ UNCHANGED <<reconcileVars, patchVars, janitorVars, receiverVars, cached, crashes>>

Sweep(j) ==
    /\ Up
    /\ SweepStep(j)
    /\ UNCHANGED <<reconcileVars, requestVars, patchVars, receiverVars, crashes>>

HandleClaim(c) ==
    /\ Up
    /\ ClaimStep(c)
    /\ UNCHANGED <<reconcileVars, requestVars, patchVars, janitorVars, crashes>>

HandleDownload(d) ==
    /\ Up
    /\ DownloadStep(d)
    /\ UNCHANGED <<reconcileVars, requestVars, patchVars, janitorVars, crashes>>

\* Nothing fills the cache before readiness: what reconciliation drops from it
\* is never there.
Restart ==
    /\ ReconcileStep
    /\ UNCHANGED <<requestVars, patchVars, janitorVars, receiverVars, cached, crashes>>

\* Unless Slow, no transfer turns stale in the hands of a handler: the staging
\* lifetime counts from creation, whatever has happened since.
TimePasses ==
    /\ Slow \/ \A r \in Request : LET t == Target[r] IN
                  pc[r] \notin Resting /\ Exists(t) => now < created[t] + StagingTTL
    /\ Tick
    /\ UNCHANGED <<reconcileVars, requestVars, patchVars, janitorVars,
                   receiverVars, cached, crashes>>

ProcessDies ==
    /\ crashes < MaxCrash
    /\ crashes' = crashes + 1
    /\ Crash
    /\ KillRequests
    /\ KillSweeps
    /\ KillReceivers
    /\ UNCHANGED patchVars

ServerNext ==
    \/ \E r \in SimpleReq : HandleSimple(r)
    \/ \E r \in CreateReq : HandleCreate(r)
    \/ \E r \in PatchReq : HandlePatch(r)
    \/ \E r \in CommitReq : HandleCommit(r)
    \/ \E r \in Request : ClientLeaves(r)
    \/ \E j \in Sweeper : Sweep(j)
    \/ \E c \in Claim : HandleClaim(c)
    \/ \E d \in Download : HandleDownload(d)
    \/ Restart
    \/ TimePasses
    \/ ProcessDies

ServerSpec == ServerInit /\ [][ServerNext]_serverVars

\* Where a handler waits for its client: nothing makes the next byte arrive.
WaitsForClient == Resting \cup {"adding", "writing"}

\* The scheduler runs every goroutine that can run, the ticker keeps starting
\* sweeps, the clock advances, and a process that died is started again.  No
\* client is obliged to send, to go on sending, to leave or to fetch.
ServerFairSpec ==
    /\ ServerSpec
    /\ WF_serverVars(Restart)
    /\ WF_serverVars(TimePasses)
    /\ \A j \in Sweeper : WF_serverVars(Sweep(j))
    /\ \A r \in SimpleReq : WF_serverVars(pc[r] \notin WaitsForClient /\ HandleSimple(r))
    /\ \A r \in CreateReq : WF_serverVars(pc[r] \notin WaitsForClient /\ HandleCreate(r))
    /\ \A r \in PatchReq : WF_serverVars(pc[r] \notin WaitsForClient /\ HandlePatch(r))
    /\ \A r \in CommitReq : WF_serverVars(pc[r] \notin WaitsForClient /\ HandleCommit(r))
    /\ \A c \in Claim :
            WF_serverVars(cpc[c] \notin AtRest /\ HandleClaim(c))
    /\ \A d \in Download :
            WF_serverVars(cpc[d] \notin AtRest /\ HandleDownload(d))

-----------------------------------------------------------------------------
(* Properties.                                                             *)

\* While the server answers requests, a code that resolves leads to the whole
\* payload the sender declared: across publication, crashes at any statement,
\* reconciliation, expiry and deletion.
NoCodeToIncomplete ==
    Up => \A t \in Transfer : Resolves(t) => Intact(t, live[t])

\* A code that a handler has answered keeps resolving to that transfer until
\* the expiry answered with it: no crash, disconnect, retry or sweep takes it
\* back.
AnsweredCodeResolves ==
    Up => \A r \in Request : result[r] # NoCode /\ now < until[r] =>
            /\ Resolves(Target[r])
            /\ code[Target[r]] = result[r]
            /\ expires[Target[r]] = until[r]

\* A directory never reaches live, and never stays there, without a row that
\* leads to its deletion: rows are written before the rename and purged after
\* ToTrash.
LiveHasRow == \A t \in Transfer : live[t].here => Exists(t)

\* The expiry written at publication is the publication time plus the lifetime
\* the sender asked for, also when it is reconciliation that publishes after a
\* crash, from what the row has recorded.
ExpiryAsRequested ==
    [][\A r \in SimpleReq \cup CreateReq : LET t == Target[r] IN
        code[t] = NoCode /\ code'[t] # NoCode => expires'[t] = now + want[r]]_serverVars

\* A segment request is never served a file that is cut short or has a hole.
ServedWhole == \A c \in Claim : served[c] # "broken"

\* An archive that ends with its trailer holds every entry of the payload, whole.
\* GET /r/{code} takes no lease and may work from a cached manifest, so a sweep
\* can remove the payload before or between its entries: the stream is then cut.
ArchiveWhole ==
    \A d \in Download : cpc[d] = "complete" => streamed[d] = Segment \X {TRUE}

\* A sweep has listed t for deletion, or deletion has begun.  The list a sweep
\* holds while it abandons is that of StaleStaging.
Doomed(t) ==
    \/ state[t] = "DELETING"
    \/ \E j \in Sweeper : jid[j] = t \/ (jpc[j] # "abandon" /\ t \in jlist[j])

\* Claim c is unfinished and its lease has not ended.
Leased(c) == claimOf[c] # NoTransfer /\ ActiveClaim(c, now)

\* A lease that exists before a sweep lists its transfer keeps the transfer off
\* that list and its payload in place for as long as the lease lasts, through
\* expiry, renewal and restart.
LeaseHolds ==
    [][\A c \in Claim : \A t \in Transfer :
        /\ claimOf[c] = t /\ Leased(c) /\ ~Doomed(t) /\ live[t].here
        /\ Leased(c)'
        => ~Doomed(t)' /\ live'[t] = live[t]]_serverVars

\* As long as a claim is unfinished and its lease runs, the payload it was opened
\* for is there.
LeasePins ==
    Up => \A c \in Claim : Leased(c) => Intact(claimOf[c], live[claimOf[c]])

\* The offset a PATCH acknowledged is the offset its row keeps, and the bytes
\* before it are in the staged file, for as long as the upload goes on: the
\* sender can resume from there after any crash or retry.
AckedBytesKept ==
    \A t \in Transfer, s \in Segment :
        LET i == staging[t].seg[s] IN
        state[t] \in {"CREATED", "UPLOADING"} /\ acked[t][s] > 0 =>
            /\ received[t][s] >= acked[t][s]
            /\ i # NoFile
            /\ \A b \in 1..acked[t][s] : b <= Len(file[t][s][i]) /\ file[t][s][i][b]

\* Something of transfer t is stored.
Occupied(t) ==
    Exists(t) \/ staging[t].here \/ live[t].here \/ trash[t].here

\* What transfer t waits for lies past the end of the modelled clock.
BeyondClock(t) ==
    \/ state[t] \in PreCommit /\ created[t] + StagingTTL >= MaxTime
    \/ expires[t] > MaxTime
    \/ \E c \in Claim : claimOf[c] = t /\ lease[c] > MaxTime

\* The client of transfer t neither sends nor leaves, which holds the modelled
\* clock back.
Stalled(t) == \E r \in Request : Target[r] = t /\ pc[r] \in {"adding", "writing"}

\* Whatever a transfer occupies, in the tables or on disk, is given back in the
\* end: a published payload after its expiry and its leases, an upload that
\* nobody finishes after the staging timeout, what a crash cut short after the
\* restart.
Reclaimed ==
    \A t \in Transfer : Occupied(t) ~> ~Occupied(t) \/ BeyondClock(t) \/ Stalled(t)

\* What the server makes known of transfer t, whose creation is request r.
ShownBy(t, r) ==
    CASE Resolves(t) -> IF Intact(t, live[t]) THEN "payload" ELSE "broken"
      [] ~Resolves(t) /\ code[t] # NoCode -> "ended"
      [] ~Exists(t) /\ pc[r] = "idle" -> "absent"
      [] ~Exists(t) /\ pc[r] \in Resting \ {"idle"} -> "over"
      [] OTHER -> "hidden"

\* The mapping under which the server implements Handoff.
ShownNow ==
    [t \in Transfer |->
        ShownBy(t, CHOOSE r \in SimpleReq \cup CreateReq : Target[r] = t)]

Promise == INSTANCE Handoff WITH shown <- ShownNow, until <- expires

\* The server implements Handoff: through crashes, restarts, failing requests and
\* sweeps, and also while it is down, a payload appears whole in one step, is
\* there until its lifetime ends and not a moment longer, and never comes back.
KeepsPromise == Promise!Spec

\* The variables of every component hold values of their types, and no file of
\* a segment grows past the declared length.
ServerTypeOK ==
    /\ StoreTypeOK
    /\ LayoutTypeOK
    /\ result \in [Request -> Code \cup {NoCode}]
    /\ parts \in [Request -> SUBSET Segment]
    /\ pos \in [PatchReq -> 0..SegLen]
    /\ jlist \in [Sweeper -> SUBSET Transfer]
    /\ jid \in [Sweeper -> Transfer \cup {NoTransfer}]
    /\ found \in [Receiver -> Transfer \cup {NoTransfer}]
    /\ served \in [Claim -> Served]
    /\ phase \in Phase /\ step \in Step /\ todo \subseteq Transfer
=============================================================================
