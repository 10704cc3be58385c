----------------------------- MODULE Recovery ------------------------------
(***************************************************************************)
(* Reconciliation on its own, started from every combination of rows and   *)
(* directories, not only the ones that a run of the server is known to     *)
(* leave, and crashed and restarted any number of times.                   *)
(***************************************************************************)
EXTENDS Reconcile

CONSTANT CrashDir       \* the directories a crash may leave under a path

ASSUME CrashDirAssumption == CrashDir \subseteq Dir

\* There is always a code that no row has: 32^8 codes do not run out.
ASSUME CodesNeverRunOut ==
    \A used \in [Transfer -> Code \cup {NoCode}] :
        (\E t \in Transfer : used[t] = NoCode) =>
            \E c \in Code : \A t \in Transfer : used[t] # c

recoveryVars == <<storeVars, fileVars, now, reconcileVars>>

\* Rows as the repository can hold them (CommittedHasCode, CodesUnique and
\* NoDanglingRows are what the repository guarantees), and any directory
\* anywhere.  Inode 1 of a segment is whole and inode 2 is cut short.
RecoveryInit ==
    /\ state \in [Transfer -> State \cup {NoRow}]
    /\ code \in [Transfer -> Code \cup {NoCode}]
    /\ CodesUnique
    /\ \A t \in Transfer : state[t] = "COMMITTED" => code[t] # NoCode
    /\ \A t \in Transfer : state[t] = NoRow => code[t] = NoCode
    /\ created = [t \in Transfer |-> 0]
    /\ expires = [t \in Transfer |-> IF code[t] = NoCode THEN 0 ELSE MaxTime + 1]
    /\ ttl = [t \in Transfer |-> IF state[t] = NoRow THEN 0 ELSE DefaultTTL]
    /\ segrows = {}
    /\ received = [t \in Transfer |-> [s \in Segment |-> 0]]
    /\ claimOf = [c \in Claim |-> NoTransfer]
    /\ lease = [c \in Claim |-> 0]
    /\ completed = [c \in Claim |-> FALSE]
    /\ staging \in [Transfer -> CrashDir]
    /\ live \in [Transfer -> CrashDir]
    /\ trash \in [Transfer -> CrashDir]
    /\ file = [t \in Transfer |-> [s \in Segment |-> <<Whole, <<>>>>]]
    /\ now = 0
    /\ phase = "down"
    /\ known = [t \in Transfer |-> NoRow]
    /\ todo = {}
    /\ step = "pick"
    /\ subject = NoTransfer

RecoveryNext == ReconcileStep \/ Crash

RecoverySpec == RecoveryInit /\ [][RecoveryNext]_recoveryVars

\* Run keeps executing statements until it returns or the process dies.
RecoveryFairSpec == RecoverySpec /\ WF_recoveryVars(ReconcileStep)

-----------------------------------------------------------------------------
(* Properties.                                                             *)

\* The bookkeeping of the loops.
ReconcileTypeOK ==
    /\ phase \in Phase
    /\ known \in [Transfer -> State \cup {NoRow}]
    /\ todo \in SUBSET Transfer
    /\ step \in Step
    /\ subject \in Transfer \cup {NoTransfer}

\* When readiness is declared, no code resolves to a missing or short payload,
\* whatever the crash left (the "absolute" invariant in the comment of
\* reconcile.Run).
ReadyResolvesValid ==
    phase = "ready" => \A t \in Transfer :
        state[t] = "COMMITTED" => PayloadValid(t, live[t])

\* When readiness is declared, every interrupted deletion is finished and no
\* directory is left that no row accounts for: the trash is empty, and live and
\* staging directories belong to rows, also when the first pass was itself
\* crashed between ToTrash and Purge.
ReadyNoGarbage ==
    phase = "ready" => \A t \in Transfer :
        /\ state[t] # "DELETING"
        /\ ~trash[t].here
        /\ live[t].here \/ staging[t].here => Exists(t)

\* A commit that the crash cut in half: materialization was interrupted, or the
\* payload is published and its row is not.
HalfCommitted(t) ==
    state[t] = "VERIFYING" \/ (state[t] \in PreCommit /\ PayloadValid(t, live[t]))

\* When readiness is declared, no commit is cut in half, except on a row that
\* already carries a code: Publish refuses that one.
ReadyNoHalfCommit ==
    phase = "ready" => \A t \in Transfer : HalfCommitted(t) => code[t] # NoCode

\* Reconciliation never moves a valid published payload and never takes its row
\* anywhere but to COMMITTED: a crash after the rename costs nothing.
KeepsPublished ==
    [][\A t \in Transfer :
        PayloadValid(t, live[t]) /\ state[t] \in PreCommit \cup {"COMMITTED"} =>
            live'[t] = live[t] /\ state'[t] \in {state[t], "COMMITTED"}]_recoveryVars

\* Reconciliation ends: once the process stops crashing it becomes ready and
\* stays so.
RecoveryCompletes ==
    <>[][~Crash]_recoveryVars => <>[](phase = "ready")

-----------------------------------------------------------------------------
(* The inductive invariant behind the three promises of readiness.         *)

\* The variables that reconciliation reads and writes are functions on
\* Transfer.
RecoveryTypeOK ==
    /\ ReconcileTypeOK
    /\ state \in [Transfer -> State \cup {NoRow}]
    /\ code \in [Transfer -> Code \cup {NoCode}]
    /\ staging \in [Transfer -> Dir]
    /\ live \in [Transfer -> Dir]
    /\ trash \in [Transfer -> Dir]

\* What the first loop has made of a transfer it is done with.
Settled(t) ==
    /\ state[t] = "COMMITTED" => PayloadValid(t, live[t])
    /\ state[t] # "DELETING"
    /\ HalfCommitted(t) => code[t] # NoCode
    /\ known[t] # NoRow /\ state[t] = NoRow => ~live[t].here /\ ~staging[t].here

\* A transfer whose directories the first loop may discard.
Hopeless(t) ==
    \/ known[t] = "COMMITTED" /\ state[t] = "COMMITTED"
    \/ known[t] = "DELETING" /\ state[t] = "DELETING"
    \/ known[t] = "VERIFYING" /\ state[t] = "FAILED"

\* The first loop is between two statements for transfer t.
InHand(t) ==
    /\ step \in {"publish", "fail"} => state[t] = known[t] /\ state[t] \in PreCommit
    /\ step = "publish" => PayloadValid(t, live[t])
    /\ step = "fail" => ~PayloadValid(t, live[t])
    /\ step \in {"trashLive", "trashStaging", "purge"} =>
            Hopeless(t) /\ (state[t] = "COMMITTED" => ~PayloadValid(t, live[t]))
    /\ step \in {"trashStaging", "purge"} => live[t] = Absent
    /\ step = "purge" => staging[t] = Absent /\ known[t] \in {"COMMITTED", "DELETING"}

\* The map that AllTransferIDs returned is right about every transfer that has
\* no row, and about every transfer that the first loop has not reached.
KnownInv ==
    phase # "down" => \A t \in Transfer :
        /\ known[t] = NoRow => state[t] = NoRow
        /\ phase = "rows" =>
            IF t \in todo
            THEN IF subject = t THEN InHand(t)
                 ELSE known[t] # NoRow /\ state[t] = known[t]
            ELSE Settled(t)
        /\ phase # "rows" => Settled(t)

\* The directories without a row that the later loops have still to visit.
OrphanInv ==
    /\ phase \in {"live", "staging", "trash", "ready"} => \A t \in Transfer :
        known[t] = NoRow =>
            /\ live[t].here => phase = "live" /\ t \in todo /\ (subject = t => step = "trashLive")
            /\ staging[t].here => phase \in {"live", "staging"} /\ (phase = "staging" => t \in todo)
    /\ phase = "ready" => \A t \in Transfer : ~trash[t].here

\* The position of the loops.
PositionInv ==
    /\ step = "pick" <=> subject = NoTransfer
    /\ subject # NoTransfer => subject \in todo
    /\ phase = "live" => /\ step \in {"pick", "trashLive", "trashStaging"}
                         /\ \A t \in todo : known[t] = NoRow
    /\ phase = "staging" => step = "pick" /\ \A t \in todo : known[t] = NoRow
    /\ phase \in {"down", "trash", "ready"} => step = "pick" /\ todo = {}

RecoveryInv == RecoveryTypeOK /\ KnownInv /\ OrphanInv /\ PositionInv
=============================================================================
