------------------------------- MODULE Store -------------------------------
(***************************************************************************)
(* The metadata repository of sss (internal/store/sqlite).                 *)
(*                                                                         *)
(* Every write method of the Go type Store runs as one SQLite transaction  *)
(* behind writeMu, so it is one atomic action here; every read method is   *)
(* an operator on the current state.  A row that an UPDATE does not find   *)
(* is not an error in SQL, and it is a step that changes nothing here.     *)
(*                                                                         *)
(* Columns that no property tells apart are left out: notes, labels,       *)
(* digests, byte counters, paths and error codes.  reserved_bytes belongs  *)
(* to admission control.  Times are whole seconds, as in the tables.       *)
(***************************************************************************)
EXTENDS Transfers

CONSTANTS Claim,        \* claim identifiers
          Code,         \* canonical public codes
          NoCode,       \* the NULL code
          NoTransfer,   \* a claim identifier that has no row
          Time,         \* the clock readings callers pass in
          TTL           \* the lifetimes callers ask for

ASSUME StoreAssumption ==
    /\ NoCode \notin Code
    /\ NoTransfer \notin Transfer
    /\ Time \subseteq Nat
    /\ TTL \subseteq Nat \ {0}

VARIABLES state,      \* state[t]: the state column, or NoRow
          code,       \* code[t]: the public code, or NoCode
          created,    \* created[t]: created_at
          expires,    \* expires[t]: expires_at, 0 while it is NULL
          ttl,        \* ttl[t]: requested_ttl_minutes
          segrows,    \* the <<transfer, segment>> keys of table segments
          received,   \* received[t][s]: received_length
          claimOf,    \* claimOf[c]: transfer_id of the claim, or NoTransfer
          lease,      \* lease[c]: lease_until
          completed   \* completed[c]: completed_at is not NULL

transferVars == <<state, code, created, expires, ttl>>
segmentVars == <<segrows, received>>
claimVars == <<claimOf, lease, completed>>
storeVars == <<state, code, created, expires, ttl, segrows, received,
               claimOf, lease, completed>>

-----------------------------------------------------------------------------
NoRow == "NONE"
PreCommit == {"CREATED", "UPLOADING", "VERIFYING"}
Terminal == {"EXPIRED", "FAILED", "ABANDONED"}
State == PreCommit \cup {"COMMITTED", "DELETING"} \cup Terminal

\* The states some caller passes to SetState.  COMMITTED is not among them:
\* only Publish writes it.
SetStateTarget == {"UPLOADING", "VERIFYING", "EXPIRED", "ABANDONED", "DELETING"}

Exists(t) == state[t] # NoRow

\* Transfer.Committed: the transfer currently holds a public code.
Committed(t) == state[t] = "COMMITTED" /\ code[t] # NoCode

\* AllTransferIDs: the identifiers that have a row.
AllTransferIDs == {t \in Transfer : Exists(t)}

\* A claim that still pins its transfer at time at.
ActiveClaim(c, at) == ~completed[c] /\ lease[c] > at

\* Seeded faults: leases are not looked at, or expired rows are not listed.
IgnoreLeases(at) == {t \in Transfer : state[t] \in Terminal}
ForgetExpired(at) ==
    {t \in Transfer :
        /\ state[t] \in Terminal \ {"EXPIRED"}
        /\ ~ \E c \in Claim : claimOf[c] = t /\ ActiveClaim(c, at)}

\* UnpinnedExpired: what a sweep may delete at time at.
UnpinnedExpired(at) ==
    {t \in Transfer :
        /\ state[t] \in Terminal
        /\ ~ \E c \in Claim : claimOf[c] = t /\ ActiveClaim(c, at)}

\* StaleStaging: pre-commit transfers created more than age before at.
StaleStaging(at, age) ==
    {t \in Transfer : state[t] \in PreCommit /\ created[t] + age < at}

StoreInit ==
    /\ state = [t \in Transfer |-> NoRow]
    /\ code = [t \in Transfer |-> NoCode]
    /\ created = [t \in Transfer |-> 0]
    /\ expires = [t \in Transfer |-> 0]
    /\ ttl = [t \in Transfer |-> 0]
    /\ segrows = {}
    /\ received = [t \in Transfer |-> [s \in Segment |-> 0]]
    /\ claimOf = [c \in Claim |-> NoTransfer]
    /\ lease = [c \in Claim |-> 0]
    /\ completed = [c \in Claim |-> FALSE]

-----------------------------------------------------------------------------
(* Writes to table transfers.                                              *)

\* INSERT of a pre-commit row; the primary key must be free.
CreateTransfer(t, at, minutes) ==
    /\ ~Exists(t)
    /\ state' = [state EXCEPT ![t] = "CREATED"]
    /\ code' = [code EXCEPT ![t] = NoCode]
    /\ created' = [created EXCEPT ![t] = at]
    /\ expires' = [expires EXCEPT ![t] = 0]
    /\ ttl' = [ttl EXCEPT ![t] = minutes]
    /\ UNCHANGED <<segmentVars, claimVars>>

\* UPDATE ... WHERE id = ?: no condition on the state the row is in.
SetState(t, new) ==
    /\ state' = IF Exists(t) THEN [state EXCEPT ![t] = new] ELSE state
    /\ UNCHANGED <<code, created, expires, ttl, segmentVars, claimVars>>

Fail(t) ==
    /\ state' = IF Exists(t) THEN [state EXCEPT ![t] = "FAILED"] ELSE state
    /\ UNCHANGED <<code, created, expires, ttl, segmentVars, claimVars>>

SetNoteAndTTL(t, minutes) ==
    /\ ttl' = IF Exists(t) THEN [ttl EXCEPT ![t] = minutes] ELSE ttl
    /\ UNCHANGED <<state, code, created, expires, segmentVars, claimVars>>

\* Seeded fault: the code column is not UNIQUE.
AnyCode == Code

\* Codes that the UNIQUE column accepts.
FreeCode == Code \ {code[t] : t \in Transfer}

\* The ways Publish returns: the code the row already has, a new code, or an
\* error (no row, wrong state, a pre-commit row that carries a code, or no free
\* code).  Sixteen colliding draws while a code is free do not happen here.
PublishAgain(t) == Committed(t)

\* Seeded fault: a row that carries a code is published again.
PublishOverCode(t) == state[t] \in PreCommit /\ FreeCode # {}

PublishNew(t) == state[t] \in PreCommit /\ code[t] = NoCode /\ FreeCode # {}

PublishRefused(t) == ~PublishAgain(t) /\ ~PublishNew(t)

\* Seeded fault: expires_at stays NULL.
AllocateForever(t, at, minutes, c) ==
    /\ PublishNew(t)
    /\ c \in FreeCode
    /\ code' = [code EXCEPT ![t] = c]
    /\ state' = [state EXCEPT ![t] = "COMMITTED"]
    /\ UNCHANGED <<created, expires, ttl, segmentVars, claimVars>>

\* The transaction that allocates code c and commits the transfer.
Allocate(t, at, minutes, c) ==
    /\ PublishNew(t)
    /\ c \in FreeCode
    /\ code' = [code EXCEPT ![t] = c]
    /\ state' = [state EXCEPT ![t] = "COMMITTED"]
    /\ expires' = [expires EXCEPT ![t] = at + minutes]
    /\ UNCHANGED <<created, ttl, segmentVars, claimVars>>

\* Seeded fault: a row expires a second early.
ExpireEarly(at) ==
    /\ state' = [t \in Transfer |->
                    IF state[t] = "COMMITTED" /\ expires[t] <= at + 1
                    THEN "EXPIRED" ELSE state[t]]
    /\ UNCHANGED <<code, created, expires, ttl, segmentVars, claimVars>>

ExpireDue(at) ==
    /\ state' = [t \in Transfer |->
                    IF state[t] = "COMMITTED" /\ expires[t] # 0 /\ expires[t] <= at
                    THEN "EXPIRED" ELSE state[t]]
    /\ UNCHANGED <<code, created, expires, ttl, segmentVars, claimVars>>

\* Purge deletes the row and everything that refers to it.
Purge(t) ==
    /\ state' = [state EXCEPT ![t] = NoRow]
    /\ code' = [code EXCEPT ![t] = NoCode]
    /\ created' = [created EXCEPT ![t] = 0]
    /\ expires' = [expires EXCEPT ![t] = 0]
    /\ ttl' = [ttl EXCEPT ![t] = 0]
    /\ segrows' = {k \in segrows : k[1] # t}
    /\ received' = [received EXCEPT ![t] = [s \in Segment |-> 0]]
    /\ claimOf' = [c \in Claim |-> IF claimOf[c] = t THEN NoTransfer ELSE claimOf[c]]
    /\ lease' = [c \in Claim |-> IF claimOf[c] = t THEN 0 ELSE lease[c]]
    /\ completed' = [c \in Claim |-> IF claimOf[c] = t THEN FALSE ELSE completed[c]]

-----------------------------------------------------------------------------
(* Writes to table segments.                                               *)

\* The foreign key refuses a segment of a transfer that has no row.
InsertSegment(t, s) ==
    /\ Exists(t)
    /\ <<t, s>> \notin segrows
    /\ segrows' = segrows \cup {<<t, s>>}
    /\ received' = [received EXCEPT ![t][s] = 0]
    /\ UNCHANGED <<transferVars, claimVars>>

\* UPDATE of the accepted offset to an absolute value.
SetSegmentProgress(t, s, offset) ==
    /\ received' = IF <<t, s>> \in segrows
                   THEN [received EXCEPT ![t][s] = offset] ELSE received
    /\ UNCHANGED <<segrows, transferVars, claimVars>>

-----------------------------------------------------------------------------
(* Writes to table claims.                                                 *)

\* The foreign key refuses a claim on a transfer that has no row.
CreateClaim(c, t, until) ==
    /\ claimOf[c] = NoTransfer
    /\ Exists(t)
    /\ claimOf' = [claimOf EXCEPT ![c] = t]
    /\ lease' = [lease EXCEPT ![c] = until]
    /\ completed' = [completed EXCEPT ![c] = FALSE]
    /\ UNCHANGED <<transferVars, segmentVars>>

RenewClaim(c, until) ==
    /\ lease' = IF claimOf[c] # NoTransfer /\ ~completed[c]
                THEN [lease EXCEPT ![c] = until] ELSE lease
    /\ UNCHANGED <<claimOf, completed, transferVars, segmentVars>>

CompleteClaim(c) ==
    /\ completed' = IF claimOf[c] # NoTransfer
                    THEN [completed EXCEPT ![c] = TRUE] ELSE completed
    /\ UNCHANGED <<claimOf, lease, transferVars, segmentVars>>

-----------------------------------------------------------------------------
(* The repository under arbitrary callers: any method, in any order, with  *)
(* any argument a caller may pass.                                         *)

StoreNext ==
    \/ \E t \in Transfer :
        \/ \E at \in Time, minutes \in TTL : CreateTransfer(t, at, minutes)
        \/ \E new \in SetStateTarget : SetState(t, new)
        \/ Fail(t)
        \/ \E minutes \in TTL : SetNoteAndTTL(t, minutes)
        \/ \E at \in Time, minutes \in TTL, c \in Code : Allocate(t, at, minutes, c)
        \/ Purge(t)
        \/ \E s \in Segment : InsertSegment(t, s)
        \/ \E s \in Segment, offset \in 0..SegLen : SetSegmentProgress(t, s, offset)
        \/ \E c \in Claim, until \in Time : CreateClaim(c, t, until)
    \/ \E at \in Time : ExpireDue(at)
    \/ \E c \in Claim : (\E until \in Time : RenewClaim(c, until)) \/ CompleteClaim(c)

StoreSpec == StoreInit /\ [][StoreNext]_storeVars

-----------------------------------------------------------------------------
(* Properties.                                                             *)

\* Every column holds values of its type; offsets stay within the declared
\* segment length.
StoreTypeOK ==
    /\ state \in [Transfer -> State \cup {NoRow}]
    /\ code \in [Transfer -> Code \cup {NoCode}]
    /\ created \in [Transfer -> Nat]
    /\ expires \in [Transfer -> Nat]
    /\ ttl \in [Transfer -> Nat]
    /\ segrows \in SUBSET (Transfer \X Segment)
    /\ received \in [Transfer -> [Segment -> 0..SegLen]]
    /\ claimOf \in [Claim -> Transfer \cup {NoTransfer}]
    /\ lease \in [Claim -> Nat]
    /\ completed \in [Claim -> BOOLEAN]

\* A public code names at most one transfer, whatever the interleaving of
\* commits, purges and later commits (the code column is UNIQUE and Publish
\* draws again on a collision).
CodesUnique ==
    \A t, u \in Transfer : code[t] # NoCode /\ code[t] = code[u] => t = u

\* A COMMITTED row always carries the code and the expiry that Publish wrote
\* with it, so a resolvable code can always expire.
CommittedHasCode ==
    \A t \in Transfer : state[t] = "COMMITTED" => code[t] # NoCode /\ expires[t] # 0

\* The inductive strengthening of the invariants above, which the schema keeps by
\* itself: claims and segments have their row (foreign keys), and a code is only
\* in the table together with its row.
NoDanglingRows ==
    /\ \A c \in Claim : claimOf[c] # NoTransfer => Exists(claimOf[c])
    /\ \A k \in segrows : Exists(k[1])

CodeHasRow == \A t \in Transfer : code[t] # NoCode => Exists(t)

StoreInv ==
    /\ StoreTypeOK
    /\ CodesUnique
    /\ CommittedHasCode
    /\ NoDanglingRows
    /\ CodeHasRow

\* Once Publish has given a row its code, the code and the expiry never change
\* until the row is purged: no second commit, no state change and no sweep moves
\* a transfer to another code or extends its life.
CodeStable ==
    [][\A t \in Transfer : code[t] # NoCode /\ Exists(t)' =>
            code'[t] = code[t] /\ expires'[t] = expires[t]]_storeVars

\* A transfer that has left COMMITTED (expired, deleting, or knocked back to a
\* pre-commit state by a late SetState) never becomes COMMITTED again: Publish
\* refuses a row that already carries a code.
NeverCommittedTwice ==
    [][\A t \in Transfer : code[t] # NoCode /\ state[t] # "COMMITTED" =>
            state'[t] # "COMMITTED"]_storeVars
=============================================================================
