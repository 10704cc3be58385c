---------------------------- MODULE Store_proofs ----------------------------
(***************************************************************************)
(* The repository keeps its invariants for any number of transfers, claims *)
(* and codes, and any callers.                                             *)
(***************************************************************************)
EXTENDS Store, FiniteSetTheorems, TLAPS

\* The empty database satisfies the invariant.
LEMMA StoreInitInv == StoreInit => StoreInv
<1>1. StoreInit => StoreTypeOK
  BY StoreAssumption, SegLenAssumption DEF StoreInit, StoreTypeOK, NoRow
<1>2. StoreInit => CodesUnique /\ CommittedHasCode /\ CodeHasRow
  BY DEF StoreInit, CodesUnique, CommittedHasCode, CodeHasRow, NoRow
<1>3. StoreInit => NoDanglingRows
  BY DEF StoreInit, NoDanglingRows
<1>. QED
  BY <1>1, <1>2, <1>3 DEF StoreInv

-----------------------------------------------------------------------------
(* One lemma per write method.                                             *)

\* A new row has no code and no claims, so it joins no other row.
LEMMA CreateTransferInv ==
  ASSUME StoreInv, NEW t \in Transfer, NEW at \in Time, NEW minutes \in TTL,
         CreateTransfer(t, at, minutes)
  PROVE  StoreInv'
<1>. USE DEF CreateTransfer, Exists, NoRow
<1>1. StoreTypeOK'
  BY StoreAssumption DEF StoreInv, StoreTypeOK, State, PreCommit, segmentVars, claimVars
<1>2. CodesUnique' /\ CodeHasRow' /\ CommittedHasCode'
  BY DEF StoreInv, StoreTypeOK, CodesUnique, CodeHasRow, CommittedHasCode
<1>3. NoDanglingRows'
  BY DEF StoreInv, StoreTypeOK, NoDanglingRows, segmentVars, claimVars
<1>. QED  BY <1>1, <1>2, <1>3 DEF StoreInv

\* A state change keeps the row and never makes it COMMITTED.
LEMMA StateChangeInv ==
  ASSUME StoreInv, NEW t \in Transfer, NEW new \in State \ {"COMMITTED"},
         state' = (IF Exists(t) THEN [state EXCEPT ![t] = new] ELSE state),
         UNCHANGED <<code, created, expires, ttl, segmentVars, claimVars>>
  PROVE  StoreInv'
<1>. USE DEF Exists, segmentVars, claimVars
<1>0. NoRow \notin State
  BY DEF NoRow, State, PreCommit, Terminal
<1>1. StoreTypeOK'
  BY DEF StoreInv, StoreTypeOK
<1>2. CodesUnique' /\ CodeHasRow' /\ CommittedHasCode'
  BY <1>0 DEF StoreInv, StoreTypeOK, CodesUnique, CodeHasRow, CommittedHasCode
<1>3. NoDanglingRows'
  BY <1>0 DEF StoreInv, StoreTypeOK, NoDanglingRows
<1>. QED  BY <1>1, <1>2, <1>3 DEF StoreInv

\* The new code is free, so it stays unique; the expiry is after time zero.
LEMMA AllocateInv ==
  ASSUME StoreInv, NEW t \in Transfer, NEW at \in Time, NEW minutes \in TTL,
         NEW c \in Code, Allocate(t, at, minutes, c)
  PROVE  StoreInv'
<1>. USE DEF Allocate, Exists, NoRow, segmentVars, claimVars
<1>0. at + minutes \in Nat \ {0}
  BY StoreAssumption
<1>1. StoreTypeOK'
  BY <1>0 DEF StoreInv, StoreTypeOK, State
<1>2. CodesUnique'
  BY DEF StoreInv, StoreTypeOK, CodesUnique, FreeCode
<1>3. CodeHasRow' /\ CommittedHasCode'
  BY <1>0, StoreAssumption DEF StoreInv, StoreTypeOK, CodeHasRow, CommittedHasCode
<1>4. NoDanglingRows'
  BY DEF StoreInv, StoreTypeOK, NoDanglingRows
<1>. QED  BY <1>1, <1>2, <1>3, <1>4 DEF StoreInv

\* Expiry changes COMMITTED rows only, and keeps them.
LEMMA ExpireDueInv ==
  ASSUME StoreInv, NEW at \in Time, ExpireDue(at)
  PROVE  StoreInv'
<1>. USE DEF ExpireDue, Exists, NoRow, segmentVars, claimVars
<1>1. StoreTypeOK'
  BY DEF StoreInv, StoreTypeOK, State, Terminal
<1>2. CodesUnique' /\ CodeHasRow' /\ CommittedHasCode'
  BY DEF StoreInv, StoreTypeOK, CodesUnique, CodeHasRow, CommittedHasCode
<1>3. NoDanglingRows'
  BY DEF StoreInv, StoreTypeOK, NoDanglingRows
<1>. QED  BY <1>1, <1>2, <1>3 DEF StoreInv

\* Purge takes the claims and the segments of the row along.
LEMMA PurgeInv ==
  ASSUME StoreInv, NEW t \in Transfer, Purge(t)
  PROVE  StoreInv'
<1>. USE DEF Purge, Exists, NoRow
<1>1. StoreTypeOK'
  <2>1. /\ state' \in [Transfer -> State \cup {NoRow}]
        /\ code' \in [Transfer -> Code \cup {NoCode}]
        /\ created' \in [Transfer -> Nat]
        /\ expires' \in [Transfer -> Nat]
        /\ ttl' \in [Transfer -> Nat]
    BY DEF StoreInv, StoreTypeOK
  <2>2. segrows' \in SUBSET (Transfer \X Segment)
    BY DEF StoreInv, StoreTypeOK
  <2>3. received' \in [Transfer -> [Segment -> 0..SegLen]]
    BY SegLenAssumption DEF StoreInv, StoreTypeOK
  <2>4. /\ claimOf' \in [Claim -> Transfer \cup {NoTransfer}]
        /\ lease' \in [Claim -> Nat]
        /\ completed' \in [Claim -> BOOLEAN]
    BY DEF StoreInv, StoreTypeOK
  <2>. QED  BY <2>1, <2>2, <2>3, <2>4 DEF StoreTypeOK
<1>2. CodesUnique' /\ CodeHasRow' /\ CommittedHasCode'
  BY DEF StoreInv, StoreTypeOK, CodesUnique, CodeHasRow, CommittedHasCode
<1>3. NoDanglingRows'
  BY StoreAssumption DEF StoreInv, StoreTypeOK, NoDanglingRows
<1>. QED  BY <1>1, <1>2, <1>3 DEF StoreInv

\* The writes to segments and the lifetime touch no state and no code.
LEMMA SegmentWriteInv ==
  ASSUME StoreInv, NEW t \in Transfer, NEW s \in Segment, NEW offset \in 0..SegLen,
         InsertSegment(t, s) \/ SetSegmentProgress(t, s, offset)
  PROVE  StoreInv'
<1>. USE DEF InsertSegment, SetSegmentProgress, Exists, transferVars, claimVars
<1>1. StoreTypeOK'
  <2>1. segrows' \in SUBSET (Transfer \X Segment)
    BY DEF StoreInv, StoreTypeOK
  <2>2. received' \in [Transfer -> [Segment -> 0..SegLen]]
    <3>1. 0 \in 0..SegLen
      BY SegLenAssumption
    <3>2. \A n \in 0..SegLen :
            [received EXCEPT ![t][s] = n] \in [Transfer -> [Segment -> 0..SegLen]]
      BY DEF StoreInv, StoreTypeOK
    <3>. QED  BY <3>1, <3>2 DEF StoreInv, StoreTypeOK
  <2>. QED  BY <2>1, <2>2 DEF StoreInv, StoreTypeOK
<1>2. CodesUnique' /\ CodeHasRow' /\ CommittedHasCode'
  BY DEF StoreInv, CodesUnique, CodeHasRow, CommittedHasCode
<1>3. NoDanglingRows'
  BY DEF StoreInv, NoDanglingRows
<1>. QED  BY <1>1, <1>2, <1>3 DEF StoreInv

LEMMA LifetimeInv ==
  ASSUME StoreInv, NEW t \in Transfer, NEW minutes \in TTL, SetNoteAndTTL(t, minutes)
  PROVE  StoreInv'
<1>. USE DEF SetNoteAndTTL, segmentVars, claimVars
<1>1. StoreTypeOK'
  BY StoreAssumption DEF StoreInv, StoreTypeOK
<1>2. CodesUnique' /\ CodeHasRow' /\ CommittedHasCode' /\ NoDanglingRows'
  BY DEF StoreInv, CodesUnique, CodeHasRow, CommittedHasCode, NoDanglingRows, Exists
<1>. QED  BY <1>1, <1>2 DEF StoreInv

\* A claim can only be opened on a row that exists.
LEMMA CreateClaimInv ==
  ASSUME StoreInv, NEW t \in Transfer, NEW c \in Claim, NEW until \in Time,
         CreateClaim(c, t, until)
  PROVE  StoreInv'
<1>. USE DEF CreateClaim, Exists, transferVars, segmentVars
<1>1. StoreTypeOK'
  BY StoreAssumption DEF StoreInv, StoreTypeOK
<1>2. CodesUnique' /\ CodeHasRow' /\ CommittedHasCode'
  BY DEF StoreInv, CodesUnique, CodeHasRow, CommittedHasCode
<1>3. NoDanglingRows'
  BY DEF StoreInv, StoreTypeOK, NoDanglingRows
<1>. QED  BY <1>1, <1>2, <1>3 DEF StoreInv

LEMMA ClaimUpdateInv ==
  ASSUME StoreInv, NEW c \in Claim, NEW until \in Nat,
         RenewClaim(c, until) \/ CompleteClaim(c)
  PROVE  StoreInv'
<1>. USE DEF RenewClaim, CompleteClaim, transferVars, segmentVars
<1>1. StoreTypeOK'
  BY DEF StoreInv, StoreTypeOK
<1>2. CodesUnique' /\ CodeHasRow' /\ CommittedHasCode' /\ NoDanglingRows'
  BY DEF StoreInv, CodesUnique, CodeHasRow, CommittedHasCode, NoDanglingRows, Exists
<1>. QED  BY <1>1, <1>2 DEF StoreInv

-----------------------------------------------------------------------------
(* The theorems.                                                           *)

\* Every method of the repository preserves the invariant.
LEMMA StoreNextInv == StoreInv /\ [StoreNext]_storeVars => StoreInv'
<1>. SUFFICES ASSUME StoreInv, [StoreNext]_storeVars PROVE StoreInv'
  OBVIOUS
<1>1. CASE UNCHANGED storeVars
  BY <1>1 DEF storeVars, StoreInv, StoreTypeOK, CodesUnique, CommittedHasCode,
              NoDanglingRows, CodeHasRow, Exists
<1>2. ASSUME NEW t \in Transfer, NEW at \in Time, NEW minutes \in TTL,
             CreateTransfer(t, at, minutes)
      PROVE  StoreInv'
  BY <1>2, CreateTransferInv
<1>3. ASSUME NEW t \in Transfer, NEW new \in SetStateTarget, SetState(t, new)
      PROVE  StoreInv'
  <2>1. new \in State \ {"COMMITTED"}
    BY DEF SetStateTarget, State, PreCommit, Terminal
  <2>. QED  BY <1>3, <2>1, StateChangeInv DEF SetState
<1>4. ASSUME NEW t \in Transfer, Fail(t) PROVE StoreInv'
  <2>1. "FAILED" \in State \ {"COMMITTED"}
    BY DEF State, Terminal
  <2>. QED  BY <1>4, <2>1, StateChangeInv DEF Fail
<1>5. ASSUME NEW t \in Transfer, NEW minutes \in TTL, SetNoteAndTTL(t, minutes)
      PROVE  StoreInv'
  BY <1>5, LifetimeInv
<1>6. ASSUME NEW t \in Transfer, NEW at \in Time, NEW minutes \in TTL,
             NEW c \in Code, Allocate(t, at, minutes, c)
      PROVE  StoreInv'
  BY <1>6, AllocateInv
<1>7. ASSUME NEW t \in Transfer, Purge(t) PROVE StoreInv'
  BY <1>7, PurgeInv
<1>8. ASSUME NEW t \in Transfer, NEW s \in Segment, InsertSegment(t, s)
      PROVE  StoreInv'
  <2>1. 0 \in 0..SegLen
    BY SegLenAssumption
  <2>. QED  BY <1>8, <2>1, SegmentWriteInv
<1>9. ASSUME NEW t \in Transfer, NEW s \in Segment, NEW offset \in 0..SegLen,
             SetSegmentProgress(t, s, offset)
      PROVE  StoreInv'
  BY <1>9, SegmentWriteInv
<1>10. ASSUME NEW t \in Transfer, NEW c \in Claim, NEW until \in Time,
              CreateClaim(c, t, until)
       PROVE  StoreInv'
  BY <1>10, CreateClaimInv
<1>11. ASSUME NEW at \in Time, ExpireDue(at) PROVE StoreInv'
  BY <1>11, ExpireDueInv
<1>12. ASSUME NEW c \in Claim, NEW until \in Time, RenewClaim(c, until)
       PROVE  StoreInv'
  BY <1>12, ClaimUpdateInv, StoreAssumption
<1>13. ASSUME NEW c \in Claim, CompleteClaim(c) PROVE StoreInv'
  BY <1>13, ClaimUpdateInv
<1>. QED
  BY <1>1, <1>2, <1>3, <1>4, <1>5, <1>6, <1>7, <1>8, <1>9, <1>10, <1>11, <1>12,
     <1>13 DEF StoreNext

\* The inductive invariant holds in every reachable state of the repository.
LEMMA StoreInvariant == StoreSpec => []StoreInv
  BY StoreInitInv, StoreNextInv, PTL DEF StoreSpec

\* Every column keeps its type, whatever the callers do.
THEOREM StoreTypeCorrect == StoreSpec => []StoreTypeOK
<1>1. StoreInv => StoreTypeOK
  BY DEF StoreInv
<1>. QED  BY <1>1, StoreInvariant, PTL

\* A public code names at most one transfer (UNIQUE column and Publish).
THEOREM StoreCodesUnique == StoreSpec => []CodesUnique
<1>1. StoreInv => CodesUnique
  BY DEF StoreInv
<1>. QED  BY <1>1, StoreInvariant, PTL

\* A COMMITTED row has its code and its expiry (Publish writes them together).
THEOREM StoreCommittedHasCode == StoreSpec => []CommittedHasCode
<1>1. StoreInv => CommittedHasCode
  BY DEF StoreInv
<1>. QED  BY <1>1, StoreInvariant, PTL

\* A row keeps its code and its expiry until it is purged: only Publish writes
\* them, and it refuses a row that has a code.
THEOREM StoreCodeStable == StoreSpec => CodeStable
<1>. DEFINE Stable == \A t \in Transfer : code[t] # NoCode /\ Exists(t)' =>
                        code'[t] = code[t] /\ expires'[t] = expires[t]
<1>1. StoreInv /\ [StoreNext]_storeVars => [Stable]_storeVars
  <2>. SUFFICES ASSUME StoreInv, StoreNext, NEW t \in Transfer,
                       code[t] # NoCode, Exists(t)'
                PROVE  code'[t] = code[t] /\ expires'[t] = expires[t]
    OBVIOUS
  <2>. USE DEF StoreInv, StoreTypeOK, CodeHasRow, Exists, NoRow
  <2>1. CASE \E u \in Transfer, at \in Time, minutes \in TTL : CreateTransfer(u, at, minutes)
    BY <2>1 DEF CreateTransfer
  <2>2. CASE \E u \in Transfer, at \in Time, minutes \in TTL, c \in Code :
                Allocate(u, at, minutes, c)
    BY <2>2 DEF Allocate, PublishNew
  <2>3. CASE \E u \in Transfer : Purge(u)
    BY <2>3 DEF Purge
  <2>4. CASE UNCHANGED <<code, expires>>
    BY <2>4
  <2>. QED
    BY <2>1, <2>2, <2>3, <2>4 DEF StoreNext, SetState, Fail, SetNoteAndTTL, ExpireDue,
        InsertSegment, SetSegmentProgress, CreateClaim, RenewClaim, CompleteClaim,
        transferVars
<1>. QED  BY <1>1, StoreInvariant, PTL DEF StoreSpec, CodeStable

\* A transfer that has left COMMITTED never becomes COMMITTED again: no late
\* SetState and no second Publish brings a withdrawn code back.
THEOREM StoreNeverCommittedTwice == StoreSpec => NeverCommittedTwice
<1>. DEFINE Once == \A t \in Transfer : code[t] # NoCode /\ state[t] # "COMMITTED" =>
                        state'[t] # "COMMITTED"
<1>1. StoreInv /\ [StoreNext]_storeVars => [Once]_storeVars
  <2>. SUFFICES ASSUME StoreInv, StoreNext, NEW t \in Transfer,
                       code[t] # NoCode, state[t] # "COMMITTED"
                PROVE  state'[t] # "COMMITTED"
    OBVIOUS
  <2>. USE DEF StoreInv, StoreTypeOK, Exists, NoRow
  <2>1. CASE \E u \in Transfer, at \in Time, minutes \in TTL : CreateTransfer(u, at, minutes)
    BY <2>1 DEF CreateTransfer
  <2>2. CASE \E u \in Transfer, at \in Time, minutes \in TTL, c \in Code :
                Allocate(u, at, minutes, c)
    BY <2>2 DEF Allocate, PublishNew
  <2>3. CASE \E u \in Transfer : Purge(u)
    BY <2>3 DEF Purge
  <2>4. CASE \E u \in Transfer, new \in SetStateTarget : SetState(u, new)
    BY <2>4 DEF SetState, SetStateTarget
  <2>5. CASE \E u \in Transfer : Fail(u)
    BY <2>5 DEF Fail
  <2>6. CASE \E at \in Time : ExpireDue(at)
    BY <2>6 DEF ExpireDue
  <2>7. CASE UNCHANGED state
    BY <2>7
  <2>. QED
    BY <2>1, <2>2, <2>3, <2>4, <2>5, <2>6, <2>7 DEF StoreNext, SetNoteAndTTL,
        InsertSegment, SetSegmentProgress, CreateClaim, RenewClaim, CompleteClaim,
        transferVars
<1>. QED  BY <1>1, StoreInvariant, PTL DEF StoreSpec, NeverCommittedTwice

-----------------------------------------------------------------------------
(* How many codes are enough.                                              *)

\* Codes do not run out while a transfer has none.
CodesLeft == (\E t \in Transfer : code[t] = NoCode) => FreeCode # {}

\* Finitely many transfers and as many codes: a code is left for whoever has none.
EnoughCodes ==
    /\ IsFiniteSet(Transfer) /\ IsFiniteSet(Code)
    /\ Cardinality(Transfer) <= Cardinality(Code)

LEMMA CodesLast ==
  ASSUME EnoughCodes, code \in [Transfer -> Code \cup {NoCode}]
  PROVE  CodesLeft
<1>. SUFFICES ASSUME NEW t \in Transfer, code[t] = NoCode, FreeCode = {} PROVE FALSE
  BY DEF CodesLeft
<1>. DEFINE D == {u \in Transfer : code[u] \in Code}
            f == [u \in D |-> code[u]]
<1>1. D \in SUBSET Transfer /\ t \notin D
  BY StoreAssumption
<1>2. f \in [D -> Code] /\ \A k \in Code : \E u \in D : f[u] = k
  BY DEF FreeCode
<1>3. f \in Surjection(D, Code)
  BY <1>2 DEF Surjection
<1>. HIDE DEF D, f
<1>4. IsFiniteSet(Transfer) /\ IsFiniteSet(Code) /\ Cardinality(Transfer) <= Cardinality(Code)
  BY DEF EnoughCodes
<1>5. /\ IsFiniteSet(D)
      /\ Cardinality(D) <= Cardinality(Transfer)
      /\ Cardinality(Transfer) = Cardinality(D) => Transfer = D
  BY <1>1, <1>4, FS_Subset
<1>6. Cardinality(Code) <= Cardinality(D)
  BY <1>3, <1>5, FS_Surjection
<1>7. Cardinality(D) \in Nat /\ Cardinality(Transfer) \in Nat /\ Cardinality(Code) \in Nat
  BY <1>4, <1>5, FS_CardinalityType
<1>. QED  BY <1>1, <1>4, <1>5, <1>6, <1>7
=============================================================================
