-------------------------- MODULE Recovery_proofs ---------------------------
(***************************************************************************)
(* Reconciliation keeps its promises for any number of transfers, whatever *)
(* rows and directories a crash left, and wherever reconciliation itself   *)
(* is crashed.                                                             *)
(***************************************************************************)
EXTENDS Recovery, FiniteSetTheorems, TLAPS

-----------------------------------------------------------------------------
(* Facts about directories.                                                *)

\* Absent and the records built from it are directories.
LEMMA AbsentDir == Absent \in Dir /\ ~Absent.here
  BY DEF Absent, Dir, NoFile

\* A path that does not exist holds no valid payload.
LEMMA AbsentInvalid ==
  ASSUME NEW t \in Transfer, live[t] = Absent
  PROVE  ~PayloadValid(t, live[t])
  BY DEF PayloadValid, Absent

\* A payload stays what it is while its directory and the files are left alone.
LEMMA PayloadFrame ==
  ASSUME NEW t \in Transfer, UNCHANGED file, live'[t] = live[t]
  PROVE  PayloadValid(t, live[t])' <=> PayloadValid(t, live[t])
  BY DEF PayloadValid, PayloadFile

\* A settled transfer stays settled while nothing of it changes.
LEMMA SettledFrame ==
  ASSUME NEW t \in Transfer, UNCHANGED file, UNCHANGED known,
         live'[t] = live[t], staging'[t] = staging[t],
         state'[t] = state[t], code'[t] = code[t]
  PROVE  Settled(t)' <=> Settled(t)
  BY PayloadFrame DEF Settled, HalfCommitted

-----------------------------------------------------------------------------
(* The first loop works on one transfer at a time: it is enough to look at *)
(* what a step does to the transfer in hand.                               *)
LEMMA RowsStep ==
  ASSUME RecoveryInv, RecoveryTypeOK', NEW t \in todo,
         phase = "rows", UNCHANGED <<phase, known, file>>,
         subject \in {t, NoTransfer},
         \A u \in Transfer \ {t} :
            /\ live'[u] = live[u] /\ staging'[u] = staging[u]
            /\ state'[u] = state[u] /\ code'[u] = code[u],
         \/ /\ todo' = todo /\ subject' = t /\ step' # "pick"
            /\ InHand(t)'
         \/ /\ todo' = todo \ {t} /\ subject' = NoTransfer /\ step' = "pick"
            /\ Settled(t)'
  PROVE  RecoveryInv'
<1>1. t \in Transfer /\ NoTransfer \notin Transfer
  BY StoreAssumption DEF RecoveryInv, RecoveryTypeOK, ReconcileTypeOK
<1>2. known[t] # NoRow
  BY <1>1 DEF RecoveryInv, KnownInv, PositionInv, InHand, Hopeless, PreCommit, NoRow,
              RecoveryTypeOK, ReconcileTypeOK, Step
<1>3. KnownInv'
  <2>. SUFFICES ASSUME NEW u \in Transfer
                PROVE  /\ known'[u] = NoRow => state'[u] = NoRow
                       /\ IF u \in todo'
                          THEN IF subject' = u THEN InHand(u)'
                               ELSE known'[u] # NoRow /\ state'[u] = known'[u]
                          ELSE Settled(u)'
    BY DEF KnownInv
  <2>1. CASE u = t
    BY <1>1, <1>2, <2>1
  <2>2. CASE u # t
    <3>1. Settled(u)' <=> Settled(u)
      BY <2>2, SettledFrame
    <3>2. u # subject /\ u # subject'
      BY <1>1, <2>2
    <3>. QED
      BY <1>1, <2>2, <3>1, <3>2 DEF RecoveryInv, KnownInv
  <2>. QED  BY <2>1, <2>2
<1>4. OrphanInv' /\ PositionInv'
  BY <1>1 DEF OrphanInv, PositionInv
<1>. QED  BY <1>3, <1>4 DEF RecoveryInv

-----------------------------------------------------------------------------
(* One lemma per action.                                                   *)

\* Every combination of rows and directories is a state to start from.
LEMMA RecoveryInitInv == RecoveryInit => RecoveryInv
<1>. SUFFICES ASSUME RecoveryInit PROVE RecoveryInv
  OBVIOUS
<1>1. RecoveryTypeOK
  BY CrashDirAssumption
     DEF RecoveryInit, RecoveryTypeOK, ReconcileTypeOK, Phase, Step
<1>2. KnownInv /\ OrphanInv /\ PositionInv
  BY DEF RecoveryInit, KnownInv, OrphanInv, PositionInv
<1>. QED  BY <1>1, <1>2 DEF RecoveryInv

\* After Begin the map agrees with the table, and every row is to be visited.
LEMMA BeginInv == ASSUME RecoveryInv, Begin PROVE RecoveryInv'
<1>. USE DEF Begin, storeVars, fileVars
<1>1. RecoveryTypeOK'
  BY DEF RecoveryInv, RecoveryTypeOK, ReconcileTypeOK, Phase, Step, AllTransferIDs
<1>2. KnownInv'
  <2>. SUFFICES ASSUME NEW t \in Transfer
                PROVE  /\ known'[t] = NoRow => state'[t] = NoRow
                       /\ t \in todo' => known'[t] # NoRow /\ state'[t] = known'[t]
                       /\ t \notin todo' => Settled(t)'
    BY StoreAssumption DEF KnownInv
  <2>. QED
    BY DEF AllTransferIDs, Exists, Settled, HalfCommitted, NoRow, PreCommit
<1>3. OrphanInv' /\ PositionInv'
  BY DEF OrphanInv, PositionInv
<1>. QED  BY <1>1, <1>2, <1>3 DEF RecoveryInv

\* The switch puts a transfer in hand for what its state calls for, and leaves
\* alone only a transfer that is settled as it is.
LEMMA VisitInv == ASSUME RecoveryInv, NEW t \in Transfer, Visit(t) PROVE RecoveryInv'
<1>. USE DEF Visit, Picking, storeVars, fileVars
<1>0. /\ phase = "rows" /\ step = "pick" /\ subject = NoTransfer /\ t \in todo
      /\ state[t] = known[t] /\ state[t] \in State
  BY StoreAssumption DEF RecoveryInv, PositionInv, KnownInv, RecoveryTypeOK, ReconcileTypeOK
<1>1. CASE Decision(t) = "pick"
  <2>1. RecoveryTypeOK'
    BY <1>1 DEF Visited, RecoveryInv, RecoveryTypeOK, ReconcileTypeOK, Step
  <2>2. Settled(t)
    BY <1>0, <1>1 DEF Decision, DecideCommitted, DecidePreCommit, Settled, HalfCommitted, State, PreCommit, Terminal, NoRow
  <2>3. Settled(t)'
    BY <1>1, <2>2, SettledFrame DEF Visited
  <2>. QED  BY <1>0, <1>1, <2>1, <2>3, RowsStep DEF Visited
<1>2. CASE Decision(t) # "pick"
  <2>0. step' = Decision(t) /\ subject' = t /\ UNCHANGED <<phase, known, todo>>
    BY <1>2 DEF Goto
  <2>1. /\ Decision(t) \in {"publish", "fail", "trashLive"}
        /\ Decision(t) = "publish" => state[t] \in PreCommit /\ PayloadValid(t, live[t])
        /\ Decision(t) = "fail" => state[t] \in PreCommit /\ ~PayloadValid(t, live[t])
        /\ Decision(t) = "trashLive" =>
                Hopeless(t) /\ (state[t] = "COMMITTED" => ~PayloadValid(t, live[t]))
    BY <1>0, <1>2 DEF Decision, DecideCommitted, DecidePreCommit, Hopeless, PreCommit
  <2>2. RecoveryTypeOK'
    BY <2>0, <2>1 DEF RecoveryInv, RecoveryTypeOK, ReconcileTypeOK, Step
  <2>3. PayloadValid(t, live[t])' <=> PayloadValid(t, live[t])
    BY PayloadFrame
  <2>4. InHand(t)'
    BY <1>0, <2>0, <2>1, <2>3 DEF InHand, Hopeless
  <2>. QED  BY <1>0, <2>0, <2>1, <2>2, <2>4, RowsStep
<1>. QED  BY <1>1, <1>2

\* While a code is free, only a row that has one is refused.
LEMMA CompletePublishInv ==
  ASSUME RecoveryInv, NEW t \in Transfer, CompleteInterruptedPublish(t) PROVE RecoveryInv'
<1>. USE DEF CompleteInterruptedPublish, fileVars, Visited
<1>0. /\ t \in todo /\ state[t] \in PreCommit /\ state[t] = known[t]
      /\ PayloadValid(t, live[t]) /\ code \in [Transfer -> Code \cup {NoCode}]
  BY StoreAssumption DEF RecoveryInv, PositionInv, KnownInv, InHand, RecoveryTypeOK
<1>1. PayloadValid(t, live[t])' <=> PayloadValid(t, live[t])
  BY PayloadFrame
<1>2. CASE \E c \in Code : Allocate(t, now, ttl[t], c)
  <2>1. state' = [state EXCEPT ![t] = "COMMITTED"]
        /\ \E c \in Code : code' = [code EXCEPT ![t] = c]
    BY <1>2 DEF Allocate
  <2>2. RecoveryTypeOK'
    BY <2>1 DEF RecoveryInv, RecoveryTypeOK, ReconcileTypeOK, Step, State
  <2>3. Settled(t)'
    BY <1>0, <1>1, <2>1 DEF Settled, HalfCommitted, RecoveryInv, RecoveryTypeOK, PreCommit, NoRow
  <2>. QED
    BY <1>0, <2>1, <2>2, <2>3, RowsStep DEF RecoveryInv, RecoveryTypeOK
<1>3. CASE ~PublishNew(t) /\ UNCHANGED storeVars
  <2>1. code[t] # NoCode
    <3>. SUFFICES ASSUME code[t] = NoCode PROVE FALSE
      OBVIOUS
    <3>1. PICK c \in Code : \A u \in Transfer : code[u] # c
      BY <1>0, CodesNeverRunOut
    <3>. QED  BY <1>0, <1>3, <3>1 DEF PublishNew, FreeCode
  <2>2. RecoveryTypeOK'
    BY <1>3 DEF storeVars, RecoveryInv, RecoveryTypeOK, ReconcileTypeOK, Step
  <2>3. Settled(t)'
    BY <1>0, <1>1, <1>3, <2>1 DEF storeVars, Settled, HalfCommitted, PreCommit, NoRow
  <2>. QED  BY <1>0, <1>3, <2>2, <2>3, RowsStep DEF storeVars
<1>. QED  BY <1>2, <1>3

\* A failed row is settled, unless its directories are still to be discarded.
LEMMA FailRowInv ==
  ASSUME RecoveryInv, NEW t \in Transfer, FailRow(t) PROVE RecoveryInv'
<1>. USE DEF FailRow, Fail, fileVars, Exists
<1>0. /\ t \in todo /\ state[t] \in PreCommit /\ state[t] = known[t]
      /\ state' = [state EXCEPT ![t] = "FAILED"] /\ state \in [Transfer -> State \cup {NoRow}]
  BY StoreAssumption
     DEF RecoveryInv, PositionInv, KnownInv, InHand, RecoveryTypeOK, PreCommit, NoRow
<1>1. RecoveryTypeOK'
  BY <1>0 DEF RecoveryInv, RecoveryTypeOK, ReconcileTypeOK, Step, State, Terminal, Goto, Visited
<1>2. CASE known[t] = "VERIFYING"
  <2>1. InHand(t)'
    BY <1>0, <1>2 DEF InHand, Hopeless, Goto
  <2>. QED  BY <1>0, <1>1, <1>2, <2>1, RowsStep DEF Goto
<1>3. CASE known[t] # "VERIFYING"
  <2>1. Settled(t)'
    BY <1>0, <1>3 DEF Settled, HalfCommitted, PreCommit, NoRow
  <2>. QED  BY <1>0, <1>1, <1>3, <2>1, RowsStep DEF Visited
<1>. QED  BY <1>2, <1>3

\* The later loops touch directories of transfers without a row only.
LEMMA LaterStep ==
  ASSUME RecoveryInv, phase # "down", phase = "rows" => todo = {},
         phase' \notin {"down", "rows"}, UNCHANGED <<known, file, state, code>>,
         \A t \in Transfer : known[t] # NoRow =>
            live'[t] = live[t] /\ staging'[t] = staging[t]
  PROVE  KnownInv'
<1>. SUFFICES ASSUME NEW t \in Transfer
              PROVE  (known'[t] = NoRow => state'[t] = NoRow) /\ Settled(t)'
  BY DEF KnownInv
<1>1. known[t] = NoRow => state[t] = NoRow
  BY DEF RecoveryInv, KnownInv
<1>2. CASE known[t] = NoRow
  BY <1>1, <1>2 DEF Settled, HalfCommitted, NoRow, PreCommit
<1>3. CASE known[t] # NoRow
  <2>1. Settled(t)
    BY DEF RecoveryInv, KnownInv
  <2>. QED  BY <1>3, <2>1, SettledFrame
<1>. QED  BY <1>1, <1>2, <1>3

\* ToTrash discards live: of a hopeless transfer, or of an orphan.
LEMMA DiscardLiveInv ==
  ASSUME RecoveryInv, NEW t \in Transfer, DiscardLive(t) PROVE RecoveryInv'
<1>. USE DEF DiscardLive, TrashLive, Goto, storeVars
<1>0. /\ t \in todo /\ phase \in {"rows", "live"}
      /\ live \in [Transfer -> Dir] /\ live'[t] = Absent
  BY StoreAssumption DEF RecoveryInv, RecoveryTypeOK, ReconcileTypeOK, PositionInv, Phase
<1>1. RecoveryTypeOK'
  BY AbsentDir DEF RecoveryInv, RecoveryTypeOK, ReconcileTypeOK, Step
<1>2. CASE phase = "rows"
  <2>1. Hopeless(t)
    BY <1>0, <1>2 DEF RecoveryInv, KnownInv, InHand
  <2>2. ~PayloadValid(t, live[t])'
    BY <1>0 DEF PayloadValid, Absent
  <2>3. InHand(t)'
    BY <1>0, <2>1, <2>2 DEF InHand, Hopeless, Absent
  <2>. QED  BY <1>0, <1>1, <1>2, <2>3, RowsStep
<1>3. CASE phase = "live"
  <2>1. known[t] = NoRow
    BY <1>0, <1>3 DEF RecoveryInv, PositionInv
  <2>2. KnownInv'
    BY <1>0, <1>3, <2>1, LaterStep DEF RecoveryInv, RecoveryTypeOK
  <2>3. OrphanInv'
    BY <1>0, <1>3, AbsentDir DEF RecoveryInv, RecoveryTypeOK, OrphanInv
  <2>4. PositionInv'
    BY <1>0, <1>3, StoreAssumption DEF RecoveryInv, PositionInv
  <2>. QED  BY <1>1, <2>2, <2>3, <2>4 DEF RecoveryInv
<1>. QED  BY <1>0, <1>2, <1>3

\* ToTrash discards staging; the first loop goes on to purge what was committed
\* or deleting, and is done with a row it has just failed.
LEMMA DiscardStagingInv ==
  ASSUME RecoveryInv, NEW t \in Transfer, DiscardStaging(t) PROVE RecoveryInv'
<1>. USE DEF DiscardStaging, TrashStaging, storeVars
<1>0. /\ t \in todo /\ phase \in {"rows", "live"}
      /\ staging \in [Transfer -> Dir] /\ staging'[t] = Absent
      /\ UNCHANGED <<phase, known, file, live>>
  BY StoreAssumption
     DEF RecoveryInv, RecoveryTypeOK, ReconcileTypeOK, PositionInv, Phase, Goto, Visited
<1>1. RecoveryTypeOK'
  BY AbsentDir DEF RecoveryInv, RecoveryTypeOK, ReconcileTypeOK, Step, Goto, Visited
<1>2. CASE phase = "rows"
  <2>1. Hopeless(t) /\ live[t] = Absent
    BY <1>0, <1>2 DEF RecoveryInv, KnownInv, InHand
  <2>2. ~PayloadValid(t, live[t])'
    BY <1>0, <2>1 DEF PayloadValid, Absent
  <2>3. CASE known[t] \in {"COMMITTED", "DELETING"}
    <3>1. InHand(t)'
      BY <1>0, <1>2, <2>1, <2>2, <2>3 DEF InHand, Hopeless, Absent, Goto
    <3>. QED  BY <1>0, <1>1, <1>2, <2>3, <3>1, RowsStep DEF Goto
  <2>4. CASE known[t] \notin {"COMMITTED", "DELETING"}
    <3>1. Settled(t)'
      BY <1>0, <2>1, <2>4 DEF Settled, HalfCommitted, Hopeless, PreCommit, NoRow
    <3>. QED  BY <1>0, <1>1, <1>2, <2>4, <3>1, RowsStep DEF Visited
  <2>. QED  BY <2>3, <2>4
<1>3. CASE phase = "live"
  <2>1. known[t] = NoRow
    BY <1>0, <1>3 DEF RecoveryInv, PositionInv
  <2>2. KnownInv'
    BY <1>0, <1>3, <2>1, LaterStep DEF RecoveryInv, RecoveryTypeOK
  <2>3. OrphanInv'
    BY <1>0, <1>3, AbsentDir, StoreAssumption
       DEF RecoveryInv, RecoveryTypeOK, OrphanInv, Visited
  <2>4. PositionInv'
    BY <1>0, <1>3 DEF RecoveryInv, PositionInv, Visited
  <2>. QED  BY <1>1, <2>2, <2>3, <2>4 DEF RecoveryInv
<1>. QED  BY <1>0, <1>2, <1>3

\* A purged row has no directories left.
LEMMA PurgeRowInv ==
  ASSUME RecoveryInv, NEW t \in Transfer, PurgeRow(t) PROVE RecoveryInv'
<1>. USE DEF PurgeRow, Purge, Visited, fileVars
<1>0. /\ t \in todo /\ live[t] = Absent /\ staging[t] = Absent
  BY StoreAssumption DEF RecoveryInv, PositionInv, KnownInv, InHand
<1>1. RecoveryTypeOK'
  BY DEF RecoveryInv, RecoveryTypeOK, ReconcileTypeOK, Step
<1>2. Settled(t)'
  BY <1>0, AbsentDir
     DEF Settled, HalfCommitted, PreCommit, NoRow, RecoveryInv, RecoveryTypeOK
<1>. QED  BY <1>0, <1>1, <1>2, RowsStep DEF RecoveryInv, RecoveryTypeOK

-----------------------------------------------------------------------------
(* The loops over directory listings.                                      *)

LEMMA NextLoopInv ==
  ASSUME RecoveryInv, ListLive \/ ListStaging \/ ToTrashLoop PROVE RecoveryInv'
<1>. USE DEF ListLive, ListStaging, ToTrashLoop, NextLoop, Picking, storeVars, fileVars
<1>1. RecoveryTypeOK'
  BY DEF RecoveryInv, RecoveryTypeOK, ReconcileTypeOK, Phase, ListLiveIDs, ListStagingIDs
<1>2. KnownInv'
  BY LaterStep
<1>3. OrphanInv'
  BY StoreAssumption
     DEF RecoveryInv, OrphanInv, PositionInv, ListLiveIDs, ListStagingIDs
<1>4. PositionInv'
  BY StoreAssumption DEF RecoveryInv, PositionInv
<1>. QED  BY <1>1, <1>2, <1>3, <1>4 DEF RecoveryInv

LEMMA TrashOrphanInv ==
  ASSUME RecoveryInv, NEW t \in Transfer, TrashOrphan(t) PROVE RecoveryInv'
<1>. USE DEF TrashOrphan, Picking, Goto, storeVars, fileVars
<1>1. RecoveryTypeOK'
  BY DEF RecoveryInv, RecoveryTypeOK, ReconcileTypeOK, Step
<1>2. KnownInv'
  BY LaterStep
<1>3. OrphanInv'
  BY DEF RecoveryInv, OrphanInv
<1>4. PositionInv'
  BY StoreAssumption DEF RecoveryInv, PositionInv
<1>. QED  BY <1>1, <1>2, <1>3, <1>4 DEF RecoveryInv

LEMMA RemoveOrphanInv ==
  ASSUME RecoveryInv, NEW t \in Transfer, RemoveOrphan(t) PROVE RecoveryInv'
<1>. USE DEF RemoveOrphan, RemoveStaging, Picking, Visited, storeVars
<1>0. known[t] = NoRow
  BY DEF RecoveryInv, PositionInv
<1>1. RecoveryTypeOK'
  BY AbsentDir DEF RecoveryInv, RecoveryTypeOK, ReconcileTypeOK, Step
<1>2. KnownInv'
  BY <1>0, LaterStep DEF RecoveryInv, RecoveryTypeOK
<1>3. OrphanInv'
  BY AbsentDir DEF RecoveryInv, RecoveryTypeOK, OrphanInv
<1>4. PositionInv'
  BY DEF RecoveryInv, PositionInv
<1>. QED  BY <1>1, <1>2, <1>3, <1>4 DEF RecoveryInv

LEMMA FinishInv == ASSUME RecoveryInv, Finish PROVE RecoveryInv'
<1>. USE DEF Finish, EmptyTrash, Picking, storeVars
<1>1. RecoveryTypeOK'
  BY AbsentDir DEF RecoveryInv, RecoveryTypeOK, ReconcileTypeOK, Phase
<1>2. KnownInv'
  BY LaterStep
<1>3. OrphanInv'
  BY AbsentDir DEF RecoveryInv, OrphanInv
<1>4. PositionInv'
  BY DEF RecoveryInv, PositionInv
<1>. QED  BY <1>1, <1>2, <1>3, <1>4 DEF RecoveryInv

\* A crash may fall anywhere: a process that is down promises nothing.
LEMMA CrashInv == ASSUME RecoveryInv, Crash PROVE RecoveryInv'
<1>. USE DEF Crash, Stop, storeVars, fileVars
<1>1. RecoveryTypeOK'
  BY DEF RecoveryInv, RecoveryTypeOK, ReconcileTypeOK, Phase, Step
<1>2. KnownInv' /\ OrphanInv' /\ PositionInv'
  BY DEF KnownInv, OrphanInv, PositionInv
<1>. QED  BY <1>1, <1>2 DEF RecoveryInv

-----------------------------------------------------------------------------
(* The theorems.                                                           *)

LEMMA RecoveryStutterInv ==
  ASSUME RecoveryInv, UNCHANGED recoveryVars PROVE RecoveryInv'
<1>. USE DEF recoveryVars, storeVars, fileVars, reconcileVars
<1>1. \A t \in Transfer : PayloadValid(t, live[t])' <=> PayloadValid(t, live[t])
  BY PayloadFrame
<1>2. \A t \in Transfer : Settled(t)' <=> Settled(t)
  BY SettledFrame
<1>3. \A t \in Transfer : InHand(t)' <=> InHand(t)
  BY <1>1 DEF InHand, Hopeless
<1>4. KnownInv'
  BY <1>2, <1>3 DEF RecoveryInv, KnownInv
<1>5. RecoveryTypeOK' /\ OrphanInv' /\ PositionInv'
  BY DEF RecoveryInv, RecoveryTypeOK, ReconcileTypeOK, OrphanInv, PositionInv
<1>. QED  BY <1>4, <1>5 DEF RecoveryInv

LEMMA RecoveryNextInv == RecoveryInv /\ [RecoveryNext]_recoveryVars => RecoveryInv'
  BY BeginInv, VisitInv, CompletePublishInv, FailRowInv, DiscardLiveInv,
     DiscardStagingInv, PurgeRowInv, NextLoopInv, TrashOrphanInv, RemoveOrphanInv,
     FinishInv, CrashInv, RecoveryStutterInv DEF RecoveryNext, ReconcileStep

LEMMA RecoveryInvariant == RecoverySpec => []RecoveryInv
  BY RecoveryInitInv, RecoveryNextInv, PTL DEF RecoverySpec

\* When reconciliation declares readiness, no code resolves to a missing or short
\* payload, for any rows and directories a crash left and any further crashes.
THEOREM RecoveryResolvesValid == RecoverySpec => []ReadyResolvesValid
<1>1. RecoveryInv => ReadyResolvesValid
  BY DEF RecoveryInv, KnownInv, Settled, ReadyResolvesValid
<1>. QED  BY <1>1, RecoveryInvariant, PTL

\* When reconciliation declares readiness, deletions are finished and every
\* directory belongs to a row.
THEOREM RecoveryNoGarbage == RecoverySpec => []ReadyNoGarbage
<1>1. RecoveryInv => ReadyNoGarbage
  BY DEF RecoveryInv, KnownInv, OrphanInv, Settled, ReadyNoGarbage, Exists
<1>. QED  BY <1>1, RecoveryInvariant, PTL

\* When reconciliation declares readiness, no commit is left cut in half.
THEOREM RecoveryNoHalfCommit == RecoverySpec => []ReadyNoHalfCommit
<1>1. RecoveryInv => ReadyNoHalfCommit
  BY DEF RecoveryInv, KnownInv, Settled, ReadyNoHalfCommit
<1>. QED  BY <1>1, RecoveryInvariant, PTL

\* Reconciliation never loses a payload that is published and valid, and takes
\* its row nowhere but to COMMITTED.
THEOREM RecoveryKeepsPublished == RecoverySpec => KeepsPublished
<1>. DEFINE Keeps ==
        \A t \in Transfer :
            PayloadValid(t, live[t]) /\ state[t] \in PreCommit \cup {"COMMITTED"} =>
                live'[t] = live[t] /\ state'[t] \in {state[t], "COMMITTED"}
<1>1. RecoveryInv /\ [RecoveryNext]_recoveryVars => [Keeps]_recoveryVars
  <2>. SUFFICES ASSUME RecoveryInv, RecoveryNext, NEW t \in Transfer,
                       PayloadValid(t, live[t]), state[t] \in PreCommit \cup {"COMMITTED"}
                PROVE  live'[t] = live[t] /\ state'[t] \in {state[t], "COMMITTED"}
    OBVIOUS
  <2>0. /\ live[t] # Absent
        /\ state \in [Transfer -> State \cup {NoRow}] /\ live \in [Transfer -> Dir]
    BY AbsentInvalid DEF RecoveryInv, RecoveryTypeOK
  <2>1. ASSUME NEW u \in Transfer, CompleteInterruptedPublish(u)
        PROVE  live'[t] = live[t] /\ state'[t] \in {state[t], "COMMITTED"}
    BY <2>0, <2>1 DEF CompleteInterruptedPublish, Allocate, storeVars, fileVars
  <2>2. ASSUME NEW u \in Transfer, FailRow(u)
        PROVE  live'[t] = live[t] /\ state'[t] \in {state[t], "COMMITTED"}
    <3>1. u # t
      BY <2>2, StoreAssumption DEF FailRow, RecoveryInv, PositionInv, KnownInv, InHand
    <3>. QED  BY <2>0, <2>2, <3>1 DEF FailRow, Fail, fileVars
  <2>3. ASSUME NEW u \in Transfer, DiscardLive(u)
        PROVE  live'[t] = live[t] /\ state'[t] \in {state[t], "COMMITTED"}
    <3>1. u \in todo /\ phase \in {"rows", "live"}
      BY <2>3, StoreAssumption
         DEF DiscardLive, RecoveryInv, RecoveryTypeOK, ReconcileTypeOK, PositionInv, Phase
    <3>2. u # t
      BY <2>3, <3>1 DEF DiscardLive, RecoveryInv, PositionInv, KnownInv, InHand,
                        Hopeless, PreCommit, NoRow
    <3>. QED  BY <2>0, <2>3, <3>2 DEF DiscardLive, TrashLive, storeVars
  <2>4. ASSUME NEW u \in Transfer, PurgeRow(u)
        PROVE  live'[t] = live[t] /\ state'[t] \in {state[t], "COMMITTED"}
    <3>1. u # t
      BY <2>0, <2>4, StoreAssumption DEF PurgeRow, RecoveryInv, PositionInv, KnownInv, InHand
    <3>. QED  BY <2>0, <2>4, <3>1 DEF PurgeRow, Purge, fileVars
  <2>5. CASE UNCHANGED <<state, live>>
    BY <2>5
  <2>. QED
    BY <2>1, <2>2, <2>3, <2>4, <2>5 DEF RecoveryNext, ReconcileStep, Begin, ListLive,
        ListStaging, ToTrashLoop, NextLoop, Finish, EmptyTrash, Visit, DiscardStaging,
        TrashStaging, TrashOrphan, RemoveOrphan, RemoveStaging, Crash, storeVars, fileVars
<1>. QED  BY <1>1, RecoveryInvariant, PTL DEF RecoverySpec, KeepsPublished

-----------------------------------------------------------------------------
(* How long it takes.                                                      *)

\* Statements that the loop body has executed for the transfer in hand.
Executed ==
    CASE step = "pick" -> 0
      [] step \in {"publish", "fail"} -> 1
      [] step = "trashLive" -> IF phase = "rows" THEN 2 ELSE 1
      [] step = "trashStaging" -> IF phase = "rows" THEN 3 ELSE 2
      [] step = "purge" -> 4

\* An upper bound on the statements that Run has still to execute: five for a row,
\* three for a live directory without one, one for a staging directory, and one
\* at the end of each loop.
StepsLeft ==
    LET n == Cardinality(Transfer)  m == Cardinality(todo) IN
    CASE phase = "down" -> 9 * n + 5
      [] phase = "rows" -> 5 * m - Executed + 4 * n + 4
      [] phase = "live" -> 3 * m - Executed + n + 3
      [] phase = "staging" -> m + 2
      [] phase = "trash" -> 1
      [] phase = "ready" -> 0

\* Sizes of the sets that the loops work through.
LEMMA TodoSize ==
  ASSUME IsFiniteSet(Transfer), NEW S \in SUBSET Transfer
  PROVE  /\ IsFiniteSet(S)
         /\ Cardinality(S) \in Nat /\ Cardinality(Transfer) \in Nat
         /\ Cardinality(S) <= Cardinality(Transfer)
         /\ \A t \in S : /\ Cardinality(S) >= 1
                         /\ Cardinality(S \ {t}) = Cardinality(S) - 1
<1>1. IsFiniteSet(S) /\ Cardinality(S) <= Cardinality(Transfer)
  BY FS_Subset
<1>2. Cardinality(S) \in Nat /\ Cardinality(Transfer) \in Nat
  BY <1>1, FS_CardinalityType
<1>3. ASSUME NEW t \in S PROVE Cardinality(S) >= 1 /\ Cardinality(S \ {t}) = Cardinality(S) - 1
  <2>1. IsFiniteSet(S \ {t}) /\ Cardinality(S \ {t}) = Cardinality(S) - 1
    BY <1>1, FS_RemoveElement
  <2>2. Cardinality(S \ {t}) \in Nat
    BY <2>1, FS_CardinalityType
  <2>. QED  BY <1>2, <2>1, <2>2
<1>. QED  BY <1>1, <1>2, <1>3

LEMMA StepsLeftRange ==
  ASSUME IsFiniteSet(Transfer), RecoveryInv
  PROVE  /\ StepsLeft \in 0..(9 * Cardinality(Transfer) + 5)
         /\ StepsLeft = 0 <=> phase = "ready"
<1>1. /\ Cardinality(todo) \in Nat /\ Cardinality(Transfer) \in Nat
      /\ Cardinality(todo) <= Cardinality(Transfer)
      /\ step # "pick" => Cardinality(todo) >= 1
      /\ phase \in Phase /\ step \in Step
      /\ phase = "live" => step \in {"pick", "trashLive", "trashStaging"}
  BY TodoSize DEF RecoveryInv, RecoveryTypeOK, ReconcileTypeOK, PositionInv
<1>2. /\ Executed \in 0..4 /\ (phase = "live" => Executed \in 0..2)
      /\ step = "pick" => Executed = 0
  BY <1>1 DEF Executed, Step
<1>. QED  BY <1>1, <1>2 DEF StepsLeft, Phase

LEMMA StepsLeftFalls ==
  ASSUME IsFiniteSet(Transfer), RecoveryInv, ReconcileStep
  PROVE  StepsLeft' < StepsLeft
<1>. DEFINE n == Cardinality(Transfer)
            m == Cardinality(todo)
<1>0. /\ m \in Nat /\ n \in Nat /\ m <= n /\ todo \subseteq Transfer
      /\ \A t \in todo : m >= 1 /\ Cardinality(todo \ {t}) = m - 1
  BY TodoSize DEF RecoveryInv, RecoveryTypeOK, ReconcileTypeOK
<1>1. \A S \in SUBSET Transfer : Cardinality(S) \in Nat /\ Cardinality(S) <= n
  BY TodoSize
<1>2. /\ step = "pick" <=> subject = NoTransfer
      /\ subject # NoTransfer => subject \in todo
      /\ phase \in Phase /\ step \in Step /\ NoTransfer \notin Transfer
      /\ phase = "live" => step \in {"pick", "trashLive", "trashStaging"}
      /\ phase \in {"down", "staging", "trash", "ready"} => step = "pick"
  BY StoreAssumption DEF RecoveryInv, RecoveryTypeOK, ReconcileTypeOK, PositionInv
<1>. HIDE DEF n, m
<1>3. CASE Begin
  <2>1. /\ phase = "down" /\ phase' = "rows" /\ step' = "pick"
        /\ Cardinality(todo') \in Nat /\ Cardinality(todo') <= n
    BY <1>1, <1>3 DEF Begin, AllTransferIDs
  <2>. QED  BY <1>0, <2>1 DEF StepsLeft, Executed, n
<1>4. ASSUME NEW from, NEW to, NEW ids \in SUBSET Transfer, NextLoop(from, to, ids),
             <<from, to>> \in {<<"rows", "live">>, <<"live", "staging">>, <<"staging", "trash">>}
      PROVE  StepsLeft' < StepsLeft
  <2>1. /\ phase = from /\ phase' = to /\ step = "pick" /\ step' = "pick" /\ m = 0
        /\ Cardinality(todo') \in Nat /\ Cardinality(todo') <= n
    <3>1. todo' \in SUBSET Transfer /\ todo = {}
      BY <1>4 DEF NextLoop
    <3>2. m = 0
      BY <3>1, FS_EmptySet DEF m
    <3>. QED  BY <1>1, <1>4, <3>1, <3>2 DEF NextLoop, Picking
  <2>. QED  BY <1>0, <1>4, <2>1 DEF StepsLeft, Executed, n, m
<1>5. CASE Finish
  BY <1>5 DEF Finish, Picking, StepsLeft
<1>6. ASSUME NEW t \in Transfer, t \in todo, phase \in {"rows", "live", "staging"},
             Visited(t)
      PROVE  StepsLeft' < StepsLeft
  <2>1. /\ phase' = phase /\ step' = "pick" /\ Cardinality(todo') = m - 1 /\ m >= 1
    BY <1>0, <1>6 DEF Visited
  <2>2. Executed \in 0..4 /\ (phase = "live" => Executed \in 0..2) /\ Executed' = 0
    BY <1>2, <2>1 DEF Executed, Step
  <2>. QED  BY <1>0, <1>6, <2>1, <2>2 DEF StepsLeft, n, m
<1>7. ASSUME NEW t, NEW s, phase \in {"rows", "live"}, Goto(t, s), Executed < Executed',
             Executed \in Nat, Executed' \in Nat
      PROVE  StepsLeft' < StepsLeft
  <2>1. phase' = phase /\ todo' = todo
    BY <1>7 DEF Goto
  <2>. QED  BY <1>0, <1>7, <2>1 DEF StepsLeft, n, m
<1>8. ASSUME NEW t \in Transfer, Visit(t) PROVE StepsLeft' < StepsLeft
  <2>1. CASE Decision(t) = "pick"
    BY <1>6, <1>8, <2>1 DEF Visit, Picking
  <2>2. CASE Decision(t) # "pick"
    <3>1. Decision(t) \in {"publish", "fail", "trashLive"}
      BY <2>2 DEF Decision, DecideCommitted, DecidePreCommit
    <3>2. Goto(t, Decision(t)) /\ phase = "rows" /\ step = "pick"
      BY <1>8, <2>2 DEF Visit, Picking
    <3>3. Executed = 0 /\ Executed' \in {1, 2}
      BY <3>1, <3>2 DEF Executed, Goto
    <3>. QED  BY <1>7, <3>2, <3>3
  <2>. QED  BY <2>1, <2>2
<1>9. ASSUME NEW t \in Transfer, CompleteInterruptedPublish(t) \/ PurgeRow(t)
      PROVE  StepsLeft' < StepsLeft
  BY <1>2, <1>6, <1>9 DEF CompleteInterruptedPublish, PurgeRow
<1>10. ASSUME NEW t \in Transfer, FailRow(t) PROVE StepsLeft' < StepsLeft
  <2>1. phase = "rows" /\ step = "fail" /\ t \in todo
    BY <1>2, <1>10 DEF FailRow
  <2>2. CASE Visited(t)
    BY <1>6, <2>1, <2>2
  <2>3. CASE Goto(t, "trashLive")
    <3>1. Executed = 1 /\ Executed' = 2
      BY <2>1, <2>3 DEF Executed, Goto
    <3>. QED  BY <1>7, <2>1, <2>3, <3>1
  <2>. QED  BY <1>10, <2>2, <2>3 DEF FailRow
<1>11. ASSUME NEW t \in Transfer, DiscardLive(t) PROVE StepsLeft' < StepsLeft
  <2>1. phase \in {"rows", "live"} /\ step = "trashLive" /\ Goto(t, "trashStaging")
    BY <1>2, <1>11 DEF DiscardLive, Phase
  <2>2. Executed + 1 = Executed' /\ Executed \in Nat /\ Executed' \in Nat
    BY <2>1 DEF Executed, Goto
  <2>. QED  BY <1>7, <2>1, <2>2
<1>12. ASSUME NEW t \in Transfer, DiscardStaging(t) PROVE StepsLeft' < StepsLeft
  <2>1. phase \in {"rows", "live"} /\ step = "trashStaging" /\ t \in todo
    BY <1>2, <1>12 DEF DiscardStaging, Phase
  <2>2. CASE Visited(t)
    BY <1>6, <2>1, <2>2
  <2>3. CASE Goto(t, "purge") /\ phase = "rows"
    <3>1. Executed = 3 /\ Executed' = 4
      BY <2>1, <2>3 DEF Executed, Goto
    <3>. QED  BY <1>7, <2>3, <3>1
  <2>. QED  BY <1>12, <2>2, <2>3 DEF DiscardStaging
<1>13. ASSUME NEW t \in Transfer, TrashOrphan(t) PROVE StepsLeft' < StepsLeft
  <2>1. phase = "live" /\ step = "pick" /\ Goto(t, "trashLive")
    BY <1>13 DEF TrashOrphan, Picking
  <2>2. Executed = 0 /\ Executed' = 1
    BY <2>1 DEF Executed, Goto
  <2>. QED  BY <1>7, <2>1, <2>2
<1>14. ASSUME NEW t \in Transfer, RemoveOrphan(t) PROVE StepsLeft' < StepsLeft
  BY <1>6, <1>14 DEF RemoveOrphan, Picking
<1>15. CASE ListLive \/ ListStaging \/ ToTrashLoop
  BY <1>4, <1>15 DEF ListLive, ListStaging, ToTrashLoop, ListLiveIDs, ListStagingIDs
<1>. QED
  BY <1>3, <1>5, <1>8, <1>9, <1>10, <1>11, <1>12, <1>13, <1>14, <1>15 DEF ReconcileStep

\* Startup takes at most nine statements for each transfer and five more, whatever
\* a crash left: every statement leaves fewer to execute, a refused publication
\* included, and none are left just when readiness is declared.  A crash starts
\* the count again.
THEOREM StartupIsLinear ==
  ASSUME IsFiniteSet(Transfer)
  PROVE  RecoverySpec =>
            /\ []( /\ StepsLeft \in 0..(9 * Cardinality(Transfer) + 5)
                   /\ StepsLeft = 0 <=> phase = "ready" )
            /\ [][Crash \/ StepsLeft' < StepsLeft]_recoveryVars
<1>1. RecoveryInv => /\ StepsLeft \in 0..(9 * Cardinality(Transfer) + 5)
                     /\ StepsLeft = 0 <=> phase = "ready"
  BY StepsLeftRange
<1>2. RecoveryInv /\ [RecoveryNext]_recoveryVars => [Crash \/ StepsLeft' < StepsLeft]_recoveryVars
  BY StepsLeftFalls DEF RecoveryNext
<1>. QED  BY <1>1, <1>2, RecoveryInvariant, PTL DEF RecoverySpec
=============================================================================
