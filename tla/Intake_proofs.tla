---------------------------- MODULE Intake_proofs --------------------------
(***************************************************************************)
(* Idempotency keys and admission for any number of requests, keys and     *)
(* crashes.  The theorems about keys are for handlers that do not outlast  *)
(* the lifetimes they work with (~Slow): the code has no such bound, and   *)
(* a handler that runs longer than its key loses it to the sweep.          *)
(***************************************************************************)
EXTENDS Intake, Store_proofs

-----------------------------------------------------------------------------
(* The inductive invariant.                                                *)

\* The PATCHes of a resumable transfer.
Patching(t) == StartPatch(t) \/ WritePatch(t) \/ EndPatch(t)

\* Until its packs are extracted, a transfer occupies what has arrived; nothing is
\* extracted before all bytes have arrived.
Arriving(t) ==
    \/ pc[t] \in {"idle", "check", "insert", "body", "guard", "created", "verify", "unpack"}
    \/ t \notin SimpleT /\ pc[t] = "complete"

IntakeTypes ==
    /\ StoreInv
    /\ \A t \in Transfer : Exists(t) => ttl[t] \in TTL
    /\ keyrow \in [Key -> Entry \cup {NoEntry}]
    /\ reserved \in [Transfer -> Nat] /\ disk \in [Transfer -> Nat]
    /\ \A t \in Transfer : reserved[t] \in {0, Reserve(Size[t])} /\ disk[t] <= Reserve(Size[t])
    /\ \A t \in Transfer : Arriving(t) => disk[t] <= Size[t]
    /\ DOMAIN pc = Transfer
    /\ gone \in [Transfer -> BOOLEAN]
    /\ answer \in [Transfer -> Code \cup {NoCode}]
    /\ live \in [Transfer -> BOOLEAN]
    /\ patches \in [Transfer -> Nat]
    /\ now \in 0..MaxTime

\* Statements of a handler that has made its row and not given it up.
AtWork == {"body", "guard", "complete", "created", "verify", "unpack", "rename", "allocate"}

\* The row of t is published, or may be published yet.
Ripe(t) == state[t] \in {"VERIFYING", "COMMITTED"}
Promising(t) == Exists(t) /\ (Ripe(t) \/ pc[t] \in AtWork)

\* The request that makes t has taken its key and not yet recorded a result.
Pending(t) ==
    /\ KeyOf[t] # NoKey
    /\ \/ pc[t] \in {"check", "insert", "complete", "forget"}
       \/ t \in SimpleT /\ pc[t] \in {"body", "guard", "verify", "rename", "allocate"}

SameKey(t, u) == t # u /\ KeyOf[t] = KeyOf[u] /\ KeyOf[t] # NoKey

\* A row whose key has not ended keeps the key.
KeyHeld(t) ==
    KeyOf[t] # NoKey /\ Promising(t) =>
        \/ created[t] + KeyTTL <= now
        \/ /\ Held(KeyOf[t])
           /\ keyrow[KeyOf[t]].until = created[t] + KeyTTL
           /\ keyrow[KeyOf[t]].transfer \in {t, NoTransfer}

\* A running request owns the row of its key.
PendingOwns(t) ==
    Pending(t) =>
        /\ Held(KeyOf[t])
        /\ keyrow[KeyOf[t]].transfer = NoTransfer
        /\ keyrow[KeyOf[t]].print = PrintOf[t]
        /\ keyrow[KeyOf[t]].until > now
        /\ pc[t] \in {"check", "insert"} => keyrow[KeyOf[t]].until = now + KeyTTL

Apart ==
    \A t, u \in Transfer : SameKey(t, u) =>
        /\ ~Pending(t) \/ ~Pending(u)
        /\ Pending(t) /\ Promising(u) => created[u] + KeyTTL <= now
        /\ Promising(t) /\ Promising(u) =>
                created[t] + KeyTTL <= created[u] \/ created[u] + KeyTTL <= created[t]

\* The row of t at the statements of its handler.
RowAt(t) ==
    /\ pc[t] \in {"idle", "check", "insert"} => ~Exists(t)
    /\ t \in SimpleT /\ pc[t] \in {"body", "guard", "verify"} => ~Ripe(t)
    /\ pc[t] = "forget" /\ ~gone[t] => ~Ripe(t)
    /\ pc[t] \in {"body", "guard"} => t \in SimpleT
    /\ pc[t] \in {"created", "unpack"} => t \notin SimpleT

\* A recorded result is that of the transfer it names.
ResultOK(k) ==
    Held(k) =>
        LET u == keyrow[k].transfer IN
        /\ keyrow[k].code # NoCode => u # NoTransfer
        /\ u # NoTransfer =>
            /\ KeyOf[u] = k /\ PrintOf[u] = keyrow[k].print
            /\ keyrow[k].code # NoCode => code[u] = keyrow[k].code

\* Without Slow: every key leads where it should.
KeysInv ==
    /\ \A t \in Transfer : KeyHeld(t) /\ PendingOwns(t) /\ RowAt(t)
    /\ \A k \in Key : ResultOK(k)
    /\ Apart

-----------------------------------------------------------------------------
(* The repository, called by the handlers.                                 *)

\* Every step calls the repository in a way its specification allows.
LEMMA IntakeCallsStore ==
  ASSUME IntakeTypes, [IntakeNext]_vars
  PROVE  [StoreNext]_storeVars
<1>0. now \in Time /\ \A t \in Transfer : Exists(t) => ttl[t] \in TTL
  BY IntakeAssumption DEF IntakeTypes
<1>1. ASSUME NEW t \in Transfer, UploadStep(t) PROVE [StoreNext]_storeVars
  <2>1. UNCHANGED storeVars \/ Insert(t) \/ AbortUpload(t) \/ Patching(t) \/ Verify(t) \/ Unpack(t) \/ AllocateCode(t)
    BY <1>1 DEF UploadStep, Patching, Begin, Check, Finish, ForgetKey, Stream, Guard, EndBody, StartCommit, Rename
  <2>2. Insert(t) => [StoreNext]_storeVars
    BY <1>0 DEF Insert, StoreNext
  <2>3. AbortUpload(t) => [StoreNext]_storeVars
    BY DEF AbortUpload, PurgeRow, StoreNext
  <2>4. Patching(t) \/ Verify(t) \/ Unpack(t) => [StoreNext]_storeVars
    BY DEF Patching, StartPatch, WritePatch, EndPatch, Verify, Unpack, StoreNext, SetStateTarget
  <2>5. AllocateCode(t) => [StoreNext]_storeVars
    <3>1. ASSUME NEW c \in Code, Allocate(t, now, ttl[t], c) PROVE StoreNext
      <4>1. Exists(t)
        BY <3>1 DEF Allocate, PublishNew, PreCommit, Exists, NoRow
      <4>. QED  BY <1>0, <3>1, <4>1 DEF StoreNext
    <3>. QED  BY <3>1 DEF AllocateCode, PublishRow
  <2>. QED  BY <2>1, <2>2, <2>3, <2>4, <2>5
<1>2. Sweep => [StoreNext]_storeVars
  BY <1>0 DEF Sweep, SweepExpire, SweepKeys, SweepAbandon, SweepDelete, PurgeRow, StoreNext, SetStateTarget
<1>3. ASSUME NEW t \in Transfer, Reconcile(t) PROVE [StoreNext]_storeVars
  <2>1. Exists(t)
    BY <1>3 DEF Reconcile, Exists, NoRow
  <2>. QED  BY <1>0, <1>3, <2>1 DEF Reconcile, PublishRow, StoreNext
<1>4. Ready \/ Crash \/ Tick \/ Ended \/ UNCHANGED vars \/ (\E t \in Transfer : Leave(t)) => UNCHANGED storeVars
  BY DEF Ready, Crash, Tick, Ended, Leave, vars
<1>. QED  BY <1>1, <1>2, <1>3, <1>4 DEF IntakeNext, Restart

\* What a handler that goes on does to itself, and to nobody else.
LEMMA GotoMoves ==
  ASSUME DOMAIN pc = Transfer, gone \in [Transfer -> BOOLEAN], NEW t \in Transfer, NEW n, Goto(t, n)
  PROVE  /\ pc'[t] = n /\ DOMAIN pc' = Transfer /\ gone' \in [Transfer -> BOOLEAN]
         /\ \A u \in Transfer : u # t => pc'[u] = pc[u] /\ gone'[u] = gone[u]
         /\ n \notin Resting => gone'[t] = gone[t]
  BY DEF Goto

\* Rows keep a lifetime that a caller asked for.
LEMMA LifetimesKept ==
  ASSUME StoreInv, \A t \in Transfer : Exists(t) => ttl[t] \in TTL, [StoreNext]_storeVars
  PROVE  \A t \in Transfer : Exists(t)' => ttl'[t] \in TTL
<1>. USE DEF StoreInv, StoreTypeOK, Exists
<1>1. ASSUME NEW u \in Transfer, NEW at \in Time, NEW m \in TTL, CreateTransfer(u, at, m)
      PROVE  \A t \in Transfer : Exists(t)' => ttl'[t] \in TTL
  BY <1>1 DEF CreateTransfer
<1>2. ASSUME NEW u \in Transfer, NEW new, SetState(u, new) \/ Fail(u)
      PROVE  \A t \in Transfer : Exists(t)' => ttl'[t] \in TTL
  BY <1>2 DEF SetState, Fail
<1>3. ASSUME NEW u \in Transfer, NEW m \in TTL, SetNoteAndTTL(u, m)
      PROVE  \A t \in Transfer : Exists(t)' => ttl'[t] \in TTL
  BY <1>3 DEF SetNoteAndTTL
<1>4. ASSUME NEW u \in Transfer, NEW at, NEW m, NEW c, Allocate(u, at, m, c)
      PROVE  \A t \in Transfer : Exists(t)' => ttl'[t] \in TTL
  BY <1>4 DEF Allocate, PublishNew, PreCommit, NoRow
<1>5. ASSUME NEW u \in Transfer, Purge(u)
      PROVE  \A t \in Transfer : Exists(t)' => ttl'[t] \in TTL
  BY <1>5 DEF Purge
<1>6. ASSUME NEW at, ExpireDue(at)
      PROVE  \A t \in Transfer : Exists(t)' => ttl'[t] \in TTL
  BY <1>6 DEF ExpireDue, NoRow
<1>7. UNCHANGED transferVars => \A t \in Transfer : Exists(t)' => ttl'[t] \in TTL
  BY DEF transferVars
<1>8. UNCHANGED transferVars \/ (\E u \in Transfer, at \in Time, m \in TTL : CreateTransfer(u, at, m))
      \/ (\E u \in Transfer, new \in SetStateTarget : SetState(u, new)) \/ (\E u \in Transfer : Fail(u) \/ Purge(u))
      \/ (\E u \in Transfer, m \in TTL : SetNoteAndTTL(u, m))
      \/ (\E u \in Transfer, at \in Time, m \in TTL, c \in Code : Allocate(u, at, m, c))
      \/ (\E at \in Time : ExpireDue(at))
  BY DEF StoreNext, storeVars, transferVars, InsertSegment, SetSegmentProgress, CreateClaim, RenewClaim, CompleteClaim
<1>. QED  BY <1>1, <1>2, <1>3, <1>4, <1>5, <1>6, <1>7, <1>8

\* The ways a step changes the row of key k.
KeyStep(k) ==
    \/ keyrow'[k] = keyrow[k]
    \/ \E u \in Transfer :
        /\ KeyOf[u] = k /\ pc[u] = "idle" /\ ~Held(k) /\ pc'[u] = "check" /\ now' = now
        /\ keyrow'[k] = [print |-> PrintOf[u], transfer |-> NoTransfer, code |-> NoCode, until |-> now + KeyTTL]
    \/ \E u \in Transfer :
        /\ KeyOf[u] = k /\ pc[u] = "complete" /\ Held(k) /\ pc'[u] \in {"done", "created"} /\ now' = now
        /\ code'[u] = code[u]
        /\ keyrow'[k] \in Entry /\ keyrow'[k].print = keyrow[k].print /\ keyrow'[k].until = keyrow[k].until
        /\ keyrow'[k].transfer = u /\ keyrow'[k].code = code[u]
    \/ \E u \in Transfer :
        /\ KeyOf[u] = k /\ pc[u] = "forget" /\ ~gone[u] /\ pc'[u] = "abort" /\ now' = now
        /\ keyrow'[k] = NoEntry /\ UNCHANGED storeVars
    \/ keyrow[k].until <= now /\ now' = now /\ keyrow'[k] = NoEntry /\ UNCHANGED <<storeVars, pc>>
    \/ \E u \in Transfer : keyrow[k].transfer = u /\ ~Exists(u)' /\ keyrow'[k] = NoEntry /\ now' = now

LEMMA KeySteps ==
  ASSUME IntakeTypes, [IntakeNext]_vars
  PROVE  /\ keyrow' \in [Key -> Entry \cup {NoEntry}]
         /\ \A k \in Key : KeyStep(k)
<1>0. /\ keyrow \in [Key -> Entry \cup {NoEntry}] /\ now \in Nat /\ KeyTTL \in Nat
      /\ KeyOf \in [Transfer -> Key \cup {NoKey}] /\ PrintOf \in [Transfer -> Fingerprint]
      /\ code \in [Transfer -> Code \cup {NoCode}] /\ state \in [Transfer -> State \cup {NoRow}]
      /\ DOMAIN pc = Transfer /\ gone \in [Transfer -> BOOLEAN] /\ NoKey \notin Key
  BY IntakeAssumption, KeyAssumption DEF IntakeTypes, StoreInv, StoreTypeOK
<1>1. UNCHANGED keyrow => keyrow' \in [Key -> Entry \cup {NoEntry}] /\ \A k \in Key : KeyStep(k)
  BY <1>0 DEF KeyStep
<1>2. ASSUME NEW t \in Transfer, Begin(t)
      PROVE  keyrow' \in [Key -> Entry \cup {NoEntry}] /\ \A k \in Key : KeyStep(k)
  <2>1. CASE UNCHANGED keyrow
    BY <1>1, <2>1
  <2>2. CASE Fresh(KeyOf[t]) /\ Remember(KeyOf[t], PrintOf[t], now) /\ Goto(t, "check") /\ KeyOf[t] # NoKey
    <3>1. KeyOf[t] \in Key /\ pc'[t] = "check" /\ now' = now /\ pc[t] = "idle" /\ ~Held(KeyOf[t])
      BY <1>0, <1>2, <2>2, GotoMoves DEF Begin, Fresh
    <3>2. PICK e : e = [print |-> PrintOf[t], transfer |-> NoTransfer, code |-> NoCode, until |-> now + KeyTTL]
      OBVIOUS
    <3>3. e \in Entry
      BY <1>0, <3>2 DEF Entry
    <3>4. keyrow' = [keyrow EXCEPT ![KeyOf[t]] = e]
      BY <2>2, <3>2 DEF Remember
    <3>5. \A k \in Key : k # KeyOf[t] => KeyStep(k)
      BY <1>0, <3>4 DEF KeyStep
    <3>6. KeyStep(KeyOf[t])
      BY <1>0, <3>1, <3>2, <3>4 DEF KeyStep
    <3>. QED  BY <1>0, <3>3, <3>4, <3>5, <3>6
  <2>. QED  BY <1>2, <2>1, <2>2 DEF Begin, Remember
<1>3. ASSUME NEW t \in Transfer, Finish(t)
      PROVE  keyrow' \in [Key -> Entry \cup {NoEntry}] /\ \A k \in Key : KeyStep(k)
  <2>1. CASE UNCHANGED keyrow
    BY <1>1, <2>1
  <2>2. CASE Held(KeyOf[t]) /\ CompleteIdempotency(KeyOf[t], t, code[t])
    <3>0. UNCHANGED <<code, now>> /\ pc[t] = "complete" /\ pc'[t] \in {"done", "created"}
      BY <1>0, <1>3, GotoMoves DEF Finish, storeVars
    <3>1. KeyOf[t] \in Key /\ keyrow[KeyOf[t]] \in Entry
      BY <1>0, <2>2 DEF Held
    <3>2. PICK r \in Entry : r = keyrow[KeyOf[t]]
      BY <3>1
    <3>3. PICK e : e = [r EXCEPT !.transfer = t, !.code = code[t]]
      OBVIOUS
    <3>4. e \in Entry /\ e.print = r.print /\ e.transfer = t /\ e.code = code[t] /\ e.until = r.until
      BY <1>0, <3>3 DEF Entry
    <3>7. keyrow' = [keyrow EXCEPT ![KeyOf[t]] = e]
      BY <1>0, <2>2, <3>1, <3>2, <3>3 DEF CompleteIdempotency
    <3>8. \A k \in Key : k # KeyOf[t] => KeyStep(k)
      BY <1>0, <3>7 DEF KeyStep
    <3>9. KeyStep(KeyOf[t])
      BY <1>0, <2>2, <3>0, <3>1, <3>2, <3>4, <3>7 DEF KeyStep
    <3>. QED  BY <1>0, <3>4, <3>7, <3>8, <3>9
  <2>. QED  BY <1>3, <2>1, <2>2 DEF Finish, CompleteIdempotency
<1>4. ASSUME NEW t \in Transfer, ForgetKey(t)
      PROVE  keyrow' \in [Key -> Entry \cup {NoEntry}] /\ \A k \in Key : KeyStep(k)
  <2>1. CASE UNCHANGED keyrow
    BY <1>1, <2>1
  <2>2. CASE ~gone[t] /\ Held(KeyOf[t]) /\ keyrow' = [keyrow EXCEPT ![KeyOf[t]] = NoEntry]
    <3>1. KeyOf[t] \in Key
      BY <1>0, <2>2 DEF Held
    <3>2. pc[t] = "forget" /\ pc'[t] = "abort" /\ now' = now /\ UNCHANGED storeVars
      BY <1>0, <1>4, GotoMoves DEF ForgetKey
    <3>3. \A k \in Key : k # KeyOf[t] => KeyStep(k)
      BY <1>0, <2>2 DEF KeyStep
    <3>4. KeyStep(KeyOf[t])
      BY <1>0, <2>2, <3>1, <3>2 DEF KeyStep
    <3>. QED  BY <1>0, <2>2, <3>3, <3>4
  <2>. QED  BY <1>4, <2>1, <2>2 DEF ForgetKey, ForgetIdempotency
<1>5. ASSUME NEW t \in Transfer, PurgeRow(t), UNCHANGED now
      PROVE  keyrow' \in [Key -> Entry \cup {NoEntry}] /\ \A k \in Key : KeyStep(k)
  <2>1. ~Exists(t)'
    BY <1>0, <1>5 DEF PurgeRow, Purge, Exists
  <2>2. \A k \in Key : keyrow'[k] = IF Held(k) /\ keyrow[k].transfer = t THEN NoEntry ELSE keyrow[k]
    BY <1>5 DEF PurgeRow, PurgeKeysOf, FreeKeys
  <2>3. keyrow' \in [Key -> Entry \cup {NoEntry}]
    BY <1>0, <1>5 DEF PurgeRow, PurgeKeysOf, FreeKeys
  <2>. QED  BY <1>5, <2>1, <2>2, <2>3 DEF KeyStep
<1>6. SweepKeys => keyrow' \in [Key -> Entry \cup {NoEntry}] /\ \A k \in Key : KeyStep(k)
  BY <1>0 DEF SweepKeys, PurgeExpiredIdempotency, FreeKeys, KeyStep, intakeVars
<1>7. ASSUME NEW t \in Transfer, UploadStep(t)
      PROVE  keyrow' \in [Key -> Entry \cup {NoEntry}] /\ \A k \in Key : KeyStep(k)
  <2>1. AbortUpload(t) => UNCHANGED keyrow \/ (PurgeRow(t) /\ UNCHANGED now)
    BY DEF AbortUpload
  <2>2. Begin(t) \/ Finish(t) \/ ForgetKey(t) \/ AbortUpload(t) \/ UNCHANGED keyrow
    BY <1>7 DEF UploadStep, Check, Insert, Stream, Guard, EndBody, StartPatch, WritePatch, EndPatch, StartCommit, Verify, Unpack, Rename,
       AllocateCode
  <2>. QED  BY <1>1, <1>2, <1>3, <1>4, <1>5, <2>1, <2>2
<1>8. Sweep => keyrow' \in [Key -> Entry \cup {NoEntry}] /\ \A k \in Key : KeyStep(k)
  BY <1>1, <1>5, <1>6 DEF Sweep, SweepExpire, SweepAbandon, SweepDelete
<1>. QED
  BY <1>1, <1>7, <1>8 DEF IntakeNext, Leave, Restart, Ready, Reconcile, Crash, Tick, Ended, vars

-----------------------------------------------------------------------------
(* What a step may do to one transfer and its request.                     *)

RowKept(t) == Exists(t)' => Exists(t) /\ created'[t] = created[t]
RowSame(t) == state'[t] = state[t] /\ created'[t] = created[t]

\* The request does not move; others may fail, expire or delete its row.
Stays(t) ==
    /\ pc'[t] = pc[t] /\ (gone[t] => gone'[t] \/ pc[t] \in Resting)
    /\ RowKept(t) /\ (Ripe(t)' => Ripe(t))

\* It ends, by itself or in a crash.
Ends(t) ==
    /\ pc'[t] = "done" /\ pc[t] # "idle" /\ now' = now
    /\ RowKept(t) /\ (Ripe(t)' => Ripe(t) \/ pc[t] = "allocate")

\* It is answered from its key, or takes the key.
Refused(t) == pc[t] = "idle" /\ pc'[t] = "done" /\ RowSame(t) /\ now' = now
Takes(t) ==
    /\ pc[t] = "idle" /\ pc'[t] = "check"
    /\ ~Held(KeyOf[t]) /\ RowSame(t) /\ now' = now
    /\ KeyOf[t] # NoKey => keyrow'[KeyOf[t]] = [print |-> PrintOf[t], transfer |-> NoTransfer,
                                                code |-> NoCode, until |-> now + KeyTTL]

\* It makes its row.
Inserts(t) ==
    /\ pc[t] = "insert" /\ pc'[t] = IF t \in SimpleT THEN "body" ELSE "complete"
    /\ state'[t] = "CREATED" /\ created'[t] = now
    /\ now' = now /\ UNCHANGED keyrow

\* It gives up, with its row as it is.
GivesUp(t) ==
    /\ pc'[t] = "forget" /\ RowSame(t) /\ now' = now /\ (gone[t] => gone'[t])
    /\ \/ pc[t] \in {"check", "insert", "body", "guard"}
       \/ t \in SimpleT /\ pc[t] \in {"verify", "rename", "allocate"} /\ (gone[t] \/ ~Exists(t))

\* It goes on, with its row as it is.
GoesOn(t) ==
    /\ RowSame(t) /\ now' = now
    /\ \/ pc[t] = "check" /\ pc'[t] = "insert"
       \/ pc[t] = "complete" /\ pc'[t] = "created" /\ t \notin SimpleT
       \/ pc[t] = "forget" /\ pc'[t] = "abort"
       \/ pc[t] = "body" /\ pc'[t] \in {"guard", "verify"}
       \/ pc[t] = "guard" /\ pc'[t] = "body"
       \/ pc[t] = "created" /\ pc'[t] = "verify"
       \/ pc[t] = "unpack" /\ pc'[t] = "rename"
       \/ pc[t] = "rename" /\ pc'[t] = "allocate"

\* It publishes.
Publishes(t) ==
    /\ RowKept(t) /\ now' = now
    /\ \/ pc[t] = "verify" /\ pc'[t] = IF t \in SimpleT THEN "rename" ELSE "unpack"
       \/ pc[t] = "allocate" /\ pc'[t] = "complete" /\ t \in SimpleT

Moves(t) ==
    \/ Stays(t) \/ Ends(t) \/ Refused(t) \/ Takes(t) \/ Inserts(t)
    \/ GivesUp(t) \/ GoesOn(t) \/ Publishes(t)

\* Calls of the repository on the row of t leave the other rows alone.
LEMMA OtherRows ==
  ASSUME StoreInv, NEW t \in Transfer, NEW u \in Transfer, u # t, NEW at, NEW n, NEW new, NEW c,
         CreateTransfer(t, at, n) \/ SetState(t, new) \/ Fail(t) \/ Allocate(t, at, n, c) \/ Purge(t)
  PROVE  RowSame(u)
  BY DEF StoreInv, StoreTypeOK, CreateTransfer, SetState, Fail, Allocate, Purge, RowSame

\* A step of t's own request.
LEMMA UploadMoves ==
  ASSUME IntakeTypes, NEW t \in Transfer, UploadStep(t)
  PROVE  Moves(t) /\ \A u \in Transfer : u # t => Stays(u)
<1>0. /\ DOMAIN pc = Transfer /\ gone \in [Transfer -> BOOLEAN] /\ StoreInv
      /\ state \in [Transfer -> State \cup {NoRow}] /\ created \in [Transfer -> Nat]
  BY DEF IntakeTypes, StoreInv, StoreTypeOK
<1>1. now' = now
  BY DEF UploadStep, Begin, Check, Insert, Finish, ForgetKey, AbortUpload, Stream, Guard, EndBody, StartPatch, WritePatch, EndPatch,
     StartCommit, Verify, Unpack, Rename, AllocateCode, intakeVars
<1>2. ASSUME NEW u \in Transfer, u # t PROVE Stays(u)
  <2>1. pc'[u] = pc[u] /\ gone'[u] = gone[u]
    <3>1. UNCHANGED <<pc, gone>> \/ \E n : Goto(t, n)
      BY DEF UploadStep, Patching, StartPatch, WritePatch, EndPatch, Begin, Check, Insert, Finish, ForgetKey, AbortUpload, Stream, Guard, EndBody,
         StartCommit, Verify, Unpack, Rename, AllocateCode
    <3>. QED  BY <1>0, <1>2, <3>1, GotoMoves
  <2>2. RowSame(u)
    <3>1. UNCHANGED storeVars \/ Insert(t) \/ AbortUpload(t) \/ Patching(t) \/ Verify(t) \/ Unpack(t) \/ AllocateCode(t)
      BY DEF UploadStep, Patching, Begin, Check, Finish, ForgetKey, Stream, Guard, EndBody, StartCommit, Rename
    <3>2. UNCHANGED storeVars \/ (\E at, n : CreateTransfer(t, at, n)) \/ (\E new : SetState(t, new)) \/ Fail(t)
          \/ (\E at, n, c : Allocate(t, at, n, c)) \/ Purge(t)
      BY <3>1 DEF Insert, AbortUpload, PurgeRow, Patching, StartPatch, WritePatch, EndPatch, Verify, Unpack, AllocateCode, PublishRow
    <3>. QED  BY <1>0, <1>2, <3>2, OtherRows DEF RowSame, storeVars
  <2>. QED  BY <2>1, <2>2 DEF Stays, RowSame, RowKept, Ripe, Exists
<1>3. \A n : Goto(t, n) => pc'[t] = n /\ (n \notin Resting => gone'[t] = gone[t])
  BY <1>0, GotoMoves
<1>4. UNCHANGED storeVars => RowSame(t) /\ RowKept(t) /\ (Ripe(t)' => Ripe(t))
  BY DEF RowSame, RowKept, Ripe, Exists, storeVars
<1>. USE DEF Resting
<1>5. ASSUME Begin(t) PROVE Moves(t)
  <2>1. CASE pc'[t] = "done"
    BY <1>1, <1>4, <1>5, <2>1 DEF Begin, Moves, Refused
  <2>2. CASE Fresh(KeyOf[t]) /\ Remember(KeyOf[t], PrintOf[t], now) /\ pc'[t] = "check"
    <3>1. KeyOf[t] \in Key \/ KeyOf[t] = NoKey
      BY IntakeAssumption
    <3>2. DOMAIN keyrow = Key
      BY DEF IntakeTypes
    <3>3. KeyOf[t] # NoKey => keyrow'[KeyOf[t]] = [print |-> PrintOf[t], transfer |-> NoTransfer,
                                                   code |-> NoCode, until |-> now + KeyTTL]
      BY <2>2, <3>1, <3>2 DEF Remember
    <3>. QED  BY <1>1, <1>4, <1>5, <2>2, <3>3 DEF Begin, Fresh, Moves, Takes
  <2>. QED  BY <1>3, <1>5, <2>1, <2>2 DEF Begin
<1>6. Check(t) => Moves(t)
  BY <1>1, <1>3, <1>4 DEF Check, Moves, GoesOn, GivesUp
<1>7. Insert(t) => Moves(t)
  BY <1>0, <1>1, <1>3, <1>4 DEF Insert, CreateTransfer, Moves, Inserts, GivesUp
<1>8. Finish(t) => Moves(t)
  BY <1>1, <1>3, <1>4 DEF Finish, Moves, Ends, GoesOn
<1>9. ForgetKey(t) => Moves(t)
  BY <1>1, <1>3, <1>4 DEF ForgetKey, Moves, GoesOn
<1>10. AbortUpload(t) => Moves(t)
  <2>1. Purge(t) => RowKept(t) /\ (Ripe(t)' => Ripe(t))
    BY <1>0 DEF Purge, RowKept, Ripe, Exists, NoRow
  <2>. QED  BY <1>1, <1>3, <1>4, <2>1 DEF AbortUpload, PurgeRow, Moves, Ends
<1>11. Stream(t) \/ Guard(t) \/ EndBody(t) \/ StartCommit(t) => Moves(t)
  BY <1>1, <1>3, <1>4 DEF Stream, Guard, EndBody, StartCommit, Moves, Stays, GoesOn, GivesUp
<1>12. Patching(t) => Moves(t)
  <2>1. StartPatch(t) => UNCHANGED <<pc, gone>> /\ RowKept(t) /\ (Ripe(t)' => Ripe(t))
    BY <1>0 DEF StartPatch, SetState, RowKept, Ripe, Exists
  <2>2. WritePatch(t) \/ EndPatch(t) => UNCHANGED <<pc, gone, storeVars>>
    BY DEF WritePatch, EndPatch
  <2>. QED  BY <1>4, <2>1, <2>2 DEF Patching, Moves, Stays
<1>13. Verify(t) => Moves(t)
  <2>1. SetState(t, "VERIFYING") => RowKept(t)
    BY <1>0 DEF SetState, RowKept, Exists
  <2>. QED  BY <1>1, <1>3, <1>4, <2>1 DEF Verify, Failed, Moves, Publishes, GivesUp, Ends
<1>14. Unpack(t) => Moves(t)
  <2>1. Fail(t) => RowKept(t) /\ (Ripe(t)' => Ripe(t))
    BY <1>0 DEF Fail, RowKept, Ripe, Exists
  <2>. QED  BY <1>1, <1>3, <1>4, <2>1 DEF Unpack, Moves, GoesOn, Ends
<1>15. Rename(t) => Moves(t)
  BY <1>1, <1>3, <1>4 DEF Rename, Failed, Moves, GoesOn, GivesUp, Ends
<1>16. AllocateCode(t) => Moves(t)
  <2>1. ASSUME NEW c, PublishRow(t, c) PROVE RowKept(t)
    BY <1>0, <2>1 DEF PublishRow, Allocate, PublishNew, PreCommit, RowKept, Exists, NoRow
  <2>. QED  BY <1>1, <1>3, <1>4, <2>1 DEF AllocateCode, Failed, Moves, Publishes, GivesUp, Ends
<1>. QED
  BY <1>2, <1>5, <1>6, <1>7, <1>8, <1>9, <1>10, <1>11, <1>12, <1>13, <1>14, <1>15, <1>16 DEF UploadStep, Patching

\* The clock: unless Slow it waits for handlers, except for those that wait for
\* their client.
ClockStep ==
    \/ now' = now
    \/ /\ now' = now + 1 /\ UNCHANGED <<pc, keyrow, storeVars>>
       /\ Slow \/ \A t \in Transfer :
            pc[t] \in Resting \/ (pc[t] = "body" /\ (Held(KeyOf[t]) => now + 1 < keyrow[KeyOf[t]].until))

OneTakes == \A t, u \in Transfer : Takes(t) /\ Takes(u) => t = u

LEMMA AllMove ==
  ASSUME IntakeTypes, [IntakeNext]_vars
  PROVE  (\A t \in Transfer : Moves(t)) /\ ClockStep /\ OneTakes
<1>0. /\ DOMAIN pc = Transfer /\ gone \in [Transfer -> BOOLEAN] /\ StoreInv
      /\ state \in [Transfer -> State \cup {NoRow}] /\ created \in [Transfer -> Nat]
  BY DEF IntakeTypes, StoreInv, StoreTypeOK
<1>a. UNCHANGED pc => OneTakes
  BY DEF OneTakes, Takes
<1>1. ASSUME NEW t \in Transfer, UploadStep(t) PROVE (\A u \in Transfer : Moves(u)) /\ ClockStep /\ OneTakes
  <2>1. now' = now
    BY <1>1 DEF UploadStep, Begin, Check, Insert, Finish, ForgetKey, AbortUpload, Stream, Guard, EndBody, StartPatch, WritePatch, EndPatch,
       StartCommit, Verify, Unpack, Rename, AllocateCode, intakeVars
  <2>2. OneTakes
    <3>1. \A u \in Transfer : Takes(u) => u = t
      BY <1>1, UploadMoves DEF Takes, Stays
    <3>. QED  BY <3>1 DEF OneTakes
  <2>. QED  BY <1>1, <2>1, <2>2, UploadMoves DEF Moves, ClockStep
<1>2. ASSUME NEW t \in Transfer, Leave(t) PROVE (\A u \in Transfer : Moves(u)) /\ ClockStep /\ OneTakes
  BY <1>0, <1>2, <1>a DEF Leave, Moves, Stays, RowKept, Ripe, Exists, ClockStep, storeVars
<1>3. UNCHANGED <<pc, gone>> /\ (\A u \in Transfer : RowKept(u) /\ (Ripe(u)' => Ripe(u)))
      => \A u \in Transfer : Moves(u)
  BY DEF Moves, Stays
<1>4. Sweep => (\A u \in Transfer : Moves(u)) /\ ClockStep /\ OneTakes
  <2>1. SweepExpire => \A u \in Transfer : RowKept(u) /\ (Ripe(u)' => Ripe(u))
    BY <1>0 DEF SweepExpire, ExpireDue, RowKept, Ripe, Exists, NoRow
  <2>2. ASSUME NEW t \in Transfer, SweepAbandon(t) PROVE \A u \in Transfer : RowKept(u) /\ (Ripe(u)' => Ripe(u))
    BY <1>0, <2>2 DEF SweepAbandon, SetState, RowKept, Ripe, Exists
  <2>3. ASSUME NEW t \in Transfer, SweepDelete(t) PROVE \A u \in Transfer : RowKept(u) /\ (Ripe(u)' => Ripe(u))
    BY <1>0, <2>3 DEF SweepDelete, PurgeRow, Purge, RowKept, Ripe, Exists, NoRow
  <2>4. SweepKeys => \A u \in Transfer : RowKept(u) /\ (Ripe(u)' => Ripe(u))
    BY DEF SweepKeys, storeVars, RowKept, Ripe, Exists
  <2>5. Sweep => UNCHANGED <<pc, gone, now>>
    BY DEF Sweep, SweepExpire, SweepKeys, SweepAbandon, SweepDelete, intakeVars
  <2>. QED  BY <1>3, <1>a, <2>1, <2>2, <2>3, <2>4, <2>5 DEF Sweep, ClockStep
<1>5. Restart => (\A u \in Transfer : Moves(u)) /\ ClockStep /\ OneTakes
  <2>1. Ready => UNCHANGED <<pc, gone, now, storeVars>>
    BY DEF Ready
  <2>2. ASSUME NEW t \in Transfer, Reconcile(t) PROVE \A u \in Transfer : RowKept(u) /\ (Ripe(u)' => Ripe(u))
    <3>1. CASE Fail(t)
      BY <1>0, <2>2, <3>1 DEF Fail, RowKept, Ripe, Exists, NoRow
    <3>2. ASSUME NEW c, PublishRow(t, c) PROVE \A u \in Transfer : RowKept(u) /\ (Ripe(u)' => Ripe(u))
      BY <1>0, <2>2, <3>2 DEF Reconcile, PublishRow, Allocate, RowKept, Ripe, Exists, NoRow
    <3>. QED  BY <2>2, <3>1, <3>2 DEF Reconcile
  <2>3. (\E t \in Transfer : Reconcile(t)) => UNCHANGED <<pc, gone, now>>
    BY DEF Reconcile, intakeVars
  <2>. QED  BY <1>3, <1>a, <2>1, <2>2, <2>3 DEF Restart, ClockStep, RowKept, Ripe, Exists, storeVars
<1>6. Crash => (\A u \in Transfer : Moves(u)) /\ ClockStep /\ OneTakes
  <2>1. Crash => now' = now /\ \A u \in Transfer : RowKept(u) /\ (Ripe(u)' => Ripe(u))
    BY DEF Crash, RowKept, Ripe, Exists, storeVars
  <2>2. ASSUME Crash, NEW u \in Transfer PROVE Moves(u)
    <3>1. CASE pc[u] \notin Resting
      BY <2>1, <2>2, <3>1 DEF Crash, Moves, Ends, Resting
    <3>2. CASE pc[u] \in Resting
      BY <2>1, <2>2, <3>2 DEF Crash, Moves, Stays, Resting
    <3>. QED  BY <3>1, <3>2
  <2>3. Crash => OneTakes
    BY DEF Crash, OneTakes, Takes, Resting
  <2>. QED  BY <2>1, <2>2, <2>3 DEF ClockStep
<1>7. Tick => (\A u \in Transfer : Moves(u)) /\ ClockStep /\ OneTakes
  BY <1>3, <1>a DEF Tick, ClockStep, RowKept, Ripe, Exists, storeVars
<1>8. Ended \/ UNCHANGED vars => (\A u \in Transfer : Moves(u)) /\ ClockStep /\ OneTakes
  BY <1>3, <1>a DEF Ended, vars, intakeVars, ClockStep, RowKept, Ripe, Exists, storeVars
<1>. QED  BY <1>1, <1>2, <1>4, <1>5, <1>6, <1>7, <1>8 DEF IntakeNext

-----------------------------------------------------------------------------
(* Results recorded under keys.                                            *)

\* A transfer that a key leads to keeps its code: Purge deletes its keys.
CodesKept ==
    \A u \in Transfer, k \in Key :
        code[u] # NoCode /\ keyrow'[k] = keyrow[k] /\ Held(k) /\ keyrow[k].transfer = u => code'[u] = code[u]

LEMMA CodesUnderKeys ==
  ASSUME IntakeTypes, [IntakeNext]_vars
  PROVE  CodesKept
<1>0. /\ StoreInv /\ code \in [Transfer -> Code \cup {NoCode}] /\ state \in [Transfer -> State \cup {NoRow}]
      /\ keyrow \in [Key -> Entry \cup {NoEntry}]
  BY DEF IntakeTypes, StoreInv, StoreTypeOK
<1>1. (\A u \in Transfer : code[u] # NoCode => code'[u] = code[u]) => CodesKept
  BY DEF CodesKept
<1>2. UNCHANGED storeVars => CodesKept
  BY <1>1 DEF storeVars
<1>3. ASSUME NEW t \in Transfer, NEW at, NEW n, NEW new, NEW c,
             CreateTransfer(t, at, n) \/ SetState(t, new) \/ Fail(t) \/ Allocate(t, at, n, c)
      PROVE  CodesKept
  BY <1>0, <1>1, <1>3 DEF CreateTransfer, SetState, Fail, Allocate, PublishNew, StoreInv, CodeHasRow
<1>4. ASSUME NEW at, ExpireDue(at) PROVE CodesKept
  BY <1>1, <1>4 DEF ExpireDue
<1>5. ASSUME NEW t \in Transfer, PurgeRow(t) PROVE CodesKept
  <2>1. \A k \in Key : Held(k) /\ keyrow[k].transfer = t => keyrow'[k] # keyrow[k]
    BY <1>5 DEF PurgeRow, PurgeKeysOf, FreeKeys, Held
  <2>2. \A u \in Transfer : u # t => code'[u] = code[u]
    BY <1>0, <1>5 DEF PurgeRow, Purge
  <2>. QED  BY <2>1, <2>2 DEF CodesKept
<1>6. ASSUME NEW t \in Transfer, UploadStep(t) PROVE CodesKept
  <2>1. UNCHANGED storeVars \/ Insert(t) \/ AbortUpload(t) \/ Patching(t) \/ Verify(t) \/ Unpack(t) \/ AllocateCode(t)
    BY <1>6 DEF UploadStep, Patching, Begin, Check, Finish, ForgetKey, Stream, Guard, EndBody, StartCommit, Rename
  <2>2. Insert(t) \/ Patching(t) \/ Verify(t) \/ Unpack(t) \/ AllocateCode(t) => CodesKept
    BY <1>2, <1>3 DEF Insert, Patching, StartPatch, WritePatch, EndPatch, Verify, Unpack, AllocateCode, PublishRow
  <2>3. AbortUpload(t) => CodesKept
    BY <1>2, <1>5 DEF AbortUpload
  <2>. QED  BY <1>2, <2>1, <2>2, <2>3
<1>7. Sweep => CodesKept
  BY <1>2, <1>3, <1>4, <1>5 DEF Sweep, SweepExpire, SweepKeys, SweepAbandon, SweepDelete
<1>8. Restart => CodesKept
  BY <1>2, <1>3 DEF Restart, Ready, Reconcile, PublishRow
<1>. QED
  BY <1>2, <1>6, <1>7, <1>8 DEF IntakeNext, Leave, Crash, Tick, Ended, vars

-----------------------------------------------------------------------------
(* The invariant is inductive, as long as no handler is Slow.              *)

LEMMA PromisingKept ==
  ASSUME NEW t \in Transfer, Moves(t), Promising(t)'
  PROVE  (Promising(t) /\ created'[t] = created[t]) \/ Inserts(t)
<1>. USE DEF Promising, AtWork
<1>1. CASE Stays(t)
  BY <1>1 DEF Stays, RowKept
<1>2. CASE Ends(t)
  BY <1>2 DEF Ends, RowKept
<1>3. CASE Refused(t) \/ Takes(t) \/ GivesUp(t)
  BY <1>3 DEF Refused, Takes, GivesUp, RowSame, Ripe, Exists
<1>4. CASE GoesOn(t)
  BY <1>4 DEF GoesOn, RowSame, Ripe, Exists
<1>5. CASE Publishes(t)
  BY <1>5 DEF Publishes, RowKept
<1>. QED  BY <1>1, <1>2, <1>3, <1>4, <1>5 DEF Moves

LEMMA PendingKept ==
  ASSUME NEW t \in Transfer, Moves(t), RowAt(t), Pending(t)'
  PROVE  /\ Pending(t) \/ Takes(t)
         /\ pc'[t] \in {"check", "insert"} => Takes(t) \/ pc[t] \in {"check", "insert"}
<1>. USE DEF Pending, RowAt
<1>1. CASE Stays(t)
  BY <1>1 DEF Stays
<1>2. CASE Ends(t) \/ Refused(t)
  BY <1>2 DEF Ends, Refused
<1>3. CASE Inserts(t)
  BY <1>3 DEF Inserts
<1>4. CASE GivesUp(t)
  BY <1>4 DEF GivesUp
<1>5. CASE GoesOn(t)
  BY <1>5 DEF GoesOn
<1>6. CASE Publishes(t)
  BY <1>6 DEF Publishes
<1>. QED  BY <1>1, <1>2, <1>3, <1>4, <1>5, <1>6 DEF Moves

LEMMA RowAtNext ==
  ASSUME NEW t \in Transfer, Moves(t), RowAt(t)
  PROVE  RowAt(t)'
<1>. USE DEF RowAt, Resting
<1>1. CASE Stays(t)
  BY <1>1 DEF Stays, RowKept
<1>2. CASE Ends(t) \/ Refused(t)
  BY <1>2 DEF Ends, Refused
<1>3. CASE Takes(t)
  BY <1>3 DEF Takes, RowSame, Exists
<1>4. CASE Inserts(t)
  BY <1>4 DEF Inserts, Ripe
<1>5. CASE GivesUp(t)
  BY <1>5 DEF GivesUp, RowSame, Ripe, Exists, NoRow
<1>6. CASE GoesOn(t)
  BY <1>6 DEF GoesOn, RowSame, Ripe, Exists
<1>7. CASE Publishes(t)
  BY <1>7 DEF Publishes
<1>. QED  BY <1>1, <1>2, <1>3, <1>4, <1>5, <1>6, <1>7 DEF Moves

\* An entry that was just written is one.
LEMMA EntriesHeld ==
  ASSUME NEW k \in Key, NEW p, NEW n \in Nat
  PROVE  /\ keyrow'[k] = [print |-> p, transfer |-> NoTransfer, code |-> NoCode, until |-> n + KeyTTL] => Held(k)'
         /\ keyrow'[k].transfer \in Transfer => Held(k)'
         /\ keyrow'[k] = NoEntry => ~Held(k)'
<1>1. NoEntry.until = 0 /\ NoEntry.transfer = NoTransfer /\ n + KeyTTL # 0 /\ NoTransfer \notin Transfer /\ k # NoKey
  BY KeyAssumption, StoreAssumption DEF NoEntry
<1>. QED  BY <1>1 DEF Held

LEMMA PendingOwnsNext ==
  ASSUME ~Slow, IntakeTypes, KeysInv, NEW t \in Transfer, Moves(t), ClockStep, \A k \in Key : KeyStep(k)
  PROVE  PendingOwns(t)'
<1>. SUFFICES ASSUME Pending(t)'
              PROVE  PendingOwns(t)'
  BY DEF PendingOwns
<1>0. /\ PendingOwns(t) /\ RowAt(t) /\ now \in Nat /\ KeyTTL \in Nat \ {0} /\ KeyOf[t] # NoKey
      /\ \A u \in Transfer : SameKey(t, u) => ~Pending(t) \/ ~Pending(u)
      /\ NoTransfer \notin Transfer
  BY KeyAssumption, StoreAssumption DEF KeysInv, Apart, IntakeTypes, Pending
<1>1. PICK k \in Key : k = KeyOf[t]
  BY <1>0, IntakeAssumption
<1>2. CASE Takes(t)
  <2>1. keyrow'[k] = [print |-> PrintOf[t], transfer |-> NoTransfer, code |-> NoCode, until |-> now + KeyTTL]
        /\ now' = now
    BY <1>0, <1>1, <1>2 DEF Takes
  <2>2. Held(k)'
    BY <1>0, <2>1, EntriesHeld
  <2>. QED  BY <1>0, <1>1, <2>1, <2>2 DEF PendingOwns
<1>3. CASE ~Takes(t)
  <2>1. Pending(t) /\ (pc'[t] \in {"check", "insert"} => pc[t] \in {"check", "insert"})
    BY <1>0, <1>3, PendingKept
  <2>2. /\ Held(k) /\ keyrow[k].transfer = NoTransfer /\ keyrow[k].print = PrintOf[t]
        /\ keyrow[k].until > now /\ (pc[t] \in {"check", "insert"} => keyrow[k].until = now + KeyTTL)
    BY <1>0, <1>1, <2>1 DEF PendingOwns
  <2>3. ASSUME NEW u \in Transfer, KeyOf[u] = k, pc[u] \in {"complete", "forget"} PROVE u = t
    BY <1>0, <1>1, <2>1, <2>3 DEF SameKey, Pending
  <2>4. keyrow'[k] = keyrow[k]
    <3>1. ~(pc'[t] \in {"done", "created", "abort"})
      BY DEF Pending
    <3>2. KeyStep(k) /\ keyrow[k].until \in Nat /\ ~(keyrow[k].until <= now) /\ keyrow[k].transfer \notin Transfer
      <4>1. keyrow[k] \in Entry
        BY <2>2 DEF IntakeTypes, Held
      <4>. QED  BY <1>0, <2>2, <4>1 DEF Entry
    <3>3. ASSUME NEW u \in Transfer, KeyOf[u] = k, pc[u] \in {"complete", "forget"},
                 pc'[u] \in {"done", "created", "abort"}
          PROVE  FALSE
      BY <2>3, <3>1, <3>3
    <3>. QED  BY <2>2, <3>2, <3>3 DEF KeyStep
  <2>5. keyrow'[k].until > now' /\ (pc'[t] \in {"check", "insert"} => now' = now)
    <3>1. CASE now' = now
      BY <2>2, <2>4, <3>1
    <3>2. CASE now' # now
      <4>1. pc'[t] = pc[t] /\ now' = now + 1 /\ pc[t] = "body" /\ now + 1 < keyrow[k].until
        BY <1>1, <2>1, <2>2, <3>2 DEF ClockStep, Pending, Resting
      <4>. QED  BY <2>4, <4>1
    <3>. QED  BY <3>1, <3>2
  <2>6. Held(k)'
    BY <2>2, <2>4 DEF Held
  <2>. QED  BY <1>1, <2>1, <2>2, <2>4, <2>5, <2>6 DEF PendingOwns
<1>. QED  BY <1>2, <1>3

LEMMA KeyHeldNext ==
  ASSUME ~Slow, IntakeTypes, KeysInv, NEW t \in Transfer, Moves(t), ClockStep, \A k \in Key : KeyStep(k)
  PROVE  KeyHeld(t)'
<1>. SUFFICES ASSUME KeyOf[t] # NoKey, Promising(t)'
              PROVE  KeyHeld(t)'
  BY DEF KeyHeld
<1>0. /\ KeyHeld(t) /\ PendingOwns(t) /\ RowAt(t) /\ now \in Nat /\ now' \in Nat /\ now <= now' /\ KeyTTL \in Nat \ {0}
      /\ created[t] \in Nat /\ NoTransfer \notin Transfer
      /\ \A u \in Transfer : SameKey(u, t) /\ Pending(u) /\ Promising(t) => created[t] + KeyTTL <= now
  BY KeyAssumption, StoreAssumption DEF KeysInv, Apart, IntakeTypes, StoreInv, StoreTypeOK, ClockStep
<1>1. PICK k \in Key : k = KeyOf[t]
  BY IntakeAssumption
<1>2. CASE Inserts(t)
  <2>1. /\ Held(k) /\ keyrow[k].transfer = NoTransfer /\ keyrow[k].until = now + KeyTTL
        /\ keyrow' = keyrow /\ created'[t] = now
    BY <1>0, <1>1, <1>2 DEF Inserts, PendingOwns, Pending
  <2>. QED  BY <1>1, <2>1 DEF KeyHeld, Held
<1>3. CASE Promising(t) /\ created'[t] = created[t]
  <2>1. CASE created[t] + KeyTTL <= now
    BY <1>0, <1>3, <2>1 DEF KeyHeld
  <2>2. CASE ~(created[t] + KeyTTL <= now)
    <3>1. Held(k) /\ keyrow[k].until = created[t] + KeyTTL /\ keyrow[k].transfer \in {t, NoTransfer}
      BY <1>0, <1>1, <1>3, <2>2 DEF KeyHeld
    <3>2. ASSUME NEW u \in Transfer, KeyOf[u] = k, pc[u] \in {"complete", "forget"} PROVE u = t
      BY <1>0, <1>1, <1>3, <2>2, <3>2 DEF SameKey, Pending
    <3>3. pc[t] = "forget" => gone[t]
      BY <1>0, <1>3 DEF RowAt, Promising, AtWork
    <3>4. Exists(t)'
      BY DEF Promising
    <3>5. \/ keyrow'[k] = keyrow[k]
          \/ keyrow'[k].until = keyrow[k].until /\ keyrow'[k].transfer = t
      BY <1>0, <2>2, <3>1, <3>2, <3>3, <3>4 DEF KeyStep
    <3>6. Held(k)'
      BY <1>0, <3>1, <3>5, EntriesHeld DEF Held
    <3>. QED  BY <1>1, <1>3, <3>1, <3>5, <3>6 DEF KeyHeld
  <2>. QED  BY <2>1, <2>2
<1>. QED  BY <1>2, <1>3, PromisingKept

LEMMA ApartNext ==
  ASSUME IntakeTypes, KeysInv, \A t \in Transfer : Moves(t), ClockStep, OneTakes
  PROVE  Apart'
<1>0. /\ now \in Nat /\ now' \in Nat /\ now <= now' /\ KeyTTL \in Nat \ {0}
      /\ \A t \in Transfer : KeyHeld(t) /\ PendingOwns(t) /\ RowAt(t) /\ created[t] \in Nat
  BY KeyAssumption DEF KeysInv, IntakeTypes, StoreInv, StoreTypeOK, ClockStep
<1>1. SUFFICES ASSUME NEW t \in Transfer, NEW u \in Transfer, SameKey(t, u)
               PROVE  /\ ~(Pending(t)' /\ Pending(u)')
                      /\ Pending(t)' /\ Promising(u)' => created'[u] + KeyTTL <= now'
                      /\ Promising(t)' /\ Promising(u)' =>
                            created'[t] + KeyTTL <= created'[u] \/ created'[u] + KeyTTL <= created'[t]
  BY DEF Apart, SameKey
<1>2. /\ SameKey(u, t) /\ KeyOf[t] = KeyOf[u] /\ t # u /\ (~Pending(t) \/ ~Pending(u))
      /\ Pending(t) /\ Promising(u) => created[u] + KeyTTL <= now
      /\ Pending(u) /\ Promising(t) => created[t] + KeyTTL <= now
      /\ Promising(t) /\ Promising(u) => created[t] + KeyTTL <= created[u] \/ created[u] + KeyTTL <= created[t]
  BY <1>1 DEF KeysInv, Apart, SameKey
<1>3. /\ Pending(t)' => Pending(t) \/ Takes(t)
      /\ Pending(u)' => Pending(u) \/ Takes(u)
  BY <1>0, PendingKept
<1>4. /\ Takes(t) => ~Held(KeyOf[t]) /\ ~Takes(u) /\ ~Pending(u)
      /\ Takes(u) => ~Held(KeyOf[u]) /\ ~Takes(t) /\ ~Pending(t)
  BY <1>0, <1>1 DEF Takes, OneTakes, PendingOwns, SameKey
<1>5. /\ Promising(t)' => (Promising(t) /\ created'[t] = created[t]) \/ Inserts(t)
      /\ Promising(u)' => (Promising(u) /\ created'[u] = created[u]) \/ Inserts(u)
  BY PromisingKept
<1>6. /\ Inserts(t) => Pending(t) /\ created'[t] = now
      /\ Inserts(u) => Pending(u) /\ created'[u] = now
  BY <1>1 DEF Inserts, Pending, SameKey
<1>7. ~(Pending(t) /\ Pending(u))
  BY <1>1 DEF KeysInv, Apart
<1>8. ~(Pending(t)' /\ Pending(u)')
  BY <1>3, <1>4, <1>7
<1>9. Pending(t)' /\ Promising(u)' => created'[u] + KeyTTL <= now'
  <2>. SUFFICES ASSUME Pending(t)', Promising(u)' PROVE created'[u] + KeyTTL <= now'
    OBVIOUS
  <2>1. Promising(u) /\ created'[u] = created[u]
    BY <1>3, <1>4, <1>5, <1>6, <1>7
  <2>2. CASE Pending(t)
    BY <1>0, <1>2, <2>1, <2>2
  <2>3. CASE Takes(t)
    BY <1>0, <1>1, <1>4, <2>1, <2>3 DEF KeyHeld, SameKey
  <2>. QED  BY <1>3, <2>2, <2>3
<1>10. Promising(t)' /\ Promising(u)' =>
          created'[t] + KeyTTL <= created'[u] \/ created'[u] + KeyTTL <= created'[t]
  BY <1>0, <1>2, <1>5, <1>6, <1>7
<1>. QED  BY <1>8, <1>9, <1>10

LEMMA ResultOKNext ==
  ASSUME IntakeTypes, KeysInv, NEW k \in Key, KeyStep(k), CodesKept
  PROVE  ResultOK(k)'
<1>0. ResultOK(k) /\ NoTransfer \notin Transfer /\ keyrow[k] \in Entry \cup {NoEntry} /\ NoEntry.transfer = NoTransfer
  BY StoreAssumption DEF KeysInv, IntakeTypes, NoEntry
<1>1. CASE keyrow'[k] = keyrow[k]
  <2>. SUFFICES ASSUME Held(k) PROVE ResultOK(k)'
    BY <1>1 DEF ResultOK, Held
  <2>1. keyrow[k].transfer \in Transfer \cup {NoTransfer}
    BY <1>0 DEF Entry
  <2>. QED  BY <1>0, <1>1, <2>1 DEF ResultOK, CodesKept
<1>2. ASSUME NEW u \in Transfer,
             keyrow'[k] = [print |-> PrintOf[u], transfer |-> NoTransfer, code |-> NoCode, until |-> now + KeyTTL]
      PROVE  ResultOK(k)'
  BY <1>2 DEF ResultOK
<1>3. ASSUME NEW u \in Transfer, KeyOf[u] = k, pc[u] = "complete", Held(k), code'[u] = code[u],
             keyrow'[k].print = keyrow[k].print, keyrow'[k].transfer = u, keyrow'[k].code = code[u]
      PROVE  ResultOK(k)'
  <2>1. k # NoKey
    BY KeyAssumption
  <2>2. keyrow[k].print = PrintOf[u]
    BY <1>3, <2>1 DEF KeysInv, PendingOwns, Pending
  <2>. QED  BY <1>0, <1>3, <2>2 DEF ResultOK
<1>4. CASE keyrow'[k] = NoEntry
  BY <1>4 DEF ResultOK, Held
<1>. QED  BY <1>1, <1>2, <1>3, <1>4 DEF KeyStep

LEMMA KeysInvNext ==
  ASSUME ~Slow, IntakeTypes, KeysInv, [IntakeNext]_vars
  PROVE  KeysInv'
<1>1. (\A t \in Transfer : Moves(t)) /\ ClockStep /\ OneTakes /\ (\A k \in Key : KeyStep(k)) /\ CodesKept
  BY AllMove, KeySteps, CodesUnderKeys
<1>2. \A t \in Transfer : KeyHeld(t)' /\ PendingOwns(t)'
  BY <1>1, KeyHeldNext, PendingOwnsNext
<1>3. \A t \in Transfer : RowAt(t)'
  BY <1>1, RowAtNext DEF KeysInv
<1>4. \A k \in Key : ResultOK(k)'
  BY <1>1, ResultOKNext
<1>5. Apart'
  BY <1>1, ApartNext
<1>. QED  BY <1>2, <1>3, <1>4, <1>5 DEF KeysInv

-----------------------------------------------------------------------------
(* Types and byte counts, whether or not a handler is Slow.                *)

LEMMA ArrivingKept ==
  ASSUME NEW t \in Transfer, Moves(t), Arriving(t)'
  PROVE  Arriving(t)
<1>. USE DEF Arriving
<1>1. CASE Stays(t) \/ Ends(t) \/ Refused(t) \/ Takes(t) \/ Inserts(t)
  BY <1>1 DEF Stays, Ends, Refused, Takes, Inserts
<1>2. CASE GivesUp(t) \/ Publishes(t)
  BY <1>2 DEF GivesUp, Publishes
<1>3. CASE GoesOn(t)
  BY <1>3 DEF GoesOn
<1>. QED  BY <1>1, <1>2, <1>3 DEF Moves

\* A transfer grows by a unit that was declared, or when it is unpacked.
DiskStep(t) ==
    \/ disk'[t] <= disk[t]
    \/ disk'[t] <= Size[t]
    \/ pc[t] = "unpack" /\ pc'[t] = "rename" /\ disk'[t] <= disk[t] + Size[t]

LEMMA DiskSteps ==
  ASSUME IntakeTypes, [IntakeNext]_vars
  PROVE  disk' \in [Transfer -> Nat] /\ \A t \in Transfer : DiskStep(t)
<1>0. /\ disk \in [Transfer -> Nat] /\ Size \in [Transfer -> Nat] /\ DOMAIN pc = Transfer
      /\ gone \in [Transfer -> BOOLEAN]
  BY IntakeAssumption DEF IntakeTypes
<1>1. UNCHANGED disk => disk' \in [Transfer -> Nat] /\ \A t \in Transfer : DiskStep(t)
  BY <1>0 DEF DiskStep
<1>2. ASSUME NEW t \in Transfer, NEW n \in Nat, disk' = [disk EXCEPT ![t] = n],
             n <= Size[t] \/ (pc[t] = "unpack" /\ pc'[t] = "rename" /\ n <= disk[t] + Size[t])
      PROVE  disk' \in [Transfer -> Nat] /\ \A u \in Transfer : DiskStep(u)
  BY <1>0, <1>2 DEF DiskStep
<1>3. ASSUME NEW t \in Transfer, disk' = [disk EXCEPT ![t] = 0]
      PROVE  disk' \in [Transfer -> Nat] /\ \A u \in Transfer : DiskStep(u)
  BY <1>0, <1>3 DEF DiskStep
<1>4. ASSUME NEW t \in Transfer, UploadStep(t)
      PROVE  disk' \in [Transfer -> Nat] /\ \A u \in Transfer : DiskStep(u)
  <2>1. AbortUpload(t) \/ Stream(t) \/ WritePatch(t) \/ Unpack(t) \/ UNCHANGED disk
    BY <1>4 DEF UploadStep, StartPatch, EndPatch, Begin, Check, Insert, Finish, ForgetKey, Guard, EndBody, StartCommit, Verify, Rename,
       AllocateCode, admissionVars
  <2>2. CASE AbortUpload(t)
    BY <1>1, <1>3, <2>2 DEF AbortUpload
  <2>3. CASE Stream(t) \/ WritePatch(t)
    <3>1. disk' = [disk EXCEPT ![t] = disk[t] + 1] /\ disk[t] < Size[t]
      BY <2>3 DEF Stream, WritePatch
    <3>2. disk[t] + 1 \in Nat /\ disk[t] + 1 <= Size[t]
      BY <1>0, <3>1
    <3>. QED  BY <1>2, <3>1, <3>2
  <2>4. CASE Unpack(t) /\ ~UNCHANGED disk
    <3>1. Goto(t, "rename") /\ pc[t] = "unpack"
      BY <2>4 DEF Unpack
    <3>2. pc'[t] = "rename"
      BY <1>0, <3>1, GotoMoves
    <3>3. PICK more \in 0..Size[t] : disk' = [disk EXCEPT ![t] = disk[t] + more]
      BY <2>4 DEF Unpack
    <3>4. disk[t] + more \in Nat /\ disk[t] + more <= disk[t] + Size[t]
      BY <1>0
    <3>. QED  BY <1>2, <3>1, <3>2, <3>3, <3>4
  <2>. QED  BY <1>1, <2>1, <2>2, <2>3, <2>4
<1>5. Sweep => disk' \in [Transfer -> Nat] /\ \A u \in Transfer : DiskStep(u)
  BY <1>1, <1>3 DEF Sweep, SweepExpire, SweepKeys, SweepAbandon, SweepDelete, admissionVars
<1>6. Ready => disk' \in [Transfer -> Nat] /\ \A u \in Transfer : DiskStep(u)
  BY <1>0 DEF Ready, DiskStep
<1>7. Restart => disk' \in [Transfer -> Nat] /\ \A u \in Transfer : DiskStep(u)
  BY <1>1, <1>3, <1>6 DEF Restart, Reconcile
<1>. QED
  BY <1>1, <1>4, <1>5, <1>7 DEF IntakeNext, Leave, Crash, Tick, Ended, vars, admissionVars

LEMMA ReservedNext ==
  ASSUME IntakeTypes, [IntakeNext]_vars
  PROVE  reserved' \in [Transfer -> Nat] /\ \A t \in Transfer : reserved'[t] \in {0, Reserve(Size[t])}
<1>0. /\ reserved \in [Transfer -> Nat] /\ \A t \in Transfer : reserved[t] \in {0, Reserve(Size[t])}
      /\ \A t \in Transfer : Reserve(Size[t]) \in Nat
  BY IntakeAssumption DEF IntakeTypes, Reserve, MaterializationOverhead
<1>1. UNCHANGED reserved \/ \E t \in Transfer : \E n \in {0, Reserve(Size[t])} : reserved' = [reserved EXCEPT ![t] = n]
  <2>1. ASSUME NEW t \in Transfer, UploadStep(t)
        PROVE  UNCHANGED reserved \/ \E n \in {0, Reserve(Size[t])} : reserved' = [reserved EXCEPT ![t] = n]
    <3>1. Insert(t) \/ AbortUpload(t) \/ AllocateCode(t) \/ UNCHANGED reserved
      BY <2>1 DEF UploadStep, Begin, Check, Finish, ForgetKey, Stream, Guard, EndBody, StartPatch, WritePatch, EndPatch, StartCommit,
         Verify, Unpack, Rename, admissionVars
    <3>2. CASE Insert(t)
      BY <3>2 DEF Insert
    <3>3. CASE AbortUpload(t) \/ AllocateCode(t)
      BY <3>3 DEF AbortUpload, PurgeRow, AllocateCode, PublishRow
    <3>. QED  BY <3>1, <3>2, <3>3
  <2>2. Sweep => UNCHANGED reserved \/ \E t \in Transfer : reserved' = [reserved EXCEPT ![t] = 0]
    BY DEF Sweep, SweepExpire, SweepKeys, SweepAbandon, SweepDelete, PurgeRow, admissionVars
  <2>3. Restart => UNCHANGED reserved \/ \E t \in Transfer : reserved' = [reserved EXCEPT ![t] = 0]
    BY DEF Restart, Ready, Reconcile, PublishRow
  <2>. QED
    BY <2>1, <2>2, <2>3 DEF IntakeNext, Leave, Crash, Tick, Ended, vars, admissionVars
<1>. QED  BY <1>0, <1>1

\* The steps that answer a request.
LEMMA AnswerSteps ==
  ASSUME [IntakeNext]_vars
  PROVE  UNCHANGED answer \/ \E t \in Transfer : Begin(t) \/ Finish(t) \/ AllocateCode(t)
<1>1. ASSUME NEW t \in Transfer, UploadStep(t) PROVE UNCHANGED answer \/ Begin(t) \/ Finish(t) \/ AllocateCode(t)
  BY <1>1 DEF UploadStep, Check, Insert, ForgetKey, AbortUpload, Stream, Guard, EndBody, StartPatch, WritePatch, EndPatch,
     StartCommit, Verify, Unpack, Rename, intakeVars
<1>. QED
  BY <1>1 DEF IntakeNext, Sweep, SweepExpire, SweepKeys, SweepAbandon, SweepDelete, Restart, Ready, Reconcile, Leave,
     Crash, Tick, Ended, vars, intakeVars

\* pc, gone, answer, live, patches and the clock.
LEMMA RequestTypes ==
  ASSUME IntakeTypes, [IntakeNext]_vars
  PROVE  /\ DOMAIN pc' = Transfer /\ gone' \in [Transfer -> BOOLEAN]
         /\ answer' \in [Transfer -> Code \cup {NoCode}]
         /\ live' \in [Transfer -> BOOLEAN]
         /\ patches' \in [Transfer -> Nat]
         /\ now' \in 0..MaxTime
<1>0. /\ DOMAIN pc = Transfer /\ gone \in [Transfer -> BOOLEAN] /\ live \in [Transfer -> BOOLEAN] /\ now \in 0..MaxTime
      /\ patches \in [Transfer -> Nat]
      /\ answer \in [Transfer -> Code \cup {NoCode}] /\ code \in [Transfer -> Code \cup {NoCode}]
      /\ keyrow \in [Key -> Entry \cup {NoEntry}] /\ KeyOf \in [Transfer -> Key \cup {NoKey}] /\ MaxTime \in Nat
  BY IntakeAssumption DEF IntakeTypes, StoreInv, StoreTypeOK
<1>1. DOMAIN pc' = Transfer /\ gone' \in [Transfer -> BOOLEAN]
  <2>1. ASSUME NEW t \in Transfer, UploadStep(t) PROVE UNCHANGED <<pc, gone>> \/ \E n : Goto(t, n)
    BY <2>1 DEF UploadStep, Begin, Check, Insert, Finish, ForgetKey, AbortUpload, Stream, Guard, EndBody, StartPatch, WritePatch, EndPatch,
       StartCommit, Verify, Unpack, Rename, AllocateCode, intakeVars
  <2>2. ASSUME (\E t \in Transfer : Leave(t)) \/ Crash PROVE DOMAIN pc' = Transfer /\ gone' \in [Transfer -> BOOLEAN]
    <3>1. DOMAIN pc' = Transfer
      BY <1>0, <2>2 DEF Leave, Crash
    <3>2. gone' = [t \in Transfer |-> FALSE] \/ \E t \in Transfer : gone' = [gone EXCEPT ![t] = TRUE]
      BY <2>2 DEF Leave, Crash
    <3>3. gone' \in [Transfer -> BOOLEAN]
      BY <1>0, <3>2, Zenon
    <3>. QED  BY <3>1, <3>3
  <2>3. UNCHANGED <<pc, gone>> \/ Crash \/ \E t \in Transfer : Leave(t) \/ UploadStep(t)
    BY DEF IntakeNext, Sweep, SweepExpire, SweepKeys, SweepAbandon, SweepDelete, Restart, Ready, Reconcile, Tick, Ended,
       vars, intakeVars
  <2>. QED  BY <1>0, <2>1, <2>2, <2>3, GotoMoves
<1>2. answer' \in [Transfer -> Code \cup {NoCode}]
  <2>1. ASSUME NEW t \in Transfer, Begin(t) PROVE answer' \in [Transfer -> Code \cup {NoCode}]
    <3>1. CASE UNCHANGED answer
      BY <1>0, <3>1
    <3>2. CASE Replays(KeyOf[t], PrintOf[t]) /\ answer' = [answer EXCEPT ![t] = keyrow[KeyOf[t]].code]
      <4>1. keyrow[KeyOf[t]] \in Entry
        BY <1>0, <3>2 DEF Replays, Held
      <4>2. keyrow[KeyOf[t]].code \in Code \cup {NoCode}
        BY <4>1 DEF Entry
      <4>. QED  BY <1>0, <3>2, <4>2
    <3>. QED  BY <2>1, <3>1, <3>2 DEF Begin
  <2>2. ASSUME NEW t \in Transfer, Finish(t) \/ AllocateCode(t) PROVE answer' \in [Transfer -> Code \cup {NoCode}]
    BY <1>0, <2>2 DEF Finish, AllocateCode
  <2>. QED  BY <1>0, <2>1, <2>2, AnswerSteps
<1>3. live' \in [Transfer -> BOOLEAN]
  <2>1. ASSUME NEW t \in Transfer, UploadStep(t) PROVE UNCHANGED live \/ live' = [live EXCEPT ![t] = Exists(t)]
    BY <2>1 DEF UploadStep, Begin, Check, Insert, Finish, ForgetKey, AbortUpload, Stream, Guard, EndBody, StartPatch, WritePatch, EndPatch,
       StartCommit, Verify, Unpack, Rename, AllocateCode, intakeVars
  <2>2. UNCHANGED live \/ (\E t \in Transfer : UploadStep(t)) \/ \E t \in Transfer : live' = [live EXCEPT ![t] = FALSE]
    BY DEF IntakeNext, Sweep, SweepExpire, SweepKeys, SweepAbandon, SweepDelete, Restart, Ready, Reconcile, Leave,
       Crash, Tick, Ended, vars, intakeVars
  <2>3. \A t \in Transfer : Exists(t) \in BOOLEAN
    BY DEF Exists
  <2>4. ASSUME NEW t \in Transfer, NEW b \in BOOLEAN, live' = [live EXCEPT ![t] = b] PROVE live' \in [Transfer -> BOOLEAN]
    BY <1>0, <2>4, Zenon
  <2>. QED  BY <1>0, <2>1, <2>2, <2>3, <2>4
<1>4. now' \in 0..MaxTime
  <2>1. UNCHANGED now \/ (now' = now + 1 /\ now < MaxTime)
    <3>1. ASSUME NEW t \in Transfer, UploadStep(t) PROVE UNCHANGED now
      BY <3>1 DEF UploadStep, Begin, Check, Insert, Finish, ForgetKey, AbortUpload, Stream, Guard, EndBody, StartPatch, WritePatch, EndPatch,
         StartCommit, Verify, Unpack, Rename, AllocateCode, intakeVars
    <3>. QED
      BY <3>1 DEF IntakeNext, Sweep, SweepExpire, SweepKeys, SweepAbandon, SweepDelete, Restart, Ready, Reconcile, Leave,
         Crash, Tick, Ended, vars, intakeVars
  <2>. QED  BY <1>0, <2>1
<1>5. patches' \in [Transfer -> Nat]
  <2>1. ASSUME NEW t \in Transfer, UploadStep(t)
        PROVE  \/ UNCHANGED patches
               \/ patches' = [patches EXCEPT ![t] = patches[t] + 1]
               \/ patches[t] > 0 /\ patches' = [patches EXCEPT ![t] = patches[t] - 1]
    BY <2>1 DEF UploadStep, Begin, Check, Insert, Finish, ForgetKey, AbortUpload, Stream, Guard, EndBody, StartPatch, WritePatch,
       EndPatch, StartCommit, Verify, Unpack, Rename, AllocateCode
  <2>2. UNCHANGED patches \/ (\E t \in Transfer : UploadStep(t)) \/ patches' = [t \in Transfer |-> 0]
    BY DEF IntakeNext, Sweep, SweepExpire, SweepKeys, SweepAbandon, SweepDelete, Restart, Ready, Reconcile, Leave,
       Crash, Tick, Ended, vars, intakeVars
  <2>3. ASSUME NEW t \in Transfer, NEW n \in Nat, patches' = [patches EXCEPT ![t] = n]
        PROVE  patches' \in [Transfer -> Nat]
    BY <1>0, <2>3
  <2>4. \A t \in Transfer : patches[t] + 1 \in Nat /\ (patches[t] > 0 => patches[t] - 1 \in Nat)
    BY <1>0
  <2>. QED  BY <1>0, <2>1, <2>2, <2>3, <2>4
<1>. QED  BY <1>1, <1>2, <1>3, <1>4, <1>5

-----------------------------------------------------------------------------
(* The theorems.                                                           *)

LEMMA IntakeTypesInit == IntakeInit => IntakeTypes
<1>. SUFFICES ASSUME IntakeInit PROVE IntakeTypes
  OBVIOUS
<1>1. StoreInv /\ \A t \in Transfer : Exists(t) => ttl[t] \in TTL
  BY StoreInitInv DEF IntakeInit, StoreInit, Exists, NoRow
<1>2. keyrow \in [Key -> Entry \cup {NoEntry}]
  BY DEF IntakeInit, KeysInit
<1>3. /\ reserved \in [Transfer -> Nat] /\ disk \in [Transfer -> Nat]
      /\ \A t \in Transfer : reserved[t] = 0 /\ disk[t] = 0 /\ 0 <= Reserve(Size[t]) /\ 0 <= Size[t]
  BY IntakeAssumption DEF IntakeInit, AdmissionInit, Reserve, MaterializationOverhead
<1>4. DOMAIN pc = Transfer /\ answer \in [Transfer -> Code \cup {NoCode}] /\ now \in 0..MaxTime
  BY IntakeAssumption DEF IntakeInit
<1>5. gone \in [Transfer -> BOOLEAN] /\ live \in [Transfer -> BOOLEAN] /\ patches \in [Transfer -> Nat]
  BY DEF IntakeInit
<1>. QED  BY <1>1, <1>2, <1>3, <1>4, <1>5 DEF IntakeTypes

LEMMA IntakeTypesNext == IntakeTypes /\ [IntakeNext]_vars => IntakeTypes'
<1>. SUFFICES ASSUME IntakeTypes, [IntakeNext]_vars PROVE IntakeTypes'
  OBVIOUS
<1>1. StoreInv' /\ (\A t \in Transfer : Exists(t) => ttl[t] \in TTL)'
  <2>1. StoreInv /\ [StoreNext]_storeVars /\ \A t \in Transfer : Exists(t) => ttl[t] \in TTL
    BY IntakeCallsStore DEF IntakeTypes
  <2>. QED  BY <2>1, StoreNextInv, LifetimesKept
<1>2. \A t \in Transfer : disk'[t] <= Reserve(Size[t]) /\ (Arriving(t)' => disk'[t] <= Size[t])
  <2>. SUFFICES ASSUME NEW t \in Transfer
                PROVE  disk'[t] <= Reserve(Size[t]) /\ (Arriving(t)' => disk'[t] <= Size[t])
    OBVIOUS
  <2>1. /\ disk[t] \in Nat /\ disk'[t] \in Nat /\ Size[t] \in Nat /\ Reserve(Size[t]) = 2 * Size[t]
        /\ disk[t] <= 2 * Size[t] /\ (Arriving(t) => disk[t] <= Size[t])
    BY DiskSteps, IntakeAssumption DEF IntakeTypes, Reserve, MaterializationOverhead
  <2>2. DiskStep(t) /\ (Arriving(t)' => Arriving(t))
    BY DiskSteps, AllMove, ArrivingKept
  <2>3. pc[t] = "unpack" => Arriving(t)
    BY DEF Arriving
  <2>4. pc'[t] = "rename" => ~Arriving(t)'
    BY DEF Arriving
  <2>. QED  BY <2>1, <2>2, <2>3, <2>4 DEF DiskStep
<1>3. keyrow' \in [Key -> Entry \cup {NoEntry}]
  BY KeySteps
<1>. QED  BY <1>1, <1>2, <1>3, DiskSteps, ReservedNext, RequestTypes DEF IntakeTypes

LEMMA IntakeTypesHold == IntakeSpec => []IntakeTypes
  BY IntakeTypesInit, IntakeTypesNext, PTL DEF IntakeSpec

\* The handlers, the sweep and the startup pass call the repository only in ways
\* its own specification allows, also when they interleave with crashes and
\* lost clients.
THEOREM IntakeUsesStore == IntakeSpec => StoreSpec
<1>1. IntakeInit => StoreInit
  BY DEF IntakeInit
<1>2. IntakeTypes /\ [IntakeNext]_vars => [StoreNext]_storeVars
  BY IntakeCallsStore
<1>. QED  BY <1>1, <1>2, IntakeTypesHold, PTL DEF IntakeSpec, StoreSpec

\* Rows, keys and byte counts keep their types, and no transfer ever occupies more
\* than twice what it declared, which is what its admission reserved: the packs
\* and what is extracted from them.
THEOREM IntakeTypeCorrect == IntakeSpec => []IntakeTypeOK
<1>1. IntakeTypes => IntakeTypeOK
  <2>. SUFFICES ASSUME IntakeTypes PROVE IntakeTypeOK
    OBVIOUS
  <2>1. \A t \in Transfer : disk[t] \in 0..Reserve(Size[t])
    <3>. SUFFICES ASSUME NEW t \in Transfer PROVE disk[t] \in 0..Reserve(Size[t])
      OBVIOUS
    <3>1. Reserve(Size[t]) \in Nat
      BY IntakeAssumption DEF Reserve, MaterializationOverhead
    <3>2. disk[t] \in Nat /\ disk[t] <= Reserve(Size[t])
      BY DEF IntakeTypes
    <3>. QED  BY <3>1, <3>2
  <2>. QED  BY <2>1 DEF IntakeTypes, IntakeTypeOK, StoreInv
<1>. QED  BY <1>1, IntakeTypesHold, PTL

LEMMA KeysInvInit == IntakeInit => KeysInv
<1>. SUFFICES ASSUME IntakeInit PROVE KeysInv
  OBVIOUS
<1>1. \A t \in Transfer : pc[t] = "idle" /\ ~Exists(t) /\ ~Ripe(t)
  BY DEF IntakeInit, StoreInit, Exists, Ripe, NoRow
<1>2. \A k \in Key : ~Held(k)
  BY DEF IntakeInit, KeysInit, Held
<1>3. \A t \in Transfer : KeyHeld(t) /\ PendingOwns(t) /\ RowAt(t)
  BY <1>1 DEF KeyHeld, PendingOwns, Pending, Promising, RowAt
<1>4. Apart
  BY <1>1 DEF Apart, Pending, Promising
<1>. QED  BY <1>2, <1>3, <1>4 DEF KeysInv, ResultOK

LEMMA KeysInvHolds == ASSUME ~Slow PROVE IntakeSpec => [](IntakeTypes /\ KeysInv)
<1>1. IntakeTypes /\ KeysInv /\ [IntakeNext]_vars => KeysInv'
  BY KeysInvNext
<1>. QED  BY <1>1, KeysInvInit, IntakeTypesHold, PTL DEF IntakeSpec

\* Repeating a request with its key never makes a second handoff within the life
\* of the key: while the first request runs, after it failed, after its client
\* left, and after a crash between publication and the recording of its result.
\* It needs handlers that do not outlast their key.
THEOREM HandoffOncePerKey == ASSUME ~Slow PROVE IntakeSpec => []OneHandoffPerKey
<1>1. KeysInv => OneHandoffPerKey
  <2>1. \A t \in Transfer : Committed(t) => Promising(t)
    BY DEF Committed, Promising, Ripe, Exists, NoRow
  <2>. QED  BY <2>1 DEF KeysInv, Apart, SameKey, OneHandoffPerKey
<1>. QED  BY <1>1, KeysInvHolds, PTL

\* Whatever a request is answered, at once or from a remembered result, is the code
\* of its own transfer or of one made with the same key and fingerprint, although
\* codes are given out again after a purge.
THEOREM AnswersAreOwn == ASSUME ~Slow PROVE IntakeSpec => AnswersOwnCode
<1>. DEFINE Own == \A t \in Transfer : answer'[t] # answer[t] =>
                    \E u \in Transfer :
                        /\ code'[u] = answer'[t]
                        /\ \/ u = t
                           \/ KeyOf[u] = KeyOf[t] /\ KeyOf[t] # NoKey /\ PrintOf[u] = PrintOf[t]
<1>1. ASSUME IntakeTypes, KeysInv, IntakeNext PROVE Own
  <2>0. /\ answer \in [Transfer -> Code \cup {NoCode}] /\ code \in [Transfer -> Code \cup {NoCode}]
        /\ keyrow \in [Key -> Entry \cup {NoEntry}] /\ KeyOf \in [Transfer -> Key \cup {NoKey}]
    BY <1>1, IntakeAssumption DEF IntakeTypes, StoreInv, StoreTypeOK
  <2>1. UNCHANGED answer => Own
    OBVIOUS
  <2>2. ASSUME NEW t \in Transfer, Begin(t) PROVE Own
    <3>1. CASE Replays(KeyOf[t], PrintOf[t]) /\ answer' = [answer EXCEPT ![t] = keyrow[KeyOf[t]].code]
      <4>1. PICK k \in Key : k = KeyOf[t] /\ k # NoKey /\ Held(k) /\ keyrow[k] \in Entry
        BY <2>0, <3>1 DEF Replays, Held
      <4>2. PICK u \in Transfer : u = keyrow[k].transfer /\ KeyOf[u] = k /\ PrintOf[u] = PrintOf[t]
                                  /\ code[u] = keyrow[k].code
        BY <1>1, <3>1, <4>1 DEF KeysInv, ResultOK, Replays, Entry
      <4>3. code' = code
        BY <2>2 DEF Begin, storeVars
      <4>4. \A w \in Transfer : w # t => answer'[w] = answer[w]
        BY <2>0, <3>1
      <4>5. answer'[t] = keyrow[k].code
        BY <2>0, <3>1, <4>1
      <4>. QED  BY <4>1, <4>2, <4>3, <4>4, <4>5
    <3>. QED  BY <2>1, <2>2, <3>1 DEF Begin
  <2>3. ASSUME NEW t \in Transfer, Finish(t) PROVE Own
    <3>1. UNCHANGED answer \/ (answer' = [answer EXCEPT ![t] = code[t]] /\ code' = code)
      BY <2>3 DEF Finish, storeVars
    <3>. QED  BY <2>0, <3>1
  <2>4. ASSUME NEW t \in Transfer, AllocateCode(t) PROVE Own
    <3>1. UNCHANGED answer \/ \E c \in Code : answer' = [answer EXCEPT ![t] = c] /\ Allocate(t, now, ttl[t], c)
      BY <2>4 DEF AllocateCode, PublishRow
    <3>2. ASSUME NEW c \in Code, Allocate(t, now, ttl[t], c) PROVE code'[t] = c
      BY <2>0, <3>2 DEF Allocate
    <3>. QED  BY <2>0, <2>1, <3>1, <3>2
  <2>5. UNCHANGED answer \/ \E t \in Transfer : Begin(t) \/ Finish(t) \/ AllocateCode(t)
    BY <1>1, AnswerSteps
  <2>. QED  BY <2>1, <2>2, <2>3, <2>4, <2>5
<1>2. IntakeTypes /\ KeysInv /\ [IntakeNext]_vars => [Own]_vars
  BY <1>1 DEF vars
<1>. QED  BY <1>2, KeysInvHolds, PTL DEF IntakeSpec, AnswersOwnCode

-----------------------------------------------------------------------------
(* Sums over a finite set.  Induction over the set is a choice of a        *)
(* smallest counterexample among its subsets.                              *)

\* Among subsets of a finite set there is one that loses the property with any of
\* its elements.
LEMMA SmallestSet ==
  ASSUME NEW S, IsFiniteSet(S), NEW Y, Y \subseteq SUBSET S, Y # {}
  PROVE  \E T \in Y : \A x \in T : T \ {x} \notin Y
<1>1. IsWellFoundedOn(StrictSubsetOrdering(S), SUBSET S)
  BY FS_StrictSubsetOrderingWellFounded, FS_FiniteSubsetsOfFinite
<1>2. PICK T \in Y : \A U \in Y : ~(<<U, T>> \in StrictSubsetOrdering(S))
  BY <1>1, WFMin
<1>3. ASSUME NEW x \in T, T \ {x} \in Y PROVE FALSE
  <2>1. <<T \ {x}, T>> \in StrictSubsetOrdering(S)
    BY <1>3 DEF StrictSubsetOrdering
  <2>. QED  BY <1>2, <1>3, <2>1
<1>. QED  BY <1>3

\* Induction over a finite set, one element at a time.
LEMMA ByElements ==
  ASSUME NEW S, IsFiniteSet(S), NEW Y, {} \in Y,
         \A T \in SUBSET S : \A x \in S \ T : T \in Y => T \cup {x} \in Y
  PROVE  S \in Y
<1>1. PICK Z : Z = {T \in SUBSET S : T \notin Y}
  OBVIOUS
<1>2. CASE Z # {}
  <2>1. PICK T \in Z : \A x \in T : T \ {x} \notin Z
    BY <1>1, <1>2, SmallestSet
  <2>2. PICK x : x \in T
    BY <1>1, <2>1
  <2>3. T \ {x} \in Y /\ T = (T \ {x}) \cup {x} /\ x \in S \ (T \ {x}) /\ T \ {x} \in SUBSET S
    BY <1>1, <2>1, <2>2
  <2>. QED  BY <1>1, <2>1, <2>3
<1>. QED  BY <1>1, <1>2

SumOver(f, S) == MapThenSumSet(LAMBDA x : f[x], S)

\* The sum of f over a set is the number of its units.
Units(f, S) == UNION {{x} \X (1..f[x]) : x \in S}

LEMMA UnitsOf ==
  ASSUME NEW S, IsFiniteSet(S), NEW f, \A x \in S : f[x] \in Nat
  PROVE  /\ IsFiniteSet(Units(f, S)) /\ Cardinality(Units(f, S)) \in Nat
         /\ \A c \in S : Cardinality(Units(f, S)) = f[c] + Cardinality(Units(f, S \ {c}))
<1>1. ASSUME NEW x \in S
      PROVE  IsFiniteSet({x} \X (1..f[x])) /\ Cardinality({x} \X (1..f[x])) = f[x]
  <2>1. f[x] \in Nat
    OBVIOUS
  <2>2. IsFiniteSet(1..f[x]) /\ Cardinality(1..f[x]) = f[x]
    BY <2>1, FS_Interval
  <2>3. IsFiniteSet({x}) /\ Cardinality({x}) = 1
    BY FS_Singleton
  <2>. QED  BY <2>1, <2>2, <2>3, FS_Product
<1>2. ASSUME NEW R, R \subseteq S PROVE IsFiniteSet(Units(f, R))
  <2>1. PICK Y : Y = {T \in SUBSET R : IsFiniteSet(Units(f, T))}
    OBVIOUS
  <2>2. {} \in Y
    <3>1. Units(f, {}) = {}
      BY DEF Units
    <3>. QED  BY <2>1, <3>1, FS_EmptySet
  <2>3. ASSUME NEW T \in SUBSET R, NEW x \in R \ T, T \in Y PROVE T \cup {x} \in Y
    <3>1. Units(f, T \cup {x}) = Units(f, T) \cup ({x} \X (1..f[x]))
      BY DEF Units
    <3>2. IsFiniteSet(Units(f, T)) /\ IsFiniteSet({x} \X (1..f[x]))
      BY <1>1, <1>2, <2>1, <2>3
    <3>3. IsFiniteSet(Units(f, T) \cup ({x} \X (1..f[x])))
      BY <3>2, FS_Union
    <3>4. IsFiniteSet(Units(f, T \cup {x}))
      BY <3>1, <3>3, Zenon
    <3>. QED  BY <2>1, <3>4
  <2>4. IsFiniteSet(R)
    BY <1>2, FS_Subset
  <2>5. R \in Y
    BY <2>2, <2>3, <2>4, ByElements
  <2>. QED  BY <2>1, <2>5
<1>3. ASSUME NEW c \in S
      PROVE  Cardinality(Units(f, S)) = f[c] + Cardinality(Units(f, S \ {c}))
  <2>1. Units(f, S) = ({c} \X (1..f[c])) \cup Units(f, S \ {c})
    BY DEF Units
  <2>2. ({c} \X (1..f[c])) \cap Units(f, S \ {c}) = {}
    BY DEF Units
  <2>3. IsFiniteSet(Units(f, S \ {c})) /\ Cardinality(Units(f, S \ {c})) \in Nat
    BY <1>2, FS_CardinalityType
  <2>4. PICK A, B : A = {c} \X (1..f[c]) /\ B = Units(f, S \ {c})
    OBVIOUS
  <2>5. Cardinality(A \cup B) = Cardinality(A) + Cardinality(B) - Cardinality(A \cap B)
    BY <1>1, <2>3, <2>4, FS_Union
  <2>6. A \cap B = {} /\ Cardinality({}) = 0 /\ Cardinality(A) = f[c] /\ f[c] \in Nat
    BY <1>1, <2>2, <2>4, FS_EmptySet
  <2>7. Cardinality(B) \in Nat
    BY <2>3, <2>4, Zenon
  <2>8. Cardinality(A \cap B) = 0
    BY <2>6, Zenon
  <2>9. Cardinality(A \cup B) = f[c] + Cardinality(B)
    BY <2>5, <2>6, <2>7, <2>8
  <2>. QED  BY <2>1, <2>4, <2>9, Zenon
<1>. QED  BY <1>2, <1>3, FS_CardinalityType

LEMMA SumCounts ==
  ASSUME NEW S, IsFiniteSet(S), NEW f, \A x \in S : f[x] \in Nat
  PROVE  SumOver(f, S) = Cardinality(Units(f, S))
<1>. DEFINE Pick(s) == CHOOSE x \in s : TRUE
            G(h) == [s \in SUBSET S |-> IF s = {} THEN 0 ELSE f[Pick(s)] + h[s \ {Pick(s)}]]
<1>1. SumOver(f, S) = (CHOOSE h : h = G(h))[S]
  BY DEF SumOver, MapThenSumSet, MapThenFoldSet
<1>2. PICK g : g = [s \in SUBSET S |-> Cardinality(Units(f, s))]
  OBVIOUS
<1>3. \A s \in SUBSET S : s # {} => Pick(s) \in s
  OBVIOUS
<1>4. g = G(g)
  <2>1. ASSUME NEW s \in SUBSET S, s # {} PROVE g[s] = f[Pick(s)] + g[s \ {Pick(s)}]
    <3>1. IsFiniteSet(s) /\ Pick(s) \in s
      BY <1>3, <2>1, FS_Subset
    <3>2. PICK c \in s : c = Pick(s)
      BY <3>1
    <3>3. Cardinality(Units(f, s)) = f[c] + Cardinality(Units(f, s \ {c}))
      BY <3>1, UnitsOf
    <3>4. s \ {c} \in SUBSET S
      OBVIOUS
    <3>. QED  BY <1>2, <3>2, <3>3, <3>4
  <2>2. g[{}] = 0
    <3>1. Units(f, {}) = {}
      BY DEF Units
    <3>. QED  BY <1>2, <3>1, FS_EmptySet
  <2>. QED  BY <1>2, <2>1, <2>2
<1>5. PICK h : h = G(h) /\ SumOver(f, S) = h[S]
  BY <1>1, <1>4, Zenon
<1>6. PICK Y : Y = {s \in SUBSET S : h[s] # g[s]}
  OBVIOUS
<1>7. ASSUME Y # {} PROVE FALSE
  <2>1. PICK s \in Y : \A x \in s : s \ {x} \notin Y
    BY <1>6, <1>7, SmallestSet
  <2>2. s \in SUBSET S /\ h[s] # g[s]
    BY <1>6, <2>1
  <2>3. CASE s = {}
    BY <1>4, <1>5, <2>2, <2>3
  <2>4. CASE s # {}
    <3>1. PICK c \in s : c = Pick(s)
      BY <1>3, <2>2, <2>4
    <3>2. h[s \ {c}] = g[s \ {c}]
      BY <1>6, <2>1, <2>2
    <3>. QED  BY <1>4, <1>5, <2>2, <2>4, <3>1, <3>2
  <2>. QED  BY <2>3, <2>4
<1>8. h[S] = g[S]
  <2>1. S \in SUBSET S
    OBVIOUS
  <2>2. S \notin Y
    BY <1>7
  <2>. QED  BY <1>6, <2>1, <2>2
<1>. QED  BY <1>2, <1>5, <1>8

\* A sum of natural numbers is one; any element may be taken out of it.
LEMMA SumOf ==
  ASSUME NEW S, IsFiniteSet(S), NEW f, \A x \in S : f[x] \in Nat
  PROVE  /\ SumOver(f, S) \in Nat
         /\ S = {} => SumOver(f, S) = 0
         /\ \A c \in S : SumOver(f, S) = f[c] + SumOver(f, S \ {c})
<1>1. SumOver(f, S) = Cardinality(Units(f, S)) /\ Cardinality(Units(f, S)) \in Nat
  BY SumCounts, UnitsOf
<1>2. S = {} => Units(f, S) = {}
  BY DEF Units
<1>3. ASSUME NEW c \in S PROVE SumOver(f, S) = f[c] + SumOver(f, S \ {c})
  <2>1. IsFiniteSet(S \ {c}) /\ \A x \in S \ {c} : f[x] \in Nat
    BY FS_Subset
  <2>2. SumOver(f, S \ {c}) = Cardinality(Units(f, S \ {c}))
    BY <2>1, SumCounts
  <2>. QED  BY <1>1, <2>2, UnitsOf
<1>. QED  BY <1>1, <1>2, <1>3, FS_EmptySet

\* An element more.
NatOn(f, S) == \A x \in S : f[x] \in Nat

AddsUp(f, S) ==
    \A T \in SUBSET S : \A x \in S \ T :
        /\ SumOver(f, T) \in Nat /\ f[x] \in Nat
        /\ SumOver(f, T \cup {x}) = f[x] + SumOver(f, T)

LEMMA SumAdds ==
  ASSUME NEW S, IsFiniteSet(S), NEW f, NatOn(f, S)
  PROVE  AddsUp(f, S) /\ SumOver(f, {}) = 0 /\ SumOver(f, S) \in Nat
<1>1. ASSUME NEW T \in SUBSET S, NEW x \in S \ T
      PROVE  /\ SumOver(f, T) \in Nat /\ f[x] \in Nat
             /\ SumOver(f, T \cup {x}) = f[x] + SumOver(f, T)
  <2>1. PICK U : U = T \cup {x}
    OBVIOUS
  <2>2. IsFiniteSet(U) /\ IsFiniteSet(T) /\ x \in U /\ U \ {x} = T /\ U \subseteq S /\ T \subseteq S
    BY <2>1, FS_Subset
  <2>3. (\A y \in U : f[y] \in Nat) /\ (\A y \in T : f[y] \in Nat)
    BY <2>2 DEF NatOn
  <2>. QED  BY <2>1, <2>2, <2>3, SumOf
<1>2. SumOver(f, {}) = 0
  BY SumOf, FS_EmptySet
<1>. QED  BY <1>1, <1>2, SumOf DEF AddsUp, NatOn

\* Smaller terms make a smaller sum; equal terms the same.
LEMMA SumMonotone ==
  ASSUME NEW S, IsFiniteSet(S), NEW f, NatOn(f, S), NEW g, NatOn(g, S), \A x \in S : f[x] <= g[x]
  PROVE  SumOver(f, S) <= SumOver(g, S)
<1>1. PICK Y : Y = {T \in SUBSET S : SumOver(f, T) <= SumOver(g, T)}
  OBVIOUS
<1>b. AddsUp(f, S) /\ SumOver(f, {}) = 0 /\ AddsUp(g, S) /\ SumOver(g, {}) = 0
  BY SumAdds
<1>2. {} \in Y
  BY <1>1, <1>b
<1>3. ASSUME NEW T \in SUBSET S, NEW x \in S \ T, T \in Y PROVE T \cup {x} \in Y
  <2>1. /\ SumOver(f, T) \in Nat /\ SumOver(f, T \cup {x}) = f[x] + SumOver(f, T)
        /\ SumOver(g, T) \in Nat /\ SumOver(g, T \cup {x}) = g[x] + SumOver(g, T)
    BY <1>b DEF AddsUp
  <2>2. f[x] \in Nat /\ g[x] \in Nat /\ f[x] <= g[x]
    BY DEF NatOn
  <2>3. SumOver(f, T) <= SumOver(g, T)
    BY <1>1, <1>3
  <2>4. SumOver(f, T \cup {x}) <= SumOver(g, T \cup {x})
    BY <2>1, <2>2, <2>3
  <2>. QED  BY <1>1, <2>4
<1>. QED  BY <1>1, <1>2, <1>3, ByElements

\* Two sums added up.
LEMMA SumOfSums ==
  ASSUME NEW S, IsFiniteSet(S), NEW f, NatOn(f, S), NEW g, NatOn(g, S), NEW h,
         \A x \in S : h[x] = f[x] + g[x]
  PROVE  SumOver(h, S) = SumOver(f, S) + SumOver(g, S)
<1>1. PICK Y : Y = {T \in SUBSET S : SumOver(h, T) = SumOver(f, T) + SumOver(g, T)}
  OBVIOUS
<1>a. NatOn(h, S)
  BY DEF NatOn
<1>b. AddsUp(f, S) /\ SumOver(f, {}) = 0 /\ AddsUp(g, S) /\ SumOver(g, {}) = 0 /\ AddsUp(h, S) /\ SumOver(h, {}) = 0
  BY <1>a, SumAdds
<1>2. {} \in Y
  BY <1>1, <1>b
<1>3. ASSUME NEW T \in SUBSET S, NEW x \in S \ T, T \in Y PROVE T \cup {x} \in Y
  <2>1. SumOver(f, T) \in Nat /\ SumOver(f, T \cup {x}) = f[x] + SumOver(f, T)
    BY <1>b DEF AddsUp
  <2>2. SumOver(g, T) \in Nat /\ SumOver(g, T \cup {x}) = g[x] + SumOver(g, T)
    BY <1>b DEF AddsUp
  <2>3. SumOver(h, T) \in Nat /\ SumOver(h, T \cup {x}) = h[x] + SumOver(h, T)
    BY <1>b DEF AddsUp
  <2>4. f[x] \in Nat /\ g[x] \in Nat /\ h[x] = f[x] + g[x]
    BY DEF NatOn
  <2>5. SumOver(h, T) = SumOver(f, T) + SumOver(g, T)
    BY <1>1, <1>3
  <2>6. SumOver(h, T \cup {x}) = SumOver(f, T \cup {x}) + SumOver(g, T \cup {x})
    BY <2>1, <2>2, <2>3, <2>4, <2>5
  <2>. QED  BY <1>1, <2>6
<1>. QED  BY <1>1, <1>2, <1>3, ByElements

\* Counting.
LEMMA SumOfOnes ==
  ASSUME NEW S, IsFiniteSet(S), NEW P, P \subseteq S, NEW f, \A x \in S : f[x] = IF x \in P THEN 1 ELSE 0
  PROVE  SumOver(f, S) = Cardinality(P)
<1>1. PICK Y : Y = {T \in SUBSET S : SumOver(f, T) = Cardinality(T \cap P)}
  OBVIOUS
<1>a. NatOn(f, S)
  BY DEF NatOn
<1>b. AddsUp(f, S) /\ SumOver(f, {}) = 0
  BY <1>a, SumAdds
<1>2. {} \in Y
  <2>1. SumOver(f, {}) = 0
    BY <1>b
  <2>2. {} \cap P = {}
    OBVIOUS
  <2>. QED  BY <1>1, <2>1, <2>2, FS_EmptySet
<1>3. ASSUME NEW T \in SUBSET S, NEW x \in S \ T, T \in Y PROVE T \cup {x} \in Y
  <2>1. SumOver(f, T) \in Nat /\ SumOver(f, T \cup {x}) = f[x] + SumOver(f, T)
    BY <1>b DEF AddsUp
  <2>2. CASE x \in P
    <3>1. (T \cup {x}) \cap P = (T \cap P) \cup {x} /\ x \notin T \cap P
      BY <2>2
    <3>2. IsFiniteSet(T \cap P)
      BY FS_Subset
    <3>3. Cardinality((T \cap P) \cup {x}) = Cardinality(T \cap P) + 1 /\ Cardinality(T \cap P) \in Nat
      BY <3>1, <3>2, FS_AddElement, FS_CardinalityType
    <3>. QED  BY <1>1, <1>3, <2>1, <2>2, <3>1, <3>3
  <2>3. CASE x \notin P
    <3>1. (T \cup {x}) \cap P = T \cap P
      BY <2>3
    <3>2. f[x] = 0 /\ T \cup {x} \in SUBSET S
      BY <2>3
    <3>3. SumOver(f, T \cup {x}) = Cardinality(T \cap P)
      BY <1>1, <1>3, <2>1, <3>2
    <3>. QED  BY <1>1, <3>1, <3>2, <3>3
  <2>. QED  BY <2>2, <2>3
<1>4. S \in Y
  BY <1>1, <1>2, <1>3, ByElements
<1>5. S \cap P = P
  OBVIOUS
<1>. QED  BY <1>1, <1>4, <1>5

\* One unit more.
LEMMA SumStep ==
  ASSUME NEW S, IsFiniteSet(S), NEW f \in [S -> Nat], NEW c \in S
  PROVE  SumOver([f EXCEPT ![c] = f[c] + 1], S) = SumOver(f, S) + 1
<1>1. PICK o, g : o = [x \in S |-> IF x \in {c} THEN 1 ELSE 0] /\ g = [f EXCEPT ![c] = f[c] + 1]
  OBVIOUS
<1>2. NatOn(f, S) /\ NatOn(o, S) /\ \A x \in S : g[x] = f[x] + o[x]
  BY <1>1 DEF NatOn
<1>3. SumOver(g, S) = SumOver(f, S) + SumOver(o, S)
  BY <1>2, SumOfSums
<1>4. \A x \in S : o[x] = IF x \in {c} THEN 1 ELSE 0
  BY <1>1
<1>5. SumOver(o, S) = Cardinality({c})
  BY <1>4, SumOfOnes
<1>6. Cardinality({c}) = 1
  BY FS_Singleton
<1>. QED  BY <1>1, <1>3, <1>5, <1>6

\* Two sums, one of smaller terms.
LEMMA SumsMonotone ==
  ASSUME IsFiniteSet(Transfer), NEW f, NEW g,
         \A t \in Transfer : f[t] \in Nat /\ g[t] \in Nat /\ f[t] <= g[t]
  PROVE  /\ SumOver(f, Transfer) \in Nat /\ SumOver(g, Transfer) \in Nat
         /\ SumOver(f, Transfer) <= SumOver(g, Transfer)
<1>1. NatOn(f, Transfer) /\ NatOn(g, Transfer)
  BY DEF NatOn
<1>. QED  BY <1>1, SumAdds, SumMonotone

\* Both totals, before and after a step.
LEMMA UsedSum == Used = SumOver(disk, Transfer) /\ Used' = SumOver(disk', Transfer)
  BY DEF Used, SumOver, MapThenSumSet, MapThenFoldSet

LEMMA SlotsSum == SlotsTaken = SumOver(patches, Transfer) /\ SlotsTaken' = SumOver(patches', Transfer)
  BY DEF SlotsTaken, SumOver, MapThenSumSet, MapThenFoldSet

-----------------------------------------------------------------------------
(* The watermark.  A transfer weighs what it was sent and what it may send *)
(* before its next check: a PATCH that goes on a unit, and a simple upload *)
(* in its body as well, but of what a simple upload holds one unit is left *)
(* out, the one it has written since its last check or will still write.   *)

WeightOf(simple, size, d, p, body) ==
    IF simple
    THEN IF d = 0 THEN 0 ELSE d - 1 + (IF body /\ d < size THEN 1 ELSE 0)
    ELSE (IF d < size THEN d ELSE size) + p

Weight(t) == WeightOf(t \in SimpleT, Size[t], disk[t], patches[t], pc[t] = "body")

WeightSum == SumOver([u \in Transfer |-> Weight(u)], Transfer)

New == {"idle", "check", "insert"}

\* Where bytes may be: not before there is a row; a resumable transfer that is
\* being committed has them all, and what is unpacked comes on top of them.
Placed(t) ==
    /\ pc[t] \in New => disk[t] = 0 /\ patches[t] = 0
    /\ pc[t] \in {"created", "unpack"} \/ patches[t] > 0 => t \notin SimpleT
    /\ pc[t] \in {"body", "guard"} => t \in SimpleT
    /\ t \notin SimpleT /\ pc[t] \in {"verify", "unpack"} /\ Exists(t) => disk[t] >= Size[t]
    /\ ~up => pc[t] \in Resting

BytesInv ==
    /\ \A t \in Transfer : Placed(t)
    /\ SlotsTaken <= MaxUploads
    /\ WeightSum < Limit + MaxUploads

LEMMA WeightBounds ==
  ASSUME NEW simple, NEW size \in Nat, NEW d \in Nat, NEW p \in Nat, NEW body
  PROVE  /\ WeightOf(simple, size, d, p, body) \in Nat
         /\ WeightOf(simple, size, d, p, body) <= d + p
         /\ (IF d < size THEN d ELSE size)
              <= WeightOf(simple, size, d, p, body) + (IF simple /\ d > 0 THEN 1 ELSE 0)
<1>1. CASE simple
  BY <1>1 DEF WeightOf
<1>2. CASE ~simple
  BY <1>2 DEF WeightOf
<1>. QED  BY <1>1, <1>2

\* Steps after which a transfer weighs no more: its bytes stay or go and nothing
\* starts; or a unit that was allowed for is written; or packs are unpacked.
Eases(simple, size, d, p, body, e, q, start) ==
    \/ e = d /\ q <= p /\ (start => body)
    \/ e = 0 /\ q <= p
    \/ simple /\ body /\ d < size /\ e = d + 1 /\ (~start \/ e = size)
    \/ ~simple /\ d < size /\ e = d + 1 /\ q = p - 1
    \/ ~simple /\ d >= size /\ e >= d /\ q = p

LEMMA WeightEases ==
  ASSUME NEW simple, NEW size \in Nat, NEW d \in Nat, NEW p \in Nat, NEW body,
         NEW e \in Nat, NEW q \in Nat, NEW start,
         Eases(simple, size, d, p, body, e, q, start)
  PROVE  WeightOf(simple, size, e, q, start) <= WeightOf(simple, size, d, p, body)
<1>. USE DEF WeightOf
<1>1. CASE e = d /\ q <= p /\ (start => body)
  BY <1>1
<1>2. CASE e = 0 /\ q <= p
  BY <1>2
<1>3. CASE simple /\ body /\ d < size /\ e = d + 1 /\ (~start \/ e = size)
  BY <1>3
<1>4. CASE ~simple /\ d < size /\ e = d + 1 /\ q = p - 1
  BY <1>4
<1>5. CASE ~simple /\ d >= size /\ e >= d /\ q = p
  BY <1>5
<1>. QED  BY <1>1, <1>2, <1>3, <1>4, <1>5 DEF Eases

EasesAt(t) == Eases(t \in SimpleT, Size[t], disk[t], patches[t], pc[t] = "body",
                    disk'[t], patches'[t], pc'[t] = "body")

\* A step of t's own request: it eases the disk, or it has passed a check.
LEMMA UploadEases ==
  ASSUME IntakeTypes, IntakeTypes', IsFiniteSet(Transfer), NEW t \in Transfer, Placed(t), up, UploadStep(t)
  PROVE  Placed(t)' /\ (EasesAt(t) \/ Used' < Limit)
<1>0. /\ DOMAIN pc = Transfer /\ gone \in [Transfer -> BOOLEAN]
      /\ disk \in [Transfer -> Nat] /\ disk[t] \in Nat /\ patches \in [Transfer -> Nat] /\ patches[t] \in Nat
      /\ Size[t] \in Nat \ {0} /\ Limit \in Nat
      /\ state \in [Transfer -> State \cup {NoRow}]
  BY IntakeAssumption, AdmissionAssumption DEF IntakeTypes, StoreInv, StoreTypeOK
<1>1. up' = up
  BY DEF UploadStep, Begin, Check, Insert, Finish, ForgetKey, AbortUpload, Stream, Guard, EndBody, StartPatch, WritePatch,
     EndPatch, StartCommit, Verify, Unpack, Rename, AllocateCode, intakeVars
<1>2. \A n : Goto(t, n) => pc'[t] = n
  BY <1>0, GotoMoves
<1>3. PICK s, b, c : s = (t \in SimpleT) /\ b = (pc[t] = "body") /\ c = (pc'[t] = "body")
  OBVIOUS
<1>4. EasesAt(t) <=> Eases(s, Size[t], disk[t], patches[t], b, disk'[t], patches'[t], c)
  BY <1>3 DEF EasesAt
<1>5. UNCHANGED <<disk, patches>> /\ (c => b) => EasesAt(t)
  BY <1>0, <1>4 DEF Eases
<1>6. UNCHANGED storeVars => Exists(t)' = Exists(t)
  BY DEF storeVars, Exists
<1>u. Used' = SumOver(disk', Transfer) /\ Used = SumOver(disk, Transfer)
  BY UsedSum
<1>c. CheckStreaming => Used < Limit
  <2>1. NatOn(disk, Transfer)
    BY <1>0 DEF NatOn
  <2>2. Used \in Nat
    BY <1>u, <2>1, SumAdds
  <2>. QED  BY <1>0, <2>2 DEF CheckStreaming, Below
<1>. USE DEF Placed, New, Resting
<1>7. ASSUME Begin(t) \/ Check(t) \/ Insert(t) \/ Finish(t) \/ ForgetKey(t) PROVE Placed(t)' /\ EasesAt(t)
  <2>1. UNCHANGED <<disk, patches>>
    BY <1>7 DEF Begin, Check, Insert, Finish, ForgetKey, admissionVars, intakeVars
  <2>3. /\ pc'[t] \in New => pc[t] \in New
        /\ pc'[t] = "body" => t \in SimpleT /\ pc[t] = "insert"
        /\ pc'[t] = "created" => t \notin SimpleT
        /\ pc'[t] \notin {"unpack", "guard", "verify"}
    BY <1>2, <1>7 DEF Begin, Check, Insert, Finish, ForgetKey
  <2>4. Placed(t)'
    BY <1>1, <2>1, <2>3
  <2>5. CASE pc'[t] = "body"
    <3>1. disk'[t] = 0 /\ patches'[t] = patches[t] /\ patches[t] <= patches[t]
      BY <1>0, <2>1, <2>3, <2>5
    <3>. QED  BY <1>4, <2>4, <3>1 DEF Eases
  <2>. QED  BY <1>3, <1>5, <2>1, <2>4, <2>5
<1>8. ASSUME EndBody(t) \/ StartCommit(t) \/ Verify(t) \/ Rename(t) \/ AllocateCode(t) PROVE Placed(t)' /\ EasesAt(t)
  <2>1. UNCHANGED <<disk, patches>>
    BY <1>8 DEF EndBody, StartCommit, Verify, Rename, AllocateCode, PublishRow, admissionVars, intakeVars
  <2>3. pc'[t] \notin New \cup {"body", "guard", "created"}
    BY <1>2, <1>8 DEF EndBody, StartCommit, Verify, Rename, AllocateCode, Failed
  <2>4. pc'[t] = "unpack" => t \notin SimpleT /\ pc[t] = "verify" /\ Exists(t)
    BY <1>2, <1>8 DEF EndBody, StartCommit, Verify, Rename, AllocateCode, Failed
  <2>5. pc'[t] = "verify" => pc[t] = "body" \/ (pc[t] = "created" /\ disk[t] = Size[t])
    BY <1>2, <1>8 DEF EndBody, StartCommit, Verify, Rename, AllocateCode, Failed
  <2>6. t \notin SimpleT /\ pc'[t] \in {"verify", "unpack"} /\ Exists(t)' => disk'[t] >= Size[t]
    BY <1>0, <2>1, <2>4, <2>5
  <2>7. Placed(t)'
    BY <1>1, <2>1, <2>3, <2>4, <2>6
  <2>. QED  BY <1>3, <1>5, <2>1, <2>3, <2>7
<1>9. ASSUME AbortUpload(t) PROVE Placed(t)' /\ EasesAt(t)
  <2>1. pc[t] = "abort" /\ pc'[t] = "done" /\ UNCHANGED patches /\ disk'[t] \in {0, disk[t]}
    BY <1>0, <1>2, <1>9 DEF AbortUpload
  <2>2. EasesAt(t)
    BY <1>0, <1>3, <1>4, <2>1 DEF Eases
  <2>. QED  BY <1>1, <2>1, <2>2
<1>10. ASSUME Guard(t) PROVE Placed(t)' /\ (EasesAt(t) \/ Used' < Limit)
  <2>1. pc[t] = "guard" /\ UNCHANGED <<disk, patches, storeVars>> /\ pc'[t] \in {"body", "forget"}
        /\ (pc'[t] = "body" => CheckStreaming)
    BY <1>2, <1>10 DEF Guard, admissionVars
  <2>2. Used' = Used
    BY <1>u, <2>1, Zenon
  <2>. QED  BY <1>1, <1>3, <1>5, <1>c, <2>1, <2>2
<1>11. ASSUME Stream(t) PROVE Placed(t)' /\ EasesAt(t)
  <2>1. /\ pc[t] = "body" /\ disk[t] < Size[t] /\ disk'[t] = disk[t] + 1 /\ UNCHANGED patches
        /\ pc'[t] = "guard" \/ (pc'[t] = "body" /\ disk[t] + 1 = Size[t])
    BY <1>0, <1>2, <1>11 DEF Stream
  <2>2. EasesAt(t)
    BY <1>0, <1>3, <1>4, <2>1 DEF Eases
  <2>. QED  BY <1>1, <2>1, <2>2
<1>12. ASSUME StartPatch(t) PROVE Placed(t)' /\ Used' < Limit
  <2>1. pc[t] = "created" /\ UNCHANGED <<pc, disk>> /\ CheckStreaming
    BY <1>12 DEF StartPatch, admissionVars
  <2>2. Used' = Used
    BY <1>u, <2>1, Zenon
  <2>. QED  BY <1>1, <1>c, <2>1, <2>2
<1>13. ASSUME WritePatch(t) PROVE Placed(t)' /\ (EasesAt(t) \/ Used' < Limit)
  <2>1. /\ patches[t] > 0 /\ disk[t] < Size[t] /\ disk' = [disk EXCEPT ![t] = disk[t] + 1] /\ UNCHANGED <<pc, storeVars>>
        /\ patches'[t] = patches[t] - 1 \/ (Below(1) /\ UNCHANGED patches)
    BY <1>0, <1>13 DEF WritePatch
  <2>2. disk'[t] = disk[t] + 1 /\ patches'[t] \in Nat
    BY <1>0, <2>1
  <2>3. Placed(t)'
    BY <1>0, <1>1, <1>6, <2>1, <2>2
  <2>4. CASE patches'[t] = patches[t] - 1
    <3>1. ~s
      BY <1>0, <1>3, <2>1
    <3>2. EasesAt(t)
      BY <1>4, <2>1, <2>2, <2>4, <3>1 DEF Eases
    <3>. QED  BY <2>3, <3>2
  <2>5. CASE Below(1)
    <3>1. Used' = SumOver([disk EXCEPT ![t] = disk[t] + 1], Transfer)
      BY <1>u, <2>1, Zenon
    <3>2. Used' = Used + 1
      BY <1>0, <1>u, <3>1, SumStep
    <3>. QED  BY <2>3, <2>5, <3>2 DEF Below
  <2>. QED  BY <2>1, <2>4, <2>5
<1>14. ASSUME EndPatch(t) PROVE Placed(t)' /\ EasesAt(t)
  <2>1. patches[t] > 0 /\ patches'[t] = patches[t] - 1 /\ UNCHANGED <<pc, disk, storeVars>>
    BY <1>0, <1>14 DEF EndPatch, admissionVars
  <2>2. patches'[t] <= patches[t] /\ patches'[t] \in Nat
    BY <1>0, <2>1
  <2>3. EasesAt(t)
    BY <1>3, <1>4, <2>1, <2>2 DEF Eases
  <2>. QED  BY <1>0, <1>1, <1>6, <2>1, <2>2, <2>3
<1>15. ASSUME Unpack(t) PROVE Placed(t)' /\ EasesAt(t)
  <2>1. pc[t] = "unpack" /\ UNCHANGED patches /\ pc'[t] \in {"rename", "done"}
    BY <1>2, <1>15 DEF Unpack
  <2>2. UNCHANGED disk \/ (Exists(t) /\ \E more \in 0..Size[t] : disk'[t] = disk[t] + more)
    BY <1>0, <1>15 DEF Unpack
  <2>3. ~s /\ (Exists(t) => disk[t] >= Size[t])
    BY <1>3, <2>1
  <2>5. ASSUME NEW more \in 0..Size[t], Exists(t), disk'[t] = disk[t] + more PROVE EasesAt(t)
    <3>1. disk'[t] >= disk[t]
      BY <1>0, <2>5
    <3>. QED  BY <1>4, <2>1, <2>3, <2>5, <3>1 DEF Eases
  <2>6. EasesAt(t)
    BY <1>3, <1>5, <2>1, <2>2, <2>5
  <2>. QED  BY <1>1, <2>1, <2>6
<1>. QED
  BY <1>7, <1>8, <1>9, <1>10, <1>11, <1>12, <1>13, <1>14, <1>15 DEF UploadStep

\* The others are left alone.
LEMMA OthersEase ==
  ASSUME IntakeTypes, NEW t \in Transfer, NEW u \in Transfer, u # t, Placed(u), up, UploadStep(t)
  PROVE  Placed(u)' /\ EasesAt(u)
<1>0. /\ disk \in [Transfer -> Nat] /\ patches \in [Transfer -> Nat]
      /\ DOMAIN pc = Transfer /\ gone \in [Transfer -> BOOLEAN]
  BY DEF IntakeTypes
<1>1. up' = up
  BY DEF UploadStep, Begin, Check, Insert, Finish, ForgetKey, AbortUpload, Stream, Guard, EndBody, StartPatch, WritePatch,
     EndPatch, StartCommit, Verify, Unpack, Rename, AllocateCode, intakeVars
<1>2. disk'[u] = disk[u]
  <2>1. AbortUpload(t) \/ Stream(t) \/ WritePatch(t) \/ Unpack(t) \/ UNCHANGED disk
    BY DEF UploadStep, Begin, Check, Insert, Finish, ForgetKey, Guard, EndBody, StartPatch, EndPatch, StartCommit, Verify,
       Rename, AllocateCode, admissionVars
  <2>. QED  BY <1>0, <2>1 DEF AbortUpload, Stream, WritePatch, Unpack
<1>3. patches'[u] = patches[u]
  <2>1. StartPatch(t) \/ WritePatch(t) \/ EndPatch(t) \/ UNCHANGED patches
    BY DEF UploadStep, Begin, Check, Insert, Finish, ForgetKey, AbortUpload, Stream, Guard, EndBody, StartCommit, Verify,
       Unpack, Rename, AllocateCode
  <2>. QED  BY <1>0, <2>1 DEF StartPatch, WritePatch, EndPatch
<1>4. pc'[u] = pc[u] /\ (Exists(u)' => Exists(u))
  BY UploadMoves DEF Stays, RowKept
<1>5. patches[u] <= patches[u]
  BY <1>0
<1>6. EasesAt(u)
  BY <1>2, <1>3, <1>4, <1>5 DEF EasesAt, Eases
<1>. QED  BY <1>1, <1>2, <1>3, <1>4, <1>6 DEF Placed

\* Sweeps, crashes and restarts only take bytes away.
LEMMA RestEases ==
  ASSUME IntakeTypes, [IntakeNext]_vars, ~(up /\ \E t \in Transfer : UploadStep(t)), NEW u \in Transfer, Placed(u)
  PROVE  Placed(u)' /\ EasesAt(u) /\ patches'[u] <= patches[u]
<1>0. /\ disk \in [Transfer -> Nat] /\ patches \in [Transfer -> Nat] /\ patches[u] \in Nat
      /\ DOMAIN pc = Transfer /\ StoreInv /\ state \in [Transfer -> State \cup {NoRow}]
  BY DEF IntakeTypes, StoreInv, StoreTypeOK
<1>. DEFINE Quiet == /\ disk'[u] \in {0, disk[u]} /\ patches'[u] \in {0, patches[u]}
                     /\ pc'[u] = pc[u] \/ pc'[u] = "done"
                     /\ disk'[u] = disk[u] \/ ~Exists(u)' \/ pc[u] \in Resting
                     /\ Exists(u)' => Exists(u)
                     /\ ~up' => pc'[u] \in Resting
<1>1. Quiet => Placed(u)' /\ EasesAt(u) /\ patches'[u] <= patches[u]
  <2>. SUFFICES ASSUME Quiet PROVE Placed(u)' /\ EasesAt(u) /\ patches'[u] <= patches[u]
    OBVIOUS
  <2>1. patches'[u] <= patches[u] /\ (patches'[u] > 0 => patches[u] > 0)
    BY <1>0
  <2>2. EasesAt(u)
    BY <2>1 DEF EasesAt, Eases
  <2>3. Placed(u)'
    BY <2>1 DEF Placed, Resting, New
  <2>. QED  BY <2>1, <2>2, <2>3
<1>2. (\E t \in Transfer : Leave(t)) => Quiet
  BY DEF Leave, storeVars, admissionVars, Exists, Placed
<1>3. SweepExpire \/ SweepKeys \/ (\E t \in Transfer : SweepAbandon(t)) => Quiet
  <2>1. SweepExpire => (Exists(u)' => Exists(u))
    BY <1>0 DEF SweepExpire, ExpireDue, Exists, NoRow
  <2>2. SweepKeys \/ (\E t \in Transfer : SweepAbandon(t)) => (Exists(u)' => Exists(u))
    BY <1>0 DEF SweepKeys, SweepAbandon, SetState, storeVars, Exists
  <2>. QED  BY <2>1, <2>2 DEF SweepExpire, SweepKeys, SweepAbandon, admissionVars, intakeVars, Placed
<1>4. ASSUME NEW t \in Transfer, SweepDelete(t) PROVE Quiet
  <2>1. disk'[u] = (IF u = t THEN 0 ELSE disk[u]) /\ UNCHANGED <<pc, patches, up>>
    BY <1>0, <1>4 DEF SweepDelete
  <2>2. (u = t => ~Exists(u)') /\ (Exists(u)' => Exists(u))
    BY <1>0, <1>4 DEF SweepDelete, PurgeRow, Purge, Exists
  <2>. QED  BY <2>1, <2>2 DEF Placed
<1>5. ASSUME NEW t \in Transfer, Reconcile(t) PROVE Quiet
  <2>1. disk'[u] \in {0, disk[u]} /\ UNCHANGED <<pc, patches, up>> /\ ~up
    BY <1>0, <1>5 DEF Reconcile, intakeVars
  <2>2. Exists(u)' => Exists(u)
    <3>1. CASE Fail(t)
      BY <1>0, <3>1 DEF Fail, Exists
    <3>2. ASSUME NEW c, PublishRow(t, c) PROVE Exists(u)' => Exists(u)
      BY <1>0, <1>5, <3>2 DEF Reconcile, PublishRow, Allocate, Exists, NoRow
    <3>. QED  BY <1>5, <3>1, <3>2 DEF Reconcile
  <2>. QED  BY <2>1, <2>2 DEF Placed
<1>6. Ready => Quiet
  BY DEF Ready, Exists, storeVars, Placed
<1>7. Crash => Quiet
  BY <1>0 DEF Crash, Exists, storeVars, admissionVars, Resting
<1>8. Tick \/ Ended \/ UNCHANGED vars => Quiet
  BY DEF Tick, Ended, vars, intakeVars, admissionVars, storeVars, Exists, Placed
<1>. QED
  BY <1>1, <1>2, <1>3, <1>4, <1>5, <1>6, <1>7, <1>8 DEF IntakeNext, Sweep, Restart

LEMMA AllEase ==
  ASSUME IntakeTypes, IntakeTypes', BytesInv, [IntakeNext]_vars, IsFiniteSet(Transfer)
  PROVE  /\ \A u \in Transfer : Placed(u)'
         /\ (\A u \in Transfer : EasesAt(u)) \/ Used' < Limit
<1>0. \A u \in Transfer : Placed(u)
  BY DEF BytesInv
<1>1. CASE up /\ \E t \in Transfer : UploadStep(t)
  <2>1. PICK t \in Transfer : UploadStep(t)
    BY <1>1
  <2>2. Placed(t)' /\ (EasesAt(t) \/ Used' < Limit)
    BY <1>0, <1>1, <2>1, UploadEases
  <2>3. \A u \in Transfer : u # t => Placed(u)' /\ EasesAt(u)
    BY <1>0, <1>1, <2>1, OthersEase
  <2>. QED  BY <2>2, <2>3
<1>2. CASE ~(up /\ \E t \in Transfer : UploadStep(t))
  BY <1>0, <1>2, RestEases
<1>. QED  BY <1>1, <1>2

\* The slots are never overdrawn.
LEMMA SlotsKept ==
  ASSUME IntakeTypes, IntakeTypes', BytesInv, [IntakeNext]_vars, IsFiniteSet(Transfer)
  PROVE  SlotsTaken' \in Nat /\ SlotsTaken' <= MaxUploads
<1>0. patches \in [Transfer -> Nat] /\ patches' \in [Transfer -> Nat] /\ MaxUploads \in Nat
  BY IntakeAssumption DEF IntakeTypes
<1>1. NatOn(patches, Transfer) /\ NatOn(patches', Transfer)
  BY <1>0 DEF NatOn
<1>2. SlotsTaken = SumOver(patches, Transfer) /\ SlotsTaken' = SumOver(patches', Transfer)
  BY SlotsSum
<1>3. SlotsTaken \in Nat /\ SlotsTaken' \in Nat /\ SlotsTaken <= MaxUploads
  BY <1>1, <1>2, SumAdds DEF BytesInv
<1>4. ASSUME NEW t \in Transfer, StartPatch(t) PROVE SlotsTaken' <= MaxUploads
  <2>1. SlotsTaken < MaxUploads /\ patches' = [patches EXCEPT ![t] = patches[t] + 1]
    BY <1>4 DEF StartPatch
  <2>2. SlotsTaken' = SumOver([patches EXCEPT ![t] = patches[t] + 1], Transfer)
    BY <1>2, <2>1, Zenon
  <2>3. SlotsTaken' = SlotsTaken + 1
    BY <1>0, <1>2, <2>2, SumStep
  <2>. QED  BY <1>0, <1>3, <2>1, <2>3
<1>5. ASSUME \A u \in Transfer : patches'[u] <= patches[u] PROVE SlotsTaken' <= MaxUploads
  <2>1. SumOver(patches', Transfer) <= SumOver(patches, Transfer)
    BY <1>1, <1>5, SumMonotone
  <2>. QED  BY <1>0, <1>2, <1>3, <2>1
<1>6. CASE up /\ \E t \in Transfer : UploadStep(t)
  <2>1. PICK t \in Transfer : UploadStep(t)
    BY <1>6
  <2>2. StartPatch(t) \/ WritePatch(t) \/ EndPatch(t) \/ UNCHANGED patches
    BY <2>1 DEF UploadStep, Begin, Check, Insert, Finish, ForgetKey, AbortUpload, Stream, Guard, EndBody, StartCommit,
       Verify, Unpack, Rename, AllocateCode
  <2>3. StartPatch(t) \/ patches' = [patches EXCEPT ![t] = patches[t] - 1] \/ UNCHANGED patches
    BY <2>2 DEF WritePatch, EndPatch
  <2>4. \A u \in Transfer : patches[u] <= patches[u] /\ patches[u] - 1 <= patches[u]
    BY <1>0
  <2>5. StartPatch(t) \/ \A u \in Transfer : patches'[u] <= patches[u]
    BY <1>0, <2>3, <2>4
  <2>. QED  BY <1>3, <1>4, <1>5, <2>5, Zenon
<1>7. CASE ~(up /\ \E t \in Transfer : UploadStep(t))
  <2>1. \A u \in Transfer : patches'[u] <= patches[u]
    BY <1>7, RestEases DEF BytesInv
  <2>. QED  BY <1>3, <1>5, <2>1, Zenon
<1>. QED  BY <1>3, <1>6, <1>7

LEMMA BytesInvNext ==
  ASSUME IntakeTypes, IntakeTypes', BytesInv, [IntakeNext]_vars, IsFiniteSet(Transfer)
  PROVE  BytesInv'
<1>1. PICK w, x, y : /\ w = [u \in Transfer |-> Weight(u)]
                     /\ x = [u \in Transfer |-> Weight(u)']
                     /\ y = [u \in Transfer |-> disk'[u] + patches'[u]]
  OBVIOUS
<1>2. WeightSum = SumOver(w, Transfer) /\ WeightSum' = SumOver(x, Transfer)
  BY <1>1 DEF WeightSum
<1>3. ASSUME NEW u \in Transfer
      PROVE  /\ disk'[u] \in Nat /\ patches'[u] \in Nat
             /\ w[u] \in Nat /\ x[u] \in Nat /\ y[u] \in Nat
             /\ y[u] = disk'[u] + patches'[u] /\ x[u] <= y[u]
             /\ EasesAt(u) => x[u] <= w[u]
  <2>0. /\ disk[u] \in Nat /\ patches[u] \in Nat /\ disk'[u] \in Nat /\ patches'[u] \in Nat /\ Size[u] \in Nat
    BY IntakeAssumption DEF IntakeTypes
  <2>1. PICK s, b, c : s = (u \in SimpleT) /\ b = (pc[u] = "body") /\ c = (pc'[u] = "body")
    OBVIOUS
  <2>2. /\ w[u] = WeightOf(s, Size[u], disk[u], patches[u], b)
        /\ x[u] = WeightOf(s, Size[u], disk'[u], patches'[u], c)
    BY <1>1, <2>1 DEF Weight
  <2>3. w[u] \in Nat /\ x[u] \in Nat /\ x[u] <= disk'[u] + patches'[u]
    BY <2>0, <2>2, WeightBounds
  <2>4. EasesAt(u) => Eases(s, Size[u], disk[u], patches[u], b, disk'[u], patches'[u], c)
    BY <2>1 DEF EasesAt
  <2>5. EasesAt(u) => x[u] <= w[u]
    BY <2>0, <2>2, <2>4, WeightEases
  <2>. QED  BY <1>1, <2>0, <2>3, <2>5
<1>4. SlotsTaken' \in Nat /\ SlotsTaken' <= MaxUploads
  BY SlotsKept
<1>5. WeightSum' < Limit + MaxUploads
  <2>0. Limit \in Nat /\ MaxUploads \in Nat
    BY AdmissionAssumption, IntakeAssumption
  <2>1. CASE \A u \in Transfer : EasesAt(u)
    <3>1. /\ SumOver(x, Transfer) \in Nat /\ SumOver(w, Transfer) \in Nat
          /\ SumOver(x, Transfer) <= SumOver(w, Transfer)
      BY <1>3, <2>1, SumsMonotone
    <3>2. SumOver(w, Transfer) < Limit + MaxUploads
      BY <1>2 DEF BytesInv
    <3>. QED  BY <1>2, <2>0, <3>1, <3>2
  <2>2. CASE Used' < Limit
    <3>1. NatOn(disk', Transfer) /\ NatOn(patches', Transfer) /\ \A u \in Transfer : y[u] = disk'[u] + patches'[u]
      BY <1>3 DEF NatOn
    <3>2. SumOver(y, Transfer) = SumOver(disk', Transfer) + SumOver(patches', Transfer)
      BY <3>1, SumOfSums
    <3>3. /\ SumOver(x, Transfer) \in Nat /\ SumOver(y, Transfer) \in Nat
          /\ SumOver(x, Transfer) <= SumOver(y, Transfer)
      BY <1>3, SumsMonotone
    <3>4. SumOver(disk', Transfer) \in Nat
      BY <3>1, SumAdds
    <3>5. Used' = SumOver(disk', Transfer) /\ SlotsTaken' = SumOver(patches', Transfer)
      BY UsedSum, SlotsSum
    <3>. QED  BY <1>2, <1>4, <2>0, <2>2, <3>2, <3>3, <3>4, <3>5
  <2>. QED  BY <2>1, <2>2, AllEase
<1>. QED  BY <1>4, <1>5, AllEase DEF BytesInv

LEMMA BytesInvInit ==
  ASSUME IsFiniteSet(Transfer), IntakeInit
  PROVE  BytesInv
<1>0. /\ disk = [t \in Transfer |-> 0] /\ patches = [t \in Transfer |-> 0] /\ up
      /\ pc = [t \in Transfer |-> "idle"]
  BY DEF IntakeInit, AdmissionInit
<1>a. \A t \in Transfer : disk[t] = 0 /\ patches[t] = 0 /\ pc[t] = "idle"
  BY <1>0
<1>1. \A t \in Transfer : Placed(t)
  <2>1. ~(0 > 0)
    OBVIOUS
  <2>. QED  BY <1>0, <1>a, <2>1 DEF Placed, New
<1>2. PICK w, o : w = [u \in Transfer |-> Weight(u)] /\ o = [u \in Transfer |-> 0]
  OBVIOUS
<1>3. SumOver(o, Transfer) = 0
  <2>1. \A t \in Transfer : o[t] = IF t \in {} THEN 1 ELSE 0
    BY <1>2
  <2>2. SumOver(o, Transfer) = Cardinality({})
    BY <2>1, SumOfOnes
  <2>. QED  BY <2>2, FS_EmptySet
<1>4. \A u \in Transfer : w[u] = 0
  <2>. SUFFICES ASSUME NEW u \in Transfer PROVE w[u] = 0
    OBVIOUS
  <2>1. Size[u] \in Nat \ {0} /\ disk[u] = 0 /\ patches[u] = 0 /\ w[u] = Weight(u)
    BY <1>a, <1>2, IntakeAssumption
  <2>. QED  BY <2>1 DEF Weight, WeightOf
<1>5. w = o
  BY <1>2, <1>4
<1>6. WeightSum = 0 /\ SlotsTaken = 0
  <2>1. WeightSum = SumOver(w, Transfer) /\ patches = o
    BY <1>0, <1>2 DEF WeightSum
  <2>2. SlotsTaken = SumOver(patches, Transfer)
    BY SlotsSum
  <2>. QED  BY <1>3, <1>5, <2>1, <2>2, Zenon
<1>7. 0 < Limit + MaxUploads /\ 0 <= MaxUploads
  BY AdmissionAssumption, IntakeAssumption
<1>. QED  BY <1>1, <1>6, <1>7 DEF BytesInv

\* What was sent is what a transfer weighs, and at most the unit left out of a
\* simple upload.
LEMMA BytesInvBounds ==
  ASSUME IsFiniteSet(Transfer), IntakeTypes, BytesInv
  PROVE  BoundedOvershoot
<1>1. PICK D : D = {t \in SimpleT : disk[t] > 0}
  OBVIOUS
<1>2. D \subseteq Transfer /\ Cardinality(D) \in Nat
  <2>1. D \subseteq Transfer
    BY <1>1, IntakeAssumption
  <2>. QED  BY <2>1, FS_Subset, FS_CardinalityType
<1>3. PICK w, n, o, s : /\ w = [u \in Transfer |-> Weight(u)]
                        /\ n = [u \in Transfer |-> Sent(u)]
                        /\ o = [u \in Transfer |-> IF u \in D THEN 1 ELSE 0]
                        /\ s = [u \in Transfer |-> w[u] + o[u]]
  OBVIOUS
<1>4. ASSUME NEW u \in Transfer
      PROVE  /\ w[u] \in Nat /\ n[u] \in Nat /\ o[u] \in Nat /\ s[u] \in Nat
             /\ n[u] <= s[u] /\ s[u] = w[u] + o[u] /\ o[u] = IF u \in D THEN 1 ELSE 0
  <2>0. disk[u] \in Nat /\ patches[u] \in Nat /\ Size[u] \in Nat
    BY IntakeAssumption DEF IntakeTypes
  <2>1. PICK i, b : i = (u \in SimpleT) /\ b = (pc[u] = "body")
    OBVIOUS
  <2>2. w[u] = WeightOf(i, Size[u], disk[u], patches[u], b)
    BY <1>3, <2>1 DEF Weight
  <2>3. /\ w[u] \in Nat
        /\ (IF disk[u] < Size[u] THEN disk[u] ELSE Size[u]) <= w[u] + (IF i /\ disk[u] > 0 THEN 1 ELSE 0)
    BY <2>0, <2>2, WeightBounds
  <2>4. n[u] = IF disk[u] < Size[u] THEN disk[u] ELSE Size[u]
    BY <1>3 DEF Sent
  <2>5. o[u] = (IF u \in D THEN 1 ELSE 0) /\ s[u] = w[u] + o[u] /\ (u \in D <=> i /\ disk[u] > 0)
    BY <1>1, <1>3, <2>1
  <2>. QED  BY <2>0, <2>3, <2>4, <2>5
<1>5. NatOn(w, Transfer) /\ NatOn(o, Transfer)
  BY <1>4 DEF NatOn
<1>6. SumOver(s, Transfer) = SumOver(w, Transfer) + SumOver(o, Transfer)
  BY <1>4, <1>5, SumOfSums
<1>7. SumOver(o, Transfer) = Cardinality(D)
  BY <1>2, <1>4, SumOfOnes
<1>8. SumOver(n, Transfer) \in Nat /\ SumOver(n, Transfer) <= SumOver(s, Transfer)
  BY <1>4, SumsMonotone
<1>9. SumOver(w, Transfer) < Limit + MaxUploads /\ SumOver(w, Transfer) \in Nat
  <2>1. WeightSum = SumOver(w, Transfer)
    BY <1>3 DEF WeightSum
  <2>. QED  BY <1>5, <2>1, SumAdds DEF BytesInv
<1>10. MapThenSumSet(Sent, Transfer) = SumOver(n, Transfer)
  BY <1>3 DEF SumOver, MapThenSumSet, MapThenFoldSet
<1>11. SumOver(n, Transfer) < Limit + MaxUploads + Cardinality(D)
  BY <1>2, <1>6, <1>7, <1>8, <1>9, AdmissionAssumption, IntakeAssumption
<1>. QED  BY <1>1, <1>10, <1>11 DEF BoundedOvershoot

\* However uploads overlap, whatever was reserved, and also when handlers outlast
\* the lifetimes they work with: what the server is sent passes the high watermark
\* by less than a unit for each upload slot and each simple upload.
THEOREM OvershootBounded ==
  ASSUME IsFiniteSet(Transfer)
  PROVE  IntakeSpec => []BoundedOvershoot
<1>1. IntakeInit => BytesInv
  BY BytesInvInit
<1>2. IntakeTypes /\ IntakeTypes' /\ BytesInv /\ [IntakeNext]_vars => BytesInv'
  BY BytesInvNext
<1>3. IntakeTypes /\ BytesInv => BoundedOvershoot
  BY BytesInvBounds
<1>. QED  BY <1>1, <1>2, <1>3, IntakeTypesHold, PTL DEF IntakeSpec
=============================================================================
