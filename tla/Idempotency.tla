---------------------------- MODULE Idempotency ----------------------------
(***************************************************************************)
(* Table idempotency_keys of the repository, and what a handler makes of a *)
(* row it finds (internal/api/public, beginIdempotent).  A key is the hash *)
(* of an operation and the value the client sent; a fingerprint stands for *)
(* the parts of a request that requestFingerprint joins.                   *)
(***************************************************************************)
EXTENDS Store

CONSTANTS Key, NoKey,       \* the keys clients send; NoKey: none was sent
          Fingerprint,
          KeyTTL            \* idempotencyTTL

ASSUME KeyAssumption == NoKey \notin Key /\ KeyTTL \in Nat \ {0}

VARIABLE keyrow     \* keyrow[k]: the row of key k, or NoEntry

\* transfer and code stay NULL until the operation has succeeded.
Entry == [print : Fingerprint, transfer : Transfer \cup {NoTransfer},
          code : Code \cup {NoCode}, until : Nat]

NoEntry == [print |-> NoKey, transfer |-> NoTransfer, code |-> NoCode, until |-> 0]

KeysInit == keyrow = [k \in Key |-> NoEntry]

Held(k) == k # NoKey /\ keyrow[k] # NoEntry

\* Seeded fault: only a row with a result stops a repeat.
FreshOrPending(k) == Held(k) => keyrow[k].transfer = NoTransfer

\* What beginIdempotent makes of key k and fingerprint p.  A row that is past its
\* end still counts: only a sweep deletes it.
Fresh(k) == ~Held(k)
Replays(k, p) == Held(k) /\ keyrow[k].print = p /\ keyrow[k].code # NoCode
KeyRefused(k, p) == Held(k) /\ ~Replays(k, p)

-----------------------------------------------------------------------------
\* RememberIdempotency of a key that has no row.
Remember(k, p, at) ==
    keyrow' = IF k = NoKey THEN keyrow
              ELSE [keyrow EXCEPT ![k] = [print |-> p, transfer |-> NoTransfer,
                                          code |-> NoCode, until |-> at + KeyTTL]]

\* Seeded fault: the result goes into the wrong columns.
CompleteSwapped(k, t, c) ==
    keyrow' = IF Held(k) THEN [keyrow EXCEPT ![k].transfer = c, ![k].code = t]
              ELSE keyrow

CompleteIdempotency(k, t, c) ==
    keyrow' = IF Held(k) THEN [keyrow EXCEPT ![k].transfer = t, ![k].code = c]
              ELSE keyrow

ForgetIdempotency(k) ==
    keyrow' = IF Held(k) THEN [keyrow EXCEPT ![k] = NoEntry] ELSE keyrow

FreeKeys(S) == keyrow' = [k \in Key |-> IF k \in S THEN NoEntry ELSE keyrow[k]]

\* Seeded fault: only keys with a result age out.
PurgeAnsweredKeys(at) ==
    FreeKeys({k \in Key : Held(k) /\ keyrow[k].until <= at /\ keyrow[k].transfer # NoTransfer})

PurgeExpiredIdempotency(at) == FreeKeys({k \in Key : Held(k) /\ keyrow[k].until <= at})

\* Seeded fault: the keys of a purged transfer stay.
KeepKeysOf(t) == UNCHANGED keyrow

\* Purge also deletes the keys that led to the transfer.
PurgeKeysOf(t) == FreeKeys({k \in Key : Held(k) /\ keyrow[k].transfer = t})
=============================================================================
