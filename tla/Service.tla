------------------------------ MODULE Service ------------------------------
(***************************************************************************)
(* What every operation of the transfer service shares: the repository,    *)
(* the directories and the clock (internal/transfer, type Service).        *)
(***************************************************************************)
EXTENDS Store, Layout

CONSTANTS MaxTime,      \* bound on the clock
          DefaultTTL    \* limits.default_ttl_minutes

ASSUME ServiceAssumption ==
    /\ MaxTime \in Nat
    /\ DefaultTTL \in TTL
    \* The readings of the clock are among those the repository is called with.
    /\ 0..MaxTime \subseteq Time

VARIABLE now            \* clk.Now(), in the unit of the tables

\* What lookupCommitted answers with success for a transfer's own code.
Resolves(t) == Committed(t) /\ now < expires[t]

Tick ==
    /\ now < MaxTime
    /\ now' = now + 1
    /\ UNCHANGED <<storeVars, fileVars>>
=============================================================================
