----------------------------- MODULE Admission -----------------------------
(***************************************************************************)
(* Disk admission (internal/admission) over the reservations in the        *)
(* repository.  The unit is admissionCheckInterval bytes, what an upload   *)
(* writes between two checks.                                              *)
(***************************************************************************)
EXTENDS Store, FiniteSetsExt

CONSTANTS Limit,        \* the bytes the high watermark allows
          MaxTransfer   \* limits.max_transfer_bytes, 0 for none

ASSUME AdmissionAssumption == Limit \in Nat /\ MaxTransfer \in Nat

VARIABLES reserved,   \* reserved[t]: reserved_bytes of the row
          disk        \* disk[t]: what transfer t occupies on disk

admissionVars == <<reserved, disk>>

MaterializationOverhead == 2

AdmissionInit ==
    /\ reserved = [t \in Transfer |-> 0]
    /\ disk = [t \in Transfer |-> 0]

Used == MapThenSumSet(LAMBDA t : disk[t], Transfer)

ReservedBytes ==
    MapThenSumSet(LAMBDA t : reserved[t], {t \in Transfer : state[t] \in PreCommit})

\* headroom > 0, and headroom >= bytes.
Below(outstanding) == Used + outstanding < Limit
Fits(bytes, outstanding) == Used + outstanding + bytes <= Limit

Reserve(bytes) == bytes * MaterializationOverhead

Admit(bytes) ==
    /\ MaxTransfer > 0 => bytes <= MaxTransfer
    /\ Below(ReservedBytes)
    /\ bytes > 0 => Fits(Reserve(bytes), ReservedBytes)

\* The guard of a streaming upload does not look at reservations.
CheckStreaming == Below(0)
=============================================================================
