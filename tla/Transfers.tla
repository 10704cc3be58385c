----------------------------- MODULE Transfers -----------------------------
(* The identifiers that the metadata repository and the payload            *)
(* directories of sss share.                                               *)
EXTENDS Naturals

CONSTANTS Transfer,   \* transfer identifiers, unique and never used again
          Segment,    \* the segments of a transfer, unique inside it
          SegLen      \* the declared length of every segment

ASSUME SegLenAssumption == SegLen \in Nat \ {0}
=============================================================================
