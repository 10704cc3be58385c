------------------------------ MODULE MCSend -------------------------------
(* Instances of the sending client: one large file of RawLength units and  *)
(* one pack of one unit.                                                   *)
EXTENDS Send

CONSTANT RawLength

MCLength == [s \in Segment |-> IF s \in Raw THEN RawLength ELSE 1]
=============================================================================
