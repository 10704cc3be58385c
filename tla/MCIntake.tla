------------------------------ MODULE MCIntake ------------------------------
(* Instances of the intake: simple uploads that share a key, and resumable *)
(* ones without.                                                           *)
EXTENDS Intake

CONSTANTS Keyed,        \* the requests that carry the key
          Other,        \* those of them with another fingerprint
          SimpleSize, OtherSize,   \* the units of a simple and of a resumable upload
          MCTTL, MCHorizon

MCKeyOf == [t \in Transfer |-> IF t \in Keyed THEN CHOOSE k \in Key : TRUE ELSE NoKey]
MCFingerprint == {"same", "other"}
MCPrintOf == [t \in Transfer |-> IF t \in Other THEN "other" ELSE "same"]
MCSize == [t \in Transfer |-> IF t \in SimpleT THEN SimpleSize ELSE OtherSize]
MCTime == 0..MCHorizon
=============================================================================
