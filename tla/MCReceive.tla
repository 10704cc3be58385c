----------------------------- MODULE MCReceive -----------------------------
(* Instances of the receiver: the runs are numbered, and handoff "new" has *)
(* the first NewFiles segments, handoff "old" all of them.                 *)
EXTENDS Receive

CONSTANTS Runs,       \* how many runs of the command
          OldRuns,    \* how many of them receive the older handoff
          NewFiles,
          OldLength, NewLength,   \* the bytes of a raw segment
          PackLength              \* the bytes of a pack

MCReceiver == 1..Runs
MCHandoff == {"old", "new"}
MCOf == [r \in MCReceiver |-> IF r <= OldRuns THEN "old" ELSE "new"]
MCFiles == [h \in MCHandoff |-> IF h = "old" THEN Segment ELSE {s \in Segment : s <= NewFiles}]
MCLength == [h \in MCHandoff |-> [s \in Segment |->
                IF s \in Packs THEN PackLength
                ELSE IF h = "old" THEN OldLength ELSE NewLength]]
=============================================================================
