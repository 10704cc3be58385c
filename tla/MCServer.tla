----------------------------- MODULE MCServer ------------------------------
(* Instances of the server.  Requests are tuples that name their transfer; *)
(* a cfg says how many of each kind are sent.                              *)
EXTENDS Server, TLC

CONSTANTS SimpleT,      \* transfers sent as simple uploads
          ResumableT,   \* transfers sent as resumable uploads
          Patches,      \* how often a segment is PATCHed
          Once,         \* the segments that are PATCHed only once
          Commits,      \* how often each resumable transfer is committed
          MCTTL,        \* the lifetimes senders ask for
          MCHorizon     \* the last reading any lease or expiry may have

MCSimpleReq == {<<"simple", t>> : t \in SimpleT}
MCCreateReq == {<<"create", t>> : t \in ResumableT}
MCPatchReq == {<<"patch", t, s, n>> : t \in ResumableT, s \in Segment, n \in 1..Patches}
                \ {<<"patch", t, s, n>> : t \in ResumableT, s \in Once, n \in 2..Patches}
MCCommitReq == {<<"commit", t, n>> : t \in ResumableT, n \in 1..Commits}
MCTarget == [r \in MCSimpleReq \cup MCCreateReq \cup MCPatchReq \cup MCCommitReq |-> r[2]]
MCPatchSegment == [r \in MCPatchReq |-> r[3]]
\* The segments of a transfer are interchangeable.
MCSymmetry == Permutations(Segment)

MCTime == 0..MCHorizon
=============================================================================
