---------------------------- MODULE MCRecovery -----------------------------
(* Two transfers in every combination of row state and directory contents. *)
EXTENDS Recovery

\* Published whole, published but cut short, and an upload in progress.
MCWholeDir == [Absent EXCEPT !.here = TRUE, !.manifest = TRUE,
                             !.pay = [s \in Segment |-> 1]]
MCShortDir == [MCWholeDir EXCEPT !.pay = [s \in Segment |-> 2]]

MCCrashDir == {Absent, MCWholeDir, MCShortDir}
MCTime == 0..2
MCTTL == {1}
=============================================================================
