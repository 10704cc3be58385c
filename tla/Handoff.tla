------------------------------ MODULE Handoff ------------------------------
(***************************************************************************)
(* What sss promises to whoever holds a code: a transfer is prepared where *)
(* nobody can see it, appears whole in one step, stays as it appeared      *)
(* until its lifetime is over, and never appears again.  What is done to   *)
(* prepare it or to take it away, what fails on the way, and in which      *)
(* order, is not said here.                                                *)
(***************************************************************************)
EXTENDS Naturals

CONSTANTS Transfer,
          TTL           \* the lifetimes a sender may ask for

VARIABLES shown,      \* shown[t]: what the world can know of transfer t
          until,      \* until[t]: the end of its lifetime, 0 while it has none
          now         \* the clock

vars == <<shown, until, now>>

Shown == {"absent",    \* it has not begun
          "hidden",    \* it is being prepared, and no code leads to it
          "payload",   \* its code leads to the payload the sender declared
          "ended",     \* its code is still known, and is refused
          "over"}      \* nothing of it is known any more

Init ==
    /\ shown = [t \in Transfer |-> "absent"]
    /\ until = [t \in Transfer |-> 0]
    /\ now = 0

-----------------------------------------------------------------------------
(* What may become of one transfer in a step.                              *)

Begin(t) ==
    /\ shown[t] = "absent"
    /\ shown'[t] = "hidden"
    /\ until'[t] = until[t]

Publish(t) ==
    /\ shown[t] = "hidden"
    /\ shown'[t] = "payload"
    /\ \E minutes \in TTL : until'[t] = now + minutes

Forget(t) ==
    /\ shown[t] \in {"hidden", "ended"}
    /\ shown'[t] = "over"
    /\ until'[t] = 0

Stay(t) == shown'[t] = shown[t] /\ until'[t] = until[t]

\* Transfers have nothing to do with each other: a crash ends all the uploads
\* that have left no row at once.
Work ==
    /\ now' = now
    /\ \A t \in Transfer : Begin(t) \/ Publish(t) \/ Forget(t) \/ Stay(t)

\* Only time ends what was published, and it ends on time.
Tick ==
    /\ now' = now + 1
    /\ shown' = [t \in Transfer |-> IF shown[t] = "payload" /\ until[t] <= now'
                                    THEN "ended" ELSE shown[t]]
    /\ UNCHANGED until

Next ==
    /\ shown' \in [Transfer -> Shown]
    /\ Work \/ Tick

Spec == Init /\ [][Next]_vars
=============================================================================
