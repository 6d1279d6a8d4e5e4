--------------------------- MODULE EpochRegister ---------------------------
(***************************************************************************)
(* What the fenced execution storage promises, and nothing of how: one     *)
(* register that many parties want to write, and epochs that are granted   *)
(* in strictly increasing order.  A fenced write happens only while the    *)
(* newest epoch is open, and it bears that epoch, so whatever an owner of  *)
(* an older epoch still tries can never land.  Closing an epoch (the row   *)
(* was deleted, the fence key ran out) takes the right to write away from  *)
(* its owner; parties outside the protocol (the control plane, an operator *)
(* restoring a backup) may replace or drop the register.                   *)
(***************************************************************************)
EXTENDS Naturals

VARIABLES
    epoch,      \* the newest epoch granted so far
    open,       \* may the owner of the newest epoch write
    reg         \* [src, gen, data]; src = "none" when there is no value

regVars == <<epoch, open, reg>>

Init ==
    /\ epoch = 0
    /\ open = FALSE
    /\ reg.src # "fenced"

Grant ==
    /\ epoch' > epoch
    /\ open' = TRUE
    /\ UNCHANGED reg

Write ==
    /\ open
    /\ reg'.src = "fenced" /\ reg'.gen = epoch
    /\ UNCHANGED <<epoch, open>>

Close ==
    /\ open
    /\ open' = FALSE
    /\ UNCHANGED <<epoch, reg>>

Remove ==
    /\ reg'.src = "none"
    /\ open' \in {open, FALSE}
    /\ UNCHANGED epoch

Outside ==
    /\ reg'.src # "fenced"
    /\ UNCHANGED epoch

Next == Grant \/ Write \/ Close \/ Remove \/ Outside

Spec == Init /\ [][Next]_regVars
=============================================================================
