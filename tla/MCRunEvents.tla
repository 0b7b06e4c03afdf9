---------------------------- MODULE MCRunEvents -----------------------------
(***************************************************************************)
(* Instances of RunEvents for TLC: every client watches the one run.       *)
(***************************************************************************)
EXTENDS RunEvents, TLC

CONSTANT run1

AllWatchRun1 == [c \in Clients |-> run1]

=============================================================================
