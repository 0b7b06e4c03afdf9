--------------------------- MODULE MCDaytonaPool ----------------------------
(***************************************************************************)
(* Instances of DaytonaPool for TLC: which of the external calls may fail. *)
(***************************************************************************)
EXTENDS DaytonaPool

AllFail      == [k \in Fallible |-> 1]
ReplaceFails == [k \in Fallible |-> IF k = "delete" THEN 0 ELSE 1]

=============================================================================
