---------------------------- MODULE MCRunReports ----------------------------
(***************************************************************************)
(* Instance of RunReports for TLC: two of the three runs share a workflow. *)
(***************************************************************************)
EXTENDS RunReports

CONSTANTS r1, r2, r3

OperatorSymmetry == Permutations(Operators)

TwoOfThree == [r \in Runs |-> IF r = r3 THEN "w2" ELSE "w1"]

=============================================================================
