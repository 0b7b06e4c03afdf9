---------------------------- MODULE MCRepairLoop ----------------------------
(***************************************************************************)
(* Instances of RepairLoop for TLC.  A generated test prints nothing, a    *)
(* plain verdict, both verdicts, or a line about one type.                 *)
(***************************************************************************)
EXTENDS RepairLoop

CONSTANT evidence

Say(word, about) == [word |-> word, about |-> about]

SomeOutputs ==
  { {},
    {Say("PASS", "all")},
    {Say("FAIL", "all")},
    {Say("PASS", "all"), Say("FAIL", evidence)},
    {Say("PASS", "all"), Say("Fail", evidence)},
    {Say("PASS", evidence), Say("ERROR", "all")} }

=============================================================================
