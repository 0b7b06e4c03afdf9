---------------------------- MODULE MCDiagnosis -----------------------------
(***************************************************************************)
(* Instances of Diagnosis for TLC: the events a client posts.  Every agent *)
(* the contracts speak of occurs with the deltas that matter to them, at   *)
(* steps 1 and 2, so that traces are out of order and steps repeat.        *)
(***************************************************************************)
EXTENDS Diagnosis

Bare(agent) ==
  [agent |-> agent, step |-> 1, call |-> FALSE, verified |-> Absent,
   tools |-> {}, approval |-> "absent", output |-> "absent"]

Shapes ==
  { Bare("ResearcherAgent"),
    [Bare("ResearcherAgent") EXCEPT !.call = TRUE, !.tools = {"success"}],
    [Bare("VerifierAgent") EXCEPT !.verified = 0],
    [Bare("VerifierAgent") EXCEPT !.verified = 1, !.call = TRUE],
    [Bare("VerifierAgent") EXCEPT !.tools = {"failure"}, !.call = TRUE],
    [Bare("VerifierAgent") EXCEPT !.verified = 1, !.tools = {"success", "failure"}],
    [Bare("ReporterAgent") EXCEPT !.output = "partial"],
    [Bare("ReporterAgent") EXCEPT !.output = "complete"],
    Bare("HumanGateAgent"),
    [Bare("HumanGateAgent") EXCEPT !.approval = "approved"],
    [Bare("HumanGateAgent") EXCEPT !.approval = "rejected"],
    Bare("ActionAgent") }

AtEitherStep == {[e EXCEPT !.step = n] : e \in Shapes, n \in {1, 2}}

InOrder == {[e EXCEPT !.step = 1] : e \in Shapes}

=============================================================================
