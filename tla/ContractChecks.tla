--------------------------- MODULE ContractChecks ---------------------------
(***************************************************************************)
(* The trace collector (zone_b/agents/trace_collector.py), the contract    *)
(* predicates (zone_b/contracts/checks.py) and the registry, as operators  *)
(* on traces.                                                              *)
(*                                                                         *)
(* A trace is the list of events a workflow recorded, in the order of the  *)
(* list.  An event keeps its step number, which need not be its position,  *)
(* its agent, whether it has a tool_call_id, and the keys of its           *)
(* context_delta the checks read; Absent, "absent" and {} stand for a key  *)
(* that is not there.  tool_events keeps the statuses that occur.          *)
(***************************************************************************)
EXTENDS Integers, Sequences, FiniteSets, SequencesExt

Agents == {"ResearcherAgent", "CriticAgent", "VerifierAgent",
           "ReporterAgent", "HumanGateAgent", "ActionAgent"}

ContractTypes == {"evidence", "tool", "approval", "routing", "schema"}

Absent == -1

Event == [step : Nat, agent : Agents, call : BOOLEAN,
          verified : Nat \cup {Absent},
          tools    : SUBSET {"success", "failure"},
          approval : {"absent", "pending", "approved", "rejected"},
          output   : {"absent", "none", "partial", "complete"}]

(* The agent a violation of each contract is charged to. *)
FailedAgent(type) ==
  CASE type \in {"evidence", "tool"} -> "VerifierAgent"
    [] type = "approval"             -> "ActionAgent"
    [] OTHER                         -> "ReporterAgent"

(* The order in which run_contract_checker goes through the registry. *)
Registry == <<"evidence", "tool", "approval", "routing", "schema">>

-----------------------------------------------------------------------------
(***************************************************************************)
(* The context snapshot: the deltas folded in the order of the list.       *)
(***************************************************************************)

EmptySnapshot == [verified |-> 0, approval |-> "pending", output |-> "none"]

Apply(snap, event) ==
  [verified |-> IF event.verified = Absent THEN snap.verified ELSE event.verified,
   approval |-> IF event.approval = "absent" THEN snap.approval ELSE event.approval,
   output   |-> IF event.output = "absent" THEN snap.output ELSE event.output]

SnapshotOf(events) == FoldLeft(Apply, EmptySnapshot, events)

-----------------------------------------------------------------------------
(***************************************************************************)
(* The checks.                                                             *)
(***************************************************************************)

EvidenceHolds(snap) == snap.verified > 0

ToolHolds(events) ==
  \E n \in DOMAIN events : events[n].agent = "VerifierAgent" /\ events[n].call

ApprovalHolds(snap) == snap.approval = "approved"

VerifierToolEvent(event) ==
  event.agent = "VerifierAgent" /\ "success" \in event.tools

(* Mutant: the events are taken as they are listed. *)
AsListed(events) == events

(* sorted(events, key=step), a stable sort: the k-th event is the one with *)
(* k - 1 events before it.                                                 *)
InStepOrder(events) ==
  LET Earlier(m, n) == \/ events[m].step < events[n].step
                       \/ events[m].step = events[n].step /\ m < n
      Place(n) == Cardinality({m \in DOMAIN events : Earlier(m, n)}) + 1
  IN [k \in DOMAIN events |-> events[CHOOSE n \in DOMAIN events : Place(n) = k]]

(* One event of the scan: the flags first, then the two gates. *)
Scan(state, event) ==
  LET tool == state.tool \/ VerifierToolEvent(event)
      gate == state.gate \/ event.agent = "HumanGateAgent"
  IN [tool |-> tool, gate |-> gate,
      ok   |-> /\ state.ok
               /\ event.agent = "ReporterAgent" => tool
               /\ event.agent = "ActionAgent" => gate]

RoutingHolds(events) ==
  FoldLeft(Scan, [tool |-> FALSE, gate |-> FALSE, ok |-> TRUE],
           InStepOrder(events)).ok

SchemaHolds(snap) == snap.output = "complete"

Holds(type, events, snap) ==
  CASE type = "evidence" -> EvidenceHolds(snap)
    [] type = "tool"     -> ToolHolds(events)
    [] type = "approval" -> ApprovalHolds(snap)
    [] type = "routing"  -> RoutingHolds(events)
    [] OTHER             -> SchemaHolds(snap)

-----------------------------------------------------------------------------
(***************************************************************************)
(* Violations.                                                             *)
(***************************************************************************)

(* Mutant: the agent's last event. *)
LastStep(events, agent) ==
  LET own == {n \in DOMAIN events : events[n].agent = agent}
  IN IF own = {} THEN -1 ELSE events[Max(own)].step

(* The step of the agent's first event in the list, or -1. *)
FailedStep(events, agent) ==
  LET own == {n \in DOMAIN events : events[n].agent = agent}
  IN IF own = {} THEN -1
     ELSE events[Min(own)].step

Violation == [type : ContractTypes, agent : Agents, step : Int]

ViolationOf(events, type) ==
  [type |-> type, agent |-> FailedAgent(type),
   step |-> FailedStep(events, FailedAgent(type))]

(* run_contract_checker: one violation for each contract that fails. *)
Violations(events, snap) ==
  LET Judge(found, type) ==
        IF Holds(type, events, snap) THEN found
        ELSE Append(found, ViolationOf(events, type))
  IN FoldLeft(Judge, <<>>, Registry)

=============================================================================
