------------------------------ MODULE Diagnosis ------------------------------
(***************************************************************************)
(* The diagnosis of one trace, from the events to what the dashboard       *)
(* shows: trace collector, contract checker, attribution, repair,          *)
(* regression test, reporter, human gate and the adapter to the dashboard. *)
(*                                                                         *)
(* The stages are driven by the API's background task ("worker"), by       *)
(* run_diagnostic_pipeline ("pipeline") or by the Zone B group chat        *)
(* ("chat").  The worker leaves out the human gate and diagnoses a trace   *)
(* without violations no further; the others run every stage.              *)
(*                                                                         *)
(* External: what the LLM answers when asked for the responsible agent,    *)
(* how the regression test ends (RepairLoop models it) and what the human  *)
(* reviewer decides.                                                       *)
(***************************************************************************)
EXTENDS TraceSources

CONSTANTS
  ClientEvents,  \* events a client may post
  MaxEvents,     \* bound on the length of a client's trace
  Drivers,       \* "worker", "pipeline", "chat"
  Blamed,        \* agents the LLM may name
  BlamedSteps,   \* steps the LLM may give
  RowStatuses    \* statuses a regression test may give a violation

(* What the attribution holds before it was made, and an answer of the LLM *)
(* without an agent.                                                       *)
Nobody == ""

ASSUME DiagnosisAssumption ==
  /\ ClientEvents \subseteq Event
  /\ MaxEvents \in Nat
  /\ Drivers \subseteq {"worker", "pipeline", "chat"}
  /\ Blamed \subseteq Agents \cup {Nobody}
  /\ BlamedSteps \subseteq Int
  /\ RowStatuses \subseteq {"pass", "fail", "error"}

VARIABLES
  driver,
  source,      \* where the events come from
  events,      \* the trace, as listed
  stage,       \* the next stage: "recording", "collect", "check",
               \* "attribute", "repair", "test", "report", "gate" or "shown"
  snapshot,
  violations,
  attributed,  \* failed_agent and failed_step of the attribution
  patches,     \* [type, agent, step] of the violation each is for
  tested,      \* overall status and one row per violation
  report

vars == <<driver, source, events, stage, snapshot, violations, attributed,
          patches, tested, report>>

NoReport ==
  [violations |-> <<>>, patches |-> <<>>, tests |-> <<>>, agent |-> Nobody,
   step |-> -1, status |-> "none", approval |-> "pending"]

Init ==
  /\ driver \in Drivers
  /\ source = [kind |-> "client"]
  /\ events = <<>>
  /\ stage = "recording"
  /\ snapshot = EmptySnapshot
  /\ violations = <<>>
  /\ attributed = [agent |-> Nobody, step |-> -1]
  /\ patches = <<>>
  /\ tested = [status |-> "none", rows |-> <<>>]
  /\ report = NoReport

diagnosisVars == <<snapshot, violations, attributed, patches, tested, report>>

-----------------------------------------------------------------------------
(***************************************************************************)
(* Where the trace comes from.                                             *)
(***************************************************************************)

RecordEvent(event) ==
  /\ stage = "recording" /\ Len(events) < MaxEvents
  /\ events' = Append(events, event)
  /\ UNCHANGED <<driver, source, stage, diagnosisVars>>

SubmitTrace ==
  /\ stage = "recording"
  /\ stage' = "collect"
  /\ UNCHANGED <<driver, source, events, diagnosisVars>>

RunStub(mode) ==
  /\ stage = "recording" /\ events = <<>>
  /\ source' = [kind |-> "stub", mode |-> mode]
  /\ events' = Stub(mode)
  /\ stage' = "collect"
  /\ UNCHANGED <<driver, diagnosisVars>>

RunLive(chat) ==
  /\ stage = "recording" /\ events = <<>>
  /\ source' = [kind |-> "live", chat |-> chat]
  /\ events' = LiveTrace(chat)
  /\ stage' = "collect"
  /\ UNCHANGED <<driver, diagnosisVars>>

-----------------------------------------------------------------------------
(***************************************************************************)
(* The stages.                                                             *)
(***************************************************************************)

Collect ==
  /\ stage = "collect"
  /\ snapshot' = SnapshotOf(events)
  /\ stage' = "check"
  /\ UNCHANGED <<driver, source, events, violations, attributed, patches,
                 tested, report>>

(* Mutant: the approval a report starts with is kept. *)
CleanReportPending == [NoReport EXCEPT !.status = "skipped"]

(* Without violations the worker reports at once (_clean_report). *)
CleanReport ==
  [NoReport EXCEPT !.status = "skipped", !.approval = "approved"]

Check ==
  LET found == Violations(events, snapshot)
      clean == driver = "worker" /\ found = <<>>
  IN /\ stage = "check"
     /\ violations' = found
     /\ stage' = IF clean THEN "shown" ELSE "attribute"
     /\ report' = IF clean THEN CleanReport ELSE report
     /\ UNCHANGED <<driver, source, events, snapshot, attributed, patches, tested>>

(* The LLM names any agent and any step; what its answer leaves out, or all *)
(* of it when it cannot be read, is taken from the first violation.        *)
Attribute ==
  /\ stage = "attribute"
  /\ stage' = "repair"
  /\ \/ violations = <<>> /\ UNCHANGED attributed
     \/ /\ violations # <<>>
        /\ \E agent \in Blamed \cup {violations[1].agent},
              step  \in BlamedSteps \cup {violations[1].step} :
             attributed' = [agent |-> agent, step |-> step]
  /\ UNCHANGED <<driver, source, events, snapshot, violations, patches, tested, report>>

PatchOf(v) == [v EXCEPT !.step = IF v.step < 0 THEN attributed.step ELSE v.step]

(* One patch per violation, in the order of the violations. *)
Repair ==
  /\ stage = "repair"
  /\ patches' = [n \in DOMAIN violations |-> PatchOf(violations[n])]
  /\ stage' = "test"
  /\ UNCHANGED <<driver, source, events, snapshot, violations, attributed,
                 tested, report>>

RowOf(v, status) ==
  [type |-> v.type, agent |-> v.agent, step |-> v.step, status |-> status]

Test ==
  /\ stage = "test"
  /\ IF violations = <<>>
     THEN tested' = [status |-> "skipped", rows |-> <<>>]
     ELSE \E status \in RowStatuses, given \in [DOMAIN violations -> RowStatuses] :
            tested' = [status |-> status,
                       rows   |-> [n \in DOMAIN violations |->
                                     RowOf(violations[n], given[n])]]
  /\ stage' = "report"
  /\ UNCHANGED <<driver, source, events, snapshot, violations, attributed,
                 patches, report>>

(* Mutant: rows are found by agent and step alone. *)
StatusByPlace(v) ==
  LET own == {n \in DOMAIN tested.rows :
                tested.rows[n].agent = v.agent /\ tested.rows[n].step = v.step}
  IN IF own = {} THEN "error"
     ELSE tested.rows[Max(own)].status

(* The status of a violation: that of the row with its type, agent and     *)
(* step; rows of equal keys overwrite each other.                          *)
StatusByViolation(v) ==
  LET own == {n \in DOMAIN tested.rows : \E s \in RowStatuses :
                tested.rows[n] = RowOf(v, s)}
  IN IF own = {} THEN "error"
     ELSE tested.rows[Max(own)].status

Report ==
  /\ stage = "report"
  /\ report' = [violations |-> [n \in DOMAIN violations |->
                  RowOf(violations[n], StatusByViolation(violations[n]))],
                patches    |-> patches,
                tests      |-> tested.rows,
                agent      |-> attributed.agent,
                step       |-> attributed.step,
                status     |-> tested.status,
                approval   |-> "pending"]
  /\ stage' = IF driver = "worker" THEN "shown" ELSE "gate"
  /\ UNCHANGED <<driver, source, events, snapshot, violations, attributed,
                 patches, tested>>

(* The gate approves by itself unless a reviewer is asked, which only the  *)
(* group chat can do.                                                      *)
HumanGate ==
  /\ stage = "gate"
  /\ \E decision \in IF driver = "chat" THEN {"approved", "rejected", "pending"}
                     ELSE {"approved"} :
       report' = [report EXCEPT !.approval = decision]
  /\ stage' = "shown"
  /\ UNCHANGED <<driver, source, events, snapshot, violations, attributed,
                 patches, tested>>

(* The stages up to the report, one after another. *)
Diagnose == Collect \/ Check \/ Attribute \/ Repair \/ Test \/ Report

WorkerStep == driver = "worker" /\ Diagnose

PipelineStep == driver = "pipeline" /\ (Diagnose \/ HumanGate)

(* A round of the group chat: the next of its seven stage agents speaks,   *)
(* and what its stage found is kept in the context variables.              *)
ChatStep == driver = "chat" /\ (Diagnose \/ HumanGate)

Next ==
  \/ \E event \in ClientEvents : RecordEvent(event)
  \/ SubmitTrace
  \/ \E mode \in FailureModes : RunStub(mode)
  \/ \E chat \in Chats : RunLive(chat)
  \/ WorkerStep \/ PipelineStep \/ ChatStep

Spec == Init /\ [][Next]_vars

-----------------------------------------------------------------------------
(***************************************************************************)
(* What the dashboard shows (api/adapter.py).                              *)
(***************************************************************************)

Charged == {report.violations[n] : n \in DOMAIN report.violations}

ContractCard(type) ==
  IF \E v \in Charged : v.type = type THEN "FAIL" ELSE "PASS"

(* Agents without an event have no card. *)
AgentCard(agent) ==
  CASE \A n \in DOMAIN events : events[n].agent # agent -> "none"
    [] \E v \in Charged : v.agent = agent                -> "FAIL"
    [] OTHER                                              -> "PASS"

(* A trace row is flagged when its step is the step of a violation. *)
Flagged(event) == \E v \in Charged : v.step = event.step

(* Routes of the topology: one for every change of agent in the list of    *)
(* events.  Declared handoffs and tools add routes of their own, which are *)
(* left out.                                                               *)
Routes ==
  {<<events[n].agent, events[n + 1].agent>> : n \in 1..(Len(events) - 1)}
    \ {<<agent, agent>> : agent \in Agents}

(* The status of a route comes from the violations charged to its target.  *)
RouteStatus(route) ==
  LET types == {v.type : v \in {w \in Charged : w.agent = route[2]}}
  IN CASE "routing" \in types  -> "skipped_guard"
       [] "approval" \in types -> "missing_approval"
       [] OTHER                -> "ok"

-----------------------------------------------------------------------------
(***************************************************************************)
(* Properties.                                                             *)
(***************************************************************************)

Checked == stage \in {"attribute", "repair", "test", "report", "gate", "shown"}

Found(type) == \E n \in DOMAIN violations : violations[n].type = type

(* Event m comes before event n in the order of their steps. *)
Precedes(m, n) ==
  events[m].step < events[n].step \/ (events[m].step = events[n].step /\ m <= n)

(* The scan of the routing check finds what its rule says: every Reporter  *)
(* comes after, or in the order of equal steps behind, a verifier with a   *)
(* successful tool event, and every Action agent behind the human gate,    *)
(* however the events are listed.                                          *)
RoutingMeansOrder ==
  Checked =>
    (Found("routing") <=>
       \E n \in DOMAIN events :
         \/ /\ events[n].agent = "ReporterAgent"
            /\ \A m \in DOMAIN events : VerifierToolEvent(events[m]) => ~Precedes(m, n)
         \/ /\ events[n].agent = "ActionAgent"
            /\ \A m \in DOMAIN events :
                 events[m].agent = "HumanGateAgent" => ~Precedes(m, n))

(* The report speaks of each violation once and in one voice: the n-th     *)
(* violation, patch and test are about the same contract and agent, and    *)
(* the violation has the status of its own test.                           *)
ReportIsCoherent ==
  stage = "shown" /\ violations # <<>> =>
    /\ Len(report.violations) = Len(violations)
    /\ Len(report.patches) = Len(violations)
    /\ \A n \in DOMAIN violations :
         /\ report.violations[n] = report.tests[n]
         /\ report.patches[n].type = violations[n].type
         /\ report.patches[n].agent = violations[n].agent

(* Whichever way a trace is diagnosed, one without violations ends in a    *)
(* report that says so: nothing tested, nothing patched, nobody blamed.    *)
CleanTracesAreClean ==
  stage = "shown" /\ violations = <<>> =>
    /\ report.status = "skipped" /\ report.agent = Nobody
    /\ report.violations = <<>> /\ report.patches = <<>> /\ report.tests = <<>>
    /\ \A type \in ContractTypes : ContractCard(type) = "PASS"
    /\ \A route \in Routes : RouteStatus(route) = "ok"
    /\ driver # "chat" => report.approval = "approved"

(* A violation can be followed from its contract card to the trace: if its *)
(* agent has events at all, the agent's card fails and its first event is  *)
(* flagged; a routing or approval violation marks the routes into its      *)
(* agent.                                                                  *)
ViolationsAreVisible ==
  stage = "shown" =>
    \A n \in DOMAIN violations :
      LET v   == violations[n]
          own == {m \in DOMAIN events : events[m].agent = v.agent}
      IN /\ ContractCard(v.type) = "FAIL"
         /\ own # {} => /\ AgentCard(v.agent) = "FAIL"
                         /\ Flagged(events[Min(own)])
         /\ v.type \in {"routing", "approval"} =>
              \A route \in Routes : route[2] = v.agent => RouteStatus(route) # "ok"

(* zone_b/contracts/registry.py: "ActionAgent requires approval_status ==  *)
(* approved before running".                                               *)
ApprovalBeforeAction ==
  Checked /\ ~Found("approval") =>
    \A n \in DOMAIN events :
      events[n].agent = "ActionAgent" =>
        ApprovalHolds(SnapshotOf(SubSeq(events, 1, n - 1)))

(* docs/DEMO_SCRIPT.md: "A clean run is allowed. Concord is not supposed   *)
(* to force failure."; in a live run the Reporter speaks only after the    *)
(* verifier's gate, so that none breaks the routing contract.              *)
GatedRunsKeepRouting ==
  Checked /\ source.kind = "live" => ~Found("routing")

=============================================================================
