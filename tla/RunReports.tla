------------------------------ MODULE RunReports ------------------------------
(***************************************************************************)
(* What becomes of the reports of completed runs (api/store.py and         *)
(* post_approval of api/routes/runs.py): the run row with its report and   *)
(* cost, the violation rows kept beside it, the approvals operators give,  *)
(* and the recurrences computed from the violation rows of a workflow.     *)
(*                                                                         *)
(* post_approval is a synchronous endpoint, so that operators' requests    *)
(* run in threads: each reads the run (get_run), changes its copy and      *)
(* writes all of it back (put_run).  A write updates the run row before it *)
(* selects the child rows, which makes the rest of its transaction atomic. *)
(*                                                                         *)
(* One tenant.  "queued" stands for the runs that are not yet terminal;    *)
(* RunLifecycle models how they get there.  Patch and test rows are        *)
(* written like violation rows and never read.                             *)
(***************************************************************************)
EXTENDS Integers, Sequences, FiniteSets, SequencesExt

CONSTANTS
  Runs,
  Workflows,
  WorkflowOf,  \* WorkflowOf[r]: the workflow run r is submitted for
  Operators,
  Keys,        \* recurrence keys: contract type, agent and rule
  MaxWrites    \* bound on the clock

(* No workflow is named, or no operator has decided: the empty string. *)
None == ""

(* Reports list their violations: their keys are finitely many. *)
ASSUME ReportsAssumption ==
  /\ None \notin Runs \cup Workflows \cup Operators
  /\ WorkflowOf \in [Runs -> Workflows]
  /\ IsFiniteSet(Keys)
  /\ MaxWrites \in Nat

VARIABLES
  run,         \* run[r]: the row of run r
  rows,        \* the violation rows as written; a deleted one leaves its place
  request,     \* request[o]: operator o's approval in progress
  now          \* the clock, one tick for each write

vars == <<run, rows, request, now>>

Decision == {"UNAVAILABLE", "PENDING_OPERATOR", "APPROVED", "REJECTED"}

(* operator is None while it is the placeholder the adapter puts there. *)
Report == [keys : SUBSET Keys, cost : Nat, decision : Decision,
           operator : Operators \cup {None}]

NoReport == [none |-> TRUE]

NoRow == [status |-> "absent", workflow |-> None, seen |-> 0, report |-> NoReport,
          cost |-> 0]

(* What is left of a row that was deleted. *)
Deleted == [run |-> None, workflow |-> None, key |-> None]

NoRequest == [run |-> None, data |-> NoReport]

Init ==
  /\ run = [r \in Runs |-> NoRow]
  /\ rows = <<>>
  /\ request = [o \in Operators |-> NoRequest]
  /\ now = 0

-----------------------------------------------------------------------------
(***************************************************************************)
(* Writing a run.                                                          *)
(***************************************************************************)

(* Mutant: the workflow of an approval, which names none, is stored. *)
UpsertedAsGiven(row, workflow, status, report) ==
  [status   |-> status,
   workflow |-> workflow,
   seen     |-> now + 1,
   report   |-> IF report = NoReport THEN row.report ELSE report,
   cost     |-> IF report = NoReport THEN row.cost ELSE report.cost]

(* _upsert_run_record: what is not given is kept. *)
Upserted(row, workflow, status, report) ==
  [status   |-> status,
   workflow |-> IF workflow = None THEN row.workflow ELSE workflow,
   seen     |-> now + 1,
   report   |-> IF report = NoReport THEN row.report ELSE report,
   cost     |-> IF report = NoReport THEN row.cost ELSE report.cost]

RowsOf(r, workflow, keys) ==
  LET key == SetToSeq(keys)
  IN [n \in DOMAIN key |-> [run |-> r, workflow |-> workflow, key |-> key[n]]]

(* Mutant: the rows of an earlier write are left. *)
ChildRowsAdded(r, workflow, report) ==
  IF report = NoReport THEN rows ELSE rows \o RowsOf(r, workflow, report.keys)

(* The run's rows are deleted and written anew. *)
ChildRowsReplaced(r, workflow, report) ==
  LET kept == [id \in DOMAIN rows |-> IF rows[id].run = r THEN Deleted ELSE rows[id]]
  IN IF report = NoReport THEN rows
     ELSE kept \o RowsOf(r, workflow, report.keys)

Upsert(r, workflow, status, report) ==
  LET row == Upserted(run[r], workflow, status, report)
  IN /\ now < MaxWrites
     /\ now' = now + 1
     /\ run' = [run EXCEPT ![r] = row]
     /\ rows' = ChildRowsReplaced(r, row.workflow, report)

-----------------------------------------------------------------------------
(***************************************************************************)
(* Runs.                                                                   *)
(***************************************************************************)

CreateRun(r) ==
  /\ run[r].status = "absent"
  /\ Upsert(r, WorkflowOf[r], "queued", NoReport)
  /\ UNCHANGED request

(* The report of an analysis: a clean one is approved from the start. *)
NewReport(keys, cost) ==
  [keys |-> keys, cost |-> cost,
   decision |-> IF keys = {} THEN "APPROVED" ELSE "PENDING_OPERATOR",
   operator |-> None]

Complete(r) ==
  /\ run[r].status = "queued"
  /\ \E keys \in SUBSET Keys :
       Upsert(r, run[r].workflow, "completed",
              NewReport(keys, IF keys = {} THEN 0 ELSE 1))
  /\ UNCHANGED request

Fail(r) ==
  /\ run[r].status = "queued"
  /\ Upsert(r, run[r].workflow, "failed", NoReport)
  /\ UNCHANGED request

-----------------------------------------------------------------------------
(***************************************************************************)
(* Approvals.                                                              *)
(***************************************************************************)

(* get_run: a run without a report is given an empty one; the row's cost   *)
(* goes before the report's.                                               *)
RunData(row) ==
  IF row.report = NoReport
  THEN [keys |-> {}, cost |-> row.cost, decision |-> "UNAVAILABLE",
        operator |-> None]
  ELSE [row.report EXCEPT !.cost = IF row.cost # 0 THEN row.cost ELSE @]

(* Comments, kept unless new ones are given, are not modelled. *)
Decided(data, o, decision) ==
  [data EXCEPT !.decision = decision, !.operator = o]

(* Mutant: the status of the run is not looked at. *)
ReadAnyForApproval(o, r) ==
  /\ request[o] = NoRequest
  /\ run[r].status # "absent"
  /\ \E decision \in {"APPROVED", "REJECTED"} :
       request' = [request EXCEPT ![o] =
         [run |-> r, data |-> Decided(RunData(run[r]), o, decision)]]
  /\ UNCHANGED <<run, rows, now>>

(* The request reads the run; one that is not completed is refused. *)
ReadForApproval(o, r) ==
  /\ request[o] = NoRequest
  /\ run[r].status = "completed"
  /\ \E decision \in {"APPROVED", "REJECTED"} :
       request' = [request EXCEPT ![o] =
         [run |-> r, data |-> Decided(RunData(run[r]), o, decision)]]
  /\ UNCHANGED <<run, rows, now>>

(* put_run writes what was read, with the decision, and names no workflow. *)
PutApproval(o) ==
  /\ request[o] # NoRequest
  /\ Upsert(request[o].run, None, "completed", request[o].data)
  /\ request' = [request EXCEPT ![o] = NoRequest]

Next ==
  \/ \E r \in Runs : CreateRun(r) \/ Complete(r) \/ Fail(r)
  \/ \E o \in Operators, r \in Runs : ReadForApproval(o, r)
  \/ \E o \in Operators : PutApproval(o)

Spec == Init /\ [][Next]_vars

-----------------------------------------------------------------------------
(***************************************************************************)
(* Recurrences of a workflow, from its violation rows and its runs.        *)
(***************************************************************************)

(* When a run was last written, 0 if it is not one of the workflow's. *)
SeenAt(runs, workflow, r) ==
  IF runs[r].workflow = workflow THEN runs[r].seen ELSE 0

NoGroup == [none |-> TRUE]

NewGroup(runs, workflow, r) ==
  [samples |-> <<>>, first |-> r, last |-> r,
   firstSeen |-> SeenAt(runs, workflow, r), lastSeen |-> SeenAt(runs, workflow, r)]

(* One row of the key: its run is counted once, and moves the ends. *)
Counted(runs, workflow, group, r) ==
  LET at    == SeenAt(runs, workflow, r)
      later == at # 0 /\ (group.lastSeen = 0 \/ at >= group.lastSeen)
      early == at # 0 /\ (group.firstSeen = 0 \/ at < group.firstSeen)
  IN [samples   |-> IF r \in ToSet(group.samples) THEN group.samples
                    ELSE Append(group.samples, r),
      last      |-> IF later THEN r ELSE group.last,
      lastSeen  |-> IF later THEN at ELSE group.lastSeen,
      first     |-> IF early THEN r ELSE group.first,
      firstSeen |-> IF early THEN at ELSE group.firstSeen]

(* _build_recurrence_rows: the group of one key, after n of the violation  *)
(* rows.  The first row of the key makes it.                               *)
Recurrence(table, runs, workflow, key) ==
  LET group[n \in 0..Len(table)] ==
        IF n = 0 THEN NoGroup
        ELSE LET row == table[n]
                 old == group[n - 1]
             IN IF row.workflow # workflow \/ row.key # key THEN old
                ELSE Counted(runs, workflow,
                       IF old = NoGroup THEN NewGroup(runs, workflow, row.run) ELSE old,
                       row.run)
  IN group[Len(table)]

-----------------------------------------------------------------------------
(* get_tenant_usage: what the runs of the tenant have cost. *)
Total(costs) == FoldFunction(+, 0, costs)
Usage == Total([r \in Runs |-> run[r].cost])

-----------------------------------------------------------------------------
(***************************************************************************)
(* Properties.                                                             *)
(***************************************************************************)

(* The violation rows of a run are the violations of its stored report,    *)
(* each once, however often and by whomever the report was written.        *)
RowsMatchReports ==
  \A r \in Runs :
    LET own == {n \in DOMAIN rows : rows[n].run = r}
    IN IF run[r].report = NoReport THEN own = {}
       ELSE /\ {rows[n].key : n \in own} = run[r].report.keys
            /\ Cardinality(own) = Cardinality(run[r].report.keys)

(* The recurrences of a workflow count its runs whose report has the       *)
(* violation, each run once; the first and the last seen are among them    *)
(* and were written before and after all others.                           *)
RecurrencesAreTrue ==
  \A w \in Workflows, key \in Keys :
    LET violating == {r \in Runs : /\ WorkflowOf[r] = w
                                   /\ run[r].report # NoReport
                                   /\ key \in run[r].report.keys}
        group == Recurrence(rows, run, w, key)
    IN /\ violating = {} <=> group = NoGroup
       /\ violating # {} =>
            /\ ToSet(group.samples) = violating
            /\ Len(group.samples) = Cardinality(violating)
            /\ {group.first, group.last} \subseteq violating
            /\ \A r \in violating : /\ run[group.first].seen <= run[r].seen
                                    /\ run[r].seen <= run[group.last].seen

(* Once a run is completed its approvals change the decision and nothing   *)
(* else that is reported of it: violations, cost, status and workflow      *)
(* stay.  The tenant's usage moves only with a run's first report.         *)
ApprovalsOnlyDecide ==
  [][/\ \A r \in Runs :
          run[r].status = "completed" =>
            /\ run'[r].status = "completed"
            /\ run'[r].cost = run[r].cost
            /\ run'[r].workflow = run[r].workflow
            /\ run'[r].report.keys = run[r].report.keys
            /\ run'[r].report # run[r].report => run'[r].report.operator # None
     /\ (\A r \in Runs : run[r].report = NoReport => run'[r].report = NoReport)
          => Usage' = Usage]_vars

(* An approval bumps the time of its run, and with it the ends of the      *)
(* recurrences the run is in: it becomes the one last seen, and is no      *)
(* longer the one first seen when another run is older now.  That is all:  *)
(* while no run gets its first report, every recurrence keeps its runs and *)
(* its count, its last seen moves only to the run just written and its     *)
(* first seen only away from it.                                           *)
ApprovalsMoveOnlyEnds ==
  [][(\A r \in Runs : run[r].report = NoReport => run'[r].report = NoReport)
       => \A w \in Workflows, key \in Keys :
            LET old == Recurrence(rows, run, w, key)
                new == Recurrence(rows', run', w, key)
            IN /\ old = NoGroup <=> new = NoGroup
               /\ old # NoGroup =>
                    /\ ToSet(new.samples) = ToSet(old.samples)
                    /\ Len(new.samples) = Len(old.samples)
                    /\ new.last # old.last => run'[new.last] # run[new.last]
                    /\ new.first # old.first => run'[old.first] # run[old.first]]_vars

=============================================================================
