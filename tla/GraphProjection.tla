--------------------------- MODULE GraphProjection ---------------------------
(***************************************************************************)
(* Registered workflows and the graph kept beside the database: the        *)
(* topology of a workflow and the violations of its runs are written to    *)
(* FalkorDB after the SQL commit (graph/schema.py, graph/falkor.py and the *)
(* _safe_persist functions of api/store.py), all nodes by one MERGE each,  *)
(* then all edges.  An error ends a projection and is suppressed; a        *)
(* process that stops leaves it unfinished, and nothing ever resumes it.   *)
(* The MERGEs of one half commute and are one step here; a half that is    *)
(* not finished has written some of them.                                  *)
(*                                                                         *)
(* The module composes the projection with StoreSetup and RunLifecycle.    *)
(* The graph is never read by the API; one tenant is modelled.             *)
(***************************************************************************)
EXTENDS StoreSetup, ContractDsl

CONSTANTS
  Workflows,      \* identifiers of workflows
  Seeded,         \* the one of the fixture, which is never projected
  Bodies,         \* bodies of POST /api/workflows
  Violations,     \* possible violations of a run, with their failed agent
  MaxGraphFaults  \* bound on queries that raise

NoBody == [agents |-> "none"]

(* A recurrence key names contract type, agent and rule of a violation.    *)
ASSUME GraphAssumption ==
  /\ Seeded \in Workflows
  /\ NoBody \notin Bodies
  /\ \A u, v \in Violations : u.key = v.key => u = v
  /\ MaxGraphFaults \in Nat

VARIABLES
  body,        \* body[w]: the registered body of workflow w, or NoBody
  poster,      \* poster[w]: the process that projects workflow w
  posting,     \* posting[w]: the projection of its topology
  workflowOf,  \* workflowOf[r]: the workflow run r was submitted for
  found,       \* found[r]: the violations in the report of run r
  projecting,  \* projecting[r]: the projection of its violations
  graph,       \* what FalkorDB holds
  graphFaults  \* number of queries that raised

graphVars == <<body, poster, posting, workflowOf, found, projecting, graph,
               graphFaults>>

(* Mutant: the edges of a projection are written before its nodes. *)
EdgesFirst == <<"edges", "nodes">>

(* The halves of projection_upsert_queries in their order. *)
Halves == <<"nodes", "edges">>

IsHalf(stage) == stage \in {Halves[1], Halves[2]}
NextHalf(stage) == IF stage = Halves[1] THEN Halves[2] ELSE "done"

(* Where a projection stands: "waits" until it begins, the half it writes, *)
(* "done", "failed" or "lost" with its process.  That of a run also says   *)
(* where the one of its workflow stood when it began.                      *)
NotBegun == [at |-> "waits", after |-> "waits"]

GraphInit ==
  /\ SetupInit
  /\ body = [w \in Workflows |-> NoBody]
  /\ poster \in [Workflows -> {CHOOSE i \in Instances : TRUE}]
  /\ posting = [w \in Workflows |-> "waits"]
  /\ workflowOf = [r \in Runs |-> Seeded]
  /\ found = [r \in Runs |-> {}]
  /\ projecting = [r \in Runs |-> NotBegun]
  /\ graph = [nodes |-> {}, edges |-> {}]
  /\ graphFaults = 0

Registered(w) ==
  IF w = Seeded THEN fixtureRun # "absent" ELSE body[w] # NoBody

-----------------------------------------------------------------------------
(***************************************************************************)
(* The topology of a workflow.  A body lists nodes of its declared         *)
(* topology, agents and tools, each [name, id, kind] with "" for a field   *)
(* that is not given; edges of the topology are [from, to, kind].          *)
(***************************************************************************)
Node(label, key) == <<label, key>>
Edge(type, from, to) == [type |-> type, from |-> from, to |-> to]

WithKind(entries, default) ==
  [n \in DOMAIN entries |->
     [entries[n] EXCEPT !.kind = IF @ = "" THEN default ELSE @]]

Listed(b) ==
  WithKind(b.nodes, "agent") \o WithKind(b.agents, "agent") \o WithKind(b.tools, "tool")

NameOf(entry) == IF entry.name # "" THEN entry.name ELSE entry.id

(* _endpoint_lookup: by name and by id, a later entry replaces an earlier. *)
Lookup(b) ==
  LET listed == Listed(b)
      Under(key) == {n \in DOMAIN listed : key # "" /\ key \in {NameOf(listed[n]), listed[n].id}}
      keys == {NameOf(listed[n]) : n \in DOMAIN listed} \cup
              {listed[n].id : n \in DOMAIN listed}
  IN [key \in keys \ {""} |->
        listed[CHOOSE n \in Under(key) : \A m \in Under(key) : m <= n]]

Endpoint(w, entry) ==
  Node(CASE entry.kind = "tool" -> "Tool" [] entry.kind = "gate" -> "Gate"
         [] OTHER -> "Agent", <<w, NameOf(entry)>>)

Entities(w, b) == {Endpoint(w, Lookup(b)[key]) : key \in DOMAIN Lookup(b)}
Contracts(w, b) == {Node("Contract", <<w, id>>) : id \in b.ids}

TenantNode == Node("Tenant", <<>>)
WorkflowNode(w) == Node("Workflow", <<w>>)

EntityNodes(w, b) ==
  {TenantNode, WorkflowNode(w)} \cup Entities(w, b) \cup Contracts(w, b)

BaseEdges(w, b) ==
  {Edge("Owns", TenantNode, WorkflowNode(w))} \cup
  {Edge("Has" \o node[1], WorkflowNode(w), node) :
     node \in Entities(w, b) \cup Contracts(w, b)}

(* Declared edges whose ends are listed. *)
TopologyEdges(w, b) ==
  LET known == {e \in b.edges : {e.from, e.to} \subseteq DOMAIN Lookup(b)}
      Type(e) == IF e.kind = "tool_call" \/ Lookup(b)[e.to].kind = "tool"
                 THEN "ToolCall" ELSE "Handoff"
  IN {Edge(Type(e), Endpoint(w, Lookup(b)[e.from]), Endpoint(w, Lookup(b)[e.to])) :
        e \in known}

(* build_workflow_graph_projection: the queries of a half. *)
TopologyQueries(w, half) ==
  IF half = "nodes" THEN EntityNodes(w, body[w])
  ELSE BaseEdges(w, body[w]) \cup TopologyEdges(w, body[w])

(***************************************************************************)
(* The violations of a run, each [key, agent].                             *)
(***************************************************************************)
RunNode(w, r) == Node("Run", <<w, r>>)
ViolationNode(w, v) == Node("Violation", <<w, v.key>>)
Triggered(w, v) == Edge("Triggered", Node("Agent", <<w, v.agent>>), ViolationNode(w, v))

ViolationEdges(w, r, violations) ==
  {Edge("HasRun", WorkflowNode(w), RunNode(w, r))}
  \cup {Edge("Observed", RunNode(w, r), ViolationNode(w, v)) : v \in violations}
  \cup {Edge("HasViolation", WorkflowNode(w), ViolationNode(w, v)) : v \in violations}
  \cup {Triggered(w, v) : v \in {u \in violations : u.agent # ""}}

(* build_violation_graph_projection. *)
ViolationQueries(w, r, half) ==
  IF half = "edges" THEN ViolationEdges(w, r, found[r])
  ELSE {RunNode(w, r)} \cup {ViolationNode(w, v) : v \in found[r]}

(* A node is merged; an edge is merged when both of its ends are there,    *)
(* else its query matches nothing and succeeds.                            *)
Merged(half, queries) ==
  IF half = "nodes" THEN [graph EXCEPT !.nodes = @ \cup queries]
  ELSE [graph EXCEPT !.edges = @ \cup
          {e \in queries : {e.from, e.to} \subseteq graph.nodes}]

(* What a half has written when a query of it raises. *)
Beginnings(queries) ==
  {written \in {ToSet(begun) : begun \in Prefixes(SetToSeq(queries))} :
     written \subseteq queries /\ written # queries}

-----------------------------------------------------------------------------
(***************************************************************************)
(* Workflows.                                                              *)
(***************************************************************************)

(* create_workflow has committed the row of an accepted body. *)
PostWorkflow(i, w) ==
  /\ server[i] = "serving"
  /\ w # Seeded
  /\ body[w] = NoBody
  /\ \E b \in {c \in Bodies : AcceptedBody(c)} : body' = [body EXCEPT ![w] = b]
  /\ posting' = [posting EXCEPT ![w] = Halves[1]]
  /\ poster' = [poster EXCEPT ![w] = i]
  /\ UNCHANGED <<workflowOf, found, projecting, graph, graphFaults, setupVars, vars>>

ProjectTopology(w) ==
  /\ IsHalf(posting[w])
  /\ graph' = Merged(posting[w], TopologyQueries(w, posting[w]))
  /\ posting' = [posting EXCEPT ![w] = NextHalf(@)]
  /\ UNCHANGED <<body, poster, workflowOf, found, projecting, graphFaults,
                 setupVars, vars>>

(* A query raises after some others, and nothing more of the projection is *)
(* written.  A graph that is switched off is one whose first query raises, *)
(* and so is a read of the new workflow that raises after the commit.      *)
TopologyFault(w) ==
  /\ IsHalf(posting[w])
  /\ graphFaults < MaxGraphFaults
  /\ graphFaults' = graphFaults + 1
  /\ \E written \in Beginnings(TopologyQueries(w, posting[w])) :
       graph' = Merged(posting[w], written)
  /\ posting' = [posting EXCEPT ![w] = "failed"]
  /\ UNCHANGED <<body, poster, workflowOf, found, projecting, setupVars, vars>>

(***************************************************************************)
(* Runs.                                                                   *)
(***************************************************************************)

(* A run is accepted for a workflow that is stored, projected or not: its  *)
(* identifier is listed as soon as the row is committed.                   *)
SubmitFor(i, r) ==
  /\ Submit(i, r)
  /\ \E w \in Workflows : Registered(w) /\ workflowOf' = [workflowOf EXCEPT ![r] = w]
  /\ UNCHANGED <<body, poster, posting, found, projecting, graph, graphFaults,
                 setupVars>>

(* Mutant: the violations are handed to the graph before the commit. *)
FindAndProject(r) ==
  /\ FinishAnalysis(r)
  /\ \E violations \in SUBSET Violations :
       /\ (violations # {}) <=> (call'[r].report = "violations")
       /\ found' = [found EXCEPT ![r] = violations]
       /\ projecting' = [projecting EXCEPT ![r] =
            IF violations = {} THEN @
            ELSE [at |-> Halves[1], after |-> posting[workflowOf[r]]]]
  /\ UNCHANGED <<body, poster, posting, workflowOf, graph, graphFaults, setupVars>>

FindViolations(r) ==
  /\ FinishAnalysis(r)
  /\ \E violations \in SUBSET Violations :
       /\ (violations # {}) <=> (call'[r].report = "violations")
       /\ found' = [found EXCEPT ![r] = violations]
  /\ UNCHANGED <<body, poster, posting, workflowOf, projecting, graph, graphFaults,
                 setupVars>>

(* After the commit of a report with violations comes the projection. *)
CommitRow(r) ==
  /\ WriteRow(r)
  /\ projecting' = [projecting EXCEPT ![r] =
       IF call[r].report # "violations" THEN @
       ELSE [at |-> Halves[1], after |-> posting[workflowOf[r]]]]
  /\ UNCHANGED <<body, poster, posting, workflowOf, found, graph, graphFaults,
                 setupVars>>

ProjectRun(r) ==
  /\ IsHalf(projecting[r].at)
  /\ graph' = Merged(projecting[r].at, ViolationQueries(workflowOf[r], r, projecting[r].at))
  /\ projecting' = [projecting EXCEPT ![r].at = NextHalf(@)]
  /\ UNCHANGED <<body, poster, posting, workflowOf, found, graphFaults, setupVars, vars>>

(* Mutant: the error leaves set_run_status, and process_run records it. *)
RunFaultRaises(r) ==
  /\ IsHalf(projecting[r].at)
  /\ graphFaults < MaxGraphFaults
  /\ graphFaults' = graphFaults + 1
  /\ projecting' = [projecting EXCEPT ![r].at = "failed"]
  /\ CallSetStatus(r, "failed", "raised", "none")
  /\ UNCHANGED <<body, poster, posting, workflowOf, found, graph, setupVars,
                 db, serverVars, home, boundVars>>

(* The error is suppressed: the caller of the projection goes on. *)
RunFault(r) ==
  /\ IsHalf(projecting[r].at)
  /\ graphFaults < MaxGraphFaults
  /\ graphFaults' = graphFaults + 1
  /\ \E written \in Beginnings(ViolationQueries(workflowOf[r], r, projecting[r].at)) :
       graph' = Merged(projecting[r].at, written)
  /\ projecting' = [projecting EXCEPT ![r].at = "failed"]
  /\ UNCHANGED <<body, poster, posting, workflowOf, found, setupVars, vars>>

(* The event is published when the projection is over. *)
PublishRow(r) ==
  /\ ~ IsHalf(projecting[r].at)
  /\ Publish(r)
  /\ UNCHANGED <<graphVars, setupVars>>

(* A process that stops leaves its projections where they are; one that    *)
(* stops within a half has had the error of that half before.              *)
StageAfterStop(stage) == IF IsHalf(stage) THEN "lost" ELSE stage

CrashAll(i) ==
  /\ CrashReady(i)
  /\ posting' = [w \in Workflows |->
       IF poster[w] = i THEN StageAfterStop(posting[w]) ELSE posting[w]]
  /\ projecting' = [r \in Runs |->
       IF home[r] = i THEN [projecting[r] EXCEPT !.at = StageAfterStop(@)]
       ELSE projecting[r]]
  /\ UNCHANGED <<body, poster, workflowOf, found, graph, graphFaults>>

(* The steps the graph has no part in. *)
QuietStep ==
  \/ \E i \in Instances : SetupStep(i) \/ StopInSetup(i) \/ StartReady(i)
  \/ /\ \/ \E i \in Instances : Recover(i)
        \/ \E r \in Runs : BeginAnalysis(r) \/ RaiseInAnalysis(r) \/ ReadRow(r)
                            \/ StoreFault(r)
     /\ UNCHANGED setupVars

RunStep(r) ==
  \/ FindViolations(r)
  \/ CommitRow(r)
  \/ ProjectRun(r)
  \/ RunFault(r)
  \/ PublishRow(r)

GraphNext ==
  \/ QuietStep /\ UNCHANGED graphVars
  \/ \E i \in Instances :
       \/ CrashAll(i)
       \/ \E r \in Runs : SubmitFor(i, r)
       \/ \E w \in Workflows : PostWorkflow(i, w)
  \/ \E w \in Workflows : ProjectTopology(w) \/ TopologyFault(w)
  \/ \E r \in Runs : RunStep(r)

GraphSpec == GraphInit /\ [][GraphNext]_<<vars, setupVars, graphVars>>

-----------------------------------------------------------------------------
(* The graph shows nothing the database does not hold: a workflow in it is *)
(* registered, and a run with its violations is stored as completed with a *)
(* report of them, although graph and database share no transaction and    *)
(* either may fail, or the process stop, between their writes.             *)
GraphIsBacked ==
  /\ \A w \in Workflows : WorkflowNode(w) \in graph.nodes => body[w] # NoBody
  /\ \A r \in Runs :
       /\ RunNode(workflowOf[r], r) \in graph.nodes => db[r].report = "violations"
       /\ \A v \in Violations :
            Edge("Observed", RunNode(workflowOf[r], r), ViolationNode(workflowOf[r], v))
              \in graph.edges => v \in found[r]

(* A projection that ended without an error has lost no edge silently: all *)
(* of a topology is there, every violation is linked to its run, and, when *)
(* the workflow was projected before, to the workflow and to the agent it  *)
(* is charged to, if that is declared as an agent.                         *)
GraphIsComplete ==
  /\ \A w \in Workflows :
       posting[w] = "done" =>
         BaseEdges(w, body[w]) \cup TopologyEdges(w, body[w]) \subseteq graph.edges
  /\ \A r \in Runs :
       LET w == workflowOf[r]
           edges == ViolationEdges(w, r, found[r])
       IN projecting[r].at = "done" =>
            /\ {e \in edges : e.type = "Observed"} \subseteq graph.edges
            /\ projecting[r].after = "done" =>
                 \A e \in edges :
                   \/ e \in graph.edges
                   \/ e.from[1] = "Agent" /\ e.from \notin Entities(w, body[w])

(* Whatever document is posted to a process that serves, the parser of the *)
(* contract language accepts the well-formed ones only, names the first    *)
(* wrong entry of another, keeps every value that is given and takes the   *)
(* registry's for one that is absent or blank.                             *)
DslMeansItsRules ==
  \A i \in Instances : server[i] = "serving" => AllAsMeant

(* Workflows, their graph and the set-up leave runs the life of            *)
(* RunLifecycle: a run that is stored as completed stays so whatever the   *)
(* graph does, and its event is published.                                 *)
LifecycleImplemented == Spec

=============================================================================
