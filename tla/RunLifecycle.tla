---------------------------- MODULE RunLifecycle ----------------------------
(***************************************************************************)
(* Submitted runs, the background task that analyses each of them and the  *)
(* start-up recovery of a server process.                                  *)
(*                                                                         *)
(* A run is submitted to one server process (its home), which inserts the  *)
(* row, answers, and then runs process_run in a thread of its own.  Each   *)
(* set_run_status of that thread is three steps: the row is read, the      *)
(* changed columns are written and committed, and only then the status     *)
(* event is published.  A process may stop at any point; nothing but the   *)
(* database survives.  A process that starts reads the unfinished rows and *)
(* marks them failed before it serves requests.                            *)
(***************************************************************************)
EXTENDS RunRecords, FiniteSets

CONSTANTS
  Runs,        \* run identifiers
  Instances,   \* server processes sharing the database
  MaxCrashes,  \* bound on process stops
  MaxFaults    \* bound on store operations that raise

ASSUME LifecycleAssumption ==
  /\ Runs # {}
  /\ Instances # {}
  /\ MaxCrashes \in Nat
  /\ MaxFaults \in Nat

(* One uvicorn process serves the database, as the Dockerfile starts it. *)
SingleInstance == \A i, j \in Instances : i = j

VARIABLES
  (*************************************************************************)
  (* Persistent state.                                                     *)
  (*************************************************************************)
  db,        \* db[r]: the stored row of run r
  (*************************************************************************)
  (* State of the server processes.                                        *)
  (*************************************************************************)
  server,    \* server[i]: "down", "recovering" or "serving"
  snapshot,  \* snapshot[i]: the rows process i read when its recovery began
  (*************************************************************************)
  (* State of the background tasks.                                        *)
  (*************************************************************************)
  home,      \* home[r]: the process that accepted run r
  pc,        \* pc[r]: where the task of run r stands
  call,      \* call[r]: arguments of its set_run_status and the row it read
  (*************************************************************************)
  (* Bounds.                                                               *)
  (*************************************************************************)
  crashes, faults

serverVars == <<server, snapshot>>
taskVars   == <<home, pc, call>>
boundVars  == <<crashes, faults>>
vars == <<db, server, snapshot, home, pc, call, crashes, faults>>

ServerState == {"down", "recovering", "serving"}

(* Where a task is between two shared operations.  "stuck" is a task that  *)
(* ended because even recording its failure raised; "lost" is one whose    *)
(* process stopped.                                                        *)
Alive == {"publish", "scheduled", "reading", "writing", "working"}
Ended == {"none", "done", "stuck", "lost"}
TaskState == Alive \cup Ended

Call == [status : RunStatus, error : RunError, report : RunReport, row : RunRow]

TypeOK ==
  /\ db \in [Runs -> RunRow]
  /\ server \in [Instances -> ServerState]
  /\ snapshot \in [Instances -> [Runs -> RunRow]]
  /\ home \in [Runs -> Instances]
  /\ pc \in [Runs -> TaskState]
  /\ call \in [Runs -> Call]
  /\ crashes \in 0..MaxCrashes
  /\ faults \in 0..MaxFaults

SetStatus(status, error, report) ==
  [status |-> status, error |-> error, report |-> report, row |-> NoRow]

(* The row the call in progress of run r computes from what it read. *)
NewRow(r) ==
  WithStatus(call[r].row, call[r].status, call[r].error, call[r].report)

(* The event that call publishes after its commit. *)
PendingEvent(r) == StatusEvent(NewRow(r).history, call[r].status)

NoCall == SetStatus("queued", "none", "none")
NoSnapshot == [r \in Runs |-> NoRow]

Init ==
  /\ db = [r \in Runs |-> NoRow]
  /\ server = [i \in Instances |-> "down"]
  /\ snapshot = [i \in Instances |-> NoSnapshot]
  /\ home \in [Runs -> {CHOOSE i \in Instances : TRUE}]
  /\ pc = [r \in Runs |-> "none"]
  /\ call = [r \in Runs |-> NoCall]
  /\ crashes = 0
  /\ faults = 0

-----------------------------------------------------------------------------
(***************************************************************************)
(* Server processes.                                                       *)
(***************************************************************************)

(* The lifespan hook runs; recovery has read the unfinished rows. *)
Start(i) ==
  /\ server[i] = "down"
  /\ server' = [server EXCEPT ![i] = "recovering"]
  /\ snapshot' = [snapshot EXCEPT ![i] = db]
  /\ UNCHANGED <<db, taskVars, boundVars>>

(* Mutant: recovery also runs while the process serves. *)
RecoverAnytime(i) ==
  /\ server[i] # "down"
  /\ db' = [r \in Runs |-> IF Interrupted(db[r]) THEN Recovered(db[r]) ELSE db[r]]
  /\ server' = [server EXCEPT ![i] = "serving"]
  /\ UNCHANGED <<snapshot, taskVars, boundVars>>

(* All recovered rows are committed in one transaction; none is published. *)
Recover(i) ==
  /\ server[i] = "recovering"
  /\ db' = [r \in Runs |->
              IF Interrupted(snapshot[i][r])
              THEN Flush(db[r], snapshot[i][r], Recovered(snapshot[i][r]))
              ELSE db[r]]
  /\ server' = [server EXCEPT ![i] = "serving"]
  /\ snapshot' = [snapshot EXCEPT ![i] = NoSnapshot]
  /\ UNCHANGED <<taskVars, boundVars>>

DiesWith(r, i) == home[r] = i /\ pc[r] \in Alive \cup {"stuck"}

(* The process stops; its tasks and its recovery are gone. *)
Crash(i) ==
  /\ server[i] # "down"
  /\ crashes < MaxCrashes
  /\ server' = [server EXCEPT ![i] = "down"]
  /\ pc' = [r \in Runs |-> IF DiesWith(r, i) THEN "lost" ELSE pc[r]]
  /\ call' = [r \in Runs |-> IF DiesWith(r, i) THEN NoCall ELSE call[r]]
  /\ snapshot' = [snapshot EXCEPT ![i] = NoSnapshot]
  /\ crashes' = crashes + 1
  /\ UNCHANGED <<db, home, faults>>

-----------------------------------------------------------------------------
(***************************************************************************)
(* Submission and the background task.                                     *)
(***************************************************************************)

(* create_run commits the row; its "queued" event is still to be published. *)
Submit(i, r) ==
  /\ server[i] = "serving"
  /\ pc[r] = "none"
  /\ db' = [db EXCEPT ![r] = QueuedRow]
  /\ home' = [home EXCEPT ![r] = i]
  /\ call' = [call EXCEPT ![r] = NoCall]
  /\ pc' = [pc EXCEPT ![r] = "publish"]
  /\ UNCHANGED <<serverVars, boundVars>>

(* The event of the last commit is handed to the bus; the caller goes on. *)
Publish(r) ==
  /\ pc[r] = "publish"
  /\ pc' = [pc EXCEPT ![r] = CASE call[r].status = "queued"    -> "scheduled"
                               [] call[r].status = "analyzing" -> "working"
                               [] OTHER                        -> "done"]
  /\ UNCHANGED <<db, serverVars, home, call, boundVars>>

CallSetStatus(r, status, error, report) ==
  /\ call' = [call EXCEPT ![r] = SetStatus(status, error, report)]
  /\ pc' = [pc EXCEPT ![r] = "reading"]

(* process_run has fetched its inputs and marks the run as analysing. *)
BeginAnalysis(r) ==
  /\ pc[r] = "scheduled"
  /\ CallSetStatus(r, "analyzing", "none", "none")
  /\ UNCHANGED <<db, serverVars, home, boundVars>>

(* Mutant: the report is left out on one path. *)
FinishWithoutReport(r) ==
  /\ pc[r] = "working"
  /\ \E report \in {"none", "violations"} :
       CallSetStatus(r, "completed", "none", report)
  /\ UNCHANGED <<db, serverVars, home, boundVars>>

(* Checker, and on violations attribution, repair and reporter, succeeded. *)
FinishAnalysis(r) ==
  /\ pc[r] = "working"
  /\ \E report \in {"clean", "violations"} :
       CallSetStatus(r, "completed", "none", report)
  /\ UNCHANGED <<db, serverVars, home, boundVars>>

(* Any stage raised; the text of an exception may be empty. *)
RaiseInAnalysis(r) ==
  /\ pc[r] = "working"
  /\ \E error \in {"raised", "none"} :
       CallSetStatus(r, "failed", error, "none")
  /\ UNCHANGED <<db, serverVars, home, boundVars>>

ReadRow(r) ==
  /\ pc[r] = "reading"
  /\ call' = [call EXCEPT ![r].row = db[r]]
  /\ pc' = [pc EXCEPT ![r] = "writing"]
  /\ UNCHANGED <<db, serverVars, home, boundVars>>

WriteRow(r) ==
  /\ pc[r] = "writing"
  /\ db' = [db EXCEPT ![r] = Flush(@, call[r].row, NewRow(r))]
  /\ pc' = [pc EXCEPT ![r] = "publish"]
  /\ UNCHANGED <<serverVars, home, call, boundVars>>

(* A store operation of the task raises and nothing is committed.  The     *)
(* handler of process_run records a failure; when recording it raises too  *)
(* the exception leaves the task.                                          *)
StoreFault(r) ==
  /\ pc[r] \in {"scheduled", "reading", "writing"}
  /\ faults < MaxFaults
  /\ faults' = faults + 1
  /\ IF call[r].status = "failed"
     THEN pc' = [pc EXCEPT ![r] = "stuck"] /\ UNCHANGED call
     ELSE CallSetStatus(r, "failed", "raised", "none")
  /\ UNCHANGED <<db, serverVars, home, crashes>>

-----------------------------------------------------------------------------
TaskStep(r) ==
  \/ Publish(r)
  \/ BeginAnalysis(r)
  \/ FinishAnalysis(r)
  \/ RaiseInAnalysis(r)
  \/ ReadRow(r)
  \/ WriteRow(r)

ServerStep(i) == Start(i) \/ Recover(i)

Next ==
  \/ \E i \in Instances : ServerStep(i) \/ Crash(i)
  \/ \E i \in Instances, r \in Runs : Submit(i, r)
  \/ \E r \in Runs : TaskStep(r) \/ StoreFault(r)

Spec == Init /\ [][Next]_vars

(* Threads that are not stopped go on, analyses end (the LLM and sandbox   *)
(* calls time out and the repair loop is capped) and a stopped process is  *)
(* started again; nobody has to submit and nothing has to fail.            *)
Fairness ==
  /\ \A r \in Runs : WF_vars(TaskStep(r))
  /\ \A i \in Instances : WF_vars(ServerStep(i))

FairSpec == Spec /\ Fairness

-----------------------------------------------------------------------------
(***************************************************************************)
(* What holds however many processes share the database.                   *)
(***************************************************************************)

(* The status column is the last entry of the status history, although     *)
(* both are written column by column from a row read earlier.              *)
HistoryEndsWithStatus ==
  \A r \in Runs :
    IF db[r].status = "absent" THEN db[r].history = <<>>
    ELSE db[r].history # <<>> /\ LastOf(db[r].history) = db[r].status

(* A run shown as completed has the report its task built: the status, the *)
(* report and the history are flushed together or not at all.              *)
CompletedHasReport ==
  \A r \in Runs : db[r].status = "completed" => db[r].report # "none"

(***************************************************************************)
(* What holds when one process serves the database.                        *)
(***************************************************************************)

(* The history a client can be shown, status by status.                    *)
LegalHistories ==
  { <<>>, <<"queued">>, <<"queued", "analyzing">>,
    <<"queued", "failed">>, <<"queued", "analyzing", "failed">>,
    <<"queued", "analyzing", "completed">> }

(* A run goes queued -> analyzing -> completed or failed, or is failed     *)
(* early; no status is repeated, skipped or taken back.                    *)
LifecycleOrder == \A r \in Runs : db[r].history \in LegalHistories

(* The columns of a row agree: only a completed run has a report, and a    *)
(* completed or unfinished run carries no error.                           *)
RowMatchesOutcome ==
  \A r \in Runs :
    /\ (db[r].report # "none") <=> (db[r].status = "completed")
    /\ db[r].error # "none" => db[r].status = "failed"

(* A terminal row is never written again, by recovery or by a task that    *)
(* read it before it was terminal.                                         *)
TerminalIsFinal ==
  [][\A r \in Runs : IsTerminal(db[r]) => db'[r] = db[r]]_vars

(* A history only grows, at its end and by one status at a time, although  *)
(* each writer stores the whole list computed from a row it read earlier.  *)
HistoryGrowsAtEnd ==
  [][\A r \in Runs :
       LET n == Len(db[r].history)
       IN /\ Len(db'[r].history) \in n..(n + 1)
          /\ SubSeq(db'[r].history, 1, n) = db[r].history]_vars

(* Start-up recovery never fails a run that a live task is working on.     *)
RecoverySparesLiveTasks ==
  [][\A r \in Runs : pc[r] \in Alive /\ db'[r] # db[r] => pc'[r] # pc[r]]_vars

(* Once a process serves requests, a run whose task died with an earlier   *)
(* process is terminal: nobody waits for a task that does not exist.       *)
NoOrphans ==
  \A r \in Runs :
    (pc[r] = "lost" /\ \E i \in Instances : server[i] = "serving")
      => IsTerminal(db[r])

(* Every submitted run reaches a terminal status, across crashes, unless   *)
(* its failure could not be recorded either.                               *)
EventuallyTerminal ==
  \A r \in Runs : (pc[r] # "none") ~> (IsTerminal(db[r]) \/ pc[r] = "stuck")

=============================================================================
