----------------------------- MODULE RunRecords -----------------------------
(***************************************************************************)
(* The row the API keeps for one run (table "runs", api/models.py) and the *)
(* pure updates api/store.py makes to it.  A row is reduced to the four    *)
(* columns the control flow reads back: status, status_history, error and  *)
(* report.  An absent row (the run was never submitted) is NoRow.          *)
(*                                                                         *)
(* error   : "none" is the empty string, "raised" the text of an exception *)
(*           caught by process_run, "interrupted" the text start-up        *)
(*           recovery writes.                                              *)
(* report  : "none" before a report is stored; "clean" is the report built *)
(*           by _clean_report, "violations" the one built by the reporter. *)
(***************************************************************************)
EXTENDS Naturals, Sequences

RunStatus == {"queued", "analyzing", "completed", "failed"}
TERMINAL_STATUSES == {"completed", "failed"}
RunError == {"none", "raised", "interrupted"}
RunReport == {"none", "clean", "violations"}

RunRow == [status  : RunStatus \cup {"absent"},
           history : Seq(RunStatus),
           error   : RunError,
           report  : RunReport]

NoRow == [status |-> "absent", history |-> <<>>,
          error |-> "none", report |-> "none"]

(* The row inserted by create_run. *)
QueuedRow == [status |-> "queued", history |-> <<"queued">>,
              error |-> "none", report |-> "none"]

LastOf(history) == history[Len(history)]

(* A status is appended only when it differs from the last one. *)
AppendStatus(history, status) ==
  IF history = <<>> \/ LastOf(history) # status
  THEN Append(history, status)
  ELSE history

(* Mutant: the history is not extended. *)
StatusWithoutHistory(row, status, error, report) ==
  [status |-> status, history |-> row.history, error |-> error,
   report |-> IF report = "none" THEN row.report ELSE report]

(* The row as set_run_status leaves it in its session, before the flush. *)
WithStatus(row, status, error, report) ==
  [status  |-> status,
   history |-> AppendStatus(row.history, status),
   error   |-> error,
   report  |-> IF report = "none" THEN row.report ELSE report]

(* Mutants: recovery selects every row, or only the runs being analysed. *)
AnyRow(row) == row.status # "absent"
AnalyzingRow(row) == row.status = "analyzing"

(* The rows start-up recovery selects. *)
Interrupted(row) == row.status \in {"queued", "analyzing"}

(* Mutant: a status of its own for interrupted runs. *)
RecoveredApart(row) ==
  [row EXCEPT !.status = "interrupted", !.error = "interrupted"]

(* The row as recover_interrupted_runs leaves it in its session. *)
Recovered(row) ==
  [row EXCEPT !.status  = "failed",
              !.history = AppendStatus(row.history, "failed"),
              !.error   = IF row.error # "none" THEN row.error
                          ELSE "interrupted"]

(***************************************************************************)
(* The ORM's UPDATE names only the columns whose value differs from the    *)
(* one loaded by the session; the others keep whatever is stored by now.   *)
(***************************************************************************)
Column(loaded, new, stored) == IF new = loaded THEN stored ELSE new

Flush(stored, loaded, new) ==
  [status  |-> Column(loaded.status,  new.status,  stored.status),
   history |-> Column(loaded.history, new.history, stored.history),
   error   |-> Column(loaded.error,   new.error,   stored.error),
   report  |-> Column(loaded.report,  new.report,  stored.report)]

(***************************************************************************)
(* Status events (api/events.py).  An event is numbered by the length of   *)
(* the history it was built from; replaying a row gives one event for each *)
(* prefix of its history.                                                  *)
(***************************************************************************)
RunEvent == [sequence : Nat, status : RunStatus]

StatusEvent(history, status) ==
  [sequence |-> Len(history), status |-> status]

ReplayEvents(row) ==
  [k \in 1..Len(row.history) |->
     StatusEvent(SubSeq(row.history, 1, k), row.history[k])]

IsTerminal(row) == row.status \in TERMINAL_STATUSES

=============================================================================
