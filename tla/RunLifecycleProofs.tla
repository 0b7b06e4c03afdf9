------------------------- MODULE RunLifecycleProofs -------------------------
(***************************************************************************)
(* Theorems about RunLifecycle, for any sets of runs and processes.        *)
(*                                                                         *)
(* 1. Whatever the number of processes: type correctness, the agreement of *)
(*    status and history, and the presence of the report.                  *)
(* 2. With one process: the order of the statuses, the finality of         *)
(*    terminal rows, the absence of orphans and the sparing of live tasks. *)
(***************************************************************************)
EXTENDS RunLifecycle, TLAPS, SequenceTheorems

-----------------------------------------------------------------------------
(***************************************************************************)
(* What the updates of RunRecords do to a row, for every row.              *)
(***************************************************************************)

(* The status column is the last entry of the history column. *)
Consistent(row) ==
  IF row.status = "absent" THEN row.history = <<>>
  ELSE row.history # <<>> /\ LastOf(row.history) = row.status

(* The histories a run goes through when one process serves it, and the    *)
(* columns that go with each of them.                                      *)
Legal(row) ==
  \/ row = NoRow
  \/ /\ row.status = "queued"
     /\ row.history = <<"queued">>
     /\ row.error = "none" /\ row.report = "none"
  \/ /\ row.status = "analyzing"
     /\ row.history = <<"queued", "analyzing">>
     /\ row.error = "none" /\ row.report = "none"
  \/ /\ row.status = "completed"
     /\ row.history = <<"queued", "analyzing", "completed">>
     /\ row.error = "none" /\ row.report # "none"
  \/ /\ row.status = "failed"
     /\ row.history \in {<<"queued", "failed">>,
                         <<"queued", "analyzing", "failed">>}
     /\ row.report = "none"

-----------------------------------------------------------------------------
(***************************************************************************)
(* Sequences.                                                              *)
(***************************************************************************)

(* Appending to the explicit histories of length one and two. *)
LEMMA AppendToOne ==
  ASSUME NEW a \in RunStatus, NEW b \in RunStatus
  PROVE  Append(<<a>>, b) = <<a, b>>
<1> DEFINE s == Append(<<a>>, b)
           t == <<a, b>>
<1>1. s \in Seq(RunStatus) /\ t \in Seq(RunStatus)
  OBVIOUS
<1>2. Len(s) = 2 /\ Len(t) = 2 /\ s[1] = t[1] /\ s[2] = t[2]
  OBVIOUS
<1> HIDE DEF s, t
<1>3. \A i \in 1..Len(s) : s[i] = t[i]
  BY <1>2
<1>4. s = t
  BY <1>1, <1>2, <1>3, SeqEqual
<1> QED
  BY <1>4 DEF s, t

LEMMA AppendToTwo ==
  ASSUME NEW a \in RunStatus, NEW b \in RunStatus, NEW c \in RunStatus
  PROVE  Append(<<a, b>>, c) = <<a, b, c>>
<1> DEFINE s == Append(<<a, b>>, c)
           t == <<a, b, c>>
<1>1. s \in Seq(RunStatus) /\ t \in Seq(RunStatus)
  OBVIOUS
<1>2. /\ Len(s) = 3 /\ Len(t) = 3
      /\ s[1] = t[1] /\ s[2] = t[2] /\ s[3] = t[3]
  OBVIOUS
<1> HIDE DEF s, t
<1>3. \A i \in 1..Len(s) : s[i] = t[i]
  BY <1>2
<1>4. s = t
  BY <1>1, <1>2, <1>3, SeqEqual
<1> QED
  BY <1>4 DEF s, t

-----------------------------------------------------------------------------
(***************************************************************************)
(* Types.                                                                  *)
(***************************************************************************)

LEMMA AppendStatusType ==
  ASSUME NEW h \in Seq(RunStatus), NEW s \in RunStatus
  PROVE  AppendStatus(h, s) \in Seq(RunStatus)
BY DEF AppendStatus

LEMMA ConstantRows == NoRow \in RunRow /\ QueuedRow \in RunRow
BY DEF NoRow, QueuedRow, RunRow, RunStatus, RunError, RunReport

LEMMA WithStatusType ==
  ASSUME NEW row \in RunRow, NEW s \in RunStatus,
         NEW e \in RunError, NEW p \in RunReport
  PROVE  WithStatus(row, s, e, p) \in RunRow
<1>1. AppendStatus(row.history, s) \in Seq(RunStatus)
  BY AppendStatusType DEF RunRow
<1> QED
  BY <1>1 DEF WithStatus, RunRow

LEMMA RecoveredType ==
  ASSUME NEW row \in RunRow
  PROVE  Recovered(row) \in RunRow
<1>1. AppendStatus(row.history, "failed") \in Seq(RunStatus)
  BY AppendStatusType DEF RunRow, RunStatus
<1> QED
  BY <1>1 DEF Recovered, RunRow, RunStatus, RunError

LEMMA FlushType ==
  ASSUME NEW stored \in RunRow, NEW loaded \in RunRow, NEW new \in RunRow
  PROVE  Flush(stored, loaded, new) \in RunRow
BY DEF Flush, Column, RunRow

(* A flush over the row the session loaded stores the session's row. *)
LEMMA FlushUndisturbed ==
  ASSUME NEW loaded \in RunRow, NEW new \in RunRow
  PROVE  Flush(loaded, loaded, new) = new
BY DEF Flush, Column, RunRow

-----------------------------------------------------------------------------
(***************************************************************************)
(* Consistent rows.                                                        *)
(***************************************************************************)

(* An update of a consistent row changes the history exactly when it       *)
(* changes the status, and is consistent again.                            *)
LEMMA AppendStatusTracks ==
  ASSUME NEW row \in RunRow, Consistent(row), NEW s \in RunStatus
  PROVE  LET h == AppendStatus(row.history, s)
         IN /\ h # <<>> /\ LastOf(h) = s
            /\ h = row.history <=> s = row.status
<1>1. row.history \in Seq(RunStatus)
  BY DEF RunRow
<1>2. s # "absent"
  BY DEF RunStatus
<1>3. CASE row.history = <<>> \/ LastOf(row.history) # s
  <2>1. AppendStatus(row.history, s) = Append(row.history, s)
    BY <1>3 DEF AppendStatus
  <2>2. /\ Append(row.history, s) # <<>>
        /\ LastOf(Append(row.history, s)) = s
        /\ Append(row.history, s) # row.history
    BY <1>1 DEF LastOf
  <2>3. s # row.status
    BY <1>2, <1>3 DEF Consistent
  <2> QED
    BY <2>1, <2>2, <2>3
<1>4. CASE ~(row.history = <<>> \/ LastOf(row.history) # s)
  BY <1>4 DEF AppendStatus, Consistent
<1> QED
  BY <1>3, <1>4

(* Column-level updates keep status and history together, whatever was     *)
(* stored in between.                                                      *)
LEMMA FlushWithStatusConsistent ==
  ASSUME NEW stored \in RunRow, Consistent(stored),
         NEW loaded \in RunRow, Consistent(loaded),
         NEW s \in RunStatus, NEW e, NEW p
  PROVE  Consistent(Flush(stored, loaded, WithStatus(loaded, s, e, p)))
<1> DEFINE h == AppendStatus(loaded.history, s)
<1>1. /\ h # <<>> /\ LastOf(h) = s
      /\ h = loaded.history <=> s = loaded.status
  BY AppendStatusTracks
<1>2. s # "absent"
  BY DEF RunStatus
<1> HIDE DEF h
<1>3. WithStatus(loaded, s, e, p).status = s
      /\ WithStatus(loaded, s, e, p).history = h
  BY DEF WithStatus, h
<1> QED
  BY <1>1, <1>2, <1>3 DEF Flush, Column, Consistent

LEMMA FlushRecoveredConsistent ==
  ASSUME NEW stored \in RunRow, Consistent(stored),
         NEW loaded \in RunRow, Consistent(loaded)
  PROVE  Consistent(Flush(stored, loaded, Recovered(loaded)))
<1> DEFINE h == AppendStatus(loaded.history, "failed")
<1>1. /\ h # <<>> /\ LastOf(h) = "failed"
      /\ h = loaded.history <=> "failed" = loaded.status
  BY AppendStatusTracks DEF RunStatus
<1> HIDE DEF h
<1>3. Recovered(loaded).status = "failed" /\ Recovered(loaded).history = h
  BY DEF Recovered, h, RunRow
<1> QED
  BY <1>1, <1>3 DEF Flush, Column, Consistent

-----------------------------------------------------------------------------
(***************************************************************************)
(* Legal rows.                                                             *)
(***************************************************************************)

(* The updates a task makes, from the rows it can find. *)
LEMMA BeginIsLegal ==
  ASSUME NEW row \in RunRow, Legal(row), row.status = "queued"
  PROVE  Legal(WithStatus(row, "analyzing", "none", "none"))
<1>1. row.history = <<"queued">> /\ row.report = "none"
  BY DEF Legal, NoRow
<1>2. AppendStatus(row.history, "analyzing") = <<"queued", "analyzing">>
  <2>1. LastOf(<<"queued">>) # "analyzing" /\ <<"queued">> # <<>>
    BY DEF LastOf
  <2>2. Append(<<"queued">>, "analyzing") = <<"queued", "analyzing">>
    BY AppendToOne DEF RunStatus
  <2> QED
    BY <1>1, <2>1, <2>2 DEF AppendStatus
<1> QED
  BY <1>1, <1>2 DEF Legal, WithStatus

LEMMA CompletionIsLegal ==
  ASSUME NEW row \in RunRow, Legal(row), row.status = "analyzing",
         NEW p \in RunReport, p # "none"
  PROVE  Legal(WithStatus(row, "completed", "none", p))
<1>1. row.history = <<"queued", "analyzing">>
  BY DEF Legal, NoRow
<1>2. AppendStatus(row.history, "completed")
        = <<"queued", "analyzing", "completed">>
  <2>1. /\ LastOf(<<"queued", "analyzing">>) # "completed"
        /\ <<"queued", "analyzing">> # <<>>
    BY DEF LastOf
  <2>2. Append(<<"queued", "analyzing">>, "completed")
          = <<"queued", "analyzing", "completed">>
    BY AppendToTwo DEF RunStatus
  <2> QED
    BY <1>1, <2>1, <2>2 DEF AppendStatus
<1> QED
  BY <1>1, <1>2 DEF Legal, WithStatus

LEMMA FailureHistory ==
  ASSUME NEW row \in RunRow, Legal(row), Interrupted(row)
  PROVE  /\ AppendStatus(row.history, "failed")
              \in {<<"queued", "failed">>, <<"queued", "analyzing", "failed">>}
         /\ row.report = "none"
<1>1. CASE row.status = "queued"
  <2>1. row.history = <<"queued">> /\ row.report = "none"
    BY <1>1 DEF Legal, NoRow
  <2>2. LastOf(<<"queued">>) # "failed" /\ <<"queued">> # <<>>
    BY DEF LastOf
  <2>3. Append(<<"queued">>, "failed") = <<"queued", "failed">>
    BY AppendToOne DEF RunStatus
  <2> QED
    BY <2>1, <2>2, <2>3 DEF AppendStatus
<1>2. CASE row.status = "analyzing"
  <2>1. row.history = <<"queued", "analyzing">> /\ row.report = "none"
    BY <1>2 DEF Legal, NoRow
  <2>2. /\ LastOf(<<"queued", "analyzing">>) # "failed"
        /\ <<"queued", "analyzing">> # <<>>
    BY DEF LastOf
  <2>3. Append(<<"queued", "analyzing">>, "failed")
          = <<"queued", "analyzing", "failed">>
    BY AppendToTwo DEF RunStatus
  <2> QED
    BY <2>1, <2>2, <2>3 DEF AppendStatus
<1> QED
  BY <1>1, <1>2 DEF Interrupted

LEMMA FailureIsLegal ==
  ASSUME NEW row \in RunRow, Legal(row), Interrupted(row), NEW e
  PROVE  Legal(WithStatus(row, "failed", e, "none"))
BY FailureHistory DEF Legal, WithStatus

LEMMA RecoveryIsLegal ==
  ASSUME NEW row \in RunRow, Legal(row), Interrupted(row)
  PROVE  Legal(Recovered(row)) /\ IsTerminal(Recovered(row))
<1>1. /\ Recovered(row).status = "failed"
      /\ Recovered(row).history = AppendStatus(row.history, "failed")
      /\ Recovered(row).report = row.report
  BY DEF Recovered, RunRow
<1> QED
  BY <1>1, FailureHistory DEF Legal, IsTerminal, TERMINAL_STATUSES

-----------------------------------------------------------------------------
(***************************************************************************)
(* Steps.                                                                  *)
(***************************************************************************)

(* Expanding a step into its actions. *)
USE DEF TaskStep, ServerStep, serverVars, taskVars, boundVars, vars

-----------------------------------------------------------------------------
(***************************************************************************)
(* Type correctness.                                                       *)
(***************************************************************************)

LEMMA SetStatusType ==
  ASSUME NEW s \in RunStatus, NEW e \in RunError, NEW p \in RunReport
  PROVE  SetStatus(s, e, p) \in Call
BY ConstantRows DEF SetStatus, Call

LEMMA NewRowType ==
  ASSUME TypeOK, NEW r \in Runs
  PROVE  /\ call[r].row \in RunRow
         /\ NewRow(r) \in RunRow
BY WithStatusType DEF TypeOK, Call, NewRow

LEMMA TypeInit == Init => TypeOK
<1> SUFFICES ASSUME Init PROVE TypeOK
  OBVIOUS
<1>1. (CHOOSE i \in Instances : TRUE) \in Instances
  BY LifecycleAssumption
<1>2. SetStatus("queued", "none", "none") \in Call
  BY SetStatusType DEF RunStatus, RunError, RunReport
<1> QED
  BY <1>1, <1>2, ConstantRows, LifecycleAssumption
     DEF Init, NoCall, NoSnapshot, TypeOK, ServerState, TaskState, Ended, Alive

(* One step for each action. *)
LEMMA TypeStep == TypeOK /\ [Next]_vars => TypeOK'
<1> SUFFICES ASSUME TypeOK, [Next]_vars PROVE TypeOK'
  OBVIOUS
<1> USE DEF TypeOK, ServerState, TaskState, Ended, Alive
<1>1. ASSUME NEW i \in Instances, Start(i) PROVE TypeOK'
  BY <1>1 DEF Start
<1>2. ASSUME NEW i \in Instances, Recover(i) PROVE TypeOK'
  <2>1. \A r \in Runs : db'[r] \in RunRow
    BY <1>2, RecoveredType, FlushType DEF Recover
  <2>2. db' \in [Runs -> RunRow]
    BY <1>2, <2>1 DEF Recover
  <2>3. NoSnapshot \in [Runs -> RunRow]
    BY ConstantRows DEF NoSnapshot
  <2> QED
    BY <1>2, <2>2, <2>3 DEF Recover
<1>3. ASSUME NEW i \in Instances, Crash(i) PROVE TypeOK'
  <2>1. NoCall \in Call
    BY SetStatusType DEF NoCall, RunStatus, RunError, RunReport
  <2>2. NoSnapshot \in [Runs -> RunRow]
    BY ConstantRows DEF NoSnapshot
  <2>3. crashes' \in 0..MaxCrashes
    BY <1>3, LifecycleAssumption DEF Crash
  <2>4. pc' \in [Runs -> TaskState] /\ call' \in [Runs -> Call]
    BY <1>3, <2>1 DEF Crash
  <2> QED
    BY <1>3, <2>2, <2>3, <2>4 DEF Crash
<1>4. ASSUME NEW i \in Instances, NEW r \in Runs, Submit(i, r) PROVE TypeOK'
  <2>1. SetStatus("queued", "none", "none") \in Call
    BY SetStatusType DEF RunStatus, RunError, RunReport
  <2> QED
    BY <1>4, <2>1, ConstantRows DEF Submit, NoCall
<1>5. ASSUME NEW r \in Runs, Publish(r) PROVE TypeOK'
  BY <1>5 DEF Publish
<1>6. ASSUME NEW r \in Runs, NEW s \in RunStatus, NEW e \in RunError,
             NEW p \in RunReport, CallSetStatus(r, s, e, p)
      PROVE  pc' \in [Runs -> TaskState] /\ call' \in [Runs -> Call]
  BY <1>6, SetStatusType DEF CallSetStatus
<1>7. ASSUME NEW r \in Runs, BeginAnalysis(r) PROVE TypeOK'
  BY <1>6, <1>7 DEF BeginAnalysis, RunStatus, RunError, RunReport
<1>8. ASSUME NEW r \in Runs, FinishAnalysis(r) PROVE TypeOK'
  BY <1>6, <1>8 DEF FinishAnalysis, RunStatus, RunError, RunReport
<1>9. ASSUME NEW r \in Runs, RaiseInAnalysis(r) PROVE TypeOK'
  BY <1>6, <1>9 DEF RaiseInAnalysis, RunStatus, RunError, RunReport
<1>10. ASSUME NEW r \in Runs, ReadRow(r) PROVE TypeOK'
  BY <1>10 DEF ReadRow, Call
<1>11. ASSUME NEW r \in Runs, WriteRow(r) PROVE TypeOK'
  <2>1. Flush(db[r], call[r].row, NewRow(r)) \in RunRow
    BY NewRowType, FlushType
  <2> QED
    BY <1>11, <2>1 DEF WriteRow
<1>12. ASSUME NEW r \in Runs, StoreFault(r) PROVE TypeOK'
  <2>1. faults' \in 0..MaxFaults
    BY <1>12, LifecycleAssumption DEF StoreFault
  <2> QED
    BY <1>6, <1>12, <2>1 DEF StoreFault, RunStatus, RunError, RunReport
<1>13. CASE UNCHANGED vars
  BY <1>13
<1> QED
  BY <1>1, <1>2, <1>3, <1>4, <1>5, <1>7, <1>8, <1>9, <1>10, <1>11, <1>12,
     <1>13 DEF Next

(* Every variable keeps its type. *)
THEOREM TypeCorrect == Spec => []TypeOK
BY TypeInit, TypeStep, PTL DEF Spec

-----------------------------------------------------------------------------
(***************************************************************************)
(* Status and history, however many processes share the database.          *)
(*                                                                         *)
(* HistoryEndsWithStatus is not inductive: a flush combines the stored row *)
(* with one read earlier, so the rows still held by tasks and recoveries   *)
(* must be consistent as well.                                             *)
(***************************************************************************)

ConsistencyInv ==
  /\ TypeOK
  /\ \A r \in Runs : Consistent(db[r])
  /\ \A r \in Runs : Consistent(call[r].row)
  /\ \A i \in Instances, r \in Runs : Consistent(snapshot[i][r])

LEMMA ConstantRowsConsistent == Consistent(NoRow) /\ Consistent(QueuedRow)
BY DEF Consistent, NoRow, QueuedRow, LastOf

LEMMA ConsistencyInit == Init => ConsistencyInv
<1> SUFFICES ASSUME Init PROVE ConsistencyInv
  OBVIOUS
<1> QED
  BY TypeInit, ConstantRowsConsistent
     DEF Init, NoCall, NoSnapshot, ConsistencyInv, SetStatus

LEMMA ConsistencyStep == ConsistencyInv /\ [Next]_vars => ConsistencyInv'
<1> SUFFICES ASSUME ConsistencyInv, [Next]_vars PROVE ConsistencyInv'
  OBVIOUS
<1> USE DEF ConsistencyInv
<1>1. TypeOK'
  BY TypeStep
<1>2. ASSUME NEW i \in Instances, Start(i) PROVE ConsistencyInv'
  BY <1>1, <1>2 DEF Start, TypeOK
<1>3. ASSUME NEW i \in Instances, Recover(i) PROVE ConsistencyInv'
  <2>1. \A r \in Runs : Consistent(db'[r])
    BY <1>3, FlushRecoveredConsistent DEF Recover, TypeOK
  <2>2. \A r \in Runs : call'[r] = call[r]
    BY <1>3 DEF Recover, taskVars
  <2>3. ASSUME NEW j \in Instances, NEW r \in Runs
        PROVE  snapshot'[j][r] \in {snapshot[j][r], NoRow}
    BY <1>3 DEF Recover, NoSnapshot, TypeOK
  <2> QED
    BY <1>1, <2>1, <2>2, <2>3, ConstantRowsConsistent
<1>4. ASSUME NEW i \in Instances, Crash(i) PROVE ConsistencyInv'
  <2>1. db' = db
    BY <1>4 DEF Crash
  <2>2. ASSUME NEW r \in Runs PROVE call'[r].row \in {call[r].row, NoRow}
    BY <1>4 DEF Crash, NoCall, SetStatus
  <2>3. ASSUME NEW j \in Instances, NEW r \in Runs
        PROVE  snapshot'[j][r] \in {snapshot[j][r], NoRow}
    BY <1>4 DEF Crash, NoSnapshot, TypeOK
  <2> QED
    BY <1>1, <2>1, <2>2, <2>3, ConstantRowsConsistent
<1>5. ASSUME NEW i \in Instances, NEW r \in Runs, Submit(i, r)
      PROVE  ConsistencyInv'
  BY <1>1, <1>5, ConstantRowsConsistent DEF Submit, NoCall, SetStatus, TypeOK
<1>6. ASSUME NEW r \in Runs, Publish(r) PROVE ConsistencyInv'
  BY <1>1, <1>6 DEF Publish
<1>7. ASSUME NEW r \in Runs, NEW s, NEW e, NEW p, CallSetStatus(r, s, e, p),
             UNCHANGED <<db, snapshot>>
      PROVE  ConsistencyInv'
  BY <1>1, <1>7, ConstantRowsConsistent DEF CallSetStatus, SetStatus, TypeOK
<1>8. ASSUME NEW r \in Runs, BeginAnalysis(r) PROVE ConsistencyInv'
  BY <1>7, <1>8 DEF BeginAnalysis
<1>9. ASSUME NEW r \in Runs, FinishAnalysis(r) PROVE ConsistencyInv'
  BY <1>7, <1>9 DEF FinishAnalysis
<1>10. ASSUME NEW r \in Runs, RaiseInAnalysis(r) PROVE ConsistencyInv'
  BY <1>7, <1>10 DEF RaiseInAnalysis
<1>11. ASSUME NEW r \in Runs, ReadRow(r) PROVE ConsistencyInv'
  BY <1>1, <1>11 DEF ReadRow, TypeOK, Call
<1>12. ASSUME NEW r \in Runs, WriteRow(r) PROVE ConsistencyInv'
  <2>1. /\ db[r] \in RunRow /\ call[r].row \in RunRow
        /\ call[r].status \in RunStatus
    BY DEF TypeOK, Call
  <2>2. Consistent(Flush(db[r], call[r].row, NewRow(r)))
    BY <2>1, FlushWithStatusConsistent DEF NewRow
  <2> QED
    BY <1>1, <1>12, <2>2 DEF WriteRow, TypeOK
<1>13. ASSUME NEW r \in Runs, StoreFault(r) PROVE ConsistencyInv'
  BY <1>1, <1>7, <1>13 DEF StoreFault
<1>14. CASE UNCHANGED vars
  BY <1>1, <1>14
<1> QED
  BY <1>2, <1>3, <1>4, <1>5, <1>6, <1>8, <1>9, <1>10, <1>11, <1>12, <1>13,
     <1>14 DEF Next

(* The status column is the last entry of the history column, for any      *)
(* interleaving of tasks and recoveries of any number of processes.        *)
THEOREM HistoryTracksStatus == Spec => []HistoryEndsWithStatus
<1>1. ConsistencyInv => HistoryEndsWithStatus
  BY DEF ConsistencyInv, Consistent, HistoryEndsWithStatus
<1> QED
  BY <1>1, ConsistencyInit, ConsistencyStep, PTL DEF Spec

-----------------------------------------------------------------------------
(***************************************************************************)
(* The report of a completed run, however many processes share the         *)
(* database.  A flush may leave the report column alone because the        *)
(* session had loaded the same value, so a report that was loaded once     *)
(* must still be stored: reports are never taken back.                     *)
(***************************************************************************)

ReportInv ==
  /\ TypeOK
  /\ CompletedHasReport
  /\ \A r \in Runs :
       /\ call[r].status = "completed" => call[r].report # "none"
       /\ call[r].row.report # "none" => db[r].report # "none"
       /\ pc[r] = "none" => db[r].report = "none"
       /\ \A i \in Instances :
            snapshot[i][r].report # "none" => db[r].report # "none"

LEMMA ReportInit == Init => ReportInv
<1> SUFFICES ASSUME Init PROVE ReportInv
  OBVIOUS
<1> QED
  BY TypeInit
     DEF Init, NoCall, NoSnapshot, ReportInv, CompletedHasReport, SetStatus, NoRow

LEMMA ReportStep == ReportInv /\ [Next]_vars => ReportInv'
<1> SUFFICES ASSUME ReportInv, [Next]_vars PROVE ReportInv'
  OBVIOUS
<1> USE DEF ReportInv, CompletedHasReport
<1>1. TypeOK'
  BY TypeStep
<1>2. ASSUME NEW i \in Instances, Start(i) PROVE ReportInv'
  BY <1>1, <1>2 DEF Start, TypeOK
<1>3. ASSUME NEW i \in Instances, Recover(i) PROVE ReportInv'
  <2>1. ASSUME NEW r \in Runs
        PROVE  /\ db'[r].report = db[r].report
               /\ db'[r].status = "completed" => db[r].status = "completed"
    <3>1. db[r] \in RunRow /\ snapshot[i][r] \in RunRow
      BY DEF TypeOK
    <3> DEFINE loaded == snapshot[i][r]
               new    == Recovered(snapshot[i][r])
    <3>2. CASE Interrupted(loaded)
      <4>1. new.status = "failed" /\ new.report = loaded.report
        BY <3>1 DEF Recovered, RunRow
      <4>2. loaded.status # "failed"
        BY <3>2 DEF Interrupted
      <4>3. db'[r] = Flush(db[r], loaded, new)
        BY <1>3, <3>2 DEF Recover
      <4> HIDE DEF new
      <4> QED
        BY <4>1, <4>2, <4>3 DEF Flush, Column
    <3>3. CASE ~Interrupted(loaded)
      BY <1>3, <3>3 DEF Recover
    <3> QED
      BY <3>2, <3>3
  <2>2. pc' = pc /\ call' = call
    BY <1>3 DEF Recover, taskVars
  <2>3. ASSUME NEW j \in Instances, NEW r \in Runs
        PROVE  snapshot'[j][r].report \in {snapshot[j][r].report, "none"}
    BY <1>3 DEF Recover, NoSnapshot, NoRow, TypeOK
  <2> QED
    BY <1>1, <2>1, <2>2, <2>3
<1>4. ASSUME NEW i \in Instances, Crash(i) PROVE ReportInv'
  <2>1. db' = db
    BY <1>4 DEF Crash
  <2>2. ASSUME NEW r \in Runs
        PROVE  \/ pc'[r] = pc[r] /\ call'[r] = call[r]
               \/ pc'[r] = "lost" /\ pc[r] # "none" /\ call'[r] = NoCall
    BY <1>4 DEF Crash, DiesWith, Alive, TypeOK
  <2>3. NoCall.status = "queued" /\ NoCall.report = "none" /\ NoCall.row.report = "none"
    BY DEF NoCall, SetStatus, NoRow
  <2>4. ASSUME NEW j \in Instances, NEW r \in Runs
        PROVE  snapshot'[j][r].report \in {snapshot[j][r].report, "none"}
    BY <1>4 DEF Crash, NoSnapshot, NoRow, TypeOK
  <2> QED
    BY <1>1, <2>1, <2>2, <2>3, <2>4
<1>5. ASSUME NEW i \in Instances, NEW r \in Runs, Submit(i, r)
      PROVE  ReportInv'
  <2>1. /\ QueuedRow.status # "completed" /\ QueuedRow.report = "none"
        /\ NoRow.report = "none"
    BY DEF QueuedRow, NoRow
  <2>2. /\ db' = [db EXCEPT ![r] = QueuedRow]
        /\ call' = [call EXCEPT ![r] = SetStatus("queued", "none", "none")]
        /\ pc' = [pc EXCEPT ![r] = "publish"]
        /\ snapshot' = snapshot
        /\ db[r].report = "none"
    BY <1>5 DEF Submit, NoCall
  <2> QED
    BY <1>1, <2>1, <2>2 DEF SetStatus, TypeOK
<1>6. ASSUME NEW r \in Runs, Publish(r) PROVE ReportInv'
  BY <1>1, <1>6 DEF Publish, TypeOK
<1>7. ASSUME NEW r \in Runs, NEW s, NEW e, NEW p, CallSetStatus(r, s, e, p),
             s = "completed" => p # "none", UNCHANGED <<db, snapshot>>
      PROVE  ReportInv'
  BY <1>1, <1>7 DEF CallSetStatus, SetStatus, TypeOK, NoRow
<1>8. ASSUME NEW r \in Runs, BeginAnalysis(r) PROVE ReportInv'
  BY <1>7, <1>8 DEF BeginAnalysis
<1>9. ASSUME NEW r \in Runs, FinishAnalysis(r) PROVE ReportInv'
  BY <1>7, <1>9 DEF FinishAnalysis
<1>10. ASSUME NEW r \in Runs, RaiseInAnalysis(r) PROVE ReportInv'
  BY <1>7, <1>10 DEF RaiseInAnalysis
<1>11. ASSUME NEW r \in Runs, ReadRow(r) PROVE ReportInv'
  BY <1>1, <1>11 DEF ReadRow, TypeOK, Call
<1>12. ASSUME NEW r \in Runs, WriteRow(r) PROVE ReportInv'
  <2> DEFINE loaded == call[r].row
             new    == NewRow(r)
             stored == Flush(db[r], loaded, new)
  <2>1. /\ new.status = call[r].status
        /\ new.report = IF call[r].report = "none" THEN loaded.report
                        ELSE call[r].report
    BY DEF NewRow, WithStatus
  <2>2. db' = [db EXCEPT ![r] = stored] /\ pc[r] = "writing"
    BY <1>12 DEF WriteRow
  <2>3. /\ stored.status = Column(loaded.status, new.status, db[r].status)
        /\ stored.report = Column(loaded.report, new.report, db[r].report)
    BY DEF Flush
  <2> HIDE DEF new, stored
  <2>4. db[r].report # "none" => stored.report # "none"
    BY <2>1, <2>3 DEF Column
  <2>5. stored.status = "completed" => stored.report # "none"
    BY <2>1, <2>3, <2>4 DEF Column
  <2> QED
    BY <1>1, <1>12, <2>2, <2>4, <2>5 DEF WriteRow, TypeOK
<1>13. ASSUME NEW r \in Runs, StoreFault(r) PROVE ReportInv'
  BY <1>1, <1>7, <1>13 DEF StoreFault, TypeOK
<1>14. CASE UNCHANGED vars
  BY <1>1, <1>14
<1> QED
  BY <1>2, <1>3, <1>4, <1>5, <1>6, <1>8, <1>9, <1>10, <1>11, <1>12, <1>13,
     <1>14 DEF Next

(* A run shown as completed has a report, for any interleaving of the      *)
(* column-level writes of tasks and recoveries of any number of processes. *)
THEOREM CompletedRunsHaveReports == Spec => []CompletedHasReport
<1>1. ReportInv => CompletedHasReport
  BY DEF ReportInv
<1> QED
  BY <1>1, ReportInit, ReportStep, PTL DEF Spec

-----------------------------------------------------------------------------
(***************************************************************************)
(* One process.                                                            *)
(*                                                                         *)
(* A write is harmless when the row it was computed from is still the row  *)
(* stored.  Only three actions change db: Submit, on runs without a task;  *)
(* Recover, when no task is alive (ServerInv); and WriteRow, on the task's *)
(* own run.  So a task holds the stored row from ReadRow to WriteRow       *)
(* (TaskInv), and its call is one the stored status permits (Permitted).   *)
(***************************************************************************)

Permitted(row, c) ==
  \/ /\ c.status = "analyzing" /\ row.status = "queued"
     /\ c.error = "none" /\ c.report = "none"
  \/ /\ c.status = "completed" /\ row.status = "analyzing"
     /\ c.error = "none" /\ c.report # "none"
  \/ /\ c.status = "failed" /\ Interrupted(row)
     /\ c.report = "none"

TaskInv(r) ==
  /\ Legal(db[r])
  /\ pc[r] = "none" <=> db[r] = NoRow
  /\ pc[r] = "publish" => db[r].status = call[r].status
  /\ pc[r] = "scheduled" => db[r].status = "queued" /\ call[r].status = "queued"
  /\ pc[r] = "working" => db[r].status = "analyzing"
  /\ pc[r] \in {"reading", "writing"} => Permitted(db[r], call[r])
  /\ pc[r] = "writing" => call[r].row = db[r]
  /\ pc[r] = "done" => IsTerminal(db[r])

ServerInv(i) ==
  /\ server[i] # "serving" => \A r \in Runs : pc[r] \in Ended
  /\ server[i] = "recovering" => snapshot[i] = db
  /\ server[i] = "serving" =>
       \A r \in Runs : pc[r] = "lost" => IsTerminal(db[r])

SingleInv ==
  /\ TypeOK
  /\ \A r \in Runs : TaskInv(r)
  /\ \A i \in Instances : ServerInv(i)

LEMMA SingleInit == Init => SingleInv
<1> SUFFICES ASSUME Init PROVE SingleInv
  OBVIOUS
<1>1. \A r \in Runs : db[r] = NoRow /\ pc[r] = "none"
  BY DEF Init
<1>2. \A i \in Instances : server[i] = "down"
  BY DEF Init
<1> QED
  BY <1>1, <1>2, TypeInit DEF SingleInv, TaskInv, ServerInv, Legal, Ended

(* What a write stores, when the task still holds the stored row. *)
LEMMA PermittedWrite ==
  ASSUME SingleInv, NEW r \in Runs, pc[r] = "writing"
  PROVE  LET new == Flush(db[r], call[r].row, NewRow(r))
         IN /\ Legal(new) /\ new # NoRow
            /\ new.status = call[r].status
            /\ ~IsTerminal(db[r])
<1>1. /\ db[r] \in RunRow /\ call[r] \in Call /\ call[r].row = db[r]
      /\ Legal(db[r]) /\ Permitted(db[r], call[r])
  BY DEF SingleInv, TaskInv, TypeOK
<1>2. Flush(db[r], call[r].row, NewRow(r)) = NewRow(r)
  BY <1>1, NewRowType, FlushUndisturbed DEF SingleInv
<1>3. NewRow(r) = WithStatus(db[r], call[r].status, call[r].error, call[r].report)
  BY <1>1 DEF NewRow
<1>4. NewRow(r).status = call[r].status /\ call[r].status \in RunStatus
  BY <1>1, <1>3 DEF WithStatus, Call
<1>5. Legal(NewRow(r))
  BY <1>1, <1>3, BeginIsLegal, CompletionIsLegal, FailureIsLegal
     DEF Permitted, Call
<1>6. ~IsTerminal(db[r])
  BY <1>1 DEF Permitted, Interrupted, IsTerminal, TERMINAL_STATUSES
<1> QED
  BY <1>2, <1>4, <1>5, <1>6 DEF NoRow, RunStatus

(* What a recovery stores, when no task is alive. *)
LEMMA UndisturbedRecovery ==
  ASSUME SingleInv, NEW i \in Instances, Recover(i), NEW r \in Runs
  PROVE  /\ pc[r] \in Ended
         /\ Legal(db'[r])
         /\ db'[r] = NoRow <=> db[r] = NoRow
         /\ IsTerminal(db[r]) => db'[r] = db[r]
         /\ db[r] # NoRow => IsTerminal(db'[r])
<1>1. db[r] \in RunRow /\ Legal(db[r]) /\ snapshot[i] = db /\ pc[r] \in Ended
  BY DEF SingleInv, TaskInv, ServerInv, TypeOK, Recover
<1>2. CASE Interrupted(db[r])
  <2>1. db'[r] = Recovered(db[r])
    BY <1>1, <1>2, RecoveredType, FlushUndisturbed DEF Recover
  <2>2. Legal(Recovered(db[r])) /\ IsTerminal(Recovered(db[r]))
    BY <1>1, <1>2, RecoveryIsLegal
  <2>3. ~IsTerminal(NoRow) /\ ~IsTerminal(db[r]) /\ db[r] # NoRow
    BY <1>2 DEF IsTerminal, NoRow, TERMINAL_STATUSES, Interrupted
  <2> QED
    BY <1>1, <2>1, <2>2, <2>3
<1>3. CASE ~Interrupted(db[r])
  <2>1. db'[r] = db[r]
    BY <1>1, <1>3 DEF Recover
  <2>2. db[r] # NoRow => IsTerminal(db[r])
    BY <1>1, <1>3 DEF Legal, Interrupted, IsTerminal, TERMINAL_STATUSES
  <2> QED
    BY <1>1, <2>1, <2>2
<1> QED
  BY <1>2, <1>3

(* A step of the task of run r: what has to be shown about r alone. *)
LEMMA TaskStepKeepsRest ==
  ASSUME SingleInv, NEW r \in Runs, TypeOK', UNCHANGED <<server, snapshot>>,
         pc[r] \in Alive, pc'[r] # "lost",
         \A q \in Runs \ {r} : /\ pc'[q] = pc[q]
                               /\ call'[q] = call[q]
                               /\ db'[q] = db[q],
         TaskInv(r)'
  PROVE  SingleInv'
<1>1. ASSUME NEW q \in Runs, q # r PROVE TaskInv(q)'
  BY <1>1 DEF SingleInv, TaskInv
<1>2. ASSUME NEW i \in Instances PROVE server[i] = "serving"
  BY DEF SingleInv, ServerInv, Alive, Ended
<1>3. ASSUME NEW i \in Instances PROVE ServerInv(i)'
  BY <1>2 DEF SingleInv, ServerInv
<1> QED
  BY <1>1, <1>3 DEF SingleInv

LEMMA SingleStep ==
  ASSUME SingleInstance
  PROVE  SingleInv /\ [Next]_vars => SingleInv'
<1> SUFFICES ASSUME SingleInv, [Next]_vars PROVE SingleInv'
  OBVIOUS
<1>1. TypeOK /\ TypeOK'
  BY TypeStep DEF SingleInv
<1>2. ASSUME NEW i \in Instances, Start(i) PROVE SingleInv'
  <2>1. \A j \in Instances : j = i
    BY DEF SingleInstance
  <2>2. \A r \in Runs : TaskInv(r)'
    BY <1>2 DEF SingleInv, TaskInv, Start
  <2>3. \A r \in Runs : pc[r] \in Ended
    BY <1>2 DEF SingleInv, ServerInv, Start
  <2>4. ServerInv(i)'
    BY <1>1, <1>2, <2>3 DEF ServerInv, Start, TypeOK
  <2> QED
    BY <1>1, <2>1, <2>2, <2>4 DEF SingleInv
<1>3. ASSUME NEW i \in Instances, Recover(i) PROVE SingleInv'
  <2>1. \A j \in Instances : j = i
    BY DEF SingleInstance
  <2>2. pc' = pc /\ call' = call /\ server'[i] = "serving"
    BY <1>1, <1>3 DEF Recover, TypeOK
  <2>3. ASSUME NEW r \in Runs PROVE TaskInv(r)'
    <3>1. /\ pc[r] \in Ended /\ Legal(db'[r])
          /\ db'[r] = NoRow <=> db[r] = NoRow
          /\ IsTerminal(db[r]) => db'[r] = db[r]
      BY <1>3, UndisturbedRecovery
    <3>2. TaskInv(r)
      BY DEF SingleInv
    <3> QED
      BY <2>2, <3>1, <3>2 DEF TaskInv, Ended
  <2>4. ASSUME NEW r \in Runs, pc[r] = "lost" PROVE IsTerminal(db'[r])
    <3>1. db[r] # NoRow
      BY <2>4 DEF SingleInv, TaskInv
    <3> QED
      BY <1>3, <3>1, UndisturbedRecovery
  <2>5. ServerInv(i)'
    BY <2>2, <2>4 DEF ServerInv, IsTerminal
  <2> QED
    BY <1>1, <2>1, <2>3, <2>5 DEF SingleInv
<1>4. ASSUME NEW i \in Instances, Crash(i) PROVE SingleInv'
  <2>1. \A j \in Instances : j = i
    BY DEF SingleInstance
  <2>2. server'[i] = "down" /\ db' = db
    BY <1>1, <1>4 DEF Crash, TypeOK
  <2>3. ASSUME NEW r \in Runs
        PROVE  IF pc[r] \in Alive \cup {"stuck"} THEN pc'[r] = "lost"
               ELSE pc'[r] = pc[r] /\ call'[r] = call[r]
    BY <1>1, <1>4, <2>1 DEF Crash, DiesWith, TypeOK
  <2>4. ASSUME NEW r \in Runs PROVE TaskInv(r)'
    <3>1. TaskInv(r) /\ pc[r] \in TaskState
      BY <1>1 DEF SingleInv, TypeOK
    <3> QED
      BY <2>2, <2>3, <3>1 DEF TaskInv, TaskState, Alive, Ended
  <2>5. ServerInv(i)'
    BY <1>1, <2>2, <2>3 DEF ServerInv, TypeOK, TaskState, Alive, Ended
  <2> QED
    BY <1>1, <2>1, <2>4, <2>5 DEF SingleInv
<1>5. ASSUME NEW i \in Instances, NEW r \in Runs, Submit(i, r) PROVE SingleInv'
  <2>1. \A j \in Instances : j = i
    BY DEF SingleInstance
  <2>2. /\ server[i] = "serving" /\ server' = server /\ snapshot' = snapshot
        /\ pc'[r] = "publish" /\ db'[r] = QueuedRow
        /\ call'[r].status = "queued"
    BY <1>1, <1>5 DEF Submit, NoCall, TypeOK, SetStatus
  <2>3. ASSUME NEW q \in Runs, q # r
        PROVE  pc'[q] = pc[q] /\ call'[q] = call[q] /\ db'[q] = db[q]
    BY <1>1, <1>5, <2>3 DEF Submit, TypeOK
  <2>4. Legal(QueuedRow) /\ QueuedRow # NoRow /\ QueuedRow.status = "queued"
    BY DEF QueuedRow, NoRow, Legal
  <2>5. ASSUME NEW q \in Runs PROVE TaskInv(q)'
    BY <2>2, <2>3, <2>4 DEF SingleInv, TaskInv
  <2>6. ServerInv(i)'
    BY <2>2, <2>3 DEF SingleInv, ServerInv
  <2> QED
    BY <1>1, <2>1, <2>5, <2>6 DEF SingleInv
<1>6. ASSUME NEW r \in Runs, Publish(r) PROVE SingleInv'
  <2>1. call[r].status \in RunStatus /\ TaskInv(r) /\ pc[r] = "publish"
    BY <1>1, <1>6 DEF SingleInv, TypeOK, Call, Publish
  <2>2. pc'[r] = CASE call[r].status = "queued"    -> "scheduled"
                   [] call[r].status = "analyzing" -> "working"
                   [] OTHER                        -> "done"
    BY <1>1, <1>6 DEF Publish, TypeOK
  <2>3. /\ db' = db /\ call' = call /\ server' = server /\ snapshot' = snapshot
        /\ \A q \in Runs \ {r} : pc'[q] = pc[q]
    BY <1>1, <1>6 DEF Publish, TypeOK
  <2>4. pc'[r] \in {"scheduled", "working", "done"}
    BY <2>1, <2>2 DEF RunStatus
  <2>5. TaskInv(r)'
    BY <2>1, <2>2, <2>3
       DEF TaskInv, RunStatus, IsTerminal, TERMINAL_STATUSES
  <2> QED
    BY <1>1, <2>1, <2>3, <2>4, <2>5, TaskStepKeepsRest DEF Alive
<1>7. ASSUME NEW r \in Runs, NEW s, NEW e, NEW p, CallSetStatus(r, s, e, p),
             pc[r] \in Alive, UNCHANGED <<db, server, snapshot>>,
             Permitted(db[r], SetStatus(s, e, p))
      PROVE  SingleInv'
  <2>1. /\ pc'[r] = "reading" /\ call'[r] = SetStatus(s, e, p)
        /\ \A q \in Runs \ {r} : pc'[q] = pc[q] /\ call'[q] = call[q]
    BY <1>1, <1>7 DEF CallSetStatus, TypeOK
  <2>2. TaskInv(r) /\ pc[r] # "none"
    BY <1>7 DEF SingleInv, Alive
  <2>3. TaskInv(r)'
    BY <1>7, <2>1, <2>2 DEF TaskInv
  <2> QED
    BY <1>1, <1>7, <2>1, <2>3, TaskStepKeepsRest
<1>8. ASSUME NEW r \in Runs, BeginAnalysis(r) PROVE SingleInv'
  <2>1. Permitted(db[r], SetStatus("analyzing", "none", "none"))
    BY <1>8 DEF SingleInv, TaskInv, BeginAnalysis, Permitted, SetStatus
  <2> QED
    BY <1>7, <1>8, <2>1 DEF BeginAnalysis, Alive
<1>9. ASSUME NEW r \in Runs, FinishAnalysis(r) PROVE SingleInv'
  <2>1. PICK report \in {"clean", "violations"} :
          CallSetStatus(r, "completed", "none", report)
    BY <1>9 DEF FinishAnalysis
  <2>2. Permitted(db[r], SetStatus("completed", "none", report))
    BY <1>9 DEF SingleInv, TaskInv, FinishAnalysis, Permitted, SetStatus
  <2> QED
    BY <1>7, <1>9, <2>1, <2>2 DEF FinishAnalysis, Alive
<1>10. ASSUME NEW r \in Runs, RaiseInAnalysis(r) PROVE SingleInv'
  <2>1. PICK error \in {"raised", "none"} :
          CallSetStatus(r, "failed", error, "none")
    BY <1>10 DEF RaiseInAnalysis
  <2>2. Permitted(db[r], SetStatus("failed", error, "none"))
    BY <1>10 DEF SingleInv, TaskInv, RaiseInAnalysis, Permitted, SetStatus,
                Interrupted
  <2> QED
    BY <1>7, <1>10, <2>1, <2>2 DEF RaiseInAnalysis, Alive
<1>11. ASSUME NEW r \in Runs, ReadRow(r) PROVE SingleInv'
  <2>1. /\ pc[r] = "reading" /\ pc'[r] = "writing"
        /\ call'[r] = [call[r] EXCEPT !.row = db[r]]
        /\ UNCHANGED <<db, server, snapshot>>
        /\ \A q \in Runs \ {r} : pc'[q] = pc[q] /\ call'[q] = call[q]
    BY <1>1, <1>11 DEF ReadRow, TypeOK
  <2>2. /\ call'[r].row = db[r] /\ call'[r].status = call[r].status
        /\ call'[r].error = call[r].error /\ call'[r].report = call[r].report
    BY <1>1, <2>1 DEF TypeOK, Call
  <2>3. TaskInv(r)'
    BY <2>1, <2>2 DEF SingleInv, TaskInv, Permitted
  <2> QED
    BY <1>1, <2>1, <2>3, TaskStepKeepsRest DEF Alive
<1>12. ASSUME NEW r \in Runs, WriteRow(r) PROVE SingleInv'
  <2> DEFINE new == Flush(db[r], call[r].row, NewRow(r))
  <2>1. /\ pc[r] = "writing" /\ pc'[r] = "publish" /\ db'[r] = new
        /\ UNCHANGED <<call, server, snapshot>>
        /\ \A q \in Runs \ {r} : pc'[q] = pc[q] /\ db'[q] = db[q]
    BY <1>1, <1>12 DEF WriteRow, TypeOK
  <2>2. Legal(new) /\ new # NoRow /\ new.status = call[r].status
    BY <2>1, PermittedWrite
  <2> HIDE DEF new
  <2>3. TaskInv(r)'
    BY <2>1, <2>2 DEF TaskInv
  <2> QED
    BY <1>1, <2>1, <2>3, TaskStepKeepsRest DEF Alive
<1>13. ASSUME NEW r \in Runs, StoreFault(r) PROVE SingleInv'
  <2>1. /\ TaskInv(r) /\ pc[r] \in {"scheduled", "reading", "writing"}
        /\ UNCHANGED <<db, server, snapshot>>
    BY <1>13 DEF SingleInv, StoreFault
  <2>2. CASE call[r].status = "failed"
    <3>1. /\ pc'[r] = "stuck" /\ call' = call
          /\ \A q \in Runs \ {r} : pc'[q] = pc[q]
      BY <1>1, <1>13, <2>2 DEF StoreFault, TypeOK
    <3>2. TaskInv(r)'
      BY <2>1, <3>1 DEF TaskInv
    <3> QED
      BY <1>1, <2>1, <3>1, <3>2, TaskStepKeepsRest DEF Alive
  <2>3. CASE call[r].status # "failed"
    <3>1. CallSetStatus(r, "failed", "raised", "none")
      BY <1>13, <2>3 DEF StoreFault
    <3>2. Permitted(db[r], SetStatus("failed", "raised", "none"))
      BY <2>1, <2>3 DEF TaskInv, Permitted, SetStatus, Interrupted
    <3> QED
      BY <1>7, <2>1, <3>1, <3>2 DEF Alive
  <2> QED
    BY <2>2, <2>3
<1>14. CASE UNCHANGED vars
  <2>1. \A r \in Runs : TaskInv(r)'
    BY <1>14 DEF SingleInv, TaskInv
  <2>2. \A i \in Instances : ServerInv(i)'
    BY <1>14 DEF SingleInv, ServerInv
  <2> QED
    BY <1>1, <2>1, <2>2 DEF SingleInv
<1> QED
  BY <1>2, <1>3, <1>4, <1>5, <1>6, <1>8, <1>9, <1>10, <1>11, <1>12, <1>13,
     <1>14 DEF Next

THEOREM SingleInvariant ==
  ASSUME SingleInstance
  PROVE  Spec => []SingleInv
BY SingleInit, SingleStep, PTL DEF Spec

(* No status is repeated, skipped or taken back: every stored history is a *)
(* prefix of queued -> analyzing -> completed | failed, or an early end.   *)
THEOREM StatusesInOrder ==
  ASSUME SingleInstance
  PROVE  Spec => []LifecycleOrder
<1>1. ASSUME NEW row, Legal(row) PROVE row.history \in LegalHistories
  <2>1. CASE row = NoRow
    BY <2>1 DEF NoRow, LegalHistories
  <2>2. CASE row # NoRow
    BY <1>1, <2>2 DEF Legal, LegalHistories
  <2> QED
    BY <2>1, <2>2
<1>2. SingleInv => LifecycleOrder
  BY <1>1 DEF SingleInv, TaskInv, LifecycleOrder
<1> QED
  BY <1>2, SingleInvariant, PTL

(* Only a completed run has a report; an unfinished or completed run has   *)
(* no error.                                                               *)
THEOREM ColumnsAgree ==
  ASSUME SingleInstance
  PROVE  Spec => []RowMatchesOutcome
<1>1. SingleInv => RowMatchesOutcome
  BY DEF SingleInv, TaskInv, Legal, RowMatchesOutcome, NoRow
<1> QED
  BY <1>1, SingleInvariant, PTL

(* While a process serves, a run whose task was lost is terminal.          *)
THEOREM NobodyWaitsForLostTasks ==
  ASSUME SingleInstance
  PROVE  Spec => []NoOrphans
<1>1. SingleInv => NoOrphans
  BY DEF SingleInv, ServerInv, NoOrphans
<1> QED
  BY <1>1, SingleInvariant, PTL

(* What a step does to the rows: nothing; or it submits, recovers or writes. *)
LEMMA RowChanges ==
  ASSUME [Next]_vars
  PROVE  \/ UNCHANGED db
         \/ \E i \in Instances : Recover(i)
         \/ \E i \in Instances, r \in Runs : Submit(i, r)
         \/ \E r \in Runs : WriteRow(r)
BY DEF Next, Start, Crash, Publish, BeginAnalysis, FinishAnalysis,
       RaiseInAnalysis, ReadRow, StoreFault

(* No task and no recovery writes a terminal row again.                    *)
THEOREM TerminalRowsAreFinal ==
  ASSUME SingleInstance
  PROVE  Spec => TerminalIsFinal
<1>1. ASSUME SingleInv, [Next]_vars, NEW r \in Runs, IsTerminal(db[r])
      PROVE  db'[r] = db[r]
  <2>1. CASE UNCHANGED db
    BY <2>1
  <2>2. ASSUME NEW i \in Instances, Recover(i) PROVE db'[r] = db[r]
    BY <1>1, <2>2, UndisturbedRecovery
  <2>3. ASSUME NEW i \in Instances, NEW q \in Runs, Submit(i, q)
        PROVE  db'[r] = db[r]
    <3>1. db[q] = NoRow
      BY <1>1, <2>3 DEF SingleInv, TaskInv, Submit
    <3>2. q # r
      BY <1>1, <3>1 DEF IsTerminal, NoRow, TERMINAL_STATUSES
    <3> QED
      BY <1>1, <2>3, <3>2 DEF Submit, SingleInv, TypeOK
  <2>4. ASSUME NEW q \in Runs, WriteRow(q) PROVE db'[r] = db[r]
    <3>1. ~IsTerminal(db[q])
      BY <1>1, <2>4, PermittedWrite DEF WriteRow
    <3> QED
      BY <1>1, <2>4, <3>1 DEF WriteRow, SingleInv, TypeOK
  <2> QED
    BY <1>1, <2>1, <2>2, <2>3, <2>4, RowChanges
<1>2. SingleInv /\ [Next]_vars
        => [\A r \in Runs : IsTerminal(db[r]) => db'[r] = db[r]]_vars
  BY <1>1
<1> QED
  BY <1>2, SingleInvariant, PTL DEF Spec, TerminalIsFinal

(* A row is changed only by the task it belongs to, or when it has none:   *)
(* recovery never fails a run somebody is working on.                      *)
THEOREM LiveTasksAreSpared ==
  ASSUME SingleInstance
  PROVE  Spec => RecoverySparesLiveTasks
<1>1. ASSUME SingleInv, [Next]_vars, NEW r \in Runs,
             pc[r] \in Alive, db'[r] # db[r]
      PROVE  pc'[r] # pc[r]
  <2>1. ASSUME NEW i \in Instances, Recover(i) PROVE FALSE
    BY <1>1, <2>1, UndisturbedRecovery DEF Alive, Ended
  <2>2. ASSUME NEW i \in Instances, NEW q \in Runs, Submit(i, q)
        PROVE  FALSE
    <3>1. q = r
      BY <1>1, <2>2 DEF Submit, SingleInv, TypeOK
    <3> QED
      BY <1>1, <2>2, <3>1 DEF Submit, Alive
  <2>3. ASSUME NEW q \in Runs, WriteRow(q) PROVE pc'[r] # pc[r]
    <3>1. q = r
      BY <1>1, <2>3 DEF WriteRow, SingleInv, TypeOK
    <3> QED
      BY <1>1, <2>3, <3>1 DEF WriteRow, SingleInv, TypeOK
  <2> QED
    BY <1>1, <2>1, <2>2, <2>3, RowChanges
<1>2. SingleInv /\ [Next]_vars
        => [\A r \in Runs :
              pc[r] \in Alive /\ db'[r] # db[r] => pc'[r] # pc[r]]_vars
  BY <1>1
<1> QED
  BY <1>2, SingleInvariant, PTL DEF Spec, RecoverySparesLiveTasks

(* A history that is kept, or extended by one status, grows at its end. *)
LEMMA GrowsAtEnd ==
  ASSUME NEW h \in Seq(RunStatus), NEW g \in Seq(RunStatus),
         g = h \/ \E s \in RunStatus : g = Append(h, s)
  PROVE  Len(g) \in Len(h)..(Len(h) + 1) /\ SubSeq(g, 1, Len(h)) = h
<1>1. Len(h) \in Nat /\ Len(g) \in Len(h)..(Len(h) + 1)
  OBVIOUS
<1>2. \A i \in 1..Len(h) : g[i] = h[i] /\ g[i] \in RunStatus
  OBVIOUS
<1>3. /\ SubSeq(g, 1, Len(h)) \in Seq(RunStatus)
      /\ Len(SubSeq(g, 1, Len(h))) = Len(h)
      /\ \A i \in 1..Len(h) : SubSeq(g, 1, Len(h))[i] = h[i]
  BY <1>1, <1>2, SubSeqProperties
<1> QED
  BY <1>1, <1>3, SeqEqual

(* Every step keeps the history of a run or extends it by one status: a    *)
(* client that has been shown n statuses need only be shown the rest.      *)
THEOREM HistoriesGrow ==
  ASSUME SingleInstance
  PROVE  Spec => HistoryGrowsAtEnd
<1>1. ASSUME NEW row \in RunRow, NEW s \in RunStatus
      PROVE  \/ AppendStatus(row.history, s) = row.history
             \/ AppendStatus(row.history, s) = Append(row.history, s)
  BY DEF AppendStatus
<1>2. ASSUME SingleInv, [Next]_vars, NEW r \in Runs
      PROVE  \/ db'[r].history = db[r].history
             \/ \E s \in RunStatus : db'[r].history = Append(db[r].history, s)
  <2>1. db[r] \in RunRow /\ call[r] \in Call
    BY <1>2 DEF SingleInv, TypeOK
  <2>2. CASE UNCHANGED db
    BY <2>2
  <2>3. ASSUME NEW i \in Instances, Recover(i),
               Interrupted(db[r])
        PROVE  \/ db'[r].history = db[r].history
               \/ db'[r].history = Append(db[r].history, "failed")
    <3>1. snapshot[i] = db
      BY <1>2, <2>3 DEF SingleInv, ServerInv, Recover
    <3>2. db'[r] = Recovered(db[r])
      BY <2>1, <2>3, <3>1, RecoveredType, FlushUndisturbed DEF Recover
    <3>3. db'[r].history = AppendStatus(db[r].history, "failed")
      BY <2>1, <3>2 DEF Recovered, RunRow
    <3> QED
      BY <1>1, <2>1, <3>3 DEF RunStatus
  <2>4. ASSUME NEW i \in Instances, Recover(i), ~Interrupted(db[r])
        PROVE  db'[r] = db[r]
    <3>1. snapshot[i] = db
      BY <1>2, <2>4 DEF SingleInv, ServerInv, Recover
    <3> QED
      BY <2>4, <3>1 DEF Recover
  <2>5. ASSUME NEW i \in Instances, NEW q \in Runs, Submit(i, q)
        PROVE  \/ db'[r] = db[r]
               \/ db[r] = NoRow /\ db'[r] = QueuedRow
    BY <1>2, <2>5 DEF Submit, SingleInv, TaskInv, TypeOK
  <2>6. NoRow.history = <<>> /\ QueuedRow.history = Append(<<>>, "queued")
    BY DEF NoRow, QueuedRow
  <2>7. ASSUME NEW q \in Runs, WriteRow(q)
        PROVE  \/ db'[r] = db[r]
               \/ db'[r].history = AppendStatus(db[r].history, call[r].status)
    <3>1. CASE q # r
      BY <1>2, <2>7, <3>1 DEF WriteRow, SingleInv, TypeOK
    <3>2. CASE q = r
      <4>1. call[r].row = db[r]
        BY <1>2, <2>7, <3>2 DEF WriteRow, SingleInv, TaskInv
      <4>2. Flush(db[r], call[r].row, NewRow(r)) = NewRow(r)
        BY <1>2, <2>1, <4>1, NewRowType, FlushUndisturbed DEF SingleInv
      <4>3. db'[r] = NewRow(r)
        BY <1>2, <2>7, <3>2, <4>2 DEF WriteRow, SingleInv, TypeOK
      <4> QED
        BY <4>1, <4>3 DEF NewRow, WithStatus
    <3> QED
      BY <3>1, <3>2
  <2>8. call[r].status \in RunStatus /\ "failed" \in RunStatus
        /\ "queued" \in RunStatus
    BY <2>1 DEF Call, RunStatus
  <2> QED
    BY <1>1, <1>2, <2>1, <2>2, <2>3, <2>4, <2>5, <2>6, <2>7, <2>8, RowChanges
<1>3. SingleInv /\ SingleInv' /\ [Next]_vars
        => [\A r \in Runs :
              LET n == Len(db[r].history)
              IN /\ Len(db'[r].history) \in n..(n + 1)
                 /\ SubSeq(db'[r].history, 1, n) = db[r].history]_vars
  <2> SUFFICES ASSUME SingleInv, SingleInv', [Next]_vars, NEW r \in Runs
               PROVE  /\ Len(db'[r].history)
                            \in Len(db[r].history)..(Len(db[r].history) + 1)
                      /\ SubSeq(db'[r].history, 1, Len(db[r].history))
                            = db[r].history
    OBVIOUS
  <2>1. db[r].history \in Seq(RunStatus) /\ db'[r].history \in Seq(RunStatus)
    BY DEF SingleInv, TypeOK, RunRow
  <2> QED
    BY <1>2, <2>1, GrowsAtEnd
<1> QED
  BY <1>3, SingleInvariant, PTL DEF Spec, HistoryGrowsAtEnd

-----------------------------------------------------------------------------
(***************************************************************************)
(* Progress.  What EventuallyTerminal rests on, short of fairness: a task  *)
(* has a bounded number of steps in it, and once it has none the run is at *)
(* its end.                                                                *)
(***************************************************************************)

(* The most steps task r can still make, failing or not. *)
TaskLeft ==
  [r \in Runs |->
     CASE pc[r] = "publish"   -> (CASE call[r].status = "queued"    -> 11
                                    [] call[r].status = "analyzing" -> 7
                                    [] OTHER                        -> 1)
       [] pc[r] = "scheduled" -> 10
       [] pc[r] = "reading"   -> (CASE call[r].status = "analyzing" -> 9
                                    [] call[r].status = "completed" -> 5
                                    [] OTHER                        -> 3)
       [] pc[r] = "writing"   -> (CASE call[r].status = "analyzing" -> 8
                                    [] call[r].status = "completed" -> 4
                                    [] OTHER                        -> 2)
       [] pc[r] = "working"   -> 6
       [] OTHER               -> 0]

(* A task only ever marks its run as analyzing, completed or failed. *)
MarksInv ==
  /\ TypeOK
  /\ \A r \in Runs : pc[r] \in {"reading", "writing"} =>
                       call[r].status \in {"analyzing", "completed", "failed"}

LEMMA MarksInvariant == Spec => []MarksInv
<1>1. Init => MarksInv
  BY TypeInit DEF Init, MarksInv
<1>2. MarksInv /\ [Next]_vars => MarksInv'
  <2> SUFFICES ASSUME MarksInv, [Next]_vars, NEW r \in Runs,
                      pc'[r] \in {"reading", "writing"}
               PROVE  call'[r].status \in {"analyzing", "completed", "failed"}
    BY TypeStep DEF MarksInv
  <2>1. TypeOK /\ TypeOK'
    BY TypeStep DEF MarksInv
  <2>2. CASE UNCHANGED <<pc, call>>
    BY <2>2 DEF MarksInv
  <2>3. ASSUME NEW q \in Runs, NEW status \in {"analyzing", "completed", "failed"},
               NEW error, NEW report, CallSetStatus(q, status, error, report)
        PROVE  call'[r].status \in {"analyzing", "completed", "failed"}
    BY <2>1, <2>3 DEF CallSetStatus, SetStatus, MarksInv, TypeOK
  <2>4. ASSUME NEW q \in Runs, TaskStep(q) \/ StoreFault(q)
        PROVE  call'[r].status \in {"analyzing", "completed", "failed"}
    <3>1. CASE Publish(q)
      BY <2>1, <3>1 DEF Publish, MarksInv, TypeOK
    <3>2. CASE BeginAnalysis(q)
      BY <2>3, <3>2 DEF BeginAnalysis
    <3>3. CASE FinishAnalysis(q)
      BY <2>3, <3>3 DEF FinishAnalysis
    <3>4. CASE RaiseInAnalysis(q)
      BY <2>3, <3>4 DEF RaiseInAnalysis
    <3>5. CASE ReadRow(q)
      <4>1. call'[r].status = call[r].status
            /\ pc[r] \in {"reading", "writing"}
        BY <2>1, <3>5 DEF ReadRow, TypeOK, Call
      <4> QED
        BY <4>1 DEF MarksInv
    <3>6. CASE WriteRow(q)
      BY <2>1, <3>6 DEF WriteRow, MarksInv, TypeOK
    <3>7. CASE StoreFault(q)
      <4>1. CASE call[q].status = "failed"
        BY <2>1, <3>7, <4>1 DEF StoreFault, MarksInv, TypeOK
      <4>2. CASE call[q].status # "failed"
        BY <2>3, <3>7, <4>2 DEF StoreFault
      <4> QED
        BY <4>1, <4>2
    <3> QED
      BY <2>4, <3>1, <3>2, <3>3, <3>4, <3>5, <3>6, <3>7 DEF TaskStep
  <2>5. ASSUME NEW i \in Instances, ServerStep(i) \/ Crash(i)
        PROVE  call'[r].status \in {"analyzing", "completed", "failed"}
    <3>1. CASE ServerStep(i)
      BY <2>2, <3>1 DEF ServerStep, Start, Recover, taskVars
    <3>2. CASE Crash(i)
      BY <2>1, <3>2 DEF Crash, MarksInv, TypeOK
    <3> QED
      BY <2>5, <3>1, <3>2
  <2>6. ASSUME NEW i \in Instances, NEW q \in Runs, Submit(i, q)
        PROVE  call'[r].status \in {"analyzing", "completed", "failed"}
    BY <2>1, <2>6 DEF Submit, MarksInv, TypeOK
  <2> QED
    BY <2>2, <2>4, <2>5, <2>6 DEF Next, vars, taskVars
<1> QED
  BY <1>1, <1>2, PTL DEF Spec

LEMMA TaskLeftType == TypeOK => TaskLeft \in [Runs -> 0..11]
<1> SUFFICES ASSUME TypeOK, NEW r \in Runs PROVE TaskLeft[r] \in 0..11
  BY DEF TaskLeft
<1>1. TaskLeft[r] \in {0, 1, 2, 3, 4, 5, 6, 7, 8, 9, 10, 11}
  BY DEF TaskLeft
<1> QED
  BY <1>1

(* A step of its task, failing or not, uses one up. *)
LEMMA TaskStepCounts ==
  ASSUME MarksInv, NEW r \in Runs, TaskStep(r) \/ StoreFault(r)
  PROVE  TaskLeft'[r] < TaskLeft[r]
<1>1. pc \in [Runs -> TaskState] /\ call \in [Runs -> Call]
  BY DEF MarksInv, TypeOK
<1>2. ASSUME NEW status \in {"completed", "failed"}, NEW error, NEW report,
             CallSetStatus(r, status, error, report)
      PROVE  TaskLeft'[r] <= 5 /\ TaskLeft'[r] \in 0..11
  BY <1>1, <1>2 DEF CallSetStatus, SetStatus, TaskLeft
<1>3. CASE Publish(r)
  <2>1. pc[r] = "publish" /\ call' = call
        /\ pc'[r] = CASE call[r].status = "queued"    -> "scheduled"
                      [] call[r].status = "analyzing" -> "working"
                      [] OTHER                        -> "done"
    BY <1>1, <1>3 DEF Publish
  <2>2. CASE call[r].status = "queued"
    BY <2>1, <2>2 DEF TaskLeft
  <2>3. CASE call[r].status = "analyzing"
    BY <2>1, <2>3 DEF TaskLeft
  <2>4. CASE call[r].status \notin {"queued", "analyzing"}
    BY <2>1, <2>4 DEF TaskLeft
  <2> QED
    BY <2>2, <2>3, <2>4
<1>4. CASE BeginAnalysis(r)
  <2>1. /\ pc[r] = "scheduled" /\ pc'[r] = "reading"
        /\ call'[r].status = "analyzing"
    BY <1>1, <1>4 DEF BeginAnalysis, CallSetStatus, SetStatus
  <2> QED
    BY <2>1 DEF TaskLeft
<1>5. CASE FinishAnalysis(r) \/ RaiseInAnalysis(r)
  <2>1. TaskLeft[r] = 6
    BY <1>5 DEF FinishAnalysis, RaiseInAnalysis, TaskLeft
  <2>2. TaskLeft'[r] <= 5 /\ TaskLeft'[r] \in 0..11
    BY <1>2, <1>5 DEF FinishAnalysis, RaiseInAnalysis
  <2> QED
    BY <2>1, <2>2
<1>6. CASE ReadRow(r)
  <2>1. /\ pc[r] = "reading" /\ pc'[r] = "writing"
        /\ call'[r].status = call[r].status
    BY <1>1, <1>6 DEF ReadRow, Call
  <2> QED
    BY <2>1 DEF TaskLeft
<1>7. CASE WriteRow(r)
  <2>1. pc[r] = "writing" /\ pc'[r] = "publish" /\ call' = call
    BY <1>1, <1>7 DEF WriteRow
  <2>2. call[r].status \in {"analyzing", "completed", "failed"}
    BY <2>1 DEF MarksInv
  <2> QED
    BY <2>1, <2>2 DEF TaskLeft
<1>8. CASE StoreFault(r)
  <2>1. pc[r] \in {"scheduled", "reading", "writing"}
    BY <1>8 DEF StoreFault
  <2>2. CASE call[r].status = "failed"
    <3>1. pc'[r] = "stuck"
      BY <1>1, <1>8, <2>2 DEF StoreFault
    <3>2. TaskLeft'[r] = 0
      BY <3>1 DEF TaskLeft
    <3>3. TaskLeft[r] \in {10, 3, 2}
      BY <2>1, <2>2 DEF TaskLeft
    <3> QED
      BY <3>2, <3>3
  <2>3. CASE call[r].status # "failed"
    <3>1. pc'[r] = "reading" /\ call'[r].status = "failed"
      BY <1>1, <1>8, <2>3 DEF StoreFault, CallSetStatus, SetStatus
    <3>2. TaskLeft'[r] = 3
      BY <3>1 DEF TaskLeft
    <3>3. pc[r] \in {"reading", "writing"}
            => call[r].status \in {"analyzing", "completed"}
      BY <2>3 DEF MarksInv
    <3>4. TaskLeft[r] \in {10, 9, 8, 5, 4}
      BY <2>1, <3>3 DEF TaskLeft
    <3> QED
      BY <3>2, <3>4
  <2> QED
    BY <2>2, <2>3
<1> QED
  BY <1>3, <1>4, <1>5, <1>6, <1>7, <1>8 DEF TaskStep

(* Steps of other tasks and of servers give a task no steps back. *)
LEMMA OthersDoNotCount ==
  ASSUME MarksInv, [Next]_vars, NEW r \in Runs, pc[r] # "none",
         ~(TaskStep(r) \/ StoreFault(r))
  PROVE  TaskLeft'[r] <= TaskLeft[r]
<1>1. /\ pc \in [Runs -> TaskState] /\ call \in [Runs -> Call]
      /\ TaskLeft[r] \in 0..11
  BY TaskLeftType DEF MarksInv, TypeOK
<1>2. CASE pc'[r] = pc[r] /\ call'[r] = call[r]
  BY <1>1, <1>2 DEF TaskLeft
<1>3. CASE pc'[r] = "lost"
  <2>1. TaskLeft'[r] = 0
    BY <1>3 DEF TaskLeft
  <2> QED
    BY <1>1, <2>1
<1>4. ASSUME NEW q \in Runs, TaskStep(q) \/ StoreFault(q)
      PROVE  pc'[r] = pc[r] /\ call'[r] = call[r]
  <2>1. q # r
    BY <1>4
  <2> QED
    BY <1>1, <1>4, <2>1 DEF TaskStep, StoreFault, Publish, BeginAnalysis,
       FinishAnalysis, RaiseInAnalysis, ReadRow, WriteRow, CallSetStatus
<1>5. ASSUME NEW i \in Instances, ServerStep(i)
      PROVE  pc' = pc /\ call' = call
  BY <1>5 DEF ServerStep, Start, Recover, taskVars
<1>6. ASSUME NEW i \in Instances, Crash(i)
      PROVE  pc'[r] = "lost" \/ (pc'[r] = pc[r] /\ call'[r] = call[r])
  BY <1>6 DEF Crash
<1>7. ASSUME NEW i \in Instances, NEW q \in Runs, Submit(i, q)
      PROVE  pc'[r] = pc[r] /\ call'[r] = call[r]
  <2>1. q # r
    BY <1>7 DEF Submit
  <2> QED
    BY <1>1, <1>7, <2>1 DEF Submit
<1>8. CASE UNCHANGED vars
  BY <1>2, <1>8 DEF vars, taskVars
<1> QED
  BY <1>2, <1>3, <1>4, <1>5, <1>6, <1>7, <1>8 DEF Next

(* From its submission a task has at most eleven steps, failures of the    *)
(* store included; each uses one up and nothing gives one back.            *)
THEOREM TasksAreBounded ==
  Spec => /\ [](TaskLeft \in [Runs -> 0..11])
          /\ [][\A r \in Runs :
                  /\ TaskStep(r) \/ StoreFault(r) => TaskLeft'[r] < TaskLeft[r]
                  /\ pc[r] # "none" => TaskLeft'[r] <= TaskLeft[r]]_vars
<1>1. MarksInv => TaskLeft \in [Runs -> 0..11]
  BY TaskLeftType DEF MarksInv
<1>2. MarksInv /\ MarksInv' /\ [Next]_vars
        => [\A r \in Runs :
              /\ TaskStep(r) \/ StoreFault(r) => TaskLeft'[r] < TaskLeft[r]
              /\ pc[r] # "none" => TaskLeft'[r] <= TaskLeft[r]]_vars
  <2> SUFFICES ASSUME MarksInv, MarksInv', [Next]_vars, NEW r \in Runs
               PROVE  /\ TaskStep(r) \/ StoreFault(r)
                           => TaskLeft'[r] < TaskLeft[r]
                      /\ pc[r] # "none" => TaskLeft'[r] <= TaskLeft[r]
    OBVIOUS
  <2>1. TaskLeft[r] \in 0..11
    BY TaskLeftType DEF MarksInv
  <2>2. TaskLeft'[r] \in 0..11
    <3>1. (TypeOK => TaskLeft \in [Runs -> 0..11])'
      BY TaskLeftType, PTL
    <3> QED
      BY <3>1 DEF MarksInv
  <2> QED
    BY <2>1, <2>2, TaskStepCounts, OthersDoNotCount
<1> QED
  BY <1>1, <1>2, MarksInvariant, PTL DEF Spec

(* With one process: while it serves, a task that has no step left has     *)
(* brought its run to a terminal status, or could not record its failure.  *)
THEOREM TasksEndTerminal ==
  ASSUME SingleInstance
  PROVE  Spec => [](\A r \in Runs :
           pc[r] # "none" /\ TaskLeft[r] = 0 /\ (\E i \in Instances : server[i] = "serving")
             => IsTerminal(db[r]) \/ pc[r] = "stuck")
<1>1. ASSUME SingleInv, NEW r \in Runs, pc[r] # "none", TaskLeft[r] = 0,
             NEW i \in Instances, server[i] = "serving"
      PROVE  IsTerminal(db[r]) \/ pc[r] = "stuck"
  <2>1. pc[r] \in TaskState
    BY <1>1 DEF SingleInv, TypeOK
  <2>2. pc[r] \notin Alive
    BY <1>1 DEF TaskLeft, Alive
  <2>3. pc[r] \in {"done", "stuck", "lost"}
    BY <1>1, <2>1, <2>2 DEF TaskState, Ended
  <2> QED
    BY <1>1, <2>3 DEF SingleInv, TaskInv, ServerInv
<1>2. SingleInv =>
        \A r \in Runs :
          pc[r] # "none" /\ TaskLeft[r] = 0 /\ (\E i \in Instances : server[i] = "serving")
            => IsTerminal(db[r]) \/ pc[r] = "stuck"
  BY <1>1
<1> QED
  BY <1>2, SingleInvariant, PTL

=============================================================================
