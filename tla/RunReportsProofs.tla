-------------------------- MODULE RunReportsProofs --------------------------
(***************************************************************************)
(* Theorems about RunReports, for any runs, workflows, operators and keys. *)
(***************************************************************************)
EXTENDS RunReports, TLAPS, WellFoundedInduction, FiniteSetTheorems

(* What one operator or the worker reads and writes of a row. *)
Rows == [status : {"absent", "queued", "completed", "failed"},
         workflow : Workflows \cup {None}, seen : Nat,
         report : Report \cup {NoReport}, cost : Nat]

(***************************************************************************)
(* Approvals.  An operator writes back a copy of a run that was completed  *)
(* when it was read; whatever others have written since, the copy has the  *)
(* violations and the cost that are stored, because they all had them.     *)
(***************************************************************************)

RowInv ==
  \A r \in Runs :
    /\ run[r].report # NoReport => /\ run[r].status = "completed"
                                   /\ run[r].cost = run[r].report.cost
    /\ run[r].status = "completed" => run[r].report # NoReport
    /\ run[r].status # "absent" => /\ run[r].workflow = WorkflowOf[r]
                                   /\ run[r].seen # 0

(* Of two runs that were written one was written last. *)
SeenInv ==
  /\ \A r \in Runs : run[r].seen <= now
  /\ \A q, r \in Runs : q # r /\ run[q].seen = run[r].seen => run[q].seen = 0

RequestInv ==
  \A o \in Operators :
    request[o] # NoRequest =>
      LET r == request[o].run
          data == request[o].data
      IN /\ r \in Runs
         /\ run[r].status = "completed"
         /\ data \in Report
         /\ data.keys = run[r].report.keys
         /\ data.cost = run[r].cost
         /\ data.operator = o

ReportsInv ==
  /\ now \in Nat
  /\ run \in [Runs -> Rows]
  /\ DOMAIN request = Operators
  /\ RowInv
  /\ SeenInv
  /\ RequestInv

(* A report can be told from none, and a request from none. *)
LEMMA ReportsAreReports == NoReport \notin Report
<1> SUFFICES ASSUME NoReport \in Report PROVE FALSE
  OBVIOUS
<1>1. DOMAIN NoReport = {"none"}
  BY DEF NoReport
<1>2. DOMAIN NoReport = {"keys", "cost", "decision", "operator"}
  BY DEF Report
<1> QED
  BY <1>1, <1>2

LEMMA InitReports == Init => ReportsInv
<1> SUFFICES ASSUME Init PROVE ReportsInv
  OBVIOUS
<1>1. NoRow \in Rows /\ NoRow.report = NoReport /\ NoRow.status = "absent"
  BY DEF NoRow, Rows
<1> QED
  BY <1>1 DEF Init, ReportsInv, RowInv, SeenInv, RequestInv, NoRow

(* What a write makes of a row. *)
IsWritten(new, row, workflow, status, given) ==
  /\ new \in Rows /\ new.status = status /\ new.seen = now + 1
  /\ new.workflow = IF workflow = None THEN row.workflow ELSE workflow
  /\ given = NoReport => new.report = row.report /\ new.cost = row.cost
  /\ given # NoReport => new.report = given /\ new.cost = given.cost

LEMMA UpsertedRow ==
  ASSUME NEW row \in Rows, NEW workflow \in Workflows \cup {None},
         NEW status \in {"queued", "completed", "failed"},
         NEW given \in Report \cup {NoReport}, now \in Nat
  PROVE  IsWritten(Upserted(row, workflow, status, given), row, workflow, status, given)
<1>1. now + 1 \in Nat /\ now + 1 # 0
  OBVIOUS
<1>2. given # NoReport => given \in Report /\ given.cost \in Nat
  BY DEF Report
<1> QED
  BY <1>1, <1>2 DEF Upserted, Rows, IsWritten

LEMMA UpsertStep ==
  ASSUME ReportsInv, NEW r \in Runs, NEW workflow \in Workflows \cup {None},
         NEW status \in {"queued", "completed", "failed"},
         NEW given \in Report \cup {NoReport}, Upsert(r, workflow, status, given)
  PROVE  /\ now' \in Nat /\ run' \in [Runs -> Rows]
         /\ \A q \in Runs \ {r} : run'[q] = run[q]
         /\ run'[r].status = status /\ run'[r].seen # 0
         /\ SeenInv' /\ run[r].seen < run'[r].seen
         /\ run'[r].workflow = IF workflow = None THEN run[r].workflow ELSE workflow
         /\ given = NoReport =>
              run'[r].report = run[r].report /\ run'[r].cost = run[r].cost
         /\ given # NoReport => run'[r].report = given /\ run'[r].cost = given.cost
<1> DEFINE new == Upserted(run[r], workflow, status, given)
<1>1. now' = now + 1 /\ now \in Nat /\ run' = [run EXCEPT ![r] = new]
  BY DEF Upsert, ReportsInv
<1>2. IsWritten(new, run[r], workflow, status, given)
  <2>1. run[r] \in Rows /\ now \in Nat
    BY DEF ReportsInv
  <2> QED
    BY <2>1, UpsertedRow
<1> HIDE DEF new
<1>3. /\ run'[r].seen = now + 1
      /\ \A q \in Runs \ {r} : run'[q] = run[q]
      /\ \A q \in Runs : run[q].seen \in Nat /\ run[q].seen <= now
  BY <1>1, <1>2 DEF ReportsInv, SeenInv, Rows, IsWritten
<1>4. SeenInv'
  <2>1. \A q \in Runs : run'[q].seen <= now + 1
    BY <1>1, <1>3
  <2>2. ASSUME NEW p \in Runs, NEW q \in Runs, p # q, run'[p].seen = run'[q].seen
        PROVE  run'[p].seen = 0
    <3>1. p # r /\ q # r
      BY <1>1, <1>3, <2>2
    <3> QED
      BY <1>3, <2>2, <3>1 DEF ReportsInv, SeenInv
  <2> QED
    BY <1>1, <2>1, <2>2 DEF SeenInv
<1>5. run'[r].seen # 0 /\ run[r].seen < run'[r].seen
  BY <1>1, <1>3
<1> QED
  BY <1>1, <1>2, <1>3, <1>4, <1>5 DEF ReportsInv, IsWritten

(* What an approval may do, in one step. *)
OnlyDecides ==
  /\ \A r \in Runs :
       run[r].status = "completed" =>
         /\ run'[r].status = "completed"
         /\ run'[r].cost = run[r].cost
         /\ run'[r].workflow = run[r].workflow
         /\ run'[r].report.keys = run[r].report.keys
         /\ run'[r].report # run[r].report => run'[r].report.operator # None
  /\ (\A r \in Runs : run[r].report = NoReport => run'[r].report = NoReport)
       => \A r \in Runs : run'[r].cost = run[r].cost
  /\ \A r \in Runs : run'[r] # run[r] => run[r].seen < run'[r].seen

LEMMA OnlyDecidesUsage ==
  ASSUME OnlyDecides,
         \A r \in Runs : run[r].report = NoReport => run'[r].report = NoReport
  PROVE  Usage' = Usage
<1>1. [r \in Runs |-> run'[r].cost] = [r \in Runs |-> run[r].cost]
  BY DEF OnlyDecides
<1> QED
  BY <1>1 DEF Usage

(* A run that had no report is created, completed or failed. *)
LEMMA FirstReport ==
  ASSUME ReportsInv, NEW r \in Runs,
         NEW status \in {"queued", "completed", "failed"},
         NEW given \in Report \cup {NoReport}, Upsert(r, WorkflowOf[r], status, given),
         run[r].status # "completed", request' = request,
         status = "completed" <=> given # NoReport
  PROVE  ReportsInv' /\ OnlyDecides
<1>1. /\ now' \in Nat /\ run' \in [Runs -> Rows]
      /\ \A q \in Runs \ {r} : run'[q] = run[q]
      /\ run'[r].status = status /\ run'[r].seen # 0 /\ run'[r].workflow = WorkflowOf[r]
      /\ SeenInv' /\ run[r].seen < run'[r].seen
      /\ given = NoReport =>
           run'[r].report = run[r].report /\ run'[r].cost = run[r].cost
      /\ given # NoReport => run'[r].report = given /\ run'[r].cost = given.cost
  <2>1. WorkflowOf[r] \in Workflows /\ WorkflowOf[r] # None
    BY ReportsAssumption
  <2> QED
    BY <2>1, UpsertStep
<1>2. run[r].report = NoReport
  BY DEF ReportsInv, RowInv
<1>3. RowInv'
  BY <1>1, <1>2 DEF ReportsInv, RowInv
<1>4. RequestInv'
  <2>1. ASSUME NEW o \in Operators, request[o] # NoRequest PROVE request[o].run # r
    BY <2>1 DEF ReportsInv, RequestInv
  <2> QED
    BY <1>1, <2>1 DEF ReportsInv, RequestInv
<1>5. OnlyDecides
  BY <1>1, <1>2 DEF OnlyDecides
<1> QED
  BY <1>1, <1>3, <1>4, <1>5 DEF ReportsInv

LEMMA PutStep ==
  ASSUME ReportsInv, NEW o \in Operators, PutApproval(o)
  PROVE  ReportsInv' /\ OnlyDecides
<1> DEFINE r == request[o].run
           data == request[o].data
<1>1. /\ r \in Runs /\ run[r].status = "completed" /\ data \in Report
      /\ data.keys = run[r].report.keys /\ data.cost = run[r].cost
      /\ data.operator = o
      /\ Upsert(r, None, "completed", data)
      /\ request' = [request EXCEPT ![o] = NoRequest]
  BY DEF PutApproval, ReportsInv, RequestInv
<1> HIDE DEF r, data
<1>2. data # NoReport
  BY <1>1, ReportsAreReports
<1>3. /\ now' \in Nat /\ run' \in [Runs -> Rows]
      /\ \A q \in Runs \ {r} : run'[q] = run[q]
      /\ run'[r].status = "completed" /\ run'[r].seen # 0
      /\ SeenInv' /\ run[r].seen < run'[r].seen
      /\ run'[r].workflow = run[r].workflow
      /\ run'[r].report = data /\ run'[r].cost = data.cost
  BY <1>1, <1>2, UpsertStep
<1>4. RowInv'
  BY <1>1, <1>2, <1>3 DEF ReportsInv, RowInv
<1>5. ASSUME NEW p \in Operators, request'[p] # NoRequest
      PROVE  request[p] # NoRequest /\ request'[p] = request[p]
  BY <1>1, <1>5 DEF ReportsInv
<1>6. \A q \in Runs : /\ run[q].status = "completed" => run'[q].status = "completed"
                      /\ run'[q].report.keys = run[q].report.keys
                      /\ run'[q].cost = run[q].cost
  BY <1>1, <1>3
<1>7. RequestInv'
  BY <1>5, <1>6 DEF ReportsInv, RequestInv
<1>8. data.operator # None
  BY <1>1, ReportsAssumption
<1>9. OnlyDecides
  BY <1>1, <1>3, <1>6, <1>8 DEF OnlyDecides
<1> QED
  BY <1>1, <1>3, <1>4, <1>7, <1>9 DEF ReportsInv

LEMMA ReadStep ==
  ASSUME ReportsInv, NEW o \in Operators, NEW r \in Runs, ReadForApproval(o, r)
  PROVE  ReportsInv' /\ OnlyDecides
<1>1. /\ run' = run /\ now' = now /\ run[r].status = "completed"
      /\ \E decision \in {"APPROVED", "REJECTED"} :
           request' = [request EXCEPT ![o] =
             [run |-> r, data |-> Decided(RunData(run[r]), o, decision)]]
  BY DEF ReadForApproval
<1>2. PICK decision \in {"APPROVED", "REJECTED"} :
        request' = [request EXCEPT ![o] =
          [run |-> r, data |-> Decided(RunData(run[r]), o, decision)]]
  BY <1>1
<1>3. /\ run[r].report # NoReport /\ run[r].cost = run[r].report.cost
      /\ run[r].report \in Report
  BY <1>1 DEF ReportsInv, RowInv, Rows
<1> DEFINE data == Decided(RunData(run[r]), o, decision)
<1>4. /\ data \in Report /\ data.operator = o
      /\ data.keys = run[r].report.keys /\ data.cost = run[r].cost
  <2>1. /\ RunData(run[r]) \in Report
        /\ RunData(run[r]).keys = run[r].report.keys
        /\ RunData(run[r]).cost = run[r].cost
    BY <1>3 DEF RunData, Report
  <2> QED
    BY <2>1 DEF Decided, Report, Decision
<1> HIDE DEF data
<1>5. /\ request'[o] = [run |-> r, data |-> data]
      /\ \A p \in Operators \ {o} : request'[p] = request[p]
      /\ DOMAIN request' = Operators
  BY <1>2 DEF ReportsInv, data
<1>6. RequestInv'
  <2> SUFFICES ASSUME NEW p \in Operators, request'[p] # NoRequest
               PROVE  /\ request'[p].run \in Runs
                      /\ run[request'[p].run].status = "completed"
                      /\ request'[p].data \in Report
                      /\ request'[p].data.keys = run[request'[p].run].report.keys
                      /\ request'[p].data.cost = run[request'[p].run].cost
                      /\ request'[p].data.operator = p
    BY <1>1 DEF RequestInv
  <2>1. CASE p = o
    BY <1>1, <1>4, <1>5, <2>1
  <2>2. CASE p # o
    BY <1>5, <2>2 DEF ReportsInv, RequestInv
  <2> QED
    BY <2>1, <2>2
<1>7. OnlyDecides
  BY <1>1 DEF OnlyDecides
<1> QED
  BY <1>1, <1>5, <1>6, <1>7 DEF ReportsInv, RowInv, SeenInv

LEMMA ReportsStep == ReportsInv /\ [Next]_vars => ReportsInv' /\ OnlyDecides
<1> SUFFICES ASSUME ReportsInv, [Next]_vars PROVE ReportsInv' /\ OnlyDecides
  OBVIOUS
<1>1. ASSUME NEW r \in Runs, CreateRun(r) PROVE ReportsInv' /\ OnlyDecides
  BY <1>1, FirstReport DEF CreateRun
<1>2. ASSUME NEW r \in Runs, Complete(r) PROVE ReportsInv' /\ OnlyDecides
  <2>1. PICK keys \in SUBSET Keys :
          Upsert(r, run[r].workflow, "completed",
                 NewReport(keys, IF keys = {} THEN 0 ELSE 1))
    BY <1>2 DEF Complete
  <2> DEFINE given == NewReport(keys, IF keys = {} THEN 0 ELSE 1)
  <2>2. given \in Report
    BY DEF NewReport, Report, Decision
  <2>3. given # NoReport
    BY <2>2, ReportsAreReports
  <2>4. run[r].workflow = WorkflowOf[r] /\ run[r].status = "queued"
    BY <1>2 DEF ReportsInv, RowInv, Complete
  <2> HIDE DEF given
  <2>5. request' = request
    BY <1>2 DEF Complete
  <2> QED
    BY <2>1, <2>2, <2>3, <2>4, <2>5, FirstReport DEF given
<1>3. ASSUME NEW r \in Runs, Fail(r) PROVE ReportsInv' /\ OnlyDecides
  <2>1. run[r].workflow = WorkflowOf[r] /\ run[r].status = "queued"
    BY <1>3 DEF ReportsInv, RowInv, Fail
  <2> QED
    BY <1>3, <2>1, FirstReport DEF Fail
<1>4. ASSUME NEW o \in Operators, NEW r \in Runs, ReadForApproval(o, r)
      PROVE  ReportsInv' /\ OnlyDecides
  BY <1>4, ReadStep
<1>5. ASSUME NEW o \in Operators, PutApproval(o) PROVE ReportsInv' /\ OnlyDecides
  BY <1>5, PutStep
<1>6. CASE UNCHANGED vars
  BY <1>6 DEF vars, ReportsInv, RowInv, SeenInv, RequestInv, OnlyDecides
<1> QED
  BY <1>1, <1>2, <1>3, <1>4, <1>5, <1>6 DEF Next

(* However many operators decide at once and in whatever order their       *)
(* copies are written back, violations, cost, status and workflow of a     *)
(* completed run stay, and with them the usage of the tenant.              *)
THEOREM CopiesOnlyDecide == Spec => ApprovalsOnlyDecide
<1> DEFINE A ==
      /\ \A r \in Runs :
           run[r].status = "completed" =>
             /\ run'[r].status = "completed"
             /\ run'[r].cost = run[r].cost
             /\ run'[r].workflow = run[r].workflow
             /\ run'[r].report.keys = run[r].report.keys
             /\ run'[r].report # run[r].report => run'[r].report.operator # None
      /\ (\A r \in Runs : run[r].report = NoReport => run'[r].report = NoReport)
           => Usage' = Usage
<1>1. OnlyDecides => A
  BY OnlyDecidesUsage DEF OnlyDecides
<1>2. ReportsInv /\ [Next]_vars => ReportsInv' /\ [A]_vars
  BY <1>1, ReportsStep
<1> HIDE DEF A
<1>3. Spec => [][A]_vars
  BY <1>2, InitReports, PTL DEF Spec
<1> QED
  BY <1>3 DEF A, ApprovalsOnlyDecide

-----------------------------------------------------------------------------
(***************************************************************************)
(* The violation rows.                                                     *)
(***************************************************************************)

ViolationRows == [run : Runs, workflow : Workflows, key : Keys]

(* The rows of table say what the reports of the runs say. *)
Mirrors(table, record) ==
  \A r \in Runs :
    /\ \A id \in DOMAIN table : table[id].run = r =>
         /\ table[id].workflow = WorkflowOf[r]
         /\ record[r].report # NoReport
         /\ table[id].key \in record[r].report.keys
    /\ record[r].report # NoReport =>
         \A key \in record[r].report.keys :
           \E id \in DOMAIN table : table[id].run = r /\ table[id].key = key
    /\ \A m, n \in DOMAIN table :
         table[m].run = r /\ table[n].run = r /\ table[m].key = table[n].key => m = n

RowsInv ==
  /\ rows \in Seq(ViolationRows \cup {Deleted})
  /\ Mirrors(rows, run)

(* The keys of a report in some order, each once. *)
IsListing(list, keys) ==
  /\ list \in Seq(keys) /\ Len(list) = Cardinality(keys)
  /\ \A key \in keys : \E n \in DOMAIN list : list[n] = key
  /\ \A m, n \in DOMAIN list : list[m] = list[n] => m = n

LEMMA KeysAreListed ==
  ASSUME NEW keys \in SUBSET Keys
  PROVE  IsListing(SetToSeq(keys), keys)
<1> DEFINE n == Cardinality(keys)
<1>1. IsFiniteSet(keys) /\ n \in Nat
  BY ReportsAssumption, FS_Subset, FS_CardinalityType
<1>2. PICK k \in Nat : ExistsBijection(1..k, keys)
  BY <1>1, FS_NatBijection
<1>3. k = n
  BY <1>2, FS_CountingElements
<1>4. PICK f : f \in Bijection(1..n, keys)
  BY <1>2, <1>3 DEF ExistsBijection
<1> HIDE DEF n
<1>5. f \in [1..n -> keys] /\ IsInjective(f)
  BY <1>4 DEF Bijection, Injection, IsInjective
<1>6. SetToSeq(keys) \in [1..n -> keys] /\ IsInjective(SetToSeq(keys))
  BY <1>5 DEF SetToSeq, n
<1> DEFINE list == SetToSeq(keys)
<1> HIDE DEF list
<1>7. list \in [1..n -> keys] /\ IsInjective(list)
  BY <1>6 DEF list
<1>8. list \in Injection(1..n, keys) /\ Cardinality(1..n) = n /\ IsFiniteSet(1..n)
  BY <1>1, <1>7, FS_Interval DEF Injection, IsInjective
<1>9. list \in Surjection(1..n, keys)
  BY <1>1, <1>8, FS_Injection DEF n
<1>10. list \in Seq(keys) /\ Len(list) = n /\ DOMAIN list = 1..n
  BY <1>1, <1>7
<1>11. \A key \in keys : \E m \in 1..n : list[m] = key
  BY <1>9 DEF Surjection
<1> QED
  BY <1>7, <1>10, <1>11 DEF IsListing, IsInjective, list, n

(* What one sequence followed by another has at each place. *)
IsJoint(all, s, t) ==
  /\ DOMAIN all = 1..(Len(s) + Len(t))
  /\ \A id \in 1..Len(s) : all[id] = s[id]
  /\ \A n \in 1..Len(t) : all[Len(s) + n] = t[n]

LEMMA Joined ==
  ASSUME NEW Kept, NEW s \in Seq(Kept), NEW t \in Seq(Kept)
  PROVE  s \o t \in Seq(Kept) /\ IsJoint(s \o t, s, t)
<1>1. s \o t \in Seq(Kept) /\ Len(s \o t) = Len(s) + Len(t)
  OBVIOUS
<1>2. \A id \in 1..Len(s) : (s \o t)[id] = s[id]
  OBVIOUS
<1>3. \A n \in 1..Len(t) : (s \o t)[Len(s) + n] = t[n]
  OBVIOUS
<1> QED
  BY <1>1, <1>2, <1>3 DEF IsJoint

(* The table after the rows of r are deleted and written anew. *)
Rewritten(table, r, list) ==
  [id \in DOMAIN table |-> IF table[id].run = r THEN Deleted ELSE table[id]]
    \o [n \in DOMAIN list |-> [run |-> r, workflow |-> WorkflowOf[r], key |-> list[n]]]

LEMMA RowsRewritten ==
  ASSUME NEW table \in Seq(ViolationRows \cup {Deleted}), NEW r \in Runs,
         NEW keys \in SUBSET Keys, NEW list, IsListing(list, keys),
         NEW record, NEW after,
         Mirrors(table, record),
         after[r].report # NoReport, after[r].report.keys = keys,
         \A q \in Runs \ {r} : after[q] = record[q]
  PROVE  /\ Rewritten(table, r, list) \in Seq(ViolationRows \cup {Deleted})
         /\ Mirrors(Rewritten(table, r, list), after)
<1> DEFINE Kept == ViolationRows \cup {Deleted}
           kept == [id \in DOMAIN table |-> IF table[id].run = r THEN Deleted ELSE table[id]]
           fresh == [n \in DOMAIN list |->
                         [run |-> r, workflow |-> WorkflowOf[r], key |-> list[n]]]
           new == kept \o fresh
           N == Len(table)
           M == Len(list)
<1>1. /\ N \in Nat /\ DOMAIN table = 1..N
      /\ M \in Nat /\ DOMAIN list = 1..M /\ \A n \in 1..M : list[n] \in keys
  BY DEF IsListing
<1>2. \A id \in 1..N : table[id] \in ViolationRows \cup {Deleted}
  BY <1>1
<1>3. Deleted.run \notin Runs
  BY ReportsAssumption DEF Deleted
<1> HIDE DEF N, M
<1>4. /\ kept \in Seq(ViolationRows \cup {Deleted}) /\ Len(kept) = N
      /\ \A id \in 1..N : kept[id] = IF table[id].run = r THEN Deleted ELSE table[id]
  BY <1>1, <1>2
<1>5. /\ fresh \in Seq(ViolationRows \cup {Deleted}) /\ Len(fresh) = M
      /\ \A n \in 1..M : /\ fresh[n].run = r /\ fresh[n].workflow = WorkflowOf[r]
                         /\ fresh[n].key = list[n]
  BY <1>1, ReportsAssumption DEF ViolationRows
<1> HIDE DEF kept, fresh
<1>6. /\ new \in Seq(ViolationRows \cup {Deleted}) /\ DOMAIN new = 1..(N + M)
      /\ \A id \in 1..N : new[id] = kept[id]
      /\ \A n \in 1..M : new[N + n] = fresh[n]
  <2>1. kept \in Seq(Kept) /\ fresh \in Seq(Kept) /\ Len(kept) = N /\ Len(fresh) = M
    BY <1>4, <1>5
  <2>2. new \in Seq(Kept) /\ IsJoint(new, kept, fresh)
    BY <2>1, Joined
  <2> QED
    BY <2>1, <2>2 DEF IsJoint
<1> HIDE DEF new
<1>7. ASSUME NEW id \in DOMAIN new
      PROVE  id \in 1..N \/ (id - N \in 1..M /\ id = N + (id - N))
  BY <1>1, <1>6
<1>8. \A id \in 1..N : id \in DOMAIN new /\ id \in DOMAIN table
  BY <1>1, <1>6
<1>9. \A n \in 1..M : N + n \in DOMAIN new /\ n \in DOMAIN list
  BY <1>1, <1>6
<1>10. ASSUME NEW q \in Runs \ {r}
       PROVE  \A id \in DOMAIN new : new[id].run = q =>
                id \in 1..N /\ new[id] = table[id] /\ table[id].run = q
  <2> SUFFICES ASSUME NEW id \in DOMAIN new, new[id].run = q
               PROVE  id \in 1..N /\ new[id] = table[id] /\ table[id].run = q
    OBVIOUS
  <2>1. id \in 1..N
    BY <1>5, <1>6, <1>7
  <2> QED
    BY <1>3, <1>4, <1>6, <2>1
<1>11. ASSUME NEW id \in DOMAIN new, new[id].run = r
       PROVE  id - N \in 1..M /\ id = N + (id - N) /\ new[id] = fresh[id - N]
  <2>1. id \notin 1..N
    BY <1>3, <1>4, <1>6, <1>11
  <2> QED
    BY <1>6, <1>7, <2>1
<1>12. ASSUME NEW q \in Runs \ {r}
       PROVE  /\ \A id \in DOMAIN new : new[id].run = q =>
                   /\ new[id].workflow = WorkflowOf[q]
                   /\ after[q].report # NoReport
                   /\ new[id].key \in after[q].report.keys
              /\ after[q].report # NoReport =>
                   \A key \in after[q].report.keys :
                     \E id \in DOMAIN new : new[id].run = q /\ new[id].key = key
              /\ \A m, n \in DOMAIN new :
                   new[m].run = q /\ new[n].run = q /\ new[m].key = new[n].key => m = n
  <2>1. \A id \in 1..N : table[id].run = q => new[id] = table[id] /\ id \in DOMAIN new
    BY <1>4, <1>6, <1>8
  <2>2. after[q] = record[q]
    OBVIOUS
  <2>3. \A id \in DOMAIN new : new[id].run = q =>
                   /\ new[id].workflow = WorkflowOf[q]
                   /\ after[q].report # NoReport
                   /\ new[id].key \in after[q].report.keys
    BY <1>8, <1>10, <2>2 DEF Mirrors
  <2>4. after[q].report # NoReport =>
                   \A key \in after[q].report.keys :
                     \E id \in DOMAIN new : new[id].run = q /\ new[id].key = key
    BY <1>1, <2>1, <2>2 DEF Mirrors
  <2>5. \A m, n \in DOMAIN new :
                   new[m].run = q /\ new[n].run = q /\ new[m].key = new[n].key => m = n
    BY <1>8, <1>10 DEF Mirrors
  <2> QED
    BY <2>3, <2>4, <2>5
<1>13. /\ \A id \in DOMAIN new : new[id].run = r =>
                   /\ new[id].workflow = WorkflowOf[r]
                   /\ after[r].report # NoReport
                   /\ new[id].key \in after[r].report.keys
       /\ after[r].report # NoReport =>
                   \A key \in after[r].report.keys :
                     \E id \in DOMAIN new : new[id].run = r /\ new[id].key = key
       /\ \A m, n \in DOMAIN new :
                   new[m].run = r /\ new[n].run = r /\ new[m].key = new[n].key => m = n
  <2>1. \A id \in DOMAIN new : new[id].run = r =>
                   /\ new[id].workflow = WorkflowOf[r]
                   /\ after[r].report # NoReport
                   /\ new[id].key \in after[r].report.keys
    BY <1>1, <1>5, <1>11
  <2>2. \A key \in keys : \E id \in DOMAIN new : new[id].run = r /\ new[id].key = key
    <3> SUFFICES ASSUME NEW key \in keys
                 PROVE  \E id \in DOMAIN new : new[id].run = r /\ new[id].key = key
      OBVIOUS
    <3>1. PICK n \in 1..M : list[n] = key
      BY <1>1 DEF IsListing
    <3>2. N + n \in DOMAIN new /\ new[N + n] = fresh[n]
      BY <1>6, <1>9
    <3> QED
      BY <1>5, <3>1, <3>2
  <2>3. ASSUME NEW m \in DOMAIN new, NEW n \in DOMAIN new,
               new[m].run = r, new[n].run = r, new[m].key = new[n].key
        PROVE  m = n
    <3>1. /\ m - N \in 1..M /\ m = N + (m - N) /\ new[m] = fresh[m - N]
          /\ n - N \in 1..M /\ n = N + (n - N) /\ new[n] = fresh[n - N]
      BY <1>11, <2>3
    <3>2. list[m - N] = list[n - N]
      BY <1>5, <2>3, <3>1
    <3>3. m - N = n - N
      BY <1>9, <3>1, <3>2 DEF IsListing
    <3> QED
      BY <3>1, <3>3
  <2> QED
    BY <2>1, <2>2, <2>3
<1>14. Mirrors(new, after)
  BY <1>12, <1>13 DEF Mirrors
<1> QED
  BY <1>6, <1>14 DEF new, kept, fresh, Rewritten

LEMMA RowsWritten ==
  ASSUME ReportsInv, RowsInv, NEW r \in Runs, NEW workflow \in Workflows \cup {None},
         NEW status \in {"queued", "completed", "failed"},
         NEW given \in Report \cup {NoReport}, Upsert(r, workflow, status, given),
         run'[r].workflow = WorkflowOf[r]
  PROVE  RowsInv'
<1>1. /\ \A q \in Runs \ {r} : run'[q] = run[q]
      /\ given = NoReport => run'[r].report = run[r].report
      /\ given # NoReport => run'[r].report = given
  BY UpsertStep
<1>2. rows' = ChildRowsReplaced(r, run'[r].workflow, given)
  BY DEF Upsert, ReportsInv
<1>3. CASE given = NoReport
  <2>1. rows' = rows /\ \A q \in Runs : run'[q].report = run[q].report
    BY <1>1, <1>2, <1>3 DEF ChildRowsReplaced
  <2> QED
    BY <2>1 DEF RowsInv, Mirrors
<1>4. CASE given # NoReport
  <2> DEFINE keys == given.keys
             list == SetToSeq(keys)
  <2>1. keys \in SUBSET Keys
    BY <1>4 DEF Report
  <2>2. IsListing(list, keys)
    BY <2>1, KeysAreListed
  <2>3. rows' = Rewritten(rows, r, list)
    BY <1>2, <1>4 DEF ChildRowsReplaced, RowsOf, Rewritten
  <2>4. run'[r].report # NoReport /\ run'[r].report.keys = keys
    BY <1>1, <1>4
  <2> HIDE DEF keys, list
  <2>5. /\ Rewritten(rows, r, list) \in Seq(ViolationRows \cup {Deleted})
        /\ Mirrors(Rewritten(rows, r, list), run')
    BY <1>1, <2>1, <2>2, <2>4, RowsRewritten DEF RowsInv
  <2> QED
    BY <2>3, <2>5 DEF RowsInv
<1> QED
  BY <1>3, <1>4

LEMMA RowsStep == ReportsInv /\ RowsInv /\ [Next]_vars => RowsInv'
<1> SUFFICES ASSUME ReportsInv, RowsInv, [Next]_vars PROVE RowsInv'
  OBVIOUS
<1> DEFINE Given == Report \cup {NoReport}
           Statuses == {"queued", "completed", "failed"}
<1>1. \A r \in Runs : WorkflowOf[r] \in Workflows /\ WorkflowOf[r] # None
  BY ReportsAssumption
<1>2. \A r \in Runs : run[r].status # "absent" => run[r].workflow = WorkflowOf[r]
  BY DEF ReportsInv, RowInv
<1>3. ASSUME NEW r \in Runs, NEW status \in Statuses, NEW given \in Given,
             Upsert(r, WorkflowOf[r], status, given)
      PROVE  RowsInv'
  <2>1. run'[r].workflow = WorkflowOf[r]
    BY <1>1, <1>3, UpsertStep
  <2> QED
    BY <1>1, <1>3, <2>1, RowsWritten
<1>4. ASSUME NEW r \in Runs, CreateRun(r) PROVE RowsInv'
  BY <1>3, <1>4 DEF CreateRun
<1>5. ASSUME NEW r \in Runs, Complete(r) PROVE RowsInv'
  <2>1. PICK keys \in SUBSET Keys :
          Upsert(r, run[r].workflow, "completed",
                 NewReport(keys, IF keys = {} THEN 0 ELSE 1))
    BY <1>5 DEF Complete
  <2>2. NewReport(keys, IF keys = {} THEN 0 ELSE 1) \in Given
    BY DEF NewReport, Report, Decision
  <2>3. run[r].workflow = WorkflowOf[r]
    BY <1>2, <1>5 DEF Complete
  <2> QED
    BY <1>3, <2>1, <2>2, <2>3
<1>6. ASSUME NEW r \in Runs, Fail(r) PROVE RowsInv'
  BY <1>2, <1>3, <1>6 DEF Fail
<1>7. ASSUME NEW o \in Operators, PutApproval(o) PROVE RowsInv'
  <2> DEFINE r == request[o].run
             data == request[o].data
  <2>1. /\ r \in Runs /\ run[r].status = "completed" /\ data \in Given
        /\ Upsert(r, None, "completed", data)
    BY <1>7 DEF PutApproval, ReportsInv, RequestInv
  <2> HIDE DEF r, data
  <2>2. run'[r].workflow = run[r].workflow
    BY <2>1, UpsertStep
  <2> QED
    BY <1>2, <2>1, <2>2, RowsWritten
<1>8. CASE UNCHANGED <<run, rows>>
  BY <1>8 DEF RowsInv, Mirrors
<1> QED
  BY <1>4, <1>5, <1>6, <1>7, <1>8 DEF Next, vars, ReadForApproval

(* The rows and the reports, together.                                     *)
THEOREM RowsMirrorReports == Spec => [](ReportsInv /\ RowsInv)
<1>1. Init => ReportsInv /\ RowsInv
  <2> SUFFICES ASSUME Init PROVE RowsInv
    BY InitReports
  <2>1. rows = <<>> /\ \A r \in Runs : run[r].report = NoReport
    BY DEF Init, NoRow
  <2> QED
    BY <2>1 DEF RowsInv, Mirrors
<1>2. ReportsInv /\ RowsInv /\ [Next]_vars => ReportsInv' /\ RowsInv'
  BY ReportsStep, RowsStep
<1> QED
  BY <1>1, <1>2, PTL DEF Spec

LEMMA RowsAreCounted == ReportsInv /\ RowsInv => RowsMatchReports
<1> SUFFICES ASSUME ReportsInv, RowsInv, NEW r \in Runs,
                    NEW own, own = {n \in DOMAIN rows : rows[n].run = r}
             PROVE  IF run[r].report = NoReport THEN own = {}
                    ELSE /\ {rows[n].key : n \in own} = run[r].report.keys
                         /\ Cardinality(own) = Cardinality(run[r].report.keys)
  BY DEF RowsMatchReports
<1>1. CASE run[r].report = NoReport
  BY <1>1 DEF RowsInv, Mirrors
<1>2. CASE run[r].report # NoReport
  <2> DEFINE keys == run[r].report.keys
             f == [n \in own |-> rows[n].key]
  <2>1. keys \in SUBSET Keys
    BY <1>2 DEF ReportsInv, Rows, Report
  <2>2. IsFiniteSet(keys)
    BY <2>1, ReportsAssumption, FS_Subset
  <2>3. \A n \in own : n \in DOMAIN rows /\ rows[n].run = r /\ rows[n].key \in keys
    BY DEF RowsInv, Mirrors
  <2>4. \A key \in keys : \E n \in own : rows[n].key = key
    BY <1>2 DEF RowsInv, Mirrors
  <2>5. \A m, n \in own : rows[m].key = rows[n].key => m = n
    BY DEF RowsInv, Mirrors
  <2>6. {rows[n].key : n \in own} = keys
    BY <2>3, <2>4
  <2> HIDE DEF keys
  <2>7. f \in Injection(own, keys) /\ f \in Surjection(own, keys)
    <3>1. f \in [own -> keys] /\ \A n \in own : f[n] = rows[n].key
      BY <2>3
    <3> HIDE DEF f
    <3>2. \A m, n \in own : f[m] = f[n] => m = n
      BY <2>5, <3>1
    <3>3. \A key \in keys : \E n \in own : f[n] = key
      BY <2>4, <3>1
    <3> QED
      BY <3>1, <3>2, <3>3 DEF Injection, IsInjective, Surjection
  <2> HIDE DEF f
  <2>8. Cardinality(own) = Cardinality(keys)
    BY <2>2, <2>7, FS_Injection
  <2> QED
    BY <1>2, <2>6, <2>8 DEF keys
<1> QED
  BY <1>1, <1>2

(* However often a report is written, and by whomever, the violation rows  *)
(* of its run are its violations, each once.                               *)
THEOREM RowsAreTheReports == Spec => []RowsMatchReports
  BY RowsMirrorReports, RowsAreCounted, PTL

-----------------------------------------------------------------------------
(***************************************************************************)
(* Recurrences.  A group is made from the rows one after the other; what   *)
(* it is after n of them is argued by induction on n.                      *)
(***************************************************************************)

(* Every set of numbers has a least member, and induction on numbers for   *)
(* sets instead of predicates.                                             *)
LEMMA NatMin ==
  ASSUME NEW T, T \subseteq Nat, T # {}
  PROVE  \E x \in T : \A y \in T : x <= y
<1> DEFINE R == OpToRel(<, Nat)
<1>1. \A x, y \in Nat : x < y => <<x, y>> \in R
  BY DEF OpToRel
<1>2. IsWellFoundedOn(R, Nat)
  BY NatLessThanWellFounded
<1> HIDE DEF R
<1>3. PICK x \in T : \A y \in T : ~ (<<y, x>> \in R)
  BY <1>2, WFMin
<1>4. \A y \in T : x \in Nat /\ y \in Nat /\ ~ (y < x)
  BY <1>1, <1>3
<1> QED
  BY <1>4

LEMMA NatInd ==
  ASSUME NEW T, 0 \in T, \A n \in Nat : n \in T => n + 1 \in T
  PROVE  Nat \subseteq T
<1> SUFFICES ASSUME NEW k \in Nat, k \notin T PROVE FALSE
  OBVIOUS
<1> DEFINE U == {n \in Nat : n \notin T}
<1>1. PICK x \in U : \A y \in U : x <= y
  <2>1. U \subseteq Nat /\ U # {}
    OBVIOUS
  <2> QED
    BY <2>1, NatMin
<1>2. x # 0 /\ x - 1 \in Nat /\ x - 1 \in T
  BY <1>1
<1> QED
  BY <1>1, <1>2

(* f has b at place 0 and at each other what G makes of the one before.    *)
Iterates(f, N, V, b, G) ==
  f \in [0..N -> V] /\ f[0] = b /\ \A n \in 1..N : f[n] = G[<<n, f[n - 1]>>]

LEMMA Iteration ==
  ASSUME NEW N \in Nat, NEW V, NEW b \in V, NEW G \in [(1..N) \X V -> V]
  PROVE  \E f : Iterates(f, N, V, b, G)
<1> DEFINE Good(f, k) == f[0] = b /\ \A n \in 1..k : f[n] = G[<<n, f[n - 1]>>]
           T == {k \in Nat : k <= N => \E f \in [0..k -> V] : Good(f, k)}
<1>1. 0 \in T
  <2>1. [n \in 0..0 |-> b] \in [0..0 -> V] /\ Good([n \in 0..0 |-> b], 0)
    OBVIOUS
  <2> QED
    BY <2>1
<1>2. ASSUME NEW k \in Nat, k \in T
      PROVE  k + 1 \in T
  <2> SUFFICES ASSUME k + 1 <= N
               PROVE  \E f \in [0..(k + 1) -> V] : Good(f, k + 1)
    OBVIOUS
  <2>1. PICK f \in [0..k -> V] : Good(f, k)
    BY <1>2
  <2> DEFINE e == [n \in 0..(k + 1) |-> IF n = k + 1 THEN G[<<k + 1, f[k]>>] ELSE f[n]]
  <2>2. G[<<k + 1, f[k]>>] \in V
    OBVIOUS
  <2>3. e \in [0..(k + 1) -> V]
    BY <2>2
  <2>4. e[0] = b
    BY <2>1
  <2>5. ASSUME NEW n \in 1..(k + 1) PROVE e[n] = G[<<n, e[n - 1]>>]
    <3>1. CASE n = k + 1
      <4>1. n \in 0..(k + 1) /\ n - 1 = k /\ k \in 0..(k + 1) /\ k # k + 1
        BY <3>1
      <4>2. e[n] = G[<<k + 1, f[k]>>] /\ e[k] = f[k]
        BY <3>1, <4>1
      <4> QED
        BY <3>1, <4>1, <4>2
    <3>2. CASE n # k + 1
      <4>1. n \in 1..k /\ n - 1 \in 0..k /\ n - 1 # k + 1
        BY <3>2
      <4> QED
        BY <2>1, <4>1
    <3> QED
      BY <3>1, <3>2
  <2> HIDE DEF e
  <2> QED
    BY <2>3, <2>4, <2>5
<1> HIDE DEF T
<1>3. N \in T
  BY <1>1, <1>2, NatInd
<1> QED
  BY <1>3 DEF T, Iterates

Groups == [samples : Seq(Runs), first : Runs, last : Runs, firstSeen : Nat, lastSeen : Nat]

(* group has counted the runs in them, each of which was seen.             *)
Counts(workflow, group, them) ==
  /\ group \in Groups
  /\ {group.samples[n] : n \in DOMAIN group.samples} = them
  /\ \A m, n \in DOMAIN group.samples : group.samples[m] = group.samples[n] => m = n
  /\ {group.first, group.last} \subseteq them
  /\ group.firstSeen = SeenAt(run, workflow, group.first)
  /\ group.lastSeen = SeenAt(run, workflow, group.last)
  /\ \A r \in them : /\ SeenAt(run, workflow, r) \in Nat /\ SeenAt(run, workflow, r) # 0
                     /\ group.firstSeen <= SeenAt(run, workflow, r)
                     /\ SeenAt(run, workflow, r) <= group.lastSeen

(* The first row makes the group, which has its run. *)
LEMMA FirstCounted ==
  ASSUME NEW w, NEW r \in Runs, SeenAt(run, w, r) \in Nat, SeenAt(run, w, r) # 0
  PROVE  Counts(w, Counted(run, w, NewGroup(run, w, r), r), {r})
<1> DEFINE at == SeenAt(run, w, r)
           group == Counted(run, w, NewGroup(run, w, r), r)
           fresh == NewGroup(run, w, r)
<1> HIDE DEF at
<1>1. /\ group.samples = <<r>> /\ group.first = r /\ group.last = r
      /\ group.firstSeen = at /\ group.lastSeen = at
      /\ group = [samples |-> group.samples, last |-> group.last,
                  lastSeen |-> group.lastSeen, first |-> group.first,
                  firstSeen |-> group.firstSeen]
  <2>1. /\ fresh.samples = <<>> /\ fresh.first = r /\ fresh.last = r
        /\ fresh.firstSeen = at /\ fresh.lastSeen = at
    BY DEF NewGroup, at
  <2>2. r \notin ToSet(fresh.samples)
    BY <2>1 DEF ToSet
  <2> HIDE DEF fresh
  <2>3. group = [samples   |-> Append(fresh.samples, r),
                 last      |-> IF at # 0 /\ (fresh.lastSeen = 0 \/ at >= fresh.lastSeen)
                               THEN r ELSE fresh.last,
                 lastSeen  |-> IF at # 0 /\ (fresh.lastSeen = 0 \/ at >= fresh.lastSeen)
                               THEN at ELSE fresh.lastSeen,
                 first     |-> IF at # 0 /\ (fresh.firstSeen = 0 \/ at < fresh.firstSeen)
                               THEN r ELSE fresh.first,
                 firstSeen |-> IF at # 0 /\ (fresh.firstSeen = 0 \/ at < fresh.firstSeen)
                               THEN at ELSE fresh.firstSeen]
    BY <2>2 DEF Counted, fresh, at
  <2> QED
    BY <2>1, <2>3
<1> HIDE DEF group, fresh
<1>2. at \in Nat /\ at # 0
  BY DEF at
<1>3. group \in Groups
  <2>1. <<r>> \in Seq(Runs)
    OBVIOUS
  <2> QED
    BY <1>1, <1>2, <2>1 DEF Groups
<1>4. group.samples = <<r>> /\ DOMAIN group.samples = 1..1 /\ group.samples[1] = r
  BY <1>1
<1>5. Counts(w, group, {r})
  BY <1>1, <1>2, <1>3, <1>4 DEF Counts, at
<1> QED
  BY <1>5 DEF group

(* Each further one adds its run, unless it has it. *)
LEMMA NextCounted ==
  ASSUME NEW w, NEW them, NEW old, Counts(w, old, them),
         NEW r \in Runs, SeenAt(run, w, r) \in Nat, SeenAt(run, w, r) # 0
  PROVE  Counts(w, Counted(run, w, old, r), them \cup {r})
<1> DEFINE at == SeenAt(run, w, r)
           group == Counted(run, w, old, r)
<1>1. /\ old \in Groups /\ old.samples \in Seq(Runs) /\ old.first \in Runs /\ old.last \in Runs
      /\ old.firstSeen \in Nat /\ old.lastSeen \in Nat
      /\ old.firstSeen # 0 /\ old.lastSeen # 0
  BY DEF Counts, Groups
<1>2. at \in Nat /\ at # 0
  OBVIOUS
<1>3. /\ group.samples = IF r \in {old.samples[n] : n \in DOMAIN old.samples} THEN old.samples
                         ELSE Append(old.samples, r)
      /\ group.last = IF at >= old.lastSeen THEN r ELSE old.last
      /\ group.lastSeen = IF at >= old.lastSeen THEN at ELSE old.lastSeen
      /\ group.first = IF at < old.firstSeen THEN r ELSE old.first
      /\ group.firstSeen = IF at < old.firstSeen THEN at ELSE old.firstSeen
      /\ group = [samples |-> group.samples, last |-> group.last,
                  lastSeen |-> group.lastSeen, first |-> group.first,
                  firstSeen |-> group.firstSeen]
  BY <1>1, <1>2 DEF Counted, ToSet
<1> HIDE DEF group
<1>4. r \in them <=> r \in {old.samples[n] : n \in DOMAIN old.samples}
  BY DEF Counts
<1>5. /\ group.samples \in Seq(Runs)
      /\ {group.samples[n] : n \in DOMAIN group.samples} = them \cup {r}
      /\ \A m, n \in DOMAIN group.samples : group.samples[m] = group.samples[n] => m = n
  <2>1. CASE r \in them
    BY <1>1, <1>3, <1>4, <2>1 DEF Counts
  <2>2. CASE r \notin them
    <3> DEFINE s == old.samples
               N == Len(s)
    <3>1. s \in Seq(Runs) /\ N \in Nat /\ DOMAIN s = 1..N
      BY <1>1
    <3>2. {s[n] : n \in 1..N} = them /\ \A m, n \in 1..N : s[m] = s[n] => m = n
      BY <3>1 DEF Counts
    <3>3. group.samples = Append(s, r)
      BY <1>3, <1>4, <2>2
    <3> HIDE DEF s
    <3>4. /\ group.samples \in Seq(Runs) /\ DOMAIN group.samples = 1..(N + 1)
          /\ \A n \in 1..N : group.samples[n] = s[n]
          /\ group.samples[N + 1] = r
      BY <3>1, <3>3
    <3> HIDE DEF N
    <3>5. \A n \in 1..(N + 1) : n \in 1..N \/ n = N + 1
      BY <3>1
    <3>6. \A n \in 1..N : n \in 1..(N + 1) /\ s[n] # r
      BY <2>2, <3>1, <3>2
    <3>7. N + 1 \in 1..(N + 1)
      BY <3>1
    <3>8. {group.samples[n] : n \in DOMAIN group.samples} = them \cup {r}
      BY <3>2, <3>4, <3>5, <3>6, <3>7
    <3>9. \A m, n \in DOMAIN group.samples : group.samples[m] = group.samples[n] => m = n
      BY <3>2, <3>4, <3>5, <3>6
    <3> QED
      BY <3>4, <3>8, <3>9
  <2> QED
    BY <2>1, <2>2
<1>6. group \in Groups
  BY <1>1, <1>2, <1>3, <1>5 DEF Groups
<1>7. /\ {group.first, group.last} \subseteq them \cup {r}
      /\ group.firstSeen = SeenAt(run, w, group.first)
      /\ group.lastSeen = SeenAt(run, w, group.last)
  BY <1>3 DEF Counts
<1>8. /\ group.firstSeen <= old.firstSeen /\ group.firstSeen <= at
      /\ old.lastSeen <= group.lastSeen /\ at <= group.lastSeen
  <2> HIDE DEF at
  <2> QED
    BY <1>1, <1>2, <1>3
<1>9. ASSUME NEW q \in them \cup {r}
      PROVE  /\ SeenAt(run, w, q) \in Nat /\ SeenAt(run, w, q) # 0
             /\ group.firstSeen <= SeenAt(run, w, q)
             /\ SeenAt(run, w, q) <= group.lastSeen
  <2>1. CASE q = r
    BY <1>2, <1>8, <2>1
  <2>2. CASE q # r
    <3>1. /\ SeenAt(run, w, q) \in Nat /\ SeenAt(run, w, q) # 0
          /\ old.firstSeen <= SeenAt(run, w, q) /\ SeenAt(run, w, q) <= old.lastSeen
      BY <2>2 DEF Counts
    <3>2. group.firstSeen \in Nat /\ group.lastSeen \in Nat
      BY <1>6 DEF Groups
    <3> QED
      BY <1>1, <1>8, <3>1, <3>2
  <2> QED
    BY <2>1, <2>2
<1>10. Counts(w, group, them \cup {r})
  BY <1>5, <1>6, <1>7, <1>9 DEF Counts
<1> QED
  BY <1>10 DEF group

(* row is one of the key. *)
IsOwn(row, workflow, key) == row.workflow = workflow /\ row.key = key

(* What a row of the table makes of a group. *)
After(row, workflow, key, old) ==
  IF ~IsOwn(row, workflow, key) THEN old
  ELSE Counted(run, workflow, IF old = NoGroup THEN NewGroup(run, workflow, row.run) ELSE old, row.run)

(* A group made so far, of the runs that have a row of the key among the   *)
(* first n.                                                                *)
Made(workflow, key, group, n) ==
  LET them == {rows[id].run : id \in {m \in 1..n : IsOwn(rows[m], workflow, key)}}
  IN IF group = NoGroup THEN them = {} ELSE Counts(workflow, group, them)

LEMMA NoGroupIsNone == NoGroup \notin Groups
<1> SUFFICES ASSUME NoGroup \in Groups PROVE FALSE
  OBVIOUS
<1>1. DOMAIN NoGroup = {"none"}
  BY DEF NoGroup
<1>2. DOMAIN NoGroup = {"samples", "first", "last", "firstSeen", "lastSeen"}
  BY DEF Groups
<1> QED
  BY <1>1, <1>2

(* A row of a key is of a run of the workflow that was seen.               *)
LEMMA OwnRowsWereSeen ==
  ASSUME ReportsInv, RowsInv, NEW w \in Workflows, NEW key, NEW id \in DOMAIN rows,
         IsOwn(rows[id], w, key)
  PROVE  LET r == rows[id].run
         IN /\ r \in Runs /\ WorkflowOf[r] = w
            /\ run[r].report # NoReport /\ key \in run[r].report.keys
            /\ SeenAt(run, w, r) = run[r].seen /\ SeenAt(run, w, r) \in Nat /\ SeenAt(run, w, r) # 0
<1> DEFINE r == rows[id].run
<1>1. rows[id] \in ViolationRows
  <2>1. rows[id] \in ViolationRows \cup {Deleted}
    BY DEF RowsInv
  <2>2. Deleted.workflow \notin Workflows
    BY ReportsAssumption DEF Deleted
  <2> QED
    BY <2>1, <2>2 DEF IsOwn
<1>2. r \in Runs
  BY <1>1 DEF ViolationRows
<1>3. /\ rows[id].workflow = WorkflowOf[r]
      /\ run[r].report # NoReport /\ rows[id].key \in run[r].report.keys
  BY <1>2 DEF RowsInv, Mirrors
<1>4. run[r].status = "completed"
  BY <1>2, <1>3 DEF ReportsInv, RowInv
<1>5. run[r].workflow = WorkflowOf[r] /\ run[r].seen # 0 /\ run[r].seen \in Nat
  BY <1>2, <1>4 DEF ReportsInv, RowInv, Rows
<1> QED
  BY <1>2, <1>3, <1>5 DEF IsOwn, SeenAt

(* The group after all rows. *)
LEMMA GroupsAreMade ==
  ASSUME ReportsInv, RowsInv, NEW w \in Workflows, NEW key \in Keys
  PROVE  Made(w, key, Recurrence(rows, run, w, key), Len(rows))
<1> DEFINE N == Len(rows)
           V == Groups \cup {NoGroup}
           step == [n \in 1..N |-> [old \in V |-> After(rows[n], w, key, old)]]
           Own(n) == {m \in 1..n : IsOwn(rows[m], w, key)}
           Them(n) == {rows[id].run : id \in Own(n)}
<1>1. N \in Nat /\ DOMAIN rows = 1..N
  BY DEF RowsInv
<1> HIDE DEF N
<1>2. ASSUME NEW n \in Nat, n + 1 <= N, NEW old \in V, Made(w, key, old, n)
      PROVE  /\ After(rows[n + 1], w, key, old) \in V
             /\ Made(w, key, After(rows[n + 1], w, key, old), n + 1)
  <2> DEFINE row == rows[n + 1]
  <2>1. n + 1 \in 1..N /\ n + 1 \in DOMAIN rows
    BY <1>1, <1>2
  <2>2. CASE ~IsOwn(row, w, key)
    <3>1. Own(n + 1) = Own(n)
      BY <2>2
    <3>2. After(row, w, key, old) = old
      BY <2>2 DEF After
    <3> QED
      BY <1>2, <3>1, <3>2 DEF Made
  <2>3. CASE IsOwn(row, w, key)
    <3>1. row.run \in Runs /\ SeenAt(run, w, row.run) \in Nat /\ SeenAt(run, w, row.run) # 0
      BY <2>1, <2>3, OwnRowsWereSeen
    <3>2. Own(n + 1) = Own(n) \cup {n + 1}
      BY <2>3
    <3>3. Them(n + 1) = Them(n) \cup {row.run}
      BY <3>2
    <3> DEFINE new == After(row, w, key, old)
    <3>4. Counts(w, new, Them(n) \cup {row.run})
      <4>1. CASE old = NoGroup
        <5>1. Them(n) = {}
          BY <1>2, <4>1 DEF Made
        <5>2. new = Counted(run, w, NewGroup(run, w, row.run), row.run)
          BY <2>3, <4>1 DEF After
        <5>3. Counts(w, new, {row.run})
          BY <3>1, <5>2, FirstCounted
        <5> QED
          BY <5>1, <5>3
      <4>2. CASE old # NoGroup
        <5>1. Counts(w, old, Them(n))
          BY <1>2, <4>2 DEF Made
        <5>2. new = Counted(run, w, old, row.run)
          BY <2>3, <4>2 DEF After
        <5> HIDE DEF Them, new
        <5> QED
          BY <3>1, <5>1, <5>2, NextCounted
      <4> QED
        BY <4>1, <4>2
    <3>5. new \in Groups /\ new # NoGroup
      BY <3>4, NoGroupIsNone DEF Counts
    <3>6. Made(w, key, new, n + 1)
      BY <3>3, <3>4, <3>5 DEF Made
    <3> QED
      BY <3>5, <3>6
  <2> HIDE DEF V, row
  <2> QED
    BY <2>2, <2>3 DEF row
<1> DEFINE G == [p \in (1..N) \X V |->
                   IF After(rows[p[1]], w, key, p[2]) \in V
                   THEN After(rows[p[1]], w, key, p[2]) ELSE NoGroup]
<1>3. NoGroup \in V /\ G \in [(1..N) \X V -> V]
  OBVIOUS
<1> HIDE DEF V
<1>4. PICK f : /\ f \in [0..N -> V] /\ f[0] = NoGroup
               /\ \A n \in 1..N : f[n] = G[<<n, f[n - 1]>>]
  <2> HIDE DEF G
  <2>1. \E f : Iterates(f, N, V, NoGroup, G)
    BY <1>1, <1>3, Iteration
  <2> QED
    BY <2>1 DEF Iterates
<1> DEFINE T == {n \in Nat : n <= N =>
                   /\ f[n] \in V /\ Made(w, key, f[n], n)
                   /\ n # 0 => f[n] = After(rows[n], w, key, f[n - 1])}
<1>5. 0 \in T
  <2>1. Own(0) = {}
    OBVIOUS
  <2> QED
    BY <1>3, <1>4, <2>1 DEF Made
<1>6. ASSUME NEW n \in Nat, n \in T
      PROVE  n + 1 \in T
  <2> SUFFICES ASSUME n + 1 <= N
               PROVE  /\ f[n + 1] \in V /\ Made(w, key, f[n + 1], n + 1)
                      /\ f[n + 1] = After(rows[n + 1], w, key, f[n])
    OBVIOUS
  <2>1. f[n] \in V /\ Made(w, key, f[n], n)
    BY <1>1, <1>6
  <2>2. /\ After(rows[n + 1], w, key, f[n]) \in V
        /\ Made(w, key, After(rows[n + 1], w, key, f[n]), n + 1)
    BY <1>2, <2>1
  <2>3. n + 1 \in 1..N /\ (n + 1) - 1 = n
    BY <1>1
  <2>4. f[n + 1] = G[<<n + 1, f[n]>>]
    BY <1>4, <2>3
  <2>5. f[n + 1] = After(rows[n + 1], w, key, f[n])
    BY <2>1, <2>2, <2>3, <2>4
  <2> QED
    BY <2>2, <2>5
<1> HIDE DEF T, G
<1>7. Nat \subseteq T
  BY <1>5, <1>6, NatInd
<1>8. Made(w, key, f[N], N) /\ \A n \in 1..N : f[n] = After(rows[n], w, key, f[n - 1])
  BY <1>1, <1>7 DEF T
<1> DEFINE Eq(g) == g = [n \in 0..N |-> IF n = 0 THEN NoGroup
                                      ELSE After(rows[n], w, key, g[n - 1])]
           group == CHOOSE g : Eq(g)
<1>9. Recurrence(rows, run, w, key) = group[N]
  BY DEF Recurrence, After, IsOwn, N
<1>10. Eq(f)
  BY <1>4, <1>8
<1>11. Eq(group)
  BY <1>10
<1> HIDE DEF group
<1> DEFINE S == {n \in Nat : n <= N => group[n] = f[n]}
<1>12. 0 \in S
  BY <1>1, <1>4, <1>11
<1>13. ASSUME NEW n \in Nat, n \in S PROVE n + 1 \in S
  <2> SUFFICES ASSUME n + 1 <= N PROVE group[n + 1] = f[n + 1]
    OBVIOUS
  <2>1. n + 1 \in 0..N /\ n + 1 # 0 /\ n + 1 \in 1..N /\ (n + 1) - 1 = n /\ n <= N
    BY <1>1
  <2>2. group[n + 1] = After(rows[n + 1], w, key, group[n])
    BY <1>11, <2>1
  <2> QED
    BY <1>8, <1>13, <2>1, <2>2
<1> HIDE DEF S
<1>14. Nat \subseteq S
  BY <1>12, <1>13, NatInd
<1>15. group[N] = f[N]
  BY <1>1, <1>14 DEF S
<1> QED
  BY <1>8, <1>9, <1>15 DEF N

(* The runs a recurrence is to list, and what it is to say of them. *)
Violating(w, key) ==
  {r \in Runs : /\ WorkflowOf[r] = w
                /\ run[r].report # NoReport
                /\ key \in run[r].report.keys}

IsRecurrence(V, G) ==
  /\ V = {} <=> G = NoGroup
  /\ V # {} =>
       /\ ToSet(G.samples) = V
       /\ Len(G.samples) = Cardinality(V)
       /\ {G.first, G.last} \subseteq V
       /\ \A r \in V : run[G.first].seen <= run[r].seen /\ run[r].seen <= run[G.last].seen

LEMMA RecurrencesCounted == ReportsInv /\ RowsInv => RecurrencesAreTrue
<1> SUFFICES ASSUME ReportsInv, RowsInv, NEW w \in Workflows, NEW key \in Keys,
                    NEW V, V = Violating(w, key), NEW G, G = Recurrence(rows, run, w, key)
             PROVE  IsRecurrence(V, G)
  BY DEF RecurrencesAreTrue, IsRecurrence, Violating
<1> DEFINE N == Len(rows)
           own == {m \in 1..N : IsOwn(rows[m], w, key)}
           them == {rows[id].run : id \in own}
<1>1. N \in Nat /\ DOMAIN rows = 1..N
  BY DEF RowsInv
<1> HIDE DEF N
<1>2. \A id \in own :
        LET r == rows[id].run
        IN /\ r \in Runs /\ WorkflowOf[r] = w
           /\ run[r].report # NoReport /\ key \in run[r].report.keys
           /\ SeenAt(run, w, r) = run[r].seen /\ SeenAt(run, w, r) \in Nat /\ SeenAt(run, w, r) # 0
  BY <1>1, OwnRowsWereSeen
<1>3. them \subseteq V
  BY <1>2 DEF Violating
<1>4. ASSUME NEW r \in V PROVE r \in them
  <2>1. PICK id \in DOMAIN rows : rows[id].run = r /\ rows[id].key = key
    BY DEF RowsInv, Mirrors, Violating
  <2>2. rows[id].workflow = w
    BY <2>1 DEF RowsInv, Mirrors, Violating
  <2> QED
    BY <1>1, <2>1, <2>2 DEF IsOwn
<1>5. them = V /\ \A r \in V : SeenAt(run, w, r) = run[r].seen
  BY <1>2, <1>3, <1>4 DEF Violating
<1>6. Made(w, key, G, N)
  BY GroupsAreMade DEF N
<1>7. IF G = NoGroup THEN V = {} ELSE Counts(w, G, V)
  BY <1>5, <1>6 DEF Made
<1> HIDE DEF own, them
<1>8. ASSUME G # NoGroup
      PROVE  /\ V # {} /\ ToSet(G.samples) = V
             /\ Len(G.samples) = Cardinality(V)
             /\ {G.first, G.last} \subseteq V
             /\ \A r \in V : /\ run[G.first].seen <= run[r].seen
                                     /\ run[r].seen <= run[G.last].seen
  <2> DEFINE s == G.samples
             n == Len(s)
  <2>1. Counts(w, G, V)
    BY <1>7, <1>8
  <2>2. /\ s \in Seq(Runs) /\ {s[m] : m \in DOMAIN s} = V
        /\ \A l, m \in DOMAIN s : s[l] = s[m] => l = m
        /\ {G.first, G.last} \subseteq V
    BY <2>1 DEF Counts, Groups
  <2>3. \A r \in V : /\ run[G.first].seen <= run[r].seen
                            /\ run[r].seen <= run[G.last].seen
    BY <1>5, <2>1, <2>2 DEF Counts
  <2> HIDE DEF s
  <2>4. n \in Nat /\ DOMAIN s = 1..n
    BY <2>2
  <2> HIDE DEF n
  <2>5. s \in Bijection(1..n, V)
    BY <2>2, <2>4, s \in [1..n -> V]
       DEF Bijection, Injection, Surjection, IsInjective
  <2>6. ExistsBijection(1..n, V)
    BY <2>5 DEF ExistsBijection
  <2>7. Cardinality(V) = n
    BY <2>4, <2>6, FS_CountingElements
  <2> QED
    BY <2>2, <2>3, <2>7 DEF s, n, ToSet
<1> QED
  BY <1>7, <1>8 DEF IsRecurrence

(* A recurrence lists every run of the workflow whose stored report has    *)
(* the violation and no other, each once, and its ends are the first and   *)
(* the last of them to be written.                                         *)
THEOREM RecurrencesCountRuns == Spec => []RecurrencesAreTrue
  BY RowsMirrorReports, RecurrencesCounted, PTL

(***************************************************************************)
(* What moves of a recurrence.  The runs with a violation stay those they  *)
(* are while no run gets its first report; of two runs the last seen, or   *)
(* the first, can only change when one of them is written.                 *)
(***************************************************************************)

(* What a step may do to a group: G before it and H after it. *)
OnlyEndsMove(G, H) ==
  /\ G = NoGroup <=> H = NoGroup
  /\ G # NoGroup =>
       /\ ToSet(H.samples) = ToSet(G.samples)
       /\ Len(H.samples) = Len(G.samples)
       /\ H.last # G.last => run'[H.last] # run[H.last]
       /\ H.first # G.first => run'[G.first] # run[G.first]

(* IsRecurrence after the step. *)
IsNextRecurrence(V, H) ==
  /\ V = {} <=> H = NoGroup
  /\ V # {} =>
       /\ ToSet(H.samples) = V
       /\ Len(H.samples) = Cardinality(V)
       /\ {H.first, H.last} \subseteq V
       /\ \A r \in V : /\ run'[H.first].seen <= run'[r].seen
                        /\ run'[r].seen <= run'[H.last].seen

LEMMA EndsMove ==
  ASSUME ReportsInv, ReportsInv', OnlyDecides,
         NEW V, V \subseteq {r \in Runs : run[r].report # NoReport},
         NEW G, NEW H, IsRecurrence(V, G), IsNextRecurrence(V, H)
  PROVE  OnlyEndsMove(G, H)
<1>1. CASE V = {}
  BY <1>1 DEF IsRecurrence, IsNextRecurrence, OnlyEndsMove
<1>2. CASE V # {}
  <2>1. /\ G # NoGroup /\ H # NoGroup
        /\ ToSet(H.samples) = ToSet(G.samples) /\ Len(H.samples) = Len(G.samples)
        /\ {G.first, G.last, H.first, H.last} \subseteq V
        /\ \A r \in V : /\ run[G.first].seen <= run[r].seen
                         /\ run[r].seen <= run[G.last].seen
                         /\ run'[H.first].seen <= run'[r].seen
                         /\ run'[r].seen <= run'[H.last].seen
    BY <1>2 DEF IsRecurrence, IsNextRecurrence
  <2>2. ASSUME NEW r \in V
        PROVE  /\ r \in Runs /\ run[r].seen \in Nat /\ run[r].seen # 0
               /\ run'[r].seen \in Nat
               /\ run[r].seen <= run'[r].seen
    <3>1. r \in Runs /\ run[r].report # NoReport /\ run[r].status = "completed"
      BY DEF ReportsInv, RowInv
    <3>2. /\ run[r].seen \in Nat /\ run[r].seen # 0 /\ run'[r].seen \in Nat
      BY <3>1 DEF ReportsInv, RowInv, Rows
    <3> QED
      BY <3>1, <3>2 DEF OnlyDecides
  <2>3. ASSUME NEW p \in V, NEW q \in V, p # q PROVE run[p].seen # run[q].seen
    BY <2>2, <2>3 DEF ReportsInv, SeenInv
  <2>4. ASSUME H.last # G.last, run'[H.last] = run[H.last] PROVE FALSE
    <3>1. /\ run[H.last].seen <= run[G.last].seen
          /\ run'[G.last].seen <= run[H.last].seen
          /\ run[G.last].seen <= run'[G.last].seen
      BY <2>1, <2>2, <2>4
    <3> QED
      BY <2>1, <2>2, <2>3, <2>4, <3>1
  <2>5. ASSUME H.first # G.first, run'[G.first] = run[G.first] PROVE FALSE
    <3>1. /\ run[G.first].seen <= run[H.first].seen
          /\ run'[H.first].seen <= run[G.first].seen
          /\ run[H.first].seen <= run'[H.first].seen
      BY <2>1, <2>2, <2>5
    <3> QED
      BY <2>1, <2>2, <2>3, <2>5, <3>1
  <2> QED
    BY <2>1, <2>4, <2>5 DEF OnlyEndsMove
<1> QED
  BY <1>1, <1>2

LEMMA RecurrencesAreNext ==
  ASSUME (RecurrencesAreTrue)', NEW w \in Workflows, NEW key \in Keys,
         NEW V, V = {r \in Runs : /\ WorkflowOf[r] = w
                                  /\ run'[r].report # NoReport
                                  /\ key \in run'[r].report.keys}
  PROVE  IsNextRecurrence(V, Recurrence(rows', run', w, key))
BY DEF RecurrencesAreTrue, IsNextRecurrence

LEMMA RecurrencesStep ==
  ASSUME ReportsInv, ReportsInv', OnlyDecides, RecurrencesAreTrue, (RecurrencesAreTrue)',
         \A r \in Runs : run[r].report = NoReport => run'[r].report = NoReport,
         NEW w \in Workflows, NEW key \in Keys
  PROVE  OnlyEndsMove(Recurrence(rows, run, w, key), Recurrence(rows', run', w, key))
<1> DEFINE V == Violating(w, key)
           W == {r \in Runs : /\ WorkflowOf[r] = w
                             /\ run'[r].report # NoReport
                             /\ key \in run'[r].report.keys}
<1>1. ASSUME NEW r \in Runs
      PROVE  /\ run'[r].report = NoReport <=> run[r].report = NoReport
             /\ run[r].report # NoReport => run'[r].report.keys = run[r].report.keys
  <2>1. CASE run[r].report = NoReport
    BY <2>1
  <2>2. CASE run[r].report # NoReport
    BY <2>2 DEF ReportsInv, RowInv, OnlyDecides
  <2> QED
    BY <2>1, <2>2
<1>2. W = V
  BY <1>1 DEF Violating
<1>3. V \subseteq {r \in Runs : run[r].report # NoReport}
  BY DEF Violating
<1>4. IsRecurrence(V, Recurrence(rows, run, w, key))
  BY DEF RecurrencesAreTrue, IsRecurrence, Violating
<1>5. IsNextRecurrence(W, Recurrence(rows', run', w, key))
  BY RecurrencesAreNext
<1> HIDE DEF V, W
<1> QED
  BY <1>2, <1>3, <1>4, <1>5, EndsMove

(* While no run gets its first report, whatever copies operators write     *)
(* back in whatever order, every recurrence keeps its runs and its count;  *)
(* its last seen moves only to the run just written and its first seen     *)
(* only away from it.                                                      *)
THEOREM CopiesMoveOnlyEnds == Spec => ApprovalsMoveOnlyEnds
<1> DEFINE A ==
      (\A r \in Runs : run[r].report = NoReport => run'[r].report = NoReport)
        => \A w \in Workflows, key \in Keys :
             LET old == Recurrence(rows, run, w, key)
                 new == Recurrence(rows', run', w, key)
             IN /\ old = NoGroup <=> new = NoGroup
                /\ old # NoGroup =>
                     /\ ToSet(new.samples) = ToSet(old.samples)
                     /\ Len(new.samples) = Len(old.samples)
                     /\ new.last # old.last => run'[new.last] # run[new.last]
                     /\ new.first # old.first => run'[old.first] # run[old.first]
<1>1. ReportsInv /\ ReportsInv' /\ OnlyDecides /\ RecurrencesAreTrue /\ (RecurrencesAreTrue)' => A
  BY RecurrencesStep DEF OnlyEndsMove
<1> HIDE DEF A
<1>2. Spec => [](ReportsInv /\ RecurrencesAreTrue)
  BY RowsMirrorReports, RecurrencesCountRuns, PTL
<1>3. ReportsInv /\ [Next]_vars => OnlyDecides
  BY ReportsStep
<1>4. Spec => [][A]_vars
  BY <1>1, <1>2, <1>3, PTL DEF Spec
<1> QED
  BY <1>4 DEF A, ApprovalsMoveOnlyEnds

=============================================================================
