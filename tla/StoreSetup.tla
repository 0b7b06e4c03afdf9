----------------------------- MODULE StoreSetup -----------------------------
(***************************************************************************)
(* What a server process does to the database before it recovers and       *)
(* serves: ensure_store (api/db.py, api/store.py) creates missing tables,  *)
(* adds the columns an older version did not have, and seeds the fixture.  *)
(*                                                                         *)
(* Each statement that changes the schema commits by itself in SQLite, so  *)
(* that a process that stops in between leaves a part of the columns; each *)
(* inspection is a snapshot, so that a second process that starts at the   *)
(* same time may create what is already there, which raises and ends it.   *)
(* Every later operation of the store begins with the same set-up, which   *)
(* then has nothing to do (StoreIsComplete).                               *)
(*                                                                         *)
(* The module composes the set-up with RunLifecycle: Start, the beginning  *)
(* of the recovery, comes after it.                                        *)
(***************************************************************************)
EXTENDS RunLifecycle

CONSTANT MaxSetupStops  \* bound on processes that stop during their set-up

ASSUME SetupAssumption == MaxSetupStops \in Nat

VARIABLES
  schema,      \* the tables and columns that exist, as pairs
  fixtureRun,  \* the row of RUN-041: "absent", "costless" or "complete"
  earlier,     \* earlier[h]: number of violation rows of the earlier run h
  setup,       \* setup[i]: where the set-up of process i stands
  setupStops   \* number of processes that stopped during their set-up

storeVars == <<schema, fixtureRun, earlier>>
setupVars == <<storeVars, setup, setupStops>>

(* The tables; "workflows" stands also for patches, tests and api_keys.    *)
(* Later: the columns that older versions do not have.                     *)
Tables == {"workflows", "runs", "violations"}

Later(t) ==
  IF t = "runs"
  THEN {"daytona_seconds", "llm_tokens", "llm_cost_usd", "daytona_cost_usd"}
  ELSE IF t = "violations" THEN {"workflow_id", "recurrence_key", "rule"} ELSE {}

ColumnsOf(t) == {t} \X Later(t)

(* "table" stands for a table with the columns it always had. *)
ItemsOf(t) == {<<t, "table">>} \cup ColumnsOf(t)
AllItems == UNION {ItemsOf(t) : t \in Tables}

EarlierRuns == {"RUN-039", "RUN-040"}
EarlierRows == {"row"} \X EarlierRuns

(* The steps of ensure_store in their order; "ready" is when it returns. *)
SetupStage == {"off", "tables", "runs", "violations", "seed", "insert",
               "repair", "history", "ready"}

NotRunning == [at |-> "off", todo |-> {}]

SetupTypeOK ==
  /\ schema \subseteq AllItems
  /\ fixtureRun \in {"absent", "costless", "complete"}
  /\ earlier \in [EarlierRuns -> Nat]
  /\ setup \in [Instances -> [at : SetupStage,
                              todo : SUBSET (AllItems \cup EarlierRows)]]
  /\ setupStops \in 0..MaxSetupStops

(* What an older version left: nothing, tables without the columns of      *)
(* costs and recurrences, or without those of recurrences alone.           *)
SetupInit ==
  /\ Init
  /\ \/ schema = {} /\ fixtureRun = "absent"
     \/ schema = Tables \X {"table"} /\ fixtureRun = "costless"
     \/ /\ schema = AllItems \ ColumnsOf("violations")
        /\ fixtureRun \in {"costless", "complete"}
  /\ earlier = [h \in EarlierRuns |-> 0]
  /\ setup = [i \in Instances |-> NotRunning]
  /\ setupStops = 0

-----------------------------------------------------------------------------
(* Mutant: a table is altered only while it has none of its new columns. *)
MissingAtOnce(stage) ==
  IF stage = "tables" THEN (Tables \X {"table"}) \ schema
  ELSE IF stage \in Tables /\ ColumnsOf(stage) \cap schema = {}
       THEN ColumnsOf(stage) ELSE {}

(* What the inspection before a stage finds missing. *)
Missing(stage) ==
  IF stage = "tables" THEN (Tables \X {"table"}) \ schema
  ELSE IF stage \in Tables THEN ColumnsOf(stage) \ schema ELSE {}

Enter(i, stage) ==
  setup' = [setup EXCEPT ![i] = [at |-> stage, todo |-> Missing(stage)]]

(* A new table is created with all of its columns. *)
Created(item) == IF item[2] = "table" THEN ItemsOf(item[1]) ELSE {item}

(* The process starts. *)
Boot(i) ==
  /\ server[i] = "down"
  /\ setup[i].at = "off"
  /\ Enter(i, "tables")
  /\ UNCHANGED <<storeVars, setupStops>>

(* One CREATE TABLE or ALTER TABLE: it raises when another process was     *)
(* faster, and the process ends.                                           *)
ChangeSchema(i) ==
  \E item \in setup[i].todo :
    /\ setup[i].at \in {"tables", "runs", "violations"}
    /\ IF item \in schema
       THEN setup' = [setup EXCEPT ![i] = NotRunning] /\ UNCHANGED schema
       ELSE /\ schema' = schema \cup Created(item)
            /\ setup' = [setup EXCEPT ![i].todo = @ \ {item}]
    /\ UNCHANGED <<fixtureRun, earlier, setupStops>>

(* A stage has nothing left to do: the next one inspects. *)
NextStage(i) ==
  /\ setup[i].todo = {}
  /\ \/ setup[i].at = "tables" /\ Enter(i, "runs")
     \/ setup[i].at = "runs" /\ Enter(i, "violations")
     \/ setup[i].at = "violations" /\ Enter(i, "seed")
  /\ UNCHANGED <<storeVars, setupStops>>

-----------------------------------------------------------------------------
(***************************************************************************)
(* _seed_fixture.                                                          *)
(***************************************************************************)

(* The row of RUN-041 is looked up. *)
LookUpFixture(i) ==
  /\ setup[i].at = "seed"
  /\ \/ fixtureRun = "absent"   /\ Enter(i, "insert")
     \/ fixtureRun = "costless" /\ Enter(i, "repair")
     \/ fixtureRun = "complete" /\ Enter(i, "history")
  /\ UNCHANGED <<storeVars, setupStops>>

(* Workflow, run and the rows of the earlier runs are inserted in one      *)
(* transaction; a primary key that exists by now ends the process.         *)
InsertFixture(i) ==
  /\ setup[i].at = "insert"
  /\ IF fixtureRun # "absent"
     THEN setup' = [setup EXCEPT ![i] = NotRunning] /\ UNCHANGED storeVars
     ELSE /\ fixtureRun' = "complete"
          /\ earlier' = [h \in EarlierRuns |->
                           IF earlier[h] = 0 THEN 1 ELSE earlier[h]]
          /\ Enter(i, "ready")
          /\ UNCHANGED schema
  /\ UNCHANGED setupStops

(* A fixture of a version without costs is given its cost. *)
RepairFixture(i) ==
  /\ setup[i].at = "repair"
  /\ fixtureRun' = "complete"
  /\ Enter(i, "history")
  /\ UNCHANGED <<schema, earlier, setupStops>>

(* _seed_fixture_recurrence_history reads which rows exist; two are taken  *)
(* for both.                                                               *)
ReadHistory(i) ==
  /\ setup[i].at = "history"
  /\ setup[i].todo = {}
  /\ LET absent == {row \in EarlierRows : earlier[row[2]] = 0}
         enough == earlier["RUN-039"] + earlier["RUN-040"] >= 2
     IN setup' = [setup EXCEPT ![i] =
          IF enough THEN [at |-> "ready", todo |-> {}]
          ELSE [at |-> "history", todo |-> absent]]
  /\ UNCHANGED <<storeVars, setupStops>>

(* The rows found absent are inserted and committed together. *)
InsertHistory(i) ==
  /\ setup[i].at = "history"
  /\ setup[i].todo # {}
  /\ earlier' = [h \in EarlierRuns |->
                   IF <<"row", h>> \in setup[i].todo THEN earlier[h] + 1 ELSE earlier[h]]
  /\ Enter(i, "ready")
  /\ UNCHANGED <<schema, fixtureRun, setupStops>>

-----------------------------------------------------------------------------
SetupStep(i) ==
  /\ \/ Boot(i)
     \/ ChangeSchema(i)
     \/ NextStage(i)
     \/ LookUpFixture(i)
     \/ InsertFixture(i)
     \/ RepairFixture(i)
     \/ ReadHistory(i)
     \/ InsertHistory(i)
  /\ UNCHANGED vars

(* The process stops, or a statement of its set-up raises. *)
StopInSetup(i) ==
  /\ setup[i].at # "off"
  /\ server[i] = "down"
  /\ setupStops < MaxSetupStops
  /\ setupStops' = setupStops + 1
  /\ setup' = [setup EXCEPT ![i] = NotRunning]
  /\ UNCHANGED <<storeVars, vars>>

StartReady(i) ==
  /\ setup[i].at = "ready"
  /\ Start(i)
  /\ UNCHANGED setupVars

CrashReady(i) ==
  /\ Crash(i)
  /\ setup' = [setup EXCEPT ![i] = NotRunning]
  /\ UNCHANGED <<storeVars, setupStops>>

(* The steps of RunLifecycle that the set-up has no part in. *)
Serve ==
  \/ \E i \in Instances : Recover(i)
  \/ \E i \in Instances, r \in Runs : Submit(i, r)
  \/ \E r \in Runs : TaskStep(r) \/ StoreFault(r)

SetupNext ==
  \/ \E i \in Instances :
       SetupStep(i) \/ StopInSetup(i) \/ StartReady(i) \/ CrashReady(i)
  \/ Serve /\ UNCHANGED setupVars

SetupSpec == SetupInit /\ [][SetupNext]_<<vars, setupVars>>

-----------------------------------------------------------------------------
(* Whoever recovers or serves finds every table, every column and the      *)
(* whole fixture, wherever earlier set-ups stopped and whichever version   *)
(* the database is of.                                                     *)
StoreIsComplete ==
  \A i \in Instances :
    server[i] # "down" =>
      /\ schema = AllItems
      /\ fixtureRun = "complete"
      /\ \A h \in EarlierRuns : earlier[h] >= 1

=============================================================================
