------------------------ MODULE GraphProjectionProofs ------------------------
(***************************************************************************)
(* Theorems of StoreSetup and of GraphProjection, which is built on it.    *)
(*                                                                         *)
(* StoreSetup: with any number of processes that start at the same time or *)
(* stop during their set-up, whoever serves finds the store complete; and  *)
(* the set-up leaves RunLifecycle as it is.                                *)
(*                                                                         *)
(* GraphProjection: the composition implements StoreSetup and with it      *)
(* RunLifecycle, whose theorems carry over; and the graph is backed by the *)
(* database and complete as far as nothing failed.                         *)
(*                                                                         *)
(* The contract language: the parser keeps its rules on every document.    *)
(***************************************************************************)
EXTENDS GraphProjection, RunLifecycleProofs, WellFoundedInduction


(***************************************************************************)
(* Refinement: every step of the composition is a step of RunLifecycle or  *)
(* leaves its variables alone.                                             *)
(***************************************************************************)

LEMMA SetupStepRefines == [SetupNext]_<<vars, setupVars>> => [Next]_vars
<1> SUFFICES ASSUME [SetupNext]_<<vars, setupVars>> PROVE [Next]_vars
  OBVIOUS
<1>1. ASSUME NEW i \in Instances, SetupStep(i) PROVE UNCHANGED vars
  BY <1>1 DEF SetupStep
<1>2. ASSUME NEW i \in Instances, StopInSetup(i) PROVE UNCHANGED vars
  BY <1>2 DEF StopInSetup, vars
<1>3. ASSUME NEW i \in Instances, StartReady(i) PROVE Next
  BY <1>3 DEF StartReady, Next, ServerStep
<1>4. ASSUME NEW i \in Instances, CrashReady(i) PROVE Next
  BY <1>4 DEF CrashReady, Next
<1>5. ASSUME Serve PROVE Next
  BY <1>5 DEF Serve, Next, ServerStep
<1> QED
  BY <1>1, <1>2, <1>3, <1>4, <1>5 DEF SetupNext

(* The composed system implements RunLifecycle, so that what is proved of  *)
(* runs holds although a store is set up, repaired and seeded first.       *)
THEOREM SetupImplementsLifecycle == SetupSpec => Spec
<1>1. SetupInit => Init
  BY DEF SetupInit
<1> QED
  BY <1>1, SetupStepRefines, PTL DEF SetupSpec, Spec

-----------------------------------------------------------------------------
(***************************************************************************)
(* Completeness of the store.  The strengthening says, for each place in   *)
(* the set-up, which part of the store is there by then.                   *)
(***************************************************************************)

TablesThere == Tables \X {"table"} \subseteq schema
Costs == ColumnsOf("runs")
Recurrences == ColumnsOf("violations")

(* What process i knows of the schema. *)
KnowsSchema(i) ==
  LET at   == setup[i].at
      todo == setup[i].todo
  IN /\ at \in {"tables", "runs", "violations"} => todo \subseteq AllItems
     /\ at = "tables" => Tables \X {"table"} \subseteq schema \cup todo
     /\ at = "runs" => TablesThere /\ Costs \subseteq schema \cup todo
     /\ at = "violations" =>
          TablesThere /\ Costs \subseteq schema /\ Recurrences \subseteq schema \cup todo
     /\ at \in {"seed", "insert", "repair", "history", "ready"} =>
          TablesThere /\ Costs \subseteq schema /\ Recurrences \subseteq schema

(* What process i knows of the fixture. *)
KnowsFixture(i) ==
  /\ setup[i].at \in {"history", "ready"} => fixtureRun = "complete"
  /\ setup[i].at = "history" => setup[i].todo \in {{}, EarlierRows}
  /\ setup[i].at = "ready" => \A h \in EarlierRuns : earlier[h] >= 1

SetupInv ==
  /\ SetupTypeOK
  /\ server \in [Instances -> ServerState]
  /\ (earlier["RUN-039"] = 0) <=> (earlier["RUN-040"] = 0)
  /\ \A i \in Instances : KnowsSchema(i) /\ KnowsFixture(i)
  /\ \A i \in Instances : server[i] # "down" => setup[i].at = "ready"

LEMMA StagesAreApart ==
  /\ Missing("tables") = (Tables \X {"table"}) \ schema
  /\ Missing("runs") = Costs \ schema
  /\ Missing("violations") = Recurrences \ schema
  /\ \A s \in {"seed", "insert", "repair", "history", "ready"} : Missing(s) = {}
BY DEF Missing, Tables, Costs, Recurrences

LEMMA MissingIsOfSchema == \A s \in SetupStage : Missing(s) \subseteq AllItems
BY DEF Missing, AllItems, ItemsOf, Tables

LEMMA MissingType ==
  ASSUME NEW s \in SetupStage
  PROVE  Missing(s) \in SUBSET (AllItems \cup EarlierRows)
BY DEF Missing, AllItems, ItemsOf, Tables

(* The parts make the whole. *)
LEMMA SchemaOfParts ==
  ASSUME schema \subseteq AllItems, TablesThere, Costs \subseteq schema,
         Recurrences \subseteq schema
  PROVE  schema = AllItems
<1>1. ColumnsOf("workflows") = {}
  BY DEF ColumnsOf, Later
<1> QED
  BY <1>1 DEF AllItems, ItemsOf, Tables, TablesThere, Costs, Recurrences

LEMMA SetupInvInit == SetupInit => SetupInv
<1> SUFFICES ASSUME SetupInit PROVE SetupInv
  OBVIOUS
<1>1. setup = [i \in Instances |-> [at |-> "off", todo |-> {}]]
  BY DEF SetupInit, NotRunning
<1>2. schema \subseteq AllItems
  BY DEF SetupInit, AllItems, ItemsOf
<1>3. server = [i \in Instances |-> "down"]
  BY DEF SetupInit, Init
<1>4. \A i \in Instances : KnowsSchema(i) /\ KnowsFixture(i)
  BY <1>1 DEF KnowsSchema, KnowsFixture
<1>5. SetupTypeOK
  BY <1>1, <1>2, SetupAssumption DEF SetupInit, SetupTypeOK, SetupStage
<1> QED
  BY <1>1, <1>3, <1>4, <1>5 DEF SetupInit, SetupInv, ServerState, EarlierRuns

(* The store only grows, so that what a process knows stays true when      *)
(* another one acts.                                                       *)
Grows ==
  /\ schema \subseteq schema'
  /\ fixtureRun = "complete" => fixtureRun' = "complete"
  /\ \A h \in EarlierRuns : earlier'[h] >= earlier[h]

LEMMA OthersKnow ==
  ASSUME SetupInv, SetupTypeOK', Grows, NEW i \in Instances,
         \A j \in Instances \ {i} : setup'[j] = setup[j],
         KnowsSchema(i)', KnowsFixture(i)'
  PROVE  \A j \in Instances : KnowsSchema(j)' /\ KnowsFixture(j)'
<1> SUFFICES ASSUME NEW j \in Instances, j # i
             PROVE  KnowsSchema(j)' /\ KnowsFixture(j)'
  OBVIOUS
<1>1. setup'[j] = setup[j] /\ KnowsSchema(j) /\ KnowsFixture(j)
  BY DEF SetupInv
<1>2. KnowsSchema(j)'
  BY <1>1 DEF KnowsSchema, Grows, TablesThere
<1>3. \A h \in EarlierRuns : earlier[h] \in Nat /\ earlier'[h] \in Nat
  BY DEF SetupInv, SetupTypeOK
<1>4. KnowsFixture(j)'
  BY <1>1, <1>3 DEF KnowsFixture, Grows
<1> QED
  BY <1>2, <1>4

(* Entering a stage. *)
LEMMA EnterType ==
  ASSUME SetupTypeOK, NEW i \in Instances, NEW s \in SetupStage, Enter(i, s)
  PROVE  /\ setup' \in [Instances -> [at : SetupStage,
                                      todo : SUBSET (AllItems \cup EarlierRows)]]
         /\ setup'[i] = [at |-> s, todo |-> Missing(s)]
         /\ \A j \in Instances \ {i} : setup'[j] = setup[j]
BY MissingType DEF Enter, SetupTypeOK

(* A process that gives up knows nothing and claims nothing. *)
LEMMA GiveUpKeeps ==
  ASSUME SetupInv, SetupTypeOK', NEW i \in Instances,
         setup' = [setup EXCEPT ![i] = NotRunning], UNCHANGED storeVars
  PROVE  \A j \in Instances : KnowsSchema(j)' /\ KnowsFixture(j)'
<1>1. setup'[i].at = "off" /\ (\A j \in Instances \ {i} : setup'[j] = setup[j])
  BY DEF SetupInv, SetupTypeOK, NotRunning
<1>2. KnowsSchema(i)' /\ KnowsFixture(i)'
  BY <1>1 DEF KnowsSchema, KnowsFixture
<1>3. Grows
  BY DEF Grows, storeVars, SetupInv, SetupTypeOK
<1> QED
  BY <1>1, <1>2, <1>3, OthersKnow

(***************************************************************************)
(* One lemma for each step of the set-up.                                  *)
(***************************************************************************)
KeepsStore == SetupTypeOK' /\ \A j \in Instances : KnowsSchema(j)' /\ KnowsFixture(j)'

LEMMA BootKeeps ==
  ASSUME SetupInv, NEW i \in Instances, Boot(i) PROVE KeepsStore
<1>1. Enter(i, "tables") /\ UNCHANGED <<schema, fixtureRun, earlier, setupStops>>
  BY DEF Boot, storeVars
<1>2. SetupTypeOK'
  BY <1>1, EnterType DEF SetupInv, SetupTypeOK, SetupStage
<1>3. KnowsSchema(i)' /\ KnowsFixture(i)'
  BY <1>1, EnterType, StagesAreApart, MissingIsOfSchema DEF SetupInv, SetupStage, KnowsSchema, KnowsFixture
<1>4. Grows
  BY <1>1 DEF Grows, SetupInv, SetupTypeOK
<1> QED
  BY <1>1, <1>2, <1>3, <1>4, EnterType, OthersKnow DEF KeepsStore, SetupInv, SetupStage

LEMMA ChangeSchemaKeeps ==
  ASSUME SetupInv, NEW i \in Instances, ChangeSchema(i) PROVE KeepsStore
<1>1. PICK item \in setup[i].todo :
        /\ setup[i].at \in {"tables", "runs", "violations"}
        /\ IF item \in schema
           THEN setup' = [setup EXCEPT ![i] = NotRunning] /\ UNCHANGED schema
           ELSE /\ schema' = schema \cup Created(item)
                /\ setup' = [setup EXCEPT ![i].todo = @ \ {item}]
        /\ UNCHANGED <<fixtureRun, earlier, setupStops>>
  BY DEF ChangeSchema
<1>2. CASE item \in schema
  <2>1. SetupTypeOK'
    BY <1>1, <1>2 DEF SetupInv, SetupTypeOK, NotRunning, SetupStage
  <2>2. UNCHANGED storeVars
    BY <1>1, <1>2 DEF storeVars
  <2> QED
    BY <1>1, <1>2, <2>1, <2>2, GiveUpKeeps DEF KeepsStore
<1>3. CASE item \notin schema
  <2>1. /\ schema' = schema \cup Created(item)
        /\ setup'[i] = [at |-> setup[i].at, todo |-> setup[i].todo \ {item}]
        /\ \A j \in Instances \ {i} : setup'[j] = setup[j]
    BY <1>1, <1>3 DEF SetupInv, SetupTypeOK
  <2>2. item \in Created(item)
    BY <1>1 DEF Created, ItemsOf, SetupInv, SetupTypeOK, AllItems, ColumnsOf, EarlierRows
  <2>3. Created(item) \subseteq AllItems
    <3>1. item \in AllItems
      BY <1>1 DEF SetupInv, KnowsSchema
    <3>2. item[1] \in Tables
      BY <3>1 DEF AllItems, ItemsOf, ColumnsOf
    <3> QED
      BY <3>1, <3>2 DEF Created, AllItems
  <2>4. SetupTypeOK'
    BY <1>1, <1>3, <2>3 DEF SetupInv, SetupTypeOK
  <2>5. KnowsSchema(i)'
    BY <1>1, <2>1, <2>2 DEF SetupInv, KnowsSchema, TablesThere
  <2>6. KnowsFixture(i)'
    BY <1>1, <2>1 DEF SetupInv, KnowsFixture
  <2>7. Grows
    BY <1>1, <2>1 DEF Grows, SetupInv, SetupTypeOK
  <2> QED
    BY <2>1, <2>4, <2>5, <2>6, <2>7, OthersKnow DEF KeepsStore
<1> QED
  BY <1>2, <1>3

LEMMA NextStageKeeps ==
  ASSUME SetupInv, NEW i \in Instances, NextStage(i) PROVE KeepsStore
<1>1. PICK s \in {"runs", "violations", "seed"} :
        /\ Enter(i, s)
        /\ s = "runs" => setup[i].at = "tables"
        /\ s = "violations" => setup[i].at = "runs"
        /\ s = "seed" => setup[i].at = "violations"
  BY DEF NextStage
<1>2. setup[i].todo = {} /\ UNCHANGED <<schema, fixtureRun, earlier, setupStops>>
  BY DEF NextStage, storeVars
<1>3. SetupTypeOK'
  BY <1>1, <1>2, EnterType DEF SetupInv, SetupTypeOK, SetupStage
<1>4. KnowsSchema(i)' /\ KnowsFixture(i)'
  BY <1>1, <1>2, EnterType, StagesAreApart, MissingIsOfSchema
     DEF SetupInv, SetupStage, KnowsSchema, KnowsFixture, TablesThere
<1>5. Grows
  BY <1>2 DEF Grows, SetupInv, SetupTypeOK
<1> QED
  BY <1>1, <1>3, <1>4, <1>5, EnterType, OthersKnow DEF KeepsStore, SetupInv, SetupStage

(* A step that enters a stage of the seeding, with the schema complete. *)
LEMMA SeedStageKeeps ==
  ASSUME SetupInv, NEW i \in Instances,
         setup[i].at \in {"seed", "insert", "repair", "history", "ready"},
         NEW s \in {"insert", "repair", "history", "ready"}, Enter(i, s),
         schema' = schema, setupStops' = setupStops, Grows,
         fixtureRun' \in {"absent", "costless", "complete"},
         earlier' \in [EarlierRuns -> Nat],
         s \in {"history", "ready"} => fixtureRun' = "complete",
         s = "ready" => \A h \in EarlierRuns : earlier'[h] >= 1
  PROVE  KeepsStore
<1>1. SetupTypeOK'
  BY EnterType DEF SetupInv, SetupTypeOK, SetupStage
<1>2. KnowsSchema(i)'
  BY EnterType, StagesAreApart DEF SetupInv, SetupStage, KnowsSchema, TablesThere
<1>3. KnowsFixture(i)'
  BY EnterType, StagesAreApart DEF SetupInv, SetupStage, KnowsFixture
<1> QED
  BY <1>1, <1>2, <1>3, EnterType, OthersKnow DEF KeepsStore, SetupInv, SetupStage

LEMMA LookUpFixtureKeeps ==
  ASSUME SetupInv, NEW i \in Instances, LookUpFixture(i) PROVE KeepsStore
<1>1. /\ setup[i].at = "seed"
      /\ UNCHANGED <<schema, fixtureRun, earlier, setupStops>>
  BY DEF LookUpFixture, storeVars
<1>2. PICK s \in {"insert", "repair", "history"} :
        Enter(i, s) /\ (s = "history" => fixtureRun = "complete")
  BY DEF LookUpFixture
<1>3. Grows
  BY <1>1 DEF Grows, SetupInv, SetupTypeOK
<1> QED
  BY <1>1, <1>2, <1>3, SeedStageKeeps DEF SetupInv, SetupTypeOK

LEMMA RepairFixtureKeeps ==
  ASSUME SetupInv, NEW i \in Instances, RepairFixture(i) PROVE KeepsStore
<1>1. Grows
  BY DEF RepairFixture, Grows, SetupInv, SetupTypeOK
<1> QED
  BY <1>1, SeedStageKeeps DEF RepairFixture, SetupInv, SetupTypeOK

LEMMA InsertFixtureKeeps ==
  ASSUME SetupInv, NEW i \in Instances, InsertFixture(i) PROVE KeepsStore
<1>1. CASE fixtureRun # "absent"
  <2>1. setup' = [setup EXCEPT ![i] = NotRunning] /\ UNCHANGED <<storeVars, setupStops>>
    BY <1>1 DEF InsertFixture
  <2>2. SetupTypeOK'
    BY <2>1 DEF storeVars, SetupInv, SetupTypeOK, NotRunning, SetupStage
  <2> QED
    BY <2>1, <2>2, GiveUpKeeps DEF KeepsStore
<1>2. CASE fixtureRun = "absent"
  <2>1. /\ earlier' = [h \in EarlierRuns |-> IF earlier[h] = 0 THEN 1 ELSE earlier[h]]
        /\ earlier \in [EarlierRuns -> Nat]
    BY <1>2 DEF InsertFixture, SetupInv, SetupTypeOK
  <2>2. \A h \in EarlierRuns : earlier'[h] \in Nat /\ earlier'[h] >= 1 /\ earlier'[h] >= earlier[h]
    BY <2>1
  <2>3. earlier' \in [EarlierRuns -> Nat]
    BY <2>1, <2>2
  <2>4. Grows
    BY <1>2, <2>2 DEF InsertFixture, Grows
  <2> QED
    BY <1>2, <2>2, <2>3, <2>4, SeedStageKeeps DEF InsertFixture
<1> QED
  BY <1>1, <1>2

LEMMA ReadHistoryKeeps ==
  ASSUME SetupInv, NEW i \in Instances, ReadHistory(i) PROVE KeepsStore
<1> DEFINE absent == {row \in EarlierRows : earlier[row[2]] = 0}
           enough == earlier["RUN-039"] + earlier["RUN-040"] >= 2
           next   == IF enough THEN [at |-> "ready", todo |-> {}]
                     ELSE [at |-> "history", todo |-> absent]
<1>1. /\ setup[i].at = "history" /\ setup' = [setup EXCEPT ![i] = next]
      /\ UNCHANGED <<schema, fixtureRun, earlier, setupStops>>
  BY DEF ReadHistory, storeVars
<1>2. earlier["RUN-039"] \in Nat /\ earlier["RUN-040"] \in Nat
  BY DEF SetupInv, SetupTypeOK, EarlierRuns
<1>3. CASE enough
  <2>1. \A h \in EarlierRuns : earlier[h] >= 1
    BY <1>2, <1>3 DEF SetupInv, EarlierRuns
  <2>2. next = [at |-> "ready", todo |-> {}]
    BY <1>3
  <2>3. /\ setup'[i] = [at |-> "ready", todo |-> {}]
        /\ \A j \in Instances \ {i} : setup'[j] = setup[j]
    BY <1>1, <2>2 DEF SetupInv, SetupTypeOK
  <2>4. SetupTypeOK'
    BY <1>1, <2>2 DEF SetupInv, SetupTypeOK, SetupStage
  <2>5. KnowsSchema(i)'
    BY <1>1, <2>3 DEF SetupInv, KnowsSchema, TablesThere
  <2>6. KnowsFixture(i)'
    BY <1>1, <2>1, <2>3 DEF SetupInv, KnowsFixture
  <2>7. Grows
    BY <1>1 DEF Grows, SetupInv, SetupTypeOK
  <2> QED
    BY <2>3, <2>4, <2>5, <2>6, <2>7, OthersKnow DEF KeepsStore
<1>4. CASE ~ enough
  <2>1. \A h \in EarlierRuns : earlier[h] = 0
    BY <1>2, <1>4 DEF SetupInv, EarlierRuns
  <2>2. absent = EarlierRows
    BY <2>1 DEF EarlierRows
  <2>3. next = [at |-> "history", todo |-> EarlierRows]
    BY <1>4, <2>2
  <2>4. /\ setup'[i] = [at |-> "history", todo |-> EarlierRows]
        /\ \A j \in Instances \ {i} : setup'[j] = setup[j]
    BY <1>1, <2>3 DEF SetupInv, SetupTypeOK
  <2>5. SetupTypeOK'
    BY <1>1, <2>3 DEF SetupInv, SetupTypeOK, SetupStage
  <2>6. KnowsSchema(i)'
    BY <1>1, <2>4 DEF SetupInv, KnowsSchema, TablesThere
  <2>7. KnowsFixture(i)'
    BY <1>1, <2>4 DEF SetupInv, KnowsFixture
  <2>8. Grows
    BY <1>1 DEF Grows, SetupInv, SetupTypeOK
  <2> QED
    BY <2>4, <2>5, <2>6, <2>7, <2>8, OthersKnow DEF KeepsStore
<1> QED
  BY <1>3, <1>4

LEMMA InsertHistoryKeeps ==
  ASSUME SetupInv, NEW i \in Instances, InsertHistory(i) PROVE KeepsStore
<1>1. setup[i].todo = EarlierRows /\ fixtureRun = "complete"
  BY DEF InsertHistory, SetupInv, KnowsFixture
<1>2. \A h \in EarlierRuns : earlier'[h] = earlier[h] + 1 /\ earlier[h] \in Nat
  BY <1>1 DEF InsertHistory, EarlierRows, SetupInv, SetupTypeOK
<1>3. earlier' \in [EarlierRuns -> Nat]
  BY <1>2 DEF InsertHistory
<1>4. Grows
  BY <1>2 DEF Grows, InsertHistory
<1> QED
  BY <1>1, <1>2, <1>3, <1>4, SeedStageKeeps DEF InsertHistory

(* The rows of both earlier runs come together. *)
LEMMA EarlierTogether ==
  ASSUME SetupInv, NEW i \in Instances, SetupStep(i)
  PROVE  (earlier'["RUN-039"] = 0) <=> (earlier'["RUN-040"] = 0)
<1>1. /\ earlier["RUN-039"] \in Nat /\ earlier["RUN-040"] \in Nat
      /\ (earlier["RUN-039"] = 0) <=> (earlier["RUN-040"] = 0)
  BY DEF SetupInv, SetupTypeOK, EarlierRuns
<1>2. CASE earlier' = earlier
  BY <1>1, <1>2
<1>3. CASE InsertFixture(i) /\ earlier' # earlier
  BY <1>1, <1>3 DEF InsertFixture, storeVars, EarlierRuns
<1>4. CASE InsertHistory(i)
  <2>1. setup[i].todo = EarlierRows
    BY <1>4 DEF InsertHistory, SetupInv, KnowsFixture
  <2> QED
    BY <1>1, <1>4, <2>1 DEF InsertHistory, EarlierRuns, EarlierRows
<1>5. CASE ~ InsertFixture(i) /\ ~ InsertHistory(i)
  <2>1. earlier' = earlier
    BY <1>5 DEF SetupStep, Boot, ChangeSchema, NextStage, LookUpFixture, RepairFixture,
                ReadHistory, storeVars
  <2> QED
    BY <1>2, <2>1
<1> QED
  BY <1>2, <1>3, <1>4, <1>5

LEMMA SetupStepKeeps ==
  ASSUME SetupInv, NEW i \in Instances, SetupStep(i) PROVE SetupInv'
<1>1. KeepsStore
  BY BootKeeps, ChangeSchemaKeeps, NextStageKeeps, LookUpFixtureKeeps,
     InsertFixtureKeeps, RepairFixtureKeeps, ReadHistoryKeeps, InsertHistoryKeeps
     DEF SetupStep
<1>2. server' = server
  BY DEF SetupStep, vars
<1>3. ASSUME NEW j \in Instances, server[j] # "down" PROVE setup'[j].at = "ready"
  <2>1. setup[j].at = "ready" /\ setup[j].at # "off" /\ j \in Instances
    BY <1>3 DEF SetupInv
  <2>2. CASE j = i
    BY <1>3, <2>1, <2>2
       DEF SetupStep, Boot, ChangeSchema, NextStage, LookUpFixture, InsertFixture,
           RepairFixture, ReadHistory, InsertHistory
  <2>3. CASE j # i
    <3>1. setup'[j] = setup[j]
      BY <2>3 DEF SetupStep, Boot, ChangeSchema, NextStage, LookUpFixture,
           InsertFixture, RepairFixture, ReadHistory, InsertHistory, Enter,
           SetupInv, SetupTypeOK
    <3> QED
      BY <2>1, <3>1
  <2> QED
    BY <2>2, <2>3
<1> QED
  BY <1>1, <1>2, <1>3, EarlierTogether DEF SetupInv, KeepsStore

LEMMA SetupInvStep == SetupInv /\ [SetupNext]_<<vars, setupVars>> => SetupInv'
<1> SUFFICES ASSUME SetupInv, [SetupNext]_<<vars, setupVars>> PROVE SetupInv'
  OBVIOUS
<1>1. ASSUME NEW i \in Instances, SetupStep(i) PROVE SetupInv'
  BY <1>1, SetupStepKeeps
<1>2. ASSUME NEW i \in Instances, StopInSetup(i) PROVE SetupInv'
  <2>1. /\ setup' = [setup EXCEPT ![i] = NotRunning] /\ UNCHANGED storeVars
        /\ server' = server /\ server[i] = "down"
    BY <1>2 DEF StopInSetup, vars
  <2>2. SetupTypeOK'
    BY <1>2, <2>1, SetupAssumption
       DEF StopInSetup, storeVars, SetupInv, SetupTypeOK, NotRunning, SetupStage
  <2>3. \A j \in Instances : server[j] # "down" => setup'[j] = setup[j]
    BY <2>1 DEF SetupInv, SetupTypeOK
  <2> QED
    BY <2>1, <2>2, <2>3, GiveUpKeeps DEF SetupInv, storeVars
<1>3. ASSUME NEW i \in Instances, StartReady(i) PROVE SetupInv'
  <2>1. /\ setup[i].at = "ready" /\ UNCHANGED setupVars
        /\ server' = [server EXCEPT ![i] = "recovering"]
    BY <1>3 DEF StartReady, Start
  <2>2. SetupTypeOK' /\ \A j \in Instances : KnowsSchema(j)' /\ KnowsFixture(j)'
    BY <2>1 DEF setupVars, storeVars, SetupInv, SetupTypeOK, KnowsSchema, KnowsFixture,
                TablesThere
  <2> QED
    BY <2>1, <2>2 DEF setupVars, storeVars, SetupInv, ServerState
<1>4. ASSUME NEW i \in Instances, CrashReady(i) PROVE SetupInv'
  <2>1. /\ setup' = [setup EXCEPT ![i] = NotRunning]
        /\ UNCHANGED <<storeVars, setupStops>>
        /\ server' = [server EXCEPT ![i] = "down"]
    BY <1>4 DEF CrashReady, Crash
  <2>2. SetupTypeOK'
    BY <2>1 DEF storeVars, SetupInv, SetupTypeOK, NotRunning, SetupStage
  <2>3. \A j \in Instances : server'[j] # "down" => setup'[j] = setup[j] /\ server[j] # "down"
    BY <2>1 DEF SetupInv, SetupTypeOK
  <2>4. server' \in [Instances -> ServerState]
    BY <2>1 DEF SetupInv, ServerState
  <2> QED
    BY <2>1, <2>2, <2>3, <2>4, GiveUpKeeps DEF SetupInv, storeVars
<1>5. ASSUME Serve, UNCHANGED setupVars PROVE SetupInv'
  <2>1. ASSUME NEW j \in Instances, server'[j] # "down"
        PROVE  server[j] # "down"
    BY <1>5, <2>1
       DEF Serve, Recover, Submit, TaskStep, StoreFault, Publish, BeginAnalysis,
           FinishAnalysis, RaiseInAnalysis, ReadRow, WriteRow, serverVars,
           SetupInv
  <2>2. server' \in [Instances -> ServerState]
    BY <1>5
       DEF Serve, Recover, Submit, TaskStep, StoreFault, Publish, BeginAnalysis,
           FinishAnalysis, RaiseInAnalysis, ReadRow, WriteRow, serverVars,
           SetupInv, ServerState
  <2>3. SetupTypeOK' /\ \A j \in Instances : KnowsSchema(j)' /\ KnowsFixture(j)'
    BY <1>5 DEF setupVars, storeVars, SetupInv, SetupTypeOK, KnowsSchema, KnowsFixture,
                TablesThere
  <2> QED
    BY <1>5, <2>1, <2>2, <2>3 DEF setupVars, storeVars, SetupInv
<1>6. CASE UNCHANGED <<vars, setupVars>>
  <2>1. SetupTypeOK' /\ \A j \in Instances : KnowsSchema(j)' /\ KnowsFixture(j)'
    BY <1>6 DEF setupVars, storeVars, SetupInv, SetupTypeOK, KnowsSchema, KnowsFixture,
                TablesThere
  <2> QED
    BY <1>6, <2>1 DEF setupVars, storeVars, vars, SetupInv
<1> QED
  BY <1>1, <1>2, <1>3, <1>4, <1>5, <1>6 DEF SetupNext

(* Whoever recovers or serves finds the whole store, for any number of     *)
(* processes that set it up side by side and stop anywhere in it.          *)
THEOREM StoresAreComplete == SetupSpec => []StoreIsComplete
<1>1. SetupInv => StoreIsComplete
  <2> SUFFICES ASSUME SetupInv, NEW i \in Instances, server[i] # "down"
               PROVE  /\ schema = AllItems
                      /\ fixtureRun = "complete"
                      /\ \A h \in EarlierRuns : earlier[h] >= 1
    BY DEF StoreIsComplete
  <2>1. setup[i].at = "ready" /\ KnowsSchema(i) /\ KnowsFixture(i)
    BY DEF SetupInv
  <2>2. schema = AllItems
    BY <2>1, SchemaOfParts DEF KnowsSchema, SetupInv, SetupTypeOK
  <2> QED
    BY <2>1, <2>2 DEF KnowsFixture
<1> QED
  BY <1>1, SetupInvInit, SetupInvStep, PTL DEF SetupSpec

-----------------------------------------------------------------------------
(***************************************************************************)
(* GraphProjection.                                                        *)
(***************************************************************************)

allVars == <<vars, setupVars, graphVars>>

LEMMA GraphStepRefines == [GraphNext]_allVars => [SetupNext]_<<vars, setupVars>>
<1> SUFFICES ASSUME [GraphNext]_allVars PROVE [SetupNext]_<<vars, setupVars>>
  OBVIOUS
<1>1. ASSUME QuietStep PROVE SetupNext
  BY <1>1 DEF QuietStep, SetupNext, Serve, TaskStep
<1>2. ASSUME NEW i \in Instances, CrashAll(i) PROVE SetupNext
  BY <1>2 DEF CrashAll, SetupNext
<1>3. ASSUME NEW i \in Instances, NEW r \in Runs, SubmitFor(i, r) PROVE SetupNext
  BY <1>3 DEF SubmitFor, SetupNext, Serve
<1>4. ASSUME NEW i \in Instances, NEW w \in Workflows, PostWorkflow(i, w)
      PROVE  UNCHANGED <<vars, setupVars>>
  BY <1>4 DEF PostWorkflow
<1>5. ASSUME NEW w \in Workflows, ProjectTopology(w) \/ TopologyFault(w)
      PROVE  UNCHANGED <<vars, setupVars>>
  BY <1>5 DEF ProjectTopology, TopologyFault
<1>6. ASSUME NEW r \in Runs, FindViolations(r) PROVE SetupNext
  BY <1>6 DEF FindViolations, SetupNext, Serve, TaskStep
<1>7. ASSUME NEW r \in Runs, CommitRow(r) PROVE SetupNext
  BY <1>7 DEF CommitRow, SetupNext, Serve, TaskStep
<1>8. ASSUME NEW r \in Runs, ProjectRun(r) \/ RunFault(r)
      PROVE  UNCHANGED <<vars, setupVars>>
  BY <1>8 DEF ProjectRun, RunFault
<1>9. ASSUME NEW r \in Runs, PublishRow(r) PROVE SetupNext
  BY <1>9 DEF PublishRow, SetupNext, Serve, TaskStep
<1>10. CASE UNCHANGED allVars
  BY <1>10 DEF allVars
<1> QED
  BY <1>1, <1>2, <1>3, <1>4, <1>5, <1>6, <1>7, <1>8, <1>9, <1>10
     DEF GraphNext, RunStep

(* Workflows and graph leave the set-up of the store as it is. *)
THEOREM GraphImplementsSetup == GraphSpec => SetupSpec
<1>1. GraphInit => SetupInit
  BY DEF GraphInit
<1> QED
  BY <1>1, GraphStepRefines, PTL DEF GraphSpec, SetupSpec, allVars

(* A failing or absent graph changes nothing in the life of a run.         *)
THEOREM GraphImplementsLifecycle == GraphSpec => LifecycleImplemented
BY GraphImplementsSetup, SetupImplementsLifecycle DEF LifecycleImplemented

(* Nor do they touch the store that processes find complete.               *)
THEOREM StoresStayComplete == GraphSpec => []StoreIsComplete
BY GraphImplementsSetup, StoresAreComplete

-----------------------------------------------------------------------------
(***************************************************************************)
(* Reports are written once, however many processes share the database: a  *)
(* task ends with the report, recovery leaves the column alone, and the    *)
(* row a task holds has a report only if the stored one has.               *)
(***************************************************************************)

Finished(r) ==
  \/ pc[r] \in {"done", "lost"}
  \/ pc[r] = "publish" /\ call[r].status = "completed"

FinishedInv ==
  \A r \in Runs :
    /\ db[r].report # "none" => Finished(r)
    /\ call[r].report # "none" => call[r].status = "completed"

ReportsKept ==
  FinishedInv' /\ \A r \in Runs : db[r].report # "none" => db'[r].report = db[r].report

LEMMA FinishedInit == Init => FinishedInv
BY DEF Init, FinishedInv, NoRow, NoCall, SetStatus

LEMMA CallKeepsReports ==
  ASSUME TypeOK, FinishedInv, NEW r \in Runs, NEW s, NEW e, NEW p,
         CallSetStatus(r, s, e, p), db' = db,
         pc[r] \notin {"done", "lost", "publish"},
         p # "none" => s = "completed"
  PROVE  ReportsKept
<1>1. /\ call'[r].status = s /\ call'[r].report = p
      /\ \A q \in Runs \ {r} : call'[q] = call[q] /\ pc'[q] = pc[q]
  BY DEF CallSetStatus, SetStatus, TypeOK
<1>2. db[r].report = "none"
  BY DEF FinishedInv, Finished
<1> QED
  BY <1>1, <1>2 DEF ReportsKept, FinishedInv, Finished

LEMMA WriteKeepsReports ==
  ASSUME ReportInv, FinishedInv, NEW r \in Runs, WriteRow(r)
  PROVE  ReportsKept /\ (call[r].report # "none" => db'[r].report = call[r].report)
<1>1. TypeOK /\ pc[r] = "writing" /\ db[r].report = "none"
  BY DEF ReportInv, WriteRow, FinishedInv, Finished
<1>2. call[r].row.report = "none"
  BY <1>1 DEF ReportInv
<1>3. /\ db'[r] = Flush(db[r], call[r].row, NewRow(r)) /\ pc'[r] = "publish" /\ call' = call
      /\ \A q \in Runs \ {r} : db'[q] = db[q] /\ pc'[q] = pc[q]
  BY <1>1 DEF WriteRow, TypeOK
<1>4. NewRow(r).report = call[r].report
  BY <1>2 DEF NewRow, WithStatus
<1>5. db'[r].report = call[r].report
  BY <1>1, <1>2, <1>3, <1>4 DEF Flush, Column
<1> QED
  BY <1>1, <1>3, <1>5 DEF ReportsKept, FinishedInv, Finished

LEMMA ReportsStep ==
  ASSUME ReportInv, FinishedInv, [Next]_vars PROVE ReportsKept
<1>1. TypeOK
  BY DEF ReportInv
<1>2. ASSUME NEW i \in Instances, Start(i) PROVE ReportsKept
  BY <1>2 DEF Start, taskVars, ReportsKept, FinishedInv, Finished
<1>3. ASSUME NEW i \in Instances, Recover(i) PROVE ReportsKept
  <2>1. ASSUME NEW r \in Runs PROVE db'[r].report = db[r].report
    <3>1. snapshot[i][r] \in RunRow
      BY <1>1 DEF TypeOK
    <3> DEFINE new == Recovered(snapshot[i][r])
    <3>2. new.report = snapshot[i][r].report
      BY <3>1 DEF Recovered, RunRow
    <3>3. db'[r] \in {db[r], Flush(db[r], snapshot[i][r], new)}
      BY <1>3 DEF Recover
    <3> HIDE DEF new
    <3> QED
      BY <3>2, <3>3 DEF Flush, Column
  <2> QED
    BY <1>3, <2>1 DEF Recover, taskVars, ReportsKept, FinishedInv, Finished
<1>4. ASSUME NEW i \in Instances, Crash(i) PROVE ReportsKept
  <2>1. ASSUME NEW r \in Runs
        PROVE  \/ pc'[r] = pc[r] /\ call'[r] = call[r]
               \/ pc'[r] = "lost" /\ call'[r] = NoCall
    BY <1>4 DEF Crash
  <2>2. NoCall.report = "none"
    BY DEF NoCall, SetStatus
  <2>3. db' = db
    BY <1>4 DEF Crash
  <2> QED
    BY <2>1, <2>2, <2>3 DEF ReportsKept, FinishedInv, Finished
<1>5. ASSUME NEW i \in Instances, NEW r \in Runs, Submit(i, r) PROVE ReportsKept
  <2>1. db[r].report = "none"
    BY <1>5 DEF Submit, FinishedInv, Finished
  <2>2. /\ db'[r].report = "none" /\ call'[r].report = "none"
        /\ \A q \in Runs \ {r} : db'[q] = db[q] /\ call'[q] = call[q] /\ pc'[q] = pc[q]
    BY <1>1, <1>5 DEF Submit, QueuedRow, NoCall, SetStatus, TypeOK
  <2> QED
    BY <2>1, <2>2 DEF ReportsKept, FinishedInv, Finished
<1>6. ASSUME NEW r \in Runs, Publish(r) PROVE ReportsKept
  <2>1. /\ call[r].status = "completed" => pc'[r] = "done"
        /\ pc[r] = "publish" /\ db' = db /\ call' = call
        /\ \A q \in Runs \ {r} : pc'[q] = pc[q]
    BY <1>1, <1>6 DEF Publish, TypeOK
  <2> QED
    BY <2>1 DEF ReportsKept, FinishedInv, Finished
<1>7. ASSUME NEW r \in Runs, BeginAnalysis(r) PROVE ReportsKept
  BY <1>1, <1>7, CallKeepsReports DEF BeginAnalysis
<1>8. ASSUME NEW r \in Runs, FinishAnalysis(r) PROVE ReportsKept
  BY <1>1, <1>8, CallKeepsReports DEF FinishAnalysis
<1>9. ASSUME NEW r \in Runs, RaiseInAnalysis(r) PROVE ReportsKept
  BY <1>1, <1>9, CallKeepsReports DEF RaiseInAnalysis
<1>10. ASSUME NEW r \in Runs, ReadRow(r) PROVE ReportsKept
  <2>1. /\ db' = db /\ pc[r] = "reading"
        /\ call'[r].status = call[r].status /\ call'[r].report = call[r].report
        /\ \A q \in Runs \ {r} : pc'[q] = pc[q] /\ call'[q] = call[q]
    BY <1>1, <1>10 DEF ReadRow, TypeOK, Call
  <2> QED
    BY <2>1 DEF ReportsKept, FinishedInv, Finished
<1>11. ASSUME NEW r \in Runs, WriteRow(r) PROVE ReportsKept
  BY <1>11, WriteKeepsReports
<1>12. ASSUME NEW r \in Runs, StoreFault(r) PROVE ReportsKept
  <2>1. CASE call[r].status = "failed"
    <3>1. /\ db' = db /\ call' = call /\ pc[r] \in {"scheduled", "reading", "writing"}
          /\ \A q \in Runs \ {r} : pc'[q] = pc[q]
      BY <1>1, <1>12, <2>1 DEF StoreFault, TypeOK
    <3> QED
      BY <3>1 DEF ReportsKept, FinishedInv, Finished
  <2>2. CASE call[r].status # "failed"
    BY <1>1, <1>12, <2>2, CallKeepsReports DEF StoreFault
  <2> QED
    BY <2>1, <2>2
<1>13. CASE UNCHANGED vars
  BY <1>13 DEF vars, ReportsKept, FinishedInv, Finished
<1> QED
  BY <1>2, <1>3, <1>4, <1>5, <1>6, <1>7, <1>8, <1>9, <1>10, <1>11, <1>12, <1>13
     DEF Next, ServerStep, TaskStep

-----------------------------------------------------------------------------
(***************************************************************************)
(* What projections write.                                                 *)
(***************************************************************************)

Stage == {"waits", "nodes", "edges", "done", "failed", "lost"}

GraphTypeOK ==
  /\ body \in [Workflows -> Bodies \cup {NoBody}]
  /\ DOMAIN posting = Workflows
  /\ \A w \in Workflows : posting[w] \in Stage
  /\ workflowOf \in [Runs -> Workflows]
  /\ found \in [Runs -> SUBSET Violations]
  /\ projecting \in [Runs -> [at : Stage, after : Stage]]
  /\ graph = [nodes |-> graph.nodes, edges |-> graph.edges]

(* A projection writes nodes in its first half, edges in its second. *)
LEMMA MergedWrites ==
  ASSUME GraphTypeOK, NEW half \in {"nodes", "edges"}, NEW queries
  PROVE  LET new == Merged(half, queries)
         IN /\ new = [nodes |-> new.nodes, edges |-> new.edges]
            /\ half = "nodes" =>
                 new.nodes = graph.nodes \cup queries /\ new.edges = graph.edges
            /\ half = "edges" =>
                 /\ new.nodes = graph.nodes
                 /\ new.edges = graph.edges \cup
                      {e \in queries : {e.from, e.to} \subseteq graph.nodes}
BY DEF GraphTypeOK, Merged

LEMMA BeginningsAreParts ==
  ASSUME NEW queries, NEW written \in Beginnings(queries)
  PROVE  written \subseteq queries
BY DEF Beginnings

LEMMA HalfStages ==
  ASSUME NEW stage
  PROVE  /\ IsHalf(stage) <=> stage \in {"nodes", "edges"}
         /\ Halves[1] = "nodes"
         /\ NextHalf("nodes") = "edges" /\ NextHalf("edges") = "done"
BY DEF IsHalf, Halves, NextHalf

(* No topology names a run, and none has an edge that leaves one. *)
LEMMA TopologyHasNoRuns ==
  ASSUME NEW w, NEW q, NEW r
  PROVE  /\ RunNode(q, r) \notin TopologyQueries(w, "nodes")
         /\ \A e \in TopologyQueries(w, "edges") : e.from # RunNode(q, r)
         /\ \A x : WorkflowNode(x) \in TopologyQueries(w, "nodes") => x = w
<1>1. ASSUME NEW entry
      PROVE  \A x : Endpoint(w, entry) # RunNode(q, r) /\ Endpoint(w, entry) # WorkflowNode(x)
  BY DEF Endpoint, RunNode, WorkflowNode, Node
<1>2. /\ RunNode(q, r) \notin EntityNodes(w, body[w])
      /\ \A x : WorkflowNode(x) \in EntityNodes(w, body[w]) => x = w
  BY <1>1 DEF EntityNodes, Entities, Contracts, TenantNode, WorkflowNode, RunNode, Node
<1>3. \A e \in BaseEdges(w, body[w]) : e.from # RunNode(q, r)
  BY DEF BaseEdges, Edge, TenantNode, WorkflowNode, RunNode, Node
<1>4. \A e \in TopologyEdges(w, body[w]) : e.from # RunNode(q, r)
  BY <1>1 DEF TopologyEdges, Edge
<1> QED
  BY <1>2, <1>3, <1>4 DEF TopologyQueries

-----------------------------------------------------------------------------
(***************************************************************************)
(* The graph is backed: the projection of a run begins after the commit of *)
(* its report, which stays (ReportsKept); by then the run and what was     *)
(* found in it are settled, and its nodes and edges come from nowhere else.*)
(***************************************************************************)

ObservedEdge(w, r, v) == Edge("Observed", RunNode(w, r), ViolationNode(w, v))

BackedInv ==
  /\ ReportInv
  /\ FinishedInv
  /\ GraphTypeOK
  /\ \A w \in Workflows :
       /\ posting[w] # "waits" => body[w] # NoBody
       /\ WorkflowNode(w) \in graph.nodes => body[w] # NoBody
  /\ \A r \in Runs :
       /\ projecting[r].at # "waits" => db[r].report = "violations"
       /\ \A w \in Workflows :
            /\ RunNode(w, r) \in graph.nodes => projecting[r].at # "waits"
            /\ \A v \in Violations :
                 ObservedEdge(w, r, v) \in graph.edges =>
                   RunNode(w, r) \in graph.nodes /\ v \in found[r]

LEMMA BackedImplies == BackedInv => GraphIsBacked
BY DEF BackedInv, GraphIsBacked, ObservedEdge, GraphTypeOK

LEMMA BackedInit == GraphInit => BackedInv
<1> SUFFICES ASSUME GraphInit PROVE BackedInv
  OBVIOUS
<1>1. Init
  BY DEF GraphInit, SetupInit
<1>2. GraphTypeOK
  BY GraphAssumption DEF GraphInit, GraphTypeOK, Stage, NotBegun
<1> QED
  BY <1>1, <1>2, ReportInit, FinishedInit DEF BackedInv, GraphInit, NotBegun

LEMMA ReportsStepOfGraph ==
  ASSUME ReportInv, FinishedInv, [GraphNext]_allVars
  PROVE  ReportInv' /\ ReportsKept
<1>1. [Next]_vars
  BY GraphStepRefines, SetupStepRefines
<1> QED
  BY <1>1, ReportStep, ReportsStep

(* A step that leaves the graph alone and begins no projection. *)
LEMMA QuietKeepsBacked ==
  ASSUME BackedInv, ReportInv', ReportsKept,
         UNCHANGED <<body, workflowOf, found, graph>>,
         DOMAIN posting' = Workflows,
         \A w \in Workflows : posting'[w] \in Stage /\ (posting[w] = "waits" => posting'[w] = "waits"),
         projecting' \in [Runs -> [at : Stage, after : Stage]],
         \A r \in Runs : (projecting'[r].at = "waits") <=> (projecting[r].at = "waits")
  PROVE  BackedInv'
<1>1. GraphTypeOK'
  BY DEF BackedInv, GraphTypeOK
<1> QED
  BY <1>1 DEF BackedInv, ReportsKept

(* A part of a half of a topology is written. *)
LEMMA TopologyKeepsBacked ==
  ASSUME BackedInv, ReportInv', ReportsKept,
         NEW w \in Workflows, NEW written, NEW stage \in Stage,
         IsHalf(posting[w]),
         written \subseteq TopologyQueries(w, posting[w]),
         graph' = Merged(posting[w], written),
         posting' = [posting EXCEPT ![w] = stage],
         UNCHANGED <<body, workflowOf, found, projecting>>
  PROVE  BackedInv'
<1> DEFINE half == posting[w]
<1>1. GraphTypeOK /\ half \in {"nodes", "edges"}
  BY HalfStages DEF BackedInv
<1>2. /\ graph' = [nodes |-> graph'.nodes, edges |-> graph'.edges]
      /\ half = "nodes" =>
           graph'.nodes = graph.nodes \cup written /\ graph'.edges = graph.edges
      /\ half = "edges" =>
           /\ graph'.nodes = graph.nodes
           /\ graph'.edges = graph.edges \cup
                {e \in written : {e.from, e.to} \subseteq graph.nodes}
  BY <1>1, MergedWrites
<1>3. GraphTypeOK'
  BY <1>1, <1>2 DEF GraphTypeOK
<1>4. ASSUME NEW q, NEW r
      PROVE  /\ RunNode(q, r) \in graph'.nodes <=> RunNode(q, r) \in graph.nodes
             /\ \A v : ObservedEdge(q, r, v) \in graph'.edges => ObservedEdge(q, r, v) \in graph.edges
  BY <1>1, <1>2, TopologyHasNoRuns DEF ObservedEdge, Edge
<1>5. \A x : WorkflowNode(x) \in graph'.nodes => WorkflowNode(x) \in graph.nodes \/ x = w
  BY <1>1, <1>2, TopologyHasNoRuns
<1>6. ASSUME NEW x \in Workflows
      PROVE  /\ posting'[x] # "waits" => body'[x] # NoBody
             /\ WorkflowNode(x) \in graph'.nodes => body'[x] # NoBody
  BY <1>1, <1>5 DEF BackedInv, GraphTypeOK
<1> QED
  BY <1>3, <1>4, <1>6 DEF BackedInv, ReportsKept

LEMMA RunQueries ==
  ASSUME GraphTypeOK, NEW w \in Workflows, NEW r \in Runs
  PROVE  /\ \A q, s : RunNode(q, s) \in ViolationQueries(w, r, "nodes") => q = w /\ s = r
         /\ \A q : WorkflowNode(q) \notin ViolationQueries(w, r, "nodes")
         /\ \A q, s : \A v \in Violations :
              ObservedEdge(q, s, v) \in ViolationQueries(w, r, "edges") =>
                q = w /\ s = r /\ v \in found[r]
<1>1. found[r] \subseteq Violations
  BY DEF GraphTypeOK
<1>2. /\ \A q, s : RunNode(q, s) \in ViolationQueries(w, r, "nodes") => q = w /\ s = r
      /\ \A q : WorkflowNode(q) \notin ViolationQueries(w, r, "nodes")
  BY DEF ViolationQueries, ViolationNode, RunNode, WorkflowNode, Node
<1>3. ASSUME NEW q, NEW s, NEW v \in Violations,
             ObservedEdge(q, s, v) \in ViolationEdges(w, r, found[r])
      PROVE  q = w /\ s = r /\ v \in found[r]
  <2>1. PICK u \in found[r] : ObservedEdge(q, s, v) = ObservedEdge(w, r, u)
    BY <1>3 DEF ViolationEdges, ObservedEdge, Edge, Triggered, Node, RunNode, WorkflowNode
  <2>2. RunNode(q, s) = RunNode(w, r) /\ ViolationNode(q, v) = ViolationNode(w, u)
    BY <2>1 DEF ObservedEdge, Edge
  <2>3. q = w /\ s = r /\ u.key = v.key
    BY <2>2 DEF RunNode, ViolationNode, Node
  <2> QED
    BY <1>1, <2>3, GraphAssumption
<1> QED
  BY <1>2, <1>3 DEF ViolationQueries

(* A part of a half of a run is written. *)
LEMMA RunKeepsBacked ==
  ASSUME BackedInv, ReportInv', ReportsKept,
         NEW r \in Runs, NEW written, NEW stage \in Stage \ {"waits"},
         IsHalf(projecting[r].at),
         written \subseteq ViolationQueries(workflowOf[r], r, projecting[r].at),
         graph' = Merged(projecting[r].at, written),
         projecting' = [projecting EXCEPT ![r].at = stage],
         UNCHANGED <<body, posting, workflowOf, found>>
  PROVE  BackedInv'
<1> DEFINE half == projecting[r].at
           w == workflowOf[r]
<1>1. GraphTypeOK /\ half \in {"nodes", "edges"} /\ w \in Workflows
  BY HalfStages DEF BackedInv, GraphTypeOK
<1>2. /\ graph' = [nodes |-> graph'.nodes, edges |-> graph'.edges]
      /\ half = "nodes" =>
           graph'.nodes = graph.nodes \cup written /\ graph'.edges = graph.edges
      /\ half = "edges" =>
           /\ graph'.nodes = graph.nodes
           /\ graph'.edges = graph.edges \cup
                {e \in written : {e.from, e.to} \subseteq graph.nodes}
  BY <1>1, MergedWrites
<1>3. GraphTypeOK'
  BY <1>1, <1>2 DEF GraphTypeOK
<1>4. ASSUME NEW q, NEW s
      PROVE  /\ RunNode(q, s) \in graph'.nodes => RunNode(q, s) \in graph.nodes \/ s = r
             /\ WorkflowNode(q) \in graph'.nodes => WorkflowNode(q) \in graph.nodes
             /\ RunNode(q, s) \in graph.nodes => RunNode(q, s) \in graph'.nodes
  BY <1>1, <1>2, RunQueries
<1>5. ASSUME NEW q, NEW s, NEW v \in Violations, ObservedEdge(q, s, v) \in graph'.edges
      PROVE  \/ ObservedEdge(q, s, v) \in graph.edges
             \/ s = r /\ v \in found[r] /\ RunNode(q, s) \in graph.nodes
  BY <1>1, <1>2, <1>5, RunQueries DEF ObservedEdge, Edge
<1>6. ASSUME NEW s \in Runs
      PROVE  (projecting'[s].at = "waits") <=> (projecting[s].at = "waits" /\ s # r)
  BY <1>1 DEF GraphTypeOK
<1> QED
  BY <1>1, <1>3, <1>4, <1>5, <1>6 DEF BackedInv, ReportsKept

(* A projection begins with the commit of a report with violations, and    *)
(* with no other step.                                                     *)
LEMMA CommitKeepsBacked ==
  ASSUME BackedInv, ReportInv', ReportsKept, NEW r \in Runs, CommitRow(r)
  PROVE  BackedInv'
<1>1. WriteRow(r) /\ call' = call /\ GraphTypeOK
  BY DEF CommitRow, WriteRow, BackedInv
<1>2. call[r].report # "none" => db'[r].report = call[r].report
  BY <1>1, WriteKeepsReports DEF BackedInv
<1>3. /\ UNCHANGED <<body, posting, workflowOf, found, graph>>
      /\ projecting' = [projecting EXCEPT ![r] =
           IF call[r].report # "violations" THEN @
           ELSE [at |-> "nodes", after |-> posting[workflowOf[r]]]]
  BY HalfStages DEF CommitRow
<1>4. GraphTypeOK'
  BY <1>1, <1>3 DEF GraphTypeOK, Stage
<1>5. ASSUME NEW s \in Runs
      PROVE  /\ projecting[s].at # "waits" => projecting'[s].at # "waits"
             /\ projecting'[s].at # "waits" =>
                  projecting[s].at # "waits" \/ db'[s].report = "violations"
  BY <1>1, <1>2, <1>3 DEF GraphTypeOK
<1> QED
  BY <1>3, <1>4, <1>5 DEF BackedInv, ReportsKept

(* Until a run is finished nothing of it has been projected. *)
LEMMA UnfinishedIsNotProjected ==
  ASSUME BackedInv, NEW r \in Runs, pc[r] \in {"none", "working"}
  PROVE  /\ projecting[r].at = "waits"
         /\ \A w \in Workflows :
              /\ RunNode(w, r) \notin graph.nodes
              /\ \A v \in Violations : ObservedEdge(w, r, v) \notin graph.edges
<1>1. db[r].report = "none"
  BY DEF BackedInv, FinishedInv, Finished
<1> QED
  BY <1>1 DEF BackedInv

LEMMA SubmitKeepsBacked ==
  ASSUME BackedInv, ReportInv', ReportsKept,
         NEW i \in Instances, NEW r \in Runs, SubmitFor(i, r)
  PROVE  BackedInv'
<1>1. PICK w \in Workflows :
        /\ workflowOf' = [workflowOf EXCEPT ![r] = w]
        /\ UNCHANGED <<body, posting, found, projecting, graph>>
  BY DEF SubmitFor
<1>2. GraphTypeOK'
  BY <1>1 DEF BackedInv, GraphTypeOK
<1> QED
  BY <1>1, <1>2 DEF BackedInv, ReportsKept

LEMMA FindKeepsBacked ==
  ASSUME BackedInv, ReportInv', ReportsKept, NEW r \in Runs, FindViolations(r)
  PROVE  BackedInv'
<1>1. PICK violations \in SUBSET Violations :
        /\ found' = [found EXCEPT ![r] = violations]
        /\ UNCHANGED <<body, posting, workflowOf, projecting, graph>>
  BY DEF FindViolations
<1>2. pc[r] = "working"
  BY DEF FindViolations, FinishAnalysis
<1>3. GraphTypeOK'
  BY <1>1 DEF BackedInv, GraphTypeOK
<1>4. \A s \in Runs \ {r} : found'[s] = found[s]
  BY <1>1 DEF BackedInv, GraphTypeOK
<1> QED
  BY <1>1, <1>2, <1>3, <1>4, UnfinishedIsNotProjected DEF BackedInv, ReportsKept

LEMMA BackedStep ==
  ASSUME BackedInv, [GraphNext]_allVars PROVE BackedInv'
<1>1. ReportInv' /\ ReportsKept
  BY ReportsStepOfGraph DEF BackedInv
<1>2. GraphTypeOK
  BY DEF BackedInv
<1>3. ASSUME UNCHANGED graphVars PROVE BackedInv'
  BY <1>1, <1>2, <1>3, QuietKeepsBacked DEF graphVars, GraphTypeOK
<1>4. ASSUME NEW i \in Instances, CrashAll(i) PROVE BackedInv'
  <2>1. \A stage \in Stage : /\ StageAfterStop(stage) \in Stage
                             /\ StageAfterStop(stage) = "waits" <=> stage = "waits"
    BY HalfStages DEF StageAfterStop, Stage
  <2>2. /\ UNCHANGED <<body, workflowOf, found, graph>>
        /\ posting' = [w \in Workflows |->
             IF poster[w] = i THEN StageAfterStop(posting[w]) ELSE posting[w]]
        /\ projecting' = [r \in Runs |->
             IF home[r] = i THEN [projecting[r] EXCEPT !.at = StageAfterStop(@)]
             ELSE projecting[r]]
    BY <1>4 DEF CrashAll
  <2>3. \A w \in Workflows : posting'[w] \in Stage /\ (posting[w] = "waits" => posting'[w] = "waits")
    BY <1>2, <2>1, <2>2 DEF GraphTypeOK
  <2>4. /\ projecting' \in [Runs -> [at : Stage, after : Stage]]
        /\ \A r \in Runs : (projecting'[r].at = "waits") <=> (projecting[r].at = "waits")
    BY <1>2, <2>1, <2>2 DEF GraphTypeOK
  <2> QED
    BY <1>1, <2>2, <2>3, <2>4, QuietKeepsBacked
<1>5. ASSUME NEW i \in Instances, NEW r \in Runs, SubmitFor(i, r) PROVE BackedInv'
  BY <1>1, <1>5, SubmitKeepsBacked
<1>6. ASSUME NEW i \in Instances, NEW w \in Workflows, PostWorkflow(i, w) PROVE BackedInv'
  <2>1. PICK b \in Bodies :
          /\ body' = [body EXCEPT ![w] = b]
          /\ posting' = [posting EXCEPT ![w] = "nodes"]
          /\ UNCHANGED <<workflowOf, found, projecting, graph>>
    BY <1>6, HalfStages DEF PostWorkflow
  <2>2. b # NoBody
    BY GraphAssumption
  <2>3. GraphTypeOK'
    BY <1>2, <2>1 DEF GraphTypeOK, Stage
  <2>4. \A x \in Workflows : /\ body[x] # NoBody => body'[x] # NoBody
                             /\ posting'[x] # "waits" => posting[x] # "waits" \/ body'[x] # NoBody
    BY <1>2, <2>1, <2>2 DEF GraphTypeOK
  <2> QED
    BY <1>1, <2>1, <2>3, <2>4 DEF BackedInv, ReportsKept
<1>7. ASSUME NEW w \in Workflows, ProjectTopology(w) PROVE BackedInv'
  <2>1. NextHalf(posting[w]) \in Stage
    BY <1>7, HalfStages DEF ProjectTopology, Stage
  <2> QED
    BY <1>1, <1>7, <2>1, TopologyKeepsBacked DEF ProjectTopology
<1>8. ASSUME NEW w \in Workflows, TopologyFault(w) PROVE BackedInv'
  <2>1. "failed" \in Stage
    BY DEF Stage
  <2>2. PICK written \in Beginnings(TopologyQueries(w, posting[w])) :
          graph' = Merged(posting[w], written)
    BY <1>8 DEF TopologyFault
  <2>3. written \subseteq TopologyQueries(w, posting[w])
    BY <2>2, BeginningsAreParts
  <2> QED
    BY <1>1, <1>8, <2>1, <2>2, <2>3, TopologyKeepsBacked DEF TopologyFault
<1>9. ASSUME NEW r \in Runs, RunStep(r) PROVE BackedInv'
  <2>1. CASE FindViolations(r)
    BY <1>1, <2>1, FindKeepsBacked
  <2>2. CASE CommitRow(r)
    BY <1>1, <2>2, CommitKeepsBacked
  <2>3. CASE ProjectRun(r)
    <3>1. NextHalf(projecting[r].at) \in Stage \ {"waits"}
      BY <2>3, HalfStages DEF ProjectRun, Stage
    <3> QED
      BY <1>1, <2>3, <3>1, RunKeepsBacked DEF ProjectRun
  <2>4. CASE RunFault(r)
    <3>1. "failed" \in Stage \ {"waits"}
      BY DEF Stage
    <3>2. PICK written \in Beginnings(ViolationQueries(workflowOf[r], r, projecting[r].at)) :
            graph' = Merged(projecting[r].at, written)
      BY <2>4 DEF RunFault
    <3>3. written \subseteq ViolationQueries(workflowOf[r], r, projecting[r].at)
      BY <3>2, BeginningsAreParts
    <3> QED
      BY <1>1, <2>4, <3>1, <3>2, <3>3, RunKeepsBacked DEF RunFault
  <2>5. CASE PublishRow(r)
    BY <1>3, <2>5 DEF PublishRow
  <2> QED
    BY <1>9, <2>1, <2>2, <2>3, <2>4, <2>5 DEF RunStep
<1>10. CASE UNCHANGED allVars
  BY <1>3, <1>10 DEF allVars
<1> QED
  BY <1>3, <1>4, <1>5, <1>6, <1>7, <1>8, <1>9, <1>10 DEF GraphNext

(* Whatever fails or stops, and with any number of processes, workflows    *)
(* and runs, the graph shows only what the database holds.                 *)
THEOREM GraphsAreBacked == GraphSpec => []GraphIsBacked
BY BackedInit, BackedStep, BackedImplies, PTL DEF GraphSpec, allVars

-----------------------------------------------------------------------------
(***************************************************************************)
(* The graph is complete: what the edges of a projection end in are the    *)
(* nodes of its first half, or of the projection of its workflow, and      *)
(* nothing is ever taken out of the graph.                                 *)
(***************************************************************************)

TopologyIsWritten(w) ==
  /\ posting[w] \in {"edges", "done"} => EntityNodes(w, body[w]) \subseteq graph.nodes
  /\ posting[w] = "done" =>
       BaseEdges(w, body[w]) \cup TopologyEdges(w, body[w]) \subseteq graph.edges

Linked(w, r) ==
  /\ {e \in ViolationEdges(w, r, found[r]) : e.type = "Observed"} \subseteq graph.edges
  /\ projecting[r].after = "done" =>
       \A e \in ViolationEdges(w, r, found[r]) :
         \/ e \in graph.edges
         \/ e.from[1] = "Agent" /\ e.from \notin Entities(w, body[w])

RunIsWritten(w, r) ==
  /\ projecting[r].at \in {"edges", "done"} =>
       ViolationQueries(w, r, "nodes") \subseteq graph.nodes
  /\ projecting[r].at # "waits" /\ projecting[r].after = "done" => posting[w] = "done"
  /\ projecting[r].at = "done" => Linked(w, r)

CompleteInv ==
  /\ BackedInv
  /\ \A w \in Workflows : TopologyIsWritten(w)
  /\ \A r \in Runs : RunIsWritten(workflowOf[r], r)

LEMMA CompleteImplies == CompleteInv => GraphIsComplete
BY DEF CompleteInv, TopologyIsWritten, RunIsWritten, Linked, GraphIsComplete

LEMMA CompleteInit == GraphInit => CompleteInv
<1>1. ASSUME GraphInit
      PROVE  /\ \A w \in Workflows : posting[w] = "waits"
             /\ \A r \in Runs : projecting[r].at = "waits"
  BY <1>1 DEF GraphInit, NotBegun
<1> QED
  BY <1>1, BackedInit DEF CompleteInv, TopologyIsWritten, RunIsWritten

Grown == graph.nodes \subseteq graph'.nodes /\ graph.edges \subseteq graph'.edges

(* Projections that do not move stay written while the graph grows. *)
LEMMA TopologyStaysWritten ==
  ASSUME CompleteInv, NEW w \in Workflows, Grown, body'[w] = body[w],
         posting'[w] \in {posting[w], "failed", "lost"}
  PROVE  TopologyIsWritten(w)'
<1>1. EntityNodes(w, body[w])' = EntityNodes(w, body[w])
  BY DEF EntityNodes, Entities, Contracts
<1>2. BaseEdges(w, body[w])' = BaseEdges(w, body[w])
  BY DEF BaseEdges, Entities, Contracts
<1>3. TopologyEdges(w, body[w])' = TopologyEdges(w, body[w])
  BY DEF TopologyEdges
<1> QED
  BY <1>1, <1>2, <1>3 DEF CompleteInv, TopologyIsWritten, Grown

LEMMA RunStaysWritten ==
  ASSUME CompleteInv, NEW r \in Runs, Grown, workflowOf'[r] = workflowOf[r],
         found'[r] = found[r],
         body'[workflowOf[r]] = body[workflowOf[r]] \/ projecting[r].after # "done",
         posting[workflowOf[r]] = "done" => posting'[workflowOf[r]] = "done",
         projecting'[r].at \in {projecting[r].at, "failed", "lost"},
         projecting'[r].after = projecting[r].after,
         projecting[r].at = "waits" => projecting'[r].at = "waits"
  PROVE  RunIsWritten(workflowOf[r], r)'
<1> DEFINE w == workflowOf[r]
<1>1. ViolationQueries(w, r, "nodes")' = ViolationQueries(w, r, "nodes")
  BY DEF ViolationQueries
<1>2. ViolationEdges(w, r, found[r])' = ViolationEdges(w, r, found[r])
  BY DEF ViolationEdges
<1>3. projecting[r].after = "done" => Entities(w, body[w])' = Entities(w, body[w])
  BY DEF Entities
<1>4. RunIsWritten(w, r)
  BY DEF CompleteInv
<1>5. Linked(w, r) => Linked(w, r)'
  BY <1>2, <1>3 DEF Linked, Grown
<1> QED
  BY <1>1, <1>4, <1>5 DEF RunIsWritten, Grown

(* The edges of a topology end in its nodes. *)
LEMMA TopologyIsClosed ==
  ASSUME NEW w, NEW e \in TopologyQueries(w, "edges")
  PROVE  {e.from, e.to} \subseteq EntityNodes(w, body[w])
<1> DEFINE b == body[w]
<1>1. CASE e \in BaseEdges(w, b)
  BY <1>1 DEF BaseEdges, EntityNodes, Edge
<1>2. CASE e \in TopologyEdges(w, b)
  <2>1. \A key \in DOMAIN Lookup(b) : Endpoint(w, Lookup(b)[key]) \in Entities(w, b)
    BY DEF Entities
  <2>2. PICK d \in b.edges :
          /\ {d.from, d.to} \subseteq DOMAIN Lookup(b)
          /\ e.from = Endpoint(w, Lookup(b)[d.from])
          /\ e.to = Endpoint(w, Lookup(b)[d.to])
    BY <1>2 DEF TopologyEdges, Edge
  <2> QED
    BY <2>1, <2>2 DEF EntityNodes
<1> QED
  BY <1>1, <1>2 DEF TopologyQueries

(* The edges of a run end in its own nodes, its workflow or an agent. *)
LEMMA RunIsClosed ==
  ASSUME NEW w, NEW r, NEW e \in ViolationQueries(w, r, "edges")
  PROVE  /\ e.to \in ViolationQueries(w, r, "nodes")
         /\ e.type = "Observed" => e.from \in ViolationQueries(w, r, "nodes")
         /\ \/ e.from \in ViolationQueries(w, r, "nodes") \cup {WorkflowNode(w)}
            \/ e.from[1] = "Agent"
<1>1. /\ RunNode(w, r) \in ViolationQueries(w, r, "nodes")
      /\ \A v \in found[r] : ViolationNode(w, v) \in ViolationQueries(w, r, "nodes")
  BY DEF ViolationQueries
<1>2. e \in ViolationEdges(w, r, found[r])
  BY DEF ViolationQueries
<1>3. CASE e = Edge("HasRun", WorkflowNode(w), RunNode(w, r))
  BY <1>1, <1>3 DEF Edge
<1>4. CASE \E v \in found[r] : e = Edge("Observed", RunNode(w, r), ViolationNode(w, v))
  BY <1>1, <1>4 DEF Edge
<1>5. CASE \E v \in found[r] : e = Edge("HasViolation", WorkflowNode(w), ViolationNode(w, v))
  BY <1>1, <1>5 DEF Edge
<1>6. CASE \E v \in found[r] : e = Triggered(w, v)
  <2>1. PICK v \in found[r] : e = Triggered(w, v)
    BY <1>6
  <2>2. e.type = "Triggered" /\ e.to = ViolationNode(w, v) /\ e.from = Node("Agent", <<w, v.agent>>)
    BY <2>1 DEF Triggered, Edge
  <2> QED
    BY <1>1, <2>2 DEF Node
<1> QED
  BY <1>2, <1>3, <1>4, <1>5, <1>6 DEF ViolationEdges

(* After the second half of a run its edges are there, but for those of    *)
(* agents the workflow does not declare.                                   *)
LEMMA EdgesAreLinked ==
  ASSUME CompleteInv, NEW r \in Runs, projecting[r].at = "edges",
         ProjectRun(r)
  PROVE  Linked(workflowOf[r], r)'
<1> DEFINE w == workflowOf[r]
<1>1. GraphTypeOK /\ w \in Workflows
  BY DEF CompleteInv, BackedInv, GraphTypeOK
<1>2. /\ UNCHANGED <<body, posting, workflowOf, found>>
      /\ graph' = Merged("edges", ViolationQueries(w, r, "edges"))
      /\ projecting'[r].after = projecting[r].after
  BY <1>1 DEF ProjectRun, GraphTypeOK
<1>3. /\ graph'.nodes = graph.nodes
      /\ graph'.edges = graph.edges \cup
           {e \in ViolationQueries(w, r, "edges") : {e.from, e.to} \subseteq graph.nodes}
  BY <1>1, <1>2, MergedWrites
<1>4. /\ ViolationQueries(w, r, "nodes") \subseteq graph.nodes
      /\ projecting[r].after = "done" => posting[w] = "done"
  BY DEF CompleteInv, RunIsWritten
<1>5. projecting[r].after = "done" => EntityNodes(w, body[w]) \subseteq graph.nodes
  BY <1>1, <1>4 DEF CompleteInv, TopologyIsWritten
<1>6. ASSUME NEW e \in ViolationEdges(w, r, found[r])
      PROVE  /\ e.type = "Observed" => e \in graph'.edges
             /\ projecting[r].after = "done" =>
                  \/ e \in graph'.edges
                  \/ e.from[1] = "Agent" /\ e.from \notin Entities(w, body[w])
  <2>1. e \in ViolationQueries(w, r, "edges")
    BY DEF ViolationQueries
  <2>2. {e.from, e.to} \subseteq graph.nodes => e \in graph'.edges
    BY <1>3, <2>1
  <2>3. /\ e.to \in graph.nodes
        /\ e.type = "Observed" => e.from \in graph.nodes
        /\ \/ e.from \in graph.nodes \cup {WorkflowNode(w)}
           \/ e.from[1] = "Agent"
    BY <1>4, <2>1, RunIsClosed
  <2>4. projecting[r].after = "done" =>
          {WorkflowNode(w)} \cup Entities(w, body[w]) \subseteq graph.nodes
    BY <1>5 DEF EntityNodes
  <2> QED
    BY <2>2, <2>3, <2>4
<1>7. ViolationEdges(w, r, found[r])' = ViolationEdges(w, r, found[r])
  BY <1>2 DEF ViolationEdges
<1>8. Entities(w, body[w])' = Entities(w, body[w])
  BY <1>2 DEF Entities
<1> QED
  BY <1>2, <1>6, <1>7, <1>8 DEF Linked

LEMMA WrittenGrows ==
  ASSUME GraphTypeOK, NEW half \in {"nodes", "edges"}, NEW written,
         graph' = Merged(half, written)
  PROVE  Grown
BY MergedWrites DEF Grown

LEMMA CompleteStep ==
  ASSUME CompleteInv, [GraphNext]_allVars PROVE CompleteInv'
<1>1. BackedInv' /\ BackedInv /\ GraphTypeOK
  BY BackedStep DEF CompleteInv, BackedInv
<1>2. ASSUME UNCHANGED graphVars PROVE CompleteInv'
  BY <1>1, <1>2, TopologyStaysWritten, RunStaysWritten
     DEF graphVars, Grown, CompleteInv, GraphTypeOK
<1>3. ASSUME NEW i \in Instances, CrashAll(i) PROVE CompleteInv'
  <2>1. \A stage \in Stage : /\ StageAfterStop(stage) \in {stage, "lost"}
                             /\ stage \in {"waits", "done"} => StageAfterStop(stage) = stage
    BY HalfStages DEF StageAfterStop, Stage
  <2>2. /\ UNCHANGED <<body, workflowOf, found, graph>>
        /\ posting' = [w \in Workflows |->
             IF poster[w] = i THEN StageAfterStop(posting[w]) ELSE posting[w]]
        /\ projecting' = [r \in Runs |->
             IF home[r] = i THEN [projecting[r] EXCEPT !.at = StageAfterStop(@)]
             ELSE projecting[r]]
    BY <1>3 DEF CrashAll
  <2>3. \A w \in Workflows : /\ posting'[w] \in {posting[w], "lost"}
                             /\ posting[w] = "done" => posting'[w] = "done"
    BY <1>1, <2>1, <2>2 DEF GraphTypeOK
  <2>4. \A r \in Runs : /\ projecting'[r].at \in {projecting[r].at, "lost"}
                        /\ projecting'[r].after = projecting[r].after
                        /\ projecting[r].at = "waits" => projecting'[r].at = "waits"
    BY <1>1, <2>1, <2>2 DEF GraphTypeOK
  <2> QED
    BY <1>1, <2>2, <2>3, <2>4, TopologyStaysWritten, RunStaysWritten
       DEF Grown, CompleteInv, GraphTypeOK
<1>4. ASSUME NEW i \in Instances, NEW r \in Runs, SubmitFor(i, r) PROVE CompleteInv'
  <2>1. /\ projecting[r].at = "waits"
        /\ UNCHANGED <<body, posting, found, projecting, graph>>
        /\ \A q \in Runs \ {r} : workflowOf'[q] = workflowOf[q]
    BY <1>1, <1>4, UnfinishedIsNotProjected DEF SubmitFor, Submit, GraphTypeOK
  <2>2. RunIsWritten(workflowOf[r], r)'
    BY <2>1 DEF RunIsWritten
  <2>3. ASSUME NEW q \in Runs \ {r} PROVE RunIsWritten(workflowOf[q], q)'
    BY <2>1, RunStaysWritten DEF Grown
  <2> QED
    BY <1>1, <2>1, <2>2, <2>3, TopologyStaysWritten DEF Grown, CompleteInv
<1>5. ASSUME NEW i \in Instances, NEW w \in Workflows, PostWorkflow(i, w) PROVE CompleteInv'
  <2>1. /\ posting[w] = "waits" /\ posting'[w] = "nodes"
        /\ UNCHANGED <<workflowOf, found, projecting, graph>>
        /\ \A x \in Workflows \ {w} : posting'[x] = posting[x] /\ body'[x] = body[x]
    BY <1>1, <1>5, HalfStages DEF PostWorkflow, GraphTypeOK, BackedInv
  <2>2. TopologyIsWritten(w)'
    BY <2>1 DEF TopologyIsWritten
  <2>3. ASSUME NEW x \in Workflows \ {w} PROVE TopologyIsWritten(x)'
    BY <2>1, TopologyStaysWritten DEF Grown
  <2>4. ASSUME NEW r \in Runs PROVE RunIsWritten(workflowOf[r], r)'
    <3>1. workflowOf[r] \in Workflows
      BY <1>1 DEF GraphTypeOK
    <3>2. CASE workflowOf[r] # w
      BY <2>1, <3>1, <3>2, RunStaysWritten DEF Grown
    <3>3. CASE workflowOf[r] = w
      <4>1. projecting[r].at = "waits" \/ projecting[r].after # "done"
        BY <2>1, <3>3 DEF CompleteInv, RunIsWritten
      <4> QED
        BY <2>1, <3>3, <4>1, RunStaysWritten DEF Grown, RunIsWritten
    <3> QED
      BY <3>2, <3>3
  <2> QED
    BY <1>1, <2>2, <2>3, <2>4 DEF CompleteInv
<1>6. ASSUME NEW w \in Workflows, ProjectTopology(w) PROVE CompleteInv'
  <2>1. /\ posting[w] \in {"nodes", "edges"}
        /\ UNCHANGED <<body, workflowOf, found, projecting>>
        /\ posting'[w] = NextHalf(posting[w])
        /\ \A x \in Workflows \ {w} : posting'[x] = posting[x]
        /\ graph' = Merged(posting[w], TopologyQueries(w, posting[w]))
    BY <1>1, <1>6, HalfStages DEF ProjectTopology, GraphTypeOK
  <2>2. Grown
    BY <1>1, <2>1, WrittenGrows
  <2>3. TopologyIsWritten(w)'
    <3>1. /\ EntityNodes(w, body[w])' = EntityNodes(w, body[w])
          /\ BaseEdges(w, body[w])' = BaseEdges(w, body[w])
      BY <2>1 DEF EntityNodes, BaseEdges, Entities, Contracts
    <3>2. TopologyEdges(w, body[w])' = TopologyEdges(w, body[w])
      BY <2>1 DEF TopologyEdges
    <3>3. CASE posting[w] = "nodes"
      <4>1. posting'[w] = "edges" /\ EntityNodes(w, body[w]) \subseteq graph'.nodes
        BY <1>1, <2>1, <3>3, MergedWrites, HalfStages DEF TopologyQueries
      <4> QED
        BY <3>1, <4>1 DEF TopologyIsWritten
    <3>4. CASE posting[w] = "edges"
      <4>1. EntityNodes(w, body[w]) \subseteq graph.nodes
        BY <3>4 DEF CompleteInv, TopologyIsWritten
      <4>2. TopologyQueries(w, "edges") \subseteq graph'.edges
        BY <1>1, <2>1, <3>4, <4>1, MergedWrites, TopologyIsClosed
      <4> QED
        BY <2>2, <3>1, <3>2, <4>1, <4>2 DEF TopologyIsWritten, TopologyQueries, Grown
    <3> QED
      BY <2>1, <3>3, <3>4
  <2>4. ASSUME NEW x \in Workflows \ {w} PROVE TopologyIsWritten(x)'
    BY <2>1, <2>2, TopologyStaysWritten
  <2>5. ASSUME NEW r \in Runs PROVE RunIsWritten(workflowOf[r], r)'
    <3>1. workflowOf[r] \in Workflows
      BY <1>1 DEF GraphTypeOK
    <3> QED
      BY <2>1, <2>2, <3>1, RunStaysWritten
  <2> QED
    BY <1>1, <2>3, <2>4, <2>5 DEF CompleteInv
<1>7. ASSUME NEW w \in Workflows, TopologyFault(w) PROVE CompleteInv'
  <2>1. PICK written : graph' = Merged(posting[w], written)
    BY <1>7 DEF TopologyFault
  <2>2. /\ posting[w] \in {"nodes", "edges"}
        /\ UNCHANGED <<body, workflowOf, found, projecting>>
        /\ posting'[w] = "failed"
        /\ \A x \in Workflows \ {w} : posting'[x] = posting[x]
    BY <1>1, <1>7, HalfStages DEF TopologyFault, GraphTypeOK
  <2>3. Grown
    BY <1>1, <2>1, <2>2, WrittenGrows
  <2>4. ASSUME NEW x \in Workflows PROVE TopologyIsWritten(x)'
    BY <2>2, <2>3, TopologyStaysWritten
  <2>5. ASSUME NEW r \in Runs PROVE RunIsWritten(workflowOf[r], r)'
    <3>1. workflowOf[r] \in Workflows
      BY <1>1 DEF GraphTypeOK
    <3> QED
      BY <2>2, <2>3, <3>1, RunStaysWritten
  <2> QED
    BY <1>1, <2>4, <2>5 DEF CompleteInv
<1>8. ASSUME NEW r \in Runs, FindViolations(r) PROVE CompleteInv'
  <2>1. /\ projecting[r].at = "waits"
        /\ UNCHANGED <<body, posting, workflowOf, projecting, graph>>
        /\ \A q \in Runs \ {r} : found'[q] = found[q]
    BY <1>1, <1>8, UnfinishedIsNotProjected DEF FindViolations, FinishAnalysis, GraphTypeOK
  <2>2. RunIsWritten(workflowOf[r], r)'
    BY <2>1 DEF RunIsWritten
  <2>3. ASSUME NEW q \in Runs \ {r} PROVE RunIsWritten(workflowOf[q], q)'
    BY <2>1, RunStaysWritten DEF Grown
  <2> QED
    BY <1>1, <2>1, <2>2, <2>3, TopologyStaysWritten DEF Grown, CompleteInv
<1>9. ASSUME NEW r \in Runs, CommitRow(r) PROVE CompleteInv'
  <2>1. /\ UNCHANGED <<body, posting, workflowOf, found, graph>>
        /\ \/ projecting' = projecting
           \/ projecting' = [projecting EXCEPT ![r] =
                [at |-> "nodes", after |-> posting[workflowOf[r]]]]
    BY <1>1, <1>9, HalfStages DEF CommitRow, GraphTypeOK
  <2>2. RunIsWritten(workflowOf[r], r)'
    <3>1. CASE projecting' = projecting
      BY <2>1, <3>1, RunStaysWritten DEF Grown
    <3>2. CASE projecting' # projecting
      <4>1. projecting'[r] = [at |-> "nodes", after |-> posting[workflowOf[r]]]
        BY <1>1, <2>1, <3>2 DEF GraphTypeOK
      <4> QED
        BY <2>1, <4>1 DEF RunIsWritten
    <3> QED
      BY <3>1, <3>2
  <2>3. ASSUME NEW q \in Runs \ {r} PROVE RunIsWritten(workflowOf[q], q)'
    BY <1>1, <2>1, RunStaysWritten DEF Grown, GraphTypeOK
  <2> QED
    BY <1>1, <2>1, <2>2, <2>3, TopologyStaysWritten DEF Grown, CompleteInv
<1>10. ASSUME NEW r \in Runs, ProjectRun(r) PROVE CompleteInv'
  <2> DEFINE half == projecting[r].at
             w == workflowOf[r]
  <2>1. /\ half \in {"nodes", "edges"}
        /\ UNCHANGED <<body, posting, workflowOf, found>>
        /\ projecting'[r].at = NextHalf(half)
        /\ projecting'[r].after = projecting[r].after
        /\ \A q \in Runs \ {r} : projecting'[q] = projecting[q]
        /\ graph' = Merged(half, ViolationQueries(w, r, half))
    BY <1>1, <1>10, HalfStages DEF ProjectRun, GraphTypeOK
  <2>2. Grown
    BY <1>1, <2>1, WrittenGrows
  <2>3. ViolationQueries(w, r, "nodes")' = ViolationQueries(w, r, "nodes")
    BY <2>1 DEF ViolationQueries
  <2>4. half = "nodes" =>
          projecting'[r].at = "edges" /\ ViolationQueries(w, r, "nodes") \subseteq graph'.nodes
    BY <1>1, <2>1, MergedWrites, HalfStages
  <2>5. half = "edges" =>
          Linked(w, r)' /\ ViolationQueries(w, r, "nodes") \subseteq graph'.nodes
    BY <1>10, <2>2, EdgesAreLinked DEF CompleteInv, RunIsWritten, Grown
  <2>6. projecting[r].after = "done" => posting[w] = "done"
    BY <2>1 DEF CompleteInv, RunIsWritten
  <2>7. RunIsWritten(w, r)'
    BY <2>1, <2>3, <2>4, <2>5, <2>6 DEF RunIsWritten
  <2>8. ASSUME NEW q \in Runs \ {r} PROVE RunIsWritten(workflowOf[q], q)'
    BY <2>1, <2>2, RunStaysWritten
  <2> QED
    BY <1>1, <2>1, <2>2, <2>7, <2>8, TopologyStaysWritten DEF CompleteInv
<1>11. ASSUME NEW r \in Runs, RunFault(r) PROVE CompleteInv'
  <2>1. PICK written : graph' = Merged(projecting[r].at, written)
    BY <1>11 DEF RunFault
  <2>2. /\ projecting[r].at \in {"nodes", "edges"}
        /\ UNCHANGED <<body, posting, workflowOf, found>>
        /\ projecting'[r].at = "failed" /\ projecting'[r].after = projecting[r].after
        /\ \A q \in Runs \ {r} : projecting'[q] = projecting[q]
    BY <1>1, <1>11, HalfStages DEF RunFault, GraphTypeOK
  <2>3. Grown
    BY <1>1, <2>1, <2>2, WrittenGrows
  <2>4. ASSUME NEW q \in Runs PROVE RunIsWritten(workflowOf[q], q)'
    BY <2>2, <2>3, RunStaysWritten
  <2> QED
    BY <1>1, <2>2, <2>3, <2>4, TopologyStaysWritten DEF CompleteInv
<1>12. CASE UNCHANGED allVars
  BY <1>2, <1>12 DEF allVars
<1> QED
  BY <1>2, <1>3, <1>4, <1>5, <1>6, <1>7, <1>8, <1>9, <1>10, <1>11, <1>12
     DEF GraphNext, RunStep, PublishRow

(* A projection that ended without an error left no edge out, whatever     *)
(* failed or stopped beside it.                                            *)
THEOREM GraphsAreComplete == GraphSpec => []GraphIsComplete
BY CompleteInit, CompleteStep, CompleteImplies, PTL DEF GraphSpec, allVars

-----------------------------------------------------------------------------
(***************************************************************************)
(* The contract language.  The parser reads the entries one after the      *)
(* other; what it has after n of them is argued by induction on n.         *)
(***************************************************************************)

(* Every set of numbers has a least member, and induction on numbers for   *)
(* sets instead of predicates.                                             *)
LEMMA NatMin ==
  ASSUME NEW T, T \subseteq Nat, T # {}
  PROVE  \E x \in T : \A y \in T : x <= y
<1> DEFINE R == OpToRel(<, Nat)
<1>1. \A x, y \in Nat : x < y => <<x, y>> \in R
  BY DEF OpToRel
<1>2. IsWellFoundedOn(R, Nat)
  BY NatLessThanWellFounded
<1> HIDE DEF R
<1>3. PICK x \in T : \A y \in T : ~ (<<y, x>> \in R)
  BY <1>2, WFMin
<1>4. \A y \in T : x \in Nat /\ y \in Nat /\ ~ (y < x)
  BY <1>1, <1>3
<1> QED
  BY <1>4

LEMMA NatInd ==
  ASSUME NEW T, 0 \in T, \A n \in Nat : n \in T => n + 1 \in T
  PROVE  Nat \subseteq T
<1> SUFFICES ASSUME NEW k \in Nat, k \notin T PROVE FALSE
  OBVIOUS
<1> DEFINE U == {n \in Nat : n \notin T}
<1>1. PICK x \in U : \A y \in U : x <= y
  <2>1. U \subseteq Nat /\ U # {}
    OBVIOUS
  <2> QED
    BY <2>1, NatMin
<1>2. x # 0 /\ x - 1 \in Nat /\ x - 1 \in T
  BY <1>1
<1> QED
  BY <1>1, <1>2

(* f has b at place 0 and at each other what G makes of the one before.    *)
Iterates(f, N, V, b, G) ==
  f \in [0..N -> V] /\ f[0] = b /\ \A n \in 1..N : f[n] = G[<<n, f[n - 1]>>]

LEMMA Iteration ==
  ASSUME NEW N \in Nat, NEW V, NEW b \in V, NEW G \in [(1..N) \X V -> V]
  PROVE  \E f : Iterates(f, N, V, b, G)
<1> DEFINE Good(f, k) == f[0] = b /\ \A n \in 1..k : f[n] = G[<<n, f[n - 1]>>]
           T == {k \in Nat : k <= N => \E f \in [0..k -> V] : Good(f, k)}
<1>1. 0 \in T
  <2>1. [n \in 0..0 |-> b] \in [0..0 -> V] /\ Good([n \in 0..0 |-> b], 0)
    OBVIOUS
  <2> QED
    BY <2>1
<1>2. ASSUME NEW k \in Nat, k \in T
      PROVE  k + 1 \in T
  <2> SUFFICES ASSUME k + 1 <= N
               PROVE  \E f \in [0..(k + 1) -> V] : Good(f, k + 1)
    OBVIOUS
  <2>1. PICK f \in [0..k -> V] : Good(f, k)
    BY <1>2
  <2> DEFINE e == [n \in 0..(k + 1) |-> IF n = k + 1 THEN G[<<k + 1, f[k]>>] ELSE f[n]]
  <2>2. G[<<k + 1, f[k]>>] \in V
    OBVIOUS
  <2>3. e \in [0..(k + 1) -> V]
    BY <2>2
  <2>4. e[0] = b
    BY <2>1
  <2>5. ASSUME NEW n \in 1..(k + 1) PROVE e[n] = G[<<n, e[n - 1]>>]
    <3>1. CASE n = k + 1
      <4>1. n \in 0..(k + 1) /\ n - 1 = k /\ k \in 0..(k + 1) /\ k # k + 1
        BY <3>1
      <4>2. e[n] = G[<<k + 1, f[k]>>] /\ e[k] = f[k]
        BY <3>1, <4>1
      <4> QED
        BY <3>1, <4>1, <4>2
    <3>2. CASE n # k + 1
      <4>1. n \in 1..k /\ n - 1 \in 0..k /\ n - 1 # k + 1
        BY <3>2
      <4> QED
        BY <2>1, <4>1
    <3> QED
      BY <3>1, <3>2
  <2> HIDE DEF e
  <2> QED
    BY <2>3, <2>4, <2>5
<1> HIDE DEF T
<1>3. N \in T
  BY <1>1, <1>2, NatInd
<1> QED
  BY <1>3 DEF T, Iterates

(* The type the parser takes for entry n is the one that is meant. *)
LEMMA TypeIsMeant ==
  ASSUME NEW doc, NEW n
  PROVE  /\ (TypeFault(RawType(RawEntry(doc, n))) = "none") <=> (MeantType(doc, n) # Unnamed)
         /\ MeantType(doc, n) # Unnamed =>
              /\ Lower[RawType(RawEntry(doc, n))] = MeantType(doc, n)
              /\ MeantType(doc, n) \in Types
<1> DEFINE entry == RawEntry(doc, n)
           type == RawType(entry)
           named == IF entry.type = "absent" THEN entry.label ELSE entry.type
<1>1. /\ "absent" \notin DOMAIN Lower /\ "null" \notin DOMAIN Lower
      /\ "number" \notin DOMAIN Lower /\ Unnamed \notin DOMAIN Lower
      /\ Unnamed \notin Types
  BY DslAssumption
<1>2. type = IF entry.type = "absent" /\ entry.label # Unnamed THEN entry.label ELSE entry.type
  BY DEF RawType
<1>3. MeantType(doc, n) =
        IF named \in DOMAIN Lower /\ Lower[named] \in Types THEN Lower[named] ELSE Unnamed
  BY DEF MeantType
<1>4. (TypeFault(type) = "none") <=> (type \in DOMAIN Lower /\ Lower[type] \in Types)
  <2> HIDE DEF type
  <2> QED
    BY <1>1 DEF TypeFault
<1> HIDE DEF entry
<1>5. (type \in DOMAIN Lower /\ Lower[type] \in Types) <=>
      (named \in DOMAIN Lower /\ Lower[named] \in Types)
  BY <1>1, <1>2
<1>6. type \in DOMAIN Lower => type = named
  BY <1>1, <1>2
<1> HIDE DEF type, named
<1>7. /\ (TypeFault(type) = "none") <=> (MeantType(doc, n) # Unnamed)
      /\ MeantType(doc, n) # Unnamed =>
           Lower[type] = MeantType(doc, n) /\ MeantType(doc, n) \in Types
  BY <1>1, <1>3, <1>4, <1>5, <1>6
<1> QED
  BY <1>7 DEF type, entry

(* The machine readable fields are refused that do not have their shape. *)
LEMMA MachineFields ==
  ASSUME NEW doc, NEW n
  PROVE  IsContract(doc, n) <=>
           /\ RawEntry(doc, n).value = "mapping"
           /\ MeantType(doc, n) # Unnamed
           /\ REQUIRED_FIELDS \subseteq RawEntry(doc, n).has
           /\ ~ MachineFault(MeantType(doc, n), RawEntry(doc, n))
BY DEF IsContract, REQUIRED_FIELDS, MachineFault

(* An entry is accepted when it is a contract of a type not seen before. *)
LEMMA EntryIsJudged ==
  ASSUME NEW doc, NEW n, NEW seen
  PROVE  /\ (EntryFault(RawEntry(doc, n), seen) = "none") <=>
              IsContract(doc, n) /\ MeantType(doc, n) \notin seen
<1> DEFINE entry == RawEntry(doc, n)
           type == RawType(entry)
           meant == MeantType(doc, n)
<1> HIDE DEF entry, type, meant
<1>1. /\ (TypeFault(type) = "none") <=> (meant # Unnamed)
      /\ meant # Unnamed => Lower[type] = meant /\ meant \in Types
  BY TypeIsMeant DEF entry, type, meant
<1>2. IsContract(doc, n) <=>
        /\ entry.value = "mapping" /\ meant # Unnamed
        /\ REQUIRED_FIELDS \subseteq entry.has /\ ~ MachineFault(meant, entry)
  BY MachineFields DEF entry, meant
<1>3. EntryFault(entry, seen) =
        CASE entry.value # "mapping"       -> "not a mapping"
          [] TypeFault(type) # "none"      -> TypeFault(type)
          [] Lower[type] \in seen          -> "duplicate type"
          [] ~ REQUIRED_FIELDS \subseteq entry.has -> "missing fields"
          [] MachineFault(Lower[type], entry)      -> "machine field"
          [] OTHER -> "none"
  BY DEF EntryFault, type
<1>4. CASE entry.value # "mapping"
  BY <1>2, <1>3, <1>4 DEF entry, meant
<1>5. CASE entry.value = "mapping" /\ TypeFault(type) # "none"
  BY <1>1, <1>2, <1>3, <1>5 DEF entry, meant
<1>6. CASE entry.value = "mapping" /\ TypeFault(type) = "none"
  <2>1. Lower[type] = meant /\ meant # Unnamed
    BY <1>1, <1>6
  <2>2. CASE meant \in seen
    BY <1>3, <1>6, <2>1, <2>2 DEF entry, meant
  <2>3. CASE meant \notin seen
    <3>1. CASE ~ REQUIRED_FIELDS \subseteq entry.has
      BY <1>2, <1>3, <1>6, <2>1, <2>3, <3>1 DEF entry, meant
    <3>2. CASE REQUIRED_FIELDS \subseteq entry.has /\ MachineFault(meant, entry)
      BY <1>2, <1>3, <1>6, <2>1, <2>3, <3>2 DEF entry, meant
    <3>3. CASE REQUIRED_FIELDS \subseteq entry.has /\ ~ MachineFault(meant, entry)
      BY <1>2, <1>3, <1>6, <2>1, <2>3, <3>3 DEF entry, meant
    <3> QED
      BY <3>1, <3>2, <3>3
  <2> QED
    BY <2>2, <2>3
<1> QED
  BY <1>4, <1>5, <1>6

(* What is made of a contract is what is meant. *)
LEMMA ContractIsMeant ==
  ASSUME NEW doc, NEW n, MeantType(doc, n) # Unnamed
  PROVE  IsMeant(ContractOf(RawEntry(doc, n)), doc, n)
<1> DEFINE entry == RawEntry(doc, n)
           meant == MeantType(doc, n)
<1> HIDE DEF entry, meant
<1>1. Lower[RawType(entry)] = meant /\ meant \in Types
  BY TypeIsMeant DEF entry, meant
<1> DEFINE given == entry.has \ entry.blank
<1>2. ContractOf(entry) =
        [type |-> meant,
         severity |-> IF "severity" \in given THEN "given" ELSE SeverityOf[meant],
         failed_agent |-> IF "failed_agent" \in given THEN "given" ELSE AgentOf[meant]]
  BY <1>1 DEF ContractOf
<1> QED
  BY <1>2 DEF IsMeant, entry, meant

(* One more entry is well formed when it is a contract of another type     *)
(* than those before it.                                                   *)
LEMMA OneMoreEntry ==
  ASSUME NEW doc, NEW n \in Nat \ {0}, WellFormedUpTo(doc, n - 1)
  PROVE  WellFormedUpTo(doc, n) <=>
           /\ IsContract(doc, n)
           /\ MeantType(doc, n) \notin {MeantType(doc, m) : m \in 1..(n - 1)}
<1>1. 1..n = 1..(n - 1) \cup {n} /\ n \notin 1..(n - 1) /\ n \in 1..n
  OBVIOUS
<1> QED
  BY <1>1 DEF WellFormedUpTo

LEMMA FewerEntries ==
  ASSUME NEW doc, NEW n \in Nat, NEW k \in 0..n, WellFormedUpTo(doc, n)
  PROVE  WellFormedUpTo(doc, k)
<1>1. 1..k \subseteq 1..n
  OBVIOUS
<1> QED
  BY <1>1 DEF WellFormedUpTo

(* What the parser has after n entries. *)
AsMeantUpTo(doc, contracts, n) ==
  Len(contracts) = n /\ \A m \in 1..n : IsMeant(contracts[m], doc, m)

FirstWrong(doc, parsed, n) ==
  /\ parsed.contracts = <<>>
  /\ parsed.entry \in 1..n
  /\ WellFormedUpTo(doc, parsed.entry - 1)
  /\ ~ WellFormedUpTo(doc, parsed.entry)

EntriesRead(doc, parsed, n) ==
  /\ parsed.fault = "none" =>
       WellFormedUpTo(doc, n) /\ AsMeantUpTo(doc, parsed.contracts, n)
  /\ parsed.fault # "none" => FirstWrong(doc, parsed, n)

ContractsIn(doc) == {ContractOf(RawEntry(doc, n)) : n \in 1..Places(doc)}
Faults(doc) ==
  {"none"} \cup {EntryFault(RawEntry(doc, n), TypesOf(contracts)) :
                   n \in 1..Places(doc), contracts \in Seq(ContractsIn(doc))}
Results(doc) ==
  [fault : Faults(doc), entry : 0..Places(doc), contracts : Seq(ContractsIn(doc))]

LEMMA TurnIsTyped ==
  ASSUME NEW doc, Places(doc) \in Nat,
         NEW n \in 1..Places(doc), NEW parsed \in Results(doc)
  PROVE  ParseEntry(doc, parsed, n) \in Results(doc)
<1> DEFINE entry == RawEntry(doc, n)
           fault == EntryFault(entry, TypesOf(parsed.contracts))
<1>1. fault \in Faults(doc)
  BY DEF Results, Faults
<1>2. ContractOf(entry) \in ContractsIn(doc)
  BY DEF ContractsIn
<1>3. ParseEntry(doc, parsed, n) =
        IF parsed.fault # "none" THEN parsed
        ELSE IF fault # "none" THEN [fault |-> fault, entry |-> n, contracts |-> <<>>]
        ELSE [parsed EXCEPT !.contracts = Append(@, ContractOf(entry))]
  BY DEF ParseEntry, Rejected
<1> HIDE DEF entry, fault
<1>4. Append(parsed.contracts, ContractOf(entry)) \in Seq(ContractsIn(doc))
  BY <1>2 DEF Results
<1>5. [fault |-> fault, entry |-> n, contracts |-> <<>>] \in Results(doc)
  BY <1>1 DEF Results
<1>6. [parsed EXCEPT !.contracts = Append(@, ContractOf(entry))] \in Results(doc)
  BY <1>4 DEF Results
<1> QED
  BY <1>3, <1>5, <1>6

LEMMA TurnReadsOne ==
  ASSUME NEW doc, Places(doc) \in Nat,
         NEW n \in 1..Places(doc), NEW parsed \in Results(doc),
         EntriesRead(doc, parsed, n - 1)
  PROVE  EntriesRead(doc, ParseEntry(doc, parsed, n), n)
<1> DEFINE entry == RawEntry(doc, n)
           fault == EntryFault(entry, TypesOf(parsed.contracts))
           next == ParseEntry(doc, parsed, n)
<1>1. next =
        IF parsed.fault # "none" THEN parsed
        ELSE IF fault # "none" THEN [fault |-> fault, entry |-> n, contracts |-> <<>>]
        ELSE [parsed EXCEPT !.contracts = Append(@, ContractOf(entry))]
  BY DEF ParseEntry, Rejected
<1>2. n \in Nat \ {0} /\ n - 1 \in Nat /\ n \in 1..n /\ 1..(n - 1) \subseteq 1..n
      /\ 1..n = 1..(n - 1) \cup {n} /\ n \notin 1..(n - 1)
  OBVIOUS
<1>3. CASE parsed.fault # "none"
  BY <1>1, <1>2, <1>3 DEF EntriesRead, FirstWrong
<1>4. CASE parsed.fault = "none"
  <2>1. /\ WellFormedUpTo(doc, n - 1) /\ Len(parsed.contracts) = n - 1
        /\ \A m \in 1..(n - 1) : IsMeant(parsed.contracts[m], doc, m)
    BY <1>4 DEF EntriesRead, AsMeantUpTo
  <2>2. parsed.contracts \in Seq(ContractsIn(doc)) /\ DOMAIN parsed.contracts = 1..(n - 1)
    BY <2>1 DEF Results
  <2>3. TypesOf(parsed.contracts) = {MeantType(doc, m) : m \in 1..(n - 1)}
    BY <2>1, <2>2 DEF TypesOf, IsMeant
  <2>4. (fault = "none") <=> WellFormedUpTo(doc, n)
    BY <1>2, <2>1, <2>3, EntryIsJudged, OneMoreEntry
  <2>5. CASE fault # "none"
    <3>1. next = [fault |-> fault, entry |-> n, contracts |-> <<>>]
      BY <1>1, <1>4, <2>5
    <3> HIDE DEF next, fault
    <3>2. next.fault # "none" /\ next.contracts = <<>> /\ next.entry = n
      BY <2>5, <3>1
    <3>3. FirstWrong(doc, next, n)
      BY <1>2, <2>1, <2>4, <2>5, <3>2 DEF FirstWrong
    <3> QED
      BY <3>2, <3>3 DEF EntriesRead, next
  <2>6. CASE fault = "none"
    <3> DEFINE c == ContractOf(entry)
    <3>1. next = [parsed EXCEPT !.contracts = Append(@, c)]
      BY <1>1, <1>4, <2>6
    <3>2. MeantType(doc, n) # Unnamed
      BY <1>2, <2>4, <2>6 DEF WellFormedUpTo, IsContract
    <3>3. IsMeant(c, doc, n)
      BY <3>2, ContractIsMeant
    <3>4. c \in ContractsIn(doc)
      BY DEF ContractsIn
    <3> HIDE DEF next, c, fault
    <3>5. next.fault = "none" /\ next.contracts = Append(parsed.contracts, c)
      BY <1>4, <3>1 DEF Results
    <3>6. /\ Len(next.contracts) = n /\ next.contracts[n] = c
          /\ \A m \in 1..(n - 1) : next.contracts[m] = parsed.contracts[m]
      BY <1>2, <2>1, <2>2, <3>4, <3>5
    <3>7. AsMeantUpTo(doc, next.contracts, n)
      BY <1>2, <2>1, <3>3, <3>6 DEF AsMeantUpTo
    <3> QED
      BY <2>4, <2>6, <3>5, <3>7 DEF EntriesRead, next
  <2> QED
    BY <2>5, <2>6
<1> QED
  BY <1>3, <1>4

(* After all of its turns the loop has read all entries. *)
LEMMA AllEntriesRead ==
  ASSUME NEW doc, Places(doc) \in Nat
  PROVE  EntriesRead(doc, ParseEntries(doc), Places(doc))
<1> DEFINE N == Places(doc)
           b == NothingParsed
           V == Results(doc)
           G == [p \in (1..N) \X V |-> ParseEntry(doc, p[2], p[1])]
<1>1. b \in V
  <2>1. <<>> \in Seq(ContractsIn(doc))
    OBVIOUS
  <2> QED
    BY <2>1 DEF NothingParsed, Results, Faults
<1>2. \A n \in 1..N, parsed \in V : ParseEntry(doc, parsed, n) \in V
  BY TurnIsTyped
<1>3. G \in [(1..N) \X V -> V]
  <2> HIDE DEF V, N
  <2> QED
    BY <1>2
<1>4. \A n \in 1..N, parsed \in V : G[<<n, parsed>>] = ParseEntry(doc, parsed, n)
  <2> HIDE DEF V, N
  <2> QED
    OBVIOUS
<1>5. N \in Nat
  OBVIOUS
<1> HIDE DEF V, G, b
<1> DEFINE F == [n \in 0..N |-> 0]
           IsLoop(g) == g = [n \in 0..N |-> IF n = 0 THEN b ELSE ParseEntry(doc, g[n - 1], n)]
           loop == CHOOSE g : IsLoop(g)
<1>6. \E g : IsLoop(g)
  <2>1. PICK f : Iterates(f, N, V, b, G)
    <3> HIDE DEF N
    <3> QED
      BY <1>1, <1>3, <1>5, Iteration
  <2> HIDE DEF N
  <2>2. /\ f \in [0..N -> V] /\ f[0] = b
        /\ \A n \in 1..N : f[n] = G[<<n, f[n - 1]>>]
    BY <2>1 DEF Iterates
  <2>3. ASSUME NEW n \in 1..N PROVE f[n] = ParseEntry(doc, f[n - 1], n)
    <3>1. n - 1 \in 0..N
      BY <1>5
    <3>2. f[n - 1] \in V
      BY <2>2, <3>1
    <3> QED
      BY <1>4, <2>2, <3>2
  <2>4. \A n \in 0..N : n = 0 \/ n \in 1..N
    BY <1>5
  <2>5. \A n \in 0..N : f[n] = IF n = 0 THEN b ELSE ParseEntry(doc, f[n - 1], n)
    BY <2>2, <2>3, <2>4
  <2>6. IsLoop(f)
    BY <2>2, <2>5
  <2> QED
    BY <2>6
<1>7. IsLoop(loop)
  <2> HIDE DEF IsLoop
  <2> QED
    BY <1>6
<1>8. ParseEntries(doc) = loop[N]
  BY DEF ParseEntries, b
<1> HIDE DEF N, loop
<1>9. loop[0] = b
  BY <1>5, <1>7
<1>10. ASSUME NEW n \in 1..N PROVE loop[n] = ParseEntry(doc, loop[n - 1], n)
  BY <1>5, <1>7
<1> HIDE DEF IsLoop
<1> DEFINE T == {n \in Nat : n <= N => loop[n] \in V /\ EntriesRead(doc, loop[n], n)}
<1>11. 0 \in T
  <2>1. b.fault = "none" /\ b.contracts = <<>>
    BY DEF b, NothingParsed
  <2>2. 1..0 = {} /\ Len(<<>>) = 0
    OBVIOUS
  <2>3. EntriesRead(doc, b, 0)
    BY <2>1, <2>2 DEF EntriesRead, AsMeantUpTo, WellFormedUpTo
  <2> QED
    BY <1>1, <1>9, <2>3
<1>12. ASSUME NEW n \in Nat, n \in T PROVE n + 1 \in T
  <2> SUFFICES ASSUME n + 1 <= N
               PROVE  loop[n + 1] \in V /\ EntriesRead(doc, loop[n + 1], n + 1)
    OBVIOUS
  <2>1. n + 1 \in 1..N /\ (n + 1) - 1 = n /\ n <= N
    BY <1>5
  <2>2. loop[n] \in V /\ EntriesRead(doc, loop[n], n)
    BY <1>12, <2>1
  <2>3. loop[n + 1] = ParseEntry(doc, loop[n], n + 1)
    BY <1>10, <2>1
  <2>4. loop[n + 1] \in V
    BY <1>2, <2>1, <2>2, <2>3
  <2>5. EntriesRead(doc, ParseEntry(doc, loop[n], n + 1), n + 1)
    BY <2>1, <2>2, TurnReadsOne DEF N, V
  <2> QED
    BY <2>3, <2>4, <2>5
<1> HIDE DEF T
<1>13. Nat \subseteq T
  BY <1>11, <1>12, NatInd
<1>14. EntriesRead(doc, loop[N], N)
  BY <1>5, <1>13 DEF T
<1> QED
  BY <1>8, <1>14 DEF N

(* Whatever a document says, the parser means it: it accepts the well      *)
(* formed ones only, reports the first wrong entry of another, and makes   *)
(* of an accepted one the contracts that are given.                        *)
THEOREM ParserKeepsRules == \A doc : IsDocument(doc) => ParsesAsMeant(doc)
<1> SUFFICES ASSUME NEW doc, IsDocument(doc) PROVE ParsesAsMeant(doc)
  OBVIOUS
<1> DEFINE parsed == Parse(doc)
           N == Places(doc)
           short == doc.kind = "list" /\ Len(doc.first.labels) < Len(doc.entries)
           bad == doc.kind = "mapping" /\ BadLabels(doc) # {}
           refused == parsed.fault # "none" /\ parsed.contracts = <<>>
<1>1. /\ Len(doc.entries) \in Nat /\ Len(doc.first.labels) \in Nat /\ N \in Nat
      /\ DOMAIN doc.first.labels = 1..Len(doc.first.labels)
  BY DEF IsDocument, Places
<1>2. doc.kind \in {"blank", "broken", "other", "missing", "scalar", "list", "mapping"}
  BY DEF IsDocument
<1>3. Readable(doc) <=> doc.first.kind = doc.kind /\ ~ short /\ ~ bad
  <2>1. bad <=> /\ doc.kind = "mapping"
                /\ ~ \A n \in DOMAIN doc.first.labels :
                       /\ doc.first.labels[n] # "number"
                       /\ \E k \in DOMAIN doc.entries :
                            doc.entries[k].label = doc.first.labels[n]
    BY DEF BadLabels, Labelled
  <2> HIDE DEF bad
  <2>2. ~ short <=> (doc.kind = "list" => Len(doc.entries) <= Len(doc.first.labels))
    BY <1>1
  <2> HIDE DEF short
  <2> QED
    BY <2>1, <2>2 DEF Readable
<1>4. parsed = IF doc.kind \notin {"list", "mapping"} THEN Rejected(0, doc.kind)
               ELSE IF doc.first.kind # doc.kind THEN Rejected(0, "form")
               ELSE IF short THEN Rejected(0, "raised")
               ELSE IF bad THEN LabelFault(doc)
               ELSE ParseEntries(doc)
  BY DEF Parse
<1> HIDE DEF parsed, short, bad
<1>5. ASSUME refused, ~ (doc.kind \in {"list", "mapping"} /\ Readable(doc))
      PROVE  ParsesAsMeant(doc)
  <2>1. ~ WellFormed(doc)
    BY <1>5 DEF WellFormed
  <2> QED
    BY <1>5, <2>1 DEF ParsesAsMeant, parsed
<1>6. CASE doc.kind \notin {"list", "mapping"}
  <2>1. refused
    BY <1>2, <1>4, <1>6 DEF Rejected
  <2> QED
    BY <1>5, <1>6, <2>1
<1>7. CASE doc.kind \in {"list", "mapping"} /\ ~ Readable(doc)
  <2>1. CASE doc.first.kind # doc.kind \/ short
    <3>1. parsed \in {Rejected(0, "form"), Rejected(0, "raised")}
      BY <1>4, <1>7, <2>1
    <3>2. refused
      BY <3>1 DEF Rejected
    <3> QED
      BY <1>5, <1>7, <3>2
  <2>2. CASE doc.first.kind = doc.kind /\ ~ short
    <3>1. parsed = LabelFault(doc)
      BY <1>3, <1>4, <1>7, <2>2
    <3>2. refused
      BY <3>1 DEF LabelFault, Rejected
    <3> QED
      BY <1>5, <1>7, <3>2
  <2> QED
    BY <2>1, <2>2
<1>8. CASE doc.kind \in {"list", "mapping"} /\ Readable(doc)
  <2>1. EntriesRead(doc, parsed, N)
    BY <1>1, <1>3, <1>4, <1>8, AllEntriesRead
  <2>2. WellFormed(doc) <=> WellFormedUpTo(doc, N)
    BY <1>8 DEF WellFormed
  <2>3. CASE parsed.fault = "none"
    <3>1. WellFormedUpTo(doc, N) /\ AsMeantUpTo(doc, parsed.contracts, N)
      BY <2>1, <2>3 DEF EntriesRead
    <3> QED
      BY <1>1, <2>2, <2>3, <3>1 DEF ParsesAsMeant, AsMeantUpTo, parsed
  <2>4. CASE parsed.fault # "none"
    <3>1. FirstWrong(doc, parsed, N)
      BY <2>1, <2>4 DEF EntriesRead
    <3>2. parsed.entry \in 0..N
      BY <1>1, <3>1 DEF FirstWrong
    <3>3. ~ WellFormedUpTo(doc, N)
      BY <1>1, <3>1, <3>2, FewerEntries DEF FirstWrong
    <3> QED
      BY <2>2, <2>4, <3>1, <3>3 DEF ParsesAsMeant, FirstWrong, parsed
  <2> QED
    BY <2>3, <2>4
<1> QED
  BY <1>6, <1>7, <1>8

(* Every document that is posted to a process that serves is understood. *)
THEOREM DocumentsAreUnderstood == GraphSpec => []DslMeansItsRules
<1>1. \A doc \in Documents : IsDocument(doc)
  BY DocumentsAssumption
<1>2. AllAsMeant
  BY <1>1, ParserKeepsRules DEF AllAsMeant
<1>3. DslMeansItsRules
  BY <1>2 DEF DslMeansItsRules
<1> QED
  BY <1>3, PTL

=============================================================================
