----------------------------- MODULE RepairLoop -----------------------------
(***************************************************************************)
(* The repair and regression-test loop of the diagnostic pipeline          *)
(* (zone_b/orchestrator.py) with the regression test it drives             *)
(* (zone_b/agents/regression_test.py) and what a sandbox run returns to it *)
(* (zone_b/sandbox/runner.py).                                             *)
(*                                                                         *)
(* Each iteration repairs, obtains a test from the LLM, runs it and, when  *)
(* that test does not pass, runs the hard-coded fallback test instead.     *)
(* The loop goes on while the regression test reports "fail".              *)
(*                                                                         *)
(* What the LLM and the sandbox answer is external: a generated test is    *)
(* usable or not, and a run ends in one of the ways listed below.          *)
(***************************************************************************)
EXTENDS Naturals, Sequences, SequencesExt

CONSTANTS
  Types,          \* contract types a run can violate
  Runners,        \* who tests: "daytona", "local", or "caller" (injected)
  MaxIterations,  \* MAX_REPAIR_ITERATIONS, or what the caller passes
  Outputs,        \* what a generated test may print: sets of lines
  Durations,      \* seconds a run may take
  Usages          \* tokens one generation may take

Word == {"PASS", "FAIL", "Fail", "ERROR"}
Line == [word : Word, about : Types \cup {"all"}]

ASSUME RepairLoopAssumption ==
  /\ "all" \notin Types
  /\ Runners \subseteq {"daytona", "local", "caller"}
  /\ MaxIterations \in Nat
  /\ Outputs \subseteq SUBSET Line
  /\ Durations \subseteq Nat
  /\ Usages \subseteq Nat

VARIABLES
  runner,     \* how tests are run in this process
  violated,   \* the types of the violations found
  pc,         \* "repair", "generate", "execute", "judge" or "done"
  iteration,  \* iteration_count
  test,       \* the test to run next and why it is the fallback
  usage,      \* llm_usage of the current attempt
  runs,       \* execution_results of the current attempt
  attempts,   \* regression_attempts
  (*************************************************************************)
  (* What really happened, for comparison with what is reported.           *)
  (*************************************************************************)
  spent       \* tokens and sandbox seconds used, seconds no result reports

vars == <<runner, violated, pc, iteration, test, usage, runs, attempts, spent>>

(* How a run of a test ends: "ran", it printed something; "broke", the     *)
(* executor raised inside a sandbox; "unreachable", the pool raised, before*)
(* the code ran or after it when the executor could not be replaced;       *)
(* "refused", the provider refused the key; "credentials", none are        *)
(* configured.  A run is [kind, end, lines, exit, seconds], a judged       *)
(* attempt [status, state, rows, generated, fallback, reason, seconds,     *)
(* tokens].                                                                *)
Empty     == "none"    \* the empty text of a reason or status nobody gave
NoTest    == [kind |-> "none", reason |-> Empty]
Generated == [kind |-> "generated", reason |-> Empty]
Fallback(reason) == [kind |-> "fallback", reason |-> reason]

Limit == IF MaxIterations = 0 THEN 1 ELSE MaxIterations

Init ==
  /\ runner \in Runners
  /\ violated \in SUBSET Types
  /\ pc = "repair"
  /\ iteration = 0
  /\ test = NoTest
  /\ usage = 0
  /\ runs = <<>>
  /\ attempts = <<>>
  /\ spent = [tokens |-> 0, seconds |-> 0, masked |-> 0]

-----------------------------------------------------------------------------
(***************************************************************************)
(* Reading the result of a run.                                            *)
(***************************************************************************)

Says(lines, word) == \E line \in lines : line.word = word

Status(run) ==
  CASE run.end # "ran" -> "error"
    [] /\ Says(run.lines, "PASS") /\ ~Says(run.lines, "FAIL")
       /\ runner = "local" \/ run.exit = 0 -> "pass"
    [] Says(run.lines, "FAIL") -> "fail"
    [] OTHER -> "error"

(* stdout starts with one of the runner's own error texts. *)
InfrastructureError(run) == run.end # "ran"

(* What the result of a run reports; a run without a sandbox reports 0. *)
BilledSeconds(run) ==
  IF runner = "daytona" /\ run.end \in {"ran", "broke"} THEN run.seconds ELSE 0

StateFor(status, run) ==
  CASE status = "pass"        -> "passed"
    [] status = "fail"        -> "failed"
    [] status = "skipped"     -> "skipped"
    [] run.end \in {"credentials", "refused"} -> "credential_failure"
    [] run.end = "unreachable" -> "unavailable"
    [] OTHER                  -> "execution_error"

(* The row of one violation: the lines that name its type decide, in any   *)
(* capitals; otherwise it takes the status of the whole test.              *)
RowStatus(run, type) ==
  LET about == {line \in run.lines : line.about = type}
  IN CASE Says(about, "FAIL") \/ Says(about, "Fail") -> "fail"
       [] Says(about, "ERROR") -> "error"
       [] Says(about, "PASS")  -> "pass"
       [] OTHER -> Status(run)

-----------------------------------------------------------------------------
(***************************************************************************)
(* Attempts.                                                               *)
(***************************************************************************)

Total(costs) == LET Add(sum, cost) == sum + cost IN FoldLeft(Add, 0, costs)

(* Mutant: only the last run of an attempt is charged. *)
SecondsOfLast(results) == BilledSeconds(results[Len(results)])

(* duration and cost of an attempt: the sum over its runs. *)
SecondsOfAll(results) == Total([n \in DOMAIN results |-> BilledSeconds(results[n])])

SkippedAttempt ==
  [status |-> "skipped", state |-> "skipped", rows |-> [t \in violated |-> "skipped"],
   generated |-> Empty, fallback |-> FALSE, reason |-> "no_violations",
   seconds |-> 0, tokens |-> 0]

(* Mutant: read after the fallback test was run. *)
StatusOfLastTest == Status(runs[Len(runs)])

(* generated_test_status: what the generated test itself reported. *)
GeneratedStatus ==
  IF runs[1].kind = "generated" THEN Status(runs[1]) ELSE Empty

JudgedAttempt ==
  LET last == runs[Len(runs)]
  IN [status    |-> Status(last),
      state     |-> StateFor(Status(last), last),
      rows      |-> [t \in violated |-> RowStatus(last, t)],
      generated |-> GeneratedStatus,
      fallback  |-> test.kind = "fallback",
      reason    |-> test.reason,
      seconds   |-> SecondsOfAll(runs),
      tokens    |-> usage]

TotalSeconds(all) == Total([n \in DOMAIN all |-> all[n].seconds])
TotalTokens(all)  == Total([n \in DOMAIN all |-> all[n].tokens])

(* The report takes the last attempt with the costs of all of them. *)
Aggregate(all) ==
  [all[Len(all)] EXCEPT !.seconds = TotalSeconds(all), !.tokens = TotalTokens(all)]

Continue(attempt) == attempt.status = "fail" /\ iteration < Limit

EndAttempt(attempt) ==
  /\ attempts' = Append(attempts, attempt)
  /\ pc' = IF Continue(attempt) THEN "repair" ELSE "done"

-----------------------------------------------------------------------------
(***************************************************************************)
(* The loop.                                                               *)
(***************************************************************************)

(* Mutant: the iteration is not counted. *)
RepairUncounted ==
  /\ pc = "repair"
  /\ pc' = "generate"
  /\ test' = NoTest /\ usage' = 0 /\ runs' = <<>>
  /\ UNCHANGED <<runner, violated, iteration, attempts, spent>>

(* Mutant: a failed test starts the whole loop again. *)
RepairAfresh ==
  /\ pc = "repair"
  /\ pc' = "generate"
  /\ iteration' = 1
  /\ test' = NoTest /\ usage' = 0 /\ runs' = <<>> /\ attempts' = <<>>
  /\ spent' = [tokens |-> 0, seconds |-> 0, masked |-> 0]
  /\ UNCHANGED <<runner, violated>>

(* A new iteration: the repair agent always returns patches. *)
Repair ==
  /\ pc = "repair"
  /\ pc' = "generate"
  /\ iteration' = iteration + 1
  /\ test' = NoTest /\ usage' = 0 /\ runs' = <<>>
  /\ UNCHANGED <<runner, violated, attempts, spent>>

(* There is nothing to test: no LLM call and no sandbox. *)
SkipTest ==
  /\ pc = "generate"
  /\ runner # "caller"
  /\ violated = {}
  /\ EndAttempt(SkippedAttempt)
  /\ UNCHANGED <<runner, violated, iteration, test, usage, runs, spent>>

(* CONCORD_REGRESSION_RUNNER=local runs the fallback test in a subprocess. *)
UseLocalTest ==
  /\ pc = "generate"
  /\ runner = "local" /\ violated # {}
  /\ test' = Fallback("local_regression_runner")
  /\ pc' = "execute"
  /\ UNCHANGED <<runner, violated, iteration, usage, runs, attempts, spent>>

GenerateTest ==
  /\ pc = "generate"
  /\ runner = "daytona" /\ violated # {}
  /\ \E u \in Usages :
       usage' = u /\ spent' = [spent EXCEPT !.tokens = @ + u]
  /\ test' = Generated
  /\ pc' = "execute"
  /\ UNCHANGED <<runner, violated, iteration, runs, attempts>>

(* The call raised before there was an answer (no usage), or the answer is *)
(* not JSON, not an object, or has no code (its usage is kept).            *)
GenerationFails ==
  /\ pc = "generate"
  /\ runner = "daytona" /\ violated # {}
  /\ \E u \in Usages \cup {0} :
       usage' = u /\ spent' = [spent EXCEPT !.tokens = @ + u]
  /\ test' = Fallback("generation_error")
  /\ pc' = "execute"
  /\ UNCHANGED <<runner, violated, iteration, runs, attempts>>

(* What the hard-coded test prints: it asserts constants, so that no       *)
(* assertion fails; its output may be cut short.                           *)
FallbackOutput == {[word |-> "PASS", about |-> t] : t \in Types \cup {"all"}}

PossibleRuns(kind) ==
  LET printed == IF kind = "generated" THEN Outputs ELSE {FallbackOutput, {}}
      ran == [kind : {kind}, end : {"ran"}, lines : printed,
              exit : {0, 1}, seconds : Durations]
      inSandbox == [kind : {kind}, end : {"broke", "unreachable"},
                    lines : {{}}, exit : {1}, seconds : Durations]
      without == [kind : {kind}, end : {"unreachable", "refused", "credentials"},
                  lines : {{}}, exit : {1}, seconds : {0}]
  IN IF runner = "local"
     THEN {run \in ran \cup inSandbox : run.end # "unreachable"}
     ELSE ran \cup inSandbox \cup without

(* Mutant: an infrastructure error is hidden by the fallback test too. *)
RerunAfterAll(run) == run.kind = "generated" /\ Status(run) # "pass"

(* generated_test_{status}, of a generated test that did not pass. *)
Replaced(status) ==
  IF status = "fail" THEN "generated_test_fail" ELSE "generated_test_error"

(* A generated test that ran and did not pass is replaced and run again.   *)
RerunWithFallback(run) ==
  /\ run.kind = "generated"
  /\ Status(run) # "pass"
  /\ ~InfrastructureError(run)

(* The test is run; only a sandbox costs time that counts. *)
Execute ==
  /\ pc = "execute"
  /\ \E run \in PossibleRuns(test.kind) :
       /\ runs' = Append(runs, run)
       /\ spent' = IF runner = "local" THEN spent
                   ELSE [spent EXCEPT !.seconds = @ + run.seconds,
                                      !.masked = @ + run.seconds - BilledSeconds(run)]
       /\ IF RerunWithFallback(run)
          THEN test' = Fallback(Replaced(Status(run))) /\ UNCHANGED pc
          ELSE pc' = "judge" /\ UNCHANGED test
  /\ UNCHANGED <<runner, violated, iteration, usage, attempts>>

Judge ==
  /\ pc = "judge"
  /\ EndAttempt(JudgedAttempt)
  /\ UNCHANGED <<runner, violated, iteration, test, usage, runs, spent>>

(* regression_func is injected: it may report anything. *)
CallerTests ==
  /\ pc = "generate"
  /\ runner = "caller"
  /\ \E status \in {"pass", "fail", "error"}, s \in Durations, u \in Usages :
       /\ EndAttempt([SkippedAttempt EXCEPT
            !.status = status, !.reason = Empty, !.seconds = s, !.tokens = u])
       /\ spent' = [spent EXCEPT !.seconds = @ + s, !.tokens = @ + u]
  /\ UNCHANGED <<runner, violated, iteration, test, usage, runs>>

Step ==
  \/ Repair \/ SkipTest \/ UseLocalTest \/ GenerateTest \/ GenerationFails
  \/ Execute \/ Judge \/ CallerTests

(* The loop has returned. *)
Returned == pc = "done" /\ UNCHANGED vars

Next == Step \/ Returned

Spec == Init /\ [][Next]_vars

(* LLM calls and sandbox runs time out, so that the coroutine goes on. *)
FairSpec == Spec /\ WF_vars(Step)

-----------------------------------------------------------------------------
(***************************************************************************)
(* Properties.                                                             *)
(***************************************************************************)

(* The loop stops exactly when it has to: every attempt but the last       *)
(* failed, and it returns on another status or at the cap, with one        *)
(* attempt per counted iteration.                                          *)
StopsWhenDecided ==
  /\ \A n \in 1..(Len(attempts) - 1) : attempts[n].status = "fail"
  /\ pc \in {"repair", "done"} => Len(attempts) = iteration
  /\ pc = "done" =>
       attempts[iteration].status # "fail" \/ iteration = Limit

(* What the final report charges is what was used, over all iterations and *)
(* reruns: every token of a generation that answered, and every second in  *)
(* a sandbox except those of runs whose result the pool replaced by an     *)
(* error because the executor could not be put back.                       *)
ChargesWhatWasUsed ==
  pc = "done" =>
    LET report == Aggregate(attempts)
    IN /\ report.tokens = spent.tokens
       /\ report.seconds + spent.masked = spent.seconds

(* When the sandbox failed, nothing is reported as passed or failed: not   *)
(* the test, not its validation state, not the row of any violation.       *)
InfrastructureErrorsStayErrors ==
  pc = "done" /\ runs # <<>> /\ (\E n \in DOMAIN runs : InfrastructureError(runs[n]))
    => LET report == Aggregate(attempts)
       IN /\ report.status = "error"
          /\ report.state \in {"unavailable", "credential_failure", "execution_error"}
          /\ \A t \in violated : report.rows[t] = "error"

(* The provenance shown with the verdict is that of the run it comes from: *)
(* a verdict of the fallback test is marked as such, with the status of    *)
(* the generated test it replaced, and an unmarked one is the generated    *)
(* test's own.                                                             *)
ProvenanceIsTrue ==
  pc = "done" /\ runs # <<>> =>
    LET report == Aggregate(attempts)
        last   == runs[Len(runs)]
    IN /\ report.fallback <=> last.kind = "fallback"
       /\ report.fallback <=> report.reason # Empty
       /\ ~report.fallback => report.generated = report.status
       /\ Len(runs) = 2 => /\ report.generated \in {"fail", "error"}
                           /\ report.reason = Replaced(report.generated)

(* The loop returns, whatever the tests report. *)
LoopReturns == <>(pc = "done")

=============================================================================
