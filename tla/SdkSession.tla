------------------------------ MODULE SdkSession ------------------------------
(***************************************************************************)
(* A session of the SDK (sdk/concord_sdk): instrumented agents end spans   *)
(* in threads of their own, the exporter turns each into an event and a    *)
(* span as it ends, and complete() submits what the exporter holds as the  *)
(* trace of a run.  The exporter has no lock: spans end while complete()   *)
(* waits for the server, and complete() raises when the server refuses the *)
(* run or its answer does not arrive.                                      *)
(*                                                                         *)
(* External: when agents start and end spans, and what the server answers. *)
(* A span is what the order of a trace depends on: its identity is its     *)
(* start (the turn of the clock it began in, no two alike); step is 0 when *)
(* it has no step of its own or step 0, which the code takes for none; and *)
(* time is its timestamp, which need not be its start: a float of seconds  *)
(* may not tell two starts apart, and the attribute concord.timestamp      *)
(* overrides it.  Times matter to events without a step only.              *)
(***************************************************************************)
EXTENDS Integers, Sequences, FiniteSets, SequencesExt

CONSTANTS
  Threads,    \* threads the agents run in
  OwnSteps,   \* values of the attribute concord.step; 0 for none
  Times,      \* timestamps other than the start of a span; 0 for none given
  MaxRaw,     \* bound on the events of a raw trace given to complete()
  MaxSpans,   \* bound on the clock
  MaxRuns,    \* bound on the runs of the session
  MaxRaises   \* bound on the calls of complete() that raise

ASSUME SessionAssumption ==
  /\ OwnSteps \subseteq Nat /\ 0 \in OwnSteps
  /\ Times \subseteq Nat /\ 0 \in Times
  /\ MaxRaw \in Nat /\ MaxSpans \in Nat /\ MaxRuns \in Nat /\ MaxRaises \in Nat

VARIABLES
  open,       \* open[t]: spans thread t is in, outermost first
  events,     \* exporter._events
  spans,      \* exporter._spans
  pc,         \* how far the call of complete() in progress is
  raw,        \* number of events of its raw trace
  replayed,   \* how many of them have been given to the exporter
  trace,      \* the trace it submits
  now,        \* the clock
  run,        \* the run the latest call is for
  raised,     \* did the latest call raise?
  raises,     \* calls that raised
  unanswered, \* those of them whose trace the server has accepted
  exported,   \* events exported while no call was in progress
  tried,      \* tried[k]: events submitted in calls for run k
  accepted    \* traces the server has accepted

exporterVars == <<events, spans>>
callVars     == <<pc, raw, replayed, trace, run, raised, raises, unanswered, tried,
                  accepted>>
vars == <<open, exporterVars, callVars, now, exported>>

(* A span has start, parent, named, step and time: one with an agent's     *)
(* name becomes an event, any one a span; steps matter to events only.     *)
Starts(seq) == {seq[n].start : n \in DOMAIN seq}

Init ==
  /\ open = [t \in Threads |-> <<>>]
  /\ events = <<>> /\ spans = <<>>
  /\ pc = "idle" /\ raw = 0 /\ replayed = 0 /\ trace = <<>>
  /\ now = 0 /\ run = 0 /\ raised = FALSE /\ raises = 0 /\ unanswered = 0
  /\ exported = {}
  /\ tried = [k \in 1..MaxRuns |-> {}]
  /\ accepted = <<>>

-----------------------------------------------------------------------------
(***************************************************************************)
(* The exporter.                                                           *)
(***************************************************************************)

(* export of a span that ended. *)
Export(span) ==
  /\ events' = IF span.named THEN Append(events, span) ELSE events
  /\ spans' = Append(spans, span)
  /\ exported' = IF pc = "idle" /\ span.named THEN exported \cup {span.start} ELSE exported

(* Mutant: events are listed as they were exported. *)
AsExported(m, n) == m < n

(* to_run_trace_dict: events with a step first, by step; the others by     *)
(* time; otherwise as they were exported.                                  *)
Before(m, n) ==
  LET own(k) == events[k].step # 0
      key(k) == IF own(k) THEN events[k].step ELSE events[k].time
  IN \/ own(m) /\ ~own(n)
     \/ /\ own(m) <=> own(n)
        /\ key(m) < key(n) \/ (key(m) = key(n) /\ m < n)

(* The n-th event of the trace is the one with n - 1 events before it; one *)
(* without a step takes its place for one.                                 *)
RunTrace ==
  LET Place(m) == Cardinality({k \in DOMAIN events : Before(k, m)}) + 1
  IN [n \in DOMAIN events |->
        [events[CHOOSE m \in DOMAIN events : Place(m) = n] EXCEPT !.step = IF @ = 0 THEN n ELSE @]]

(* Mutant: parents that are not among the spans are kept. *)
SpansAsEnded == spans

(* to_spans_payload: spans without a parent among the spans are put below  *)
(* a root made for them (0).                                               *)
SpansPayload ==
  [n \in DOMAIN spans |->
     [spans[n] EXCEPT !.parent = IF @ \in Starts(spans) THEN @ ELSE 0]]

-----------------------------------------------------------------------------
(***************************************************************************)
(* The agents.                                                             *)
(***************************************************************************)

StartSpan(t) ==
  /\ now < MaxSpans
  /\ now' = now + 1
  /\ \E named \in BOOLEAN, step \in OwnSteps, time \in Times \cup {now + 1} :
       /\ named \/ step = 0
       /\ (named /\ step = 0) \/ time = now + 1
       /\ open' = [open EXCEPT ![t] = Append(@,
           [start |-> now + 1, parent |-> IF @ = <<>> THEN 0 ELSE Last(@).start,
            named |-> named, step |-> step, time |-> time])]
  /\ UNCHANGED <<exporterVars, callVars, exported>>

EndSpan(t) ==
  /\ open[t] # <<>>
  /\ Export(Last(open[t]))
  /\ open' = [open EXCEPT ![t] = Front(@)]
  /\ UNCHANGED <<callVars, now>>

-----------------------------------------------------------------------------
(***************************************************************************)
(* complete().                                                             *)
(***************************************************************************)

Submit(k, normalized) ==
  /\ trace' = normalized
  /\ tried' = [tried EXCEPT ![k] = @ \cup Starts(normalized)]
  /\ pc' = "submit"

(* What the exporter holds is the trace; the raw trace only counts when    *)
(* there is none.  After a call that raised the caller retries the run or  *)
(* goes on to the next.                                                    *)
Complete ==
  /\ pc = "idle"
  /\ run' \in (IF raised THEN {run, run + 1} ELSE {run + 1}) \cap (1..MaxRuns)
  /\ raised' = FALSE
  /\ raw' \in 0..MaxRaw /\ replayed' = 0
  /\ IF events = <<>> /\ raw' > 0
     THEN pc' = "replay" /\ UNCHANGED <<trace, tried>>
     ELSE Submit(run', RunTrace)
  /\ UNCHANGED <<open, exporterVars, now, raises, unanswered, exported, accepted>>

(* The exporter is reset ... *)
Reset == events' = <<>> /\ spans' = <<>>

ResetForReplay ==
  /\ pc = "replay"
  /\ Reset
  /\ pc' = "recapture"
  /\ UNCHANGED <<open, raw, replayed, trace, run, raised, raises, unanswered, tried,
                 accepted, now, exported>>

(* ... and given the raw trace, one span after the other with the step and *)
(* the time the event has, while agents may end theirs: emit_trace_spans.  *)
Replay ==
  /\ pc = "recapture" /\ replayed < raw
  /\ now < MaxSpans
  /\ now' = now + 1
  /\ replayed' = replayed + 1
  /\ \E step \in OwnSteps, time \in Times :
       Export([start |-> now + 1, parent |-> 0, named |-> TRUE, step |-> step,
               time |-> time])
  /\ UNCHANGED <<open, pc, raw, trace, run, raised, raises, unanswered, tried, accepted>>

(* A malformed event of the raw trace raises, after those before it have   *)
(* been given to the exporter.                                             *)
RaiseInReplay ==
  /\ pc = "recapture" /\ replayed < raw
  /\ raises < MaxRaises
  /\ raises' = raises + 1 /\ raised' = TRUE
  /\ pc' = "idle" /\ raw' = 0 /\ replayed' = 0
  /\ UNCHANGED <<open, exporterVars, trace, run, unanswered, tried, accepted, now, exported>>

(* What it holds then is the trace. *)
Recapture ==
  /\ pc = "recapture" /\ replayed = raw
  /\ Submit(run, RunTrace)
  /\ UNCHANGED <<open, exporterVars, raw, replayed, now, run, raised, raises, unanswered,
                 exported, accepted>>

(* POST /api/runs: the server has stored the run. *)
Accept ==
  /\ pc = "submit"
  /\ accepted' = Append(accepted, trace)
  /\ pc' = "answer"
  /\ UNCHANGED <<open, exporterVars, raw, replayed, trace, run, raised, raises, unanswered,
                 tried, now, exported>>

(* Mutant: the exporter is not reset after a submission. *)
ReturnOnly ==
  /\ pc = "answer"
  /\ pc' = "idle" /\ trace' = <<>> /\ raw' = 0 /\ replayed' = 0
  /\ UNCHANGED <<open, exporterVars, run, raised, raises, unanswered, tried, accepted, now,
                 exported>>

(* The answer arrives and the exporter is reset. *)
Return ==
  /\ pc = "answer"
  /\ Reset
  /\ pc' = "idle" /\ trace' = <<>> /\ raw' = 0 /\ replayed' = 0
  /\ UNCHANGED <<open, run, raised, raises, unanswered, tried, accepted, now, exported>>

(* submit_run raises, before or after the server has stored the run, and   *)
(* the reset is not reached.                                               *)
Raise ==
  /\ pc \in {"submit", "answer"}
  /\ raises < MaxRaises
  /\ raises' = raises + 1 /\ raised' = TRUE
  /\ unanswered' = IF pc = "answer" THEN unanswered + 1 ELSE unanswered
  /\ pc' = "idle" /\ trace' = <<>> /\ raw' = 0 /\ replayed' = 0
  /\ UNCHANGED <<open, exporterVars, run, tried, accepted, now, exported>>

Next ==
  \/ \E t \in Threads : StartSpan(t) \/ EndSpan(t)
  \/ Complete \/ ResetForReplay \/ Replay \/ RaiseInReplay \/ Recapture
  \/ Accept \/ Return \/ Raise

Spec == Init /\ [][Next]_vars

-----------------------------------------------------------------------------
(***************************************************************************)
(* Properties.                                                             *)
(***************************************************************************)

(* An event exported while no call of complete() is in progress is not     *)
(* lost: the exporter holds it or the server has it.  None is accepted     *)
(* twice but for answers that did not arrive.                              *)
EventsAreSubmitted ==
  \A e \in 1..now :
    LET with == {k \in DOMAIN accepted : e \in Starts(accepted[k])}
    IN /\ e \in exported => e \in Starts(events) \/ with # {}
       /\ Cardinality(with) <= 1 + unanswered

(* A submitted trace is in order, although spans are exported as they end: *)
(* steps of their own ascend; without any, times ascend, the steps are the *)
(* places, and when the times are those the spans began at, the turn an    *)
(* event happened in comes before it.                                      *)
TraceIsInOrder ==
  pc \in {"submit", "answer"} =>
    LET stepless == \A n \in DOMAIN trace : \A e \in ToSet(events) :
                      e.start = trace[n].start => e.step = 0
        stepped  == \A n \in DOMAIN trace : \A e \in ToSet(events) :
                      e.start = trace[n].start => e.step # 0
        timely   == \A n \in DOMAIN trace : trace[n].time = trace[n].start
    IN \A m, n \in DOMAIN trace :
         /\ stepped /\ m < n => trace[m].step <= trace[n].step
         /\ stepless /\ m < n => trace[m].time <= trace[n].time
         /\ stepless /\ timely /\ trace[n].parent = trace[m].start => m < n
         /\ stepless => trace[n].step = n

(* Whenever it is asked for, the payload of spans is a tree below its      *)
(* root: parents that have not ended, or ended before a reset, are gone.   *)
PayloadIsATree ==
  LET payload == SpansPayload
  IN \A n \in DOMAIN payload :
       LET parent == payload[n].parent
       IN /\ parent \in Starts(payload) \cup {0}
          /\ parent < payload[n].start
          /\ \A m \in DOMAIN payload : payload[m].start = payload[n].start => m = n

(* .codex/go-state.md on sessions that leaked prior spans into later       *)
(* submissions: "fixed by resetting submitted span buffers after each      *)
(* complete()"; what was submitted for one run is not submitted for        *)
(* another.                                                                *)
SpansAreClearedPerRun ==
  \A j, k \in DOMAIN tried : j # k => tried[j] \cap tried[k] = {}

=============================================================================
