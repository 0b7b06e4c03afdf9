---------------------------- MODULE TraceSources ----------------------------
(***************************************************************************)
(* The traces this repository produces itself (zone_a/swarm.py): the stub  *)
(* with its failure modes, and the conversion of a live swarm's chat       *)
(* history.  Traces posted by clients are arbitrary.                       *)
(*                                                                         *)
(* The swarm's agents and the framework that schedules them are external:  *)
(* a chat is a number of agents that spoke, in round-robin order, and the  *)
(* final context variables; the Reporter speaks only when sources_verified *)
(* was set, the Action agent only when approval_granted was.               *)
(***************************************************************************)
EXTENDS ContractChecks

RoundRobin == <<"ResearcherAgent", "CriticAgent", "VerifierAgent",
                "ReporterAgent", "HumanGateAgent", "ActionAgent">>

FailureModes == {"none", "force_no_evidence", "force_no_tool_call",
                 "force_routing_break", "force_no_approval",
                 "force_malformed_output"}

PlainEvent(n) ==
  [step |-> n, agent |-> RoundRobin[n], call |-> FALSE, verified |-> Absent,
   tools |-> {}, approval |-> "absent", output |-> "absent"]

(* _synthesize_stub_run: six events, one knob turned per failure mode. *)
Stub(mode) ==
  [n \in 1..6 |->
     CASE RoundRobin[n] = "ResearcherAgent" ->
            [PlainEvent(n) EXCEPT !.call = TRUE, !.tools = {"success"}]
       [] RoundRobin[n] = "VerifierAgent" ->
            [PlainEvent(n) EXCEPT
               !.call     = mode # "force_no_tool_call",
               !.verified = IF mode = "force_no_evidence" THEN 0 ELSE 1,
               !.tools    = IF mode = "force_routing_break"
                            THEN {"failure"} ELSE {"success"}]
       [] RoundRobin[n] = "ReporterAgent" ->
            [PlainEvent(n) EXCEPT !.output = IF mode = "force_malformed_output"
                                             THEN "partial" ELSE "complete"]
       [] RoundRobin[n] = "HumanGateAgent" ->
            [PlainEvent(n) EXCEPT !.approval = IF mode = "force_no_approval"
                                               THEN "pending" ELSE "approved"]
       [] OTHER -> PlainEvent(n)]

(* Context variables at the end of a swarm, as far as they are converted.  *)
Context == [verified : {0, 1}, call : BOOLEAN, output : {"none", "complete"},
            granted : BOOLEAN]

(* record_verification: both gates of the verifier in one variable. *)
SourcesVerified(ctx) == ctx.verified > 0 /\ ctx.call

(* Chats the gates of build_swarm let happen. *)
Chats ==
  {chat \in [spoke : 1..6, ctx : Context] :
     /\ chat.spoke >= 4 => SourcesVerified(chat.ctx)
     /\ chat.spoke >= 6 => chat.ctx.granted}

(* _chat_history_to_trace_events: each agent that spoke gives one event,   *)
(* filled from the final context variables.                                *)
LiveTrace(chat) ==
  [n \in 1..chat.spoke |->
     CASE RoundRobin[n] = "ResearcherAgent" ->
            [PlainEvent(n) EXCEPT !.call = TRUE, !.tools = {"success"}]
       [] RoundRobin[n] = "VerifierAgent" ->
            [PlainEvent(n) EXCEPT !.call = chat.ctx.call,
                                  !.verified = chat.ctx.verified]
       [] RoundRobin[n] = "ReporterAgent" ->
            [PlainEvent(n) EXCEPT !.output = IF chat.ctx.output = "none"
                                             THEN "partial" ELSE "complete"]
       [] RoundRobin[n] = "HumanGateAgent" ->
            [PlainEvent(n) EXCEPT !.approval = IF chat.ctx.granted
                                               THEN "approved" ELSE "pending"]
       [] OTHER -> PlainEvent(n)]

=============================================================================
