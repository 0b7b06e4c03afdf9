------------------------------ MODULE RunFeed -------------------------------
(***************************************************************************)
(* What the run event stream promises, without servers, rows or queues.    *)
(* Each run has a status history that grows one status at a time and stops *)
(* at a terminal one.  Each watcher hears the history of the run it        *)
(* watches from the beginning, in order, without a gap or a repetition,    *)
(* however often its connection is lost.                                   *)
(*                                                                         *)
(* What a watcher displays is the last thing it heard, or looked up, or    *)
(* that it lost sight of the run.  A status looked up may be ahead of what *)
(* was heard, and the display goes back when the stream tells what led to  *)
(* it; but who has heard the end of a run never displays anything else.    *)
(***************************************************************************)
EXTENDS Naturals, Sequences

CONSTANTS
  Runs,
  Watchers,
  Watched    \* Watched[w]: the run watcher w follows

VARIABLES
  history,  \* history[r]: statuses run r has gone through
  heard,    \* heard[w]: statuses watcher w has heard
  display   \* display[w]: the status watcher w displays

feedVars == <<history, heard, display>>

(* The statuses that may follow a history. *)
Successors(h) ==
  CASE h = <<>>                  -> {"queued"}
    [] h = <<"queued">>          -> {"analyzing", "failed"}
    [] h = <<"queued", "analyzing">> -> {"completed", "failed"}
    [] OTHER                     -> {}

HasEnded(h) == h # <<>> /\ h[Len(h)] \in {"completed", "failed"}

FeedInit ==
  /\ history = [r \in Runs |-> <<>>]
  /\ heard = [w \in Watchers |-> <<>>]
  /\ display = [w \in Watchers |-> "sample"]

Extend(r) ==
  /\ \E s \in Successors(history[r]) :
       history' = [history EXCEPT ![r] = Append(@, s)]
  /\ UNCHANGED <<heard, display>>

(* A start-up recovery settles every interrupted run in one step. *)
ExtendAll(R) ==
  /\ history' = [r \in Runs |-> IF r \in R THEN Append(history[r], "failed")
                                ELSE history[r]]
  /\ \A r \in R : "failed" \in Successors(history[r])
  /\ UNCHANGED <<heard, display>>

(* A watcher hears the next status of its run. *)
Hear(w) ==
  LET all == history[Watched[w]]
      n   == Len(heard[w])
  IN /\ n < Len(all)
     /\ heard' = [heard EXCEPT ![w] = Append(@, all[n + 1])]
     /\ display' = [display EXCEPT ![w] = all[n + 1]]
     /\ UNCHANGED history

(* A watcher looks up where its run is. *)
LookUp(w) ==
  LET all == history[Watched[w]]
  IN /\ all # <<>>
     /\ display' = [display EXCEPT ![w] = all[Len(all)]]
     /\ UNCHANGED <<history, heard>>

(* A watcher that has not heard the end fails to look its run up. *)
LoseSight(w) ==
  /\ ~HasEnded(heard[w])
  /\ display' = [display EXCEPT ![w] = "unavailable"]
  /\ UNCHANGED <<history, heard>>

FeedNext ==
  \/ \E r \in Runs : Extend(r)
  \/ \E R \in SUBSET Runs : ExtendAll(R)
  \/ \E w \in Watchers : Hear(w) \/ LookUp(w) \/ LoseSight(w)

FeedSpec == FeedInit /\ [][FeedNext]_feedVars

=============================================================================
