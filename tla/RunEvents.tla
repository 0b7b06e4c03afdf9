----------------------------- MODULE RunEvents ------------------------------
(***************************************************************************)
(* The run event streams: GET /api/runs/{id}/events, the process-local     *)
(* event bus behind it, and the clients that watch a run through it, on    *)
(* top of RunLifecycle.                                                    *)
(*                                                                         *)
(* A stream replays the row it read when the request arrived, subscribes   *)
(* to the bus, reads the row once more, and then forwards bus events newer *)
(* than the last one sent.  The bus hands an event to the subscribers it   *)
(* listed under its lock, one after the other, outside the lock.           *)
(*                                                                         *)
(* Clients are of two kinds.  A dashboard (public/app.jsx) fetches the run *)
(* and then a stream token before each connection and always asks for the  *)
(* whole history; after a connection error it waits and does so again, and *)
(* if one of the fetches fails it gives up.  It displays the status it     *)
(* fetched, then those the stream replays, and fetches the run once more   *)
(* after a terminal one.  A client that resumes is a plain EventSource     *)
(* with its own credentials: it reconnects for ever, sends Last-Event-ID   *)
(* and displays what the stream tells it.                                  *)
(***************************************************************************)
EXTENDS RunLifecycle

CONSTANTS
  Clients,   \* browser pages and other stream clients
  Resuming,  \* sets of clients that may be the ones resuming with Last-Event-ID
  Watched,   \* Watched[c]: the run client c follows
  MaxDrops   \* bound on lost connections and expired tokens together

ASSUME EventsAssumption ==
  /\ Resuming \subseteq SUBSET Clients
  /\ Watched \in [Clients -> Runs]
  /\ MaxDrops \in Nat

VARIABLES
  stream,    \* stream[c]: the server's generator for c's connection
  wire,      \* wire[c]: events sent to c and not yet received
  handout,   \* handout[r]: the publication of r's event in progress
  tokens,    \* tokens[i]: clients whose last stream token is valid at process i
  page,      \* page[c]: the client; its state is "idle", "fetched" (the run
             \* but no token yet), "opening", "open", "waiting" (to
             \* reconnect), "refreshing", "closed" or "error"
  drops      \* bound

streamVars == <<stream, wire, handout, tokens, page, drops>>
allVars == <<vars, streamVars>>

(* Of a client: the number of the last event it took, the statuses it has  *)
(* heard from the stream and the status it displays, at first that of the  *)
(* built-in sample run.                                                    *)
NewPage(resumes) == [resumes |-> resumes, state |-> "idle", last |-> 0,
                     heard |-> <<>>, display |-> "sample"]

(* The generator of a connection: "replay", "subscribing", "rereading",    *)
(* "live" and "ended" are its stages; row is the row it read last, sent    *)
(* the number of the last event it sent, queue what the bus gave it.       *)
NoStream == [pc |-> "off", at |-> CHOOSE i \in Instances : TRUE,
             row |-> NoRow, sent |-> 0, queue |-> <<>>]

EventsInit ==
  /\ Init
  /\ stream = [c \in Clients |-> NoStream]
  /\ wire = [c \in Clients |-> <<>>]
  /\ handout = [r \in Runs |-> [busy |-> FALSE, to |-> {}]]
  /\ tokens = [i \in Instances |-> {}]
  /\ \E R \in Resuming :
       page = [c \in Clients |-> NewPage(c \in R)]
  /\ drops = 0

-----------------------------------------------------------------------------
(***************************************************************************)
(* The bus.                                                                *)
(***************************************************************************)

Subscribed(c) == stream[c].pc \in {"rereading", "live"}

Subscribers(i, r) ==
  {c \in Clients : Watched[c] = r /\ stream[c].at = i /\ Subscribed(c)}

(* The subscriptions of the run are listed under the lock. *)
ListSubscribers(r) ==
  /\ pc[r] = "publish"
  /\ ~handout[r].busy
  /\ handout' = [handout EXCEPT ![r] = [busy |-> TRUE,
                                        to   |-> Subscribers(home[r], r)]]
  /\ UNCHANGED <<vars, stream, wire, tokens, page, drops>>

(* One listed subscription receives the event. *)
PutEvent(r, c) ==
  /\ handout[r].busy
  /\ c \in handout[r].to
  /\ stream' = [stream EXCEPT ![c].queue = Append(@, PendingEvent(r))]
  /\ handout' = [handout EXCEPT ![r].to = @ \ {c}]
  /\ UNCHANGED <<vars, wire, tokens, page, drops>>

(* publish returns and the publisher goes on. *)
EndPublish(r) ==
  /\ handout[r].busy
  /\ handout[r].to = {}
  /\ Publish(r)
  /\ handout' = [handout EXCEPT ![r].busy = FALSE]
  /\ UNCHANGED <<stream, wire, tokens, page, drops>>

-----------------------------------------------------------------------------
(***************************************************************************)
(* The generator of a stream.                                              *)
(***************************************************************************)

(* _event_after over the events of a row, whose numbers are their places. *)
EventsAfter(events, sequence) == SubSeq(events, sequence + 1, Len(events))

(* The events of a row the stream has not sent yet are written to the wire *)
(* and the row's number becomes the last one sent.                         *)
SendRow(c, row, next) ==
  LET events == EventsAfter(ReplayEvents(row), stream[c].sent)
  IN /\ wire' = [wire EXCEPT ![c] = @ \o events]
     /\ stream' = [stream EXCEPT
          ![c].pc   = next,
          ![c].row  = row,
          ![c].sent = IF events = <<>> THEN @ ELSE LastOf(events).sequence]

Replay(c) ==
  /\ stream[c].pc = "replay"
  /\ SendRow(c, stream[c].row,
             IF IsTerminal(stream[c].row) THEN "ended" ELSE "subscribing")
  /\ UNCHANGED <<vars, handout, tokens, page, drops>>

Subscribe(c) ==
  /\ stream[c].pc = "subscribing"
  /\ stream' = [stream EXCEPT ![c].pc = "rereading"]
  /\ UNCHANGED <<vars, wire, handout, tokens, page, drops>>

(* get_run_status does not return the report. *)
StatusOf(row) == <<row.status, row.error, row.history>>

(* Mutant: the row is not read again once subscribed. *)
NoReread(c) ==
  /\ stream[c].pc = "rereading"
  /\ stream' = [stream EXCEPT ![c].pc = "live"]
  /\ UNCHANGED <<vars, wire, handout, tokens, page, drops>>

Reread(c) ==
  LET latest == db[Watched[c]]
  IN /\ stream[c].pc = "rereading"
     /\ IF StatusOf(latest) # StatusOf(stream[c].row)
        THEN SendRow(c, latest, IF IsTerminal(latest) THEN "ended" ELSE "live")
        ELSE /\ stream' = [stream EXCEPT ![c].pc = "live"]
             /\ UNCHANGED wire
     /\ UNCHANGED <<vars, handout, tokens, page, drops>>

(* An event taken from the queue is sent when it is newer than the last. *)
Forward(c) ==
  LET event == Head(stream[c].queue)
      fresh == event.sequence > stream[c].sent
  IN /\ stream[c].pc = "live"
     /\ stream[c].queue # <<>>
     /\ stream' = [stream EXCEPT
          ![c].queue = Tail(@),
          ![c].sent  = IF fresh THEN event.sequence ELSE @,
          ![c].pc    = IF fresh /\ event.status \in TERMINAL_STATUSES
                       THEN "ended" ELSE @]
     /\ wire' = IF fresh THEN [wire EXCEPT ![c] = Append(@, event)] ELSE wire
     /\ UNCHANGED <<vars, handout, tokens, page, drops>>

-----------------------------------------------------------------------------
(***************************************************************************)
(* Clients.                                                                *)
(***************************************************************************)

(* The connections of the clients in C are gone: generators closed,        *)
(* subscriptions dropped, undelivered events lost.                         *)
Disconnect(C) ==
  /\ stream' = [c \in Clients |-> IF c \in C THEN NoStream ELSE stream[c]]
  /\ wire' = [c \in Clients |-> IF c \in C THEN <<>> ELSE wire[c]]
  /\ handout' = [r \in Runs |-> [handout[r] EXCEPT !.to = @ \ C]]

SetPage(c, state) == page' = [page EXCEPT ![c].state = state]

(* Process i mints a token for c, which is the one c uses from now on; a   *)
(* process knows only the tokens of its own store.                         *)
Minted(i, c) ==
  [j \in Instances |-> IF j = i THEN tokens[j] \cup {c} ELSE tokens[j] \ {c}]

Turn(c, state, display) ==
  page' = [page EXCEPT ![c].state = state, ![c].display = display]

(* A page opened on a submitted run, or the reconnect timer, fetches the   *)
(* run and displays its status; a client that resumes just connects.       *)
FetchRun(c) ==
  /\ page[c].state \in {"idle", "waiting"}
  /\ db[Watched[c]].status # "absent"
  /\ IF page[c].resumes
     THEN SetPage(c, "opening")
     ELSE \E i \in Instances :
            IF server[i] = "serving"
            THEN Turn(c, "fetched", db[Watched[c]].status)
            ELSE Turn(c, "error", "unavailable")
  /\ UNCHANGED <<vars, stream, wire, handout, tokens, drops>>

(* Having fetched the run the page fetches a stream token. *)
FetchToken(c) ==
  /\ page[c].state = "fetched"
  /\ \E i \in Instances :
       IF server[i] = "serving"
       THEN /\ SetPage(c, "opening")
            /\ tokens' = Minted(i, c)
       ELSE Turn(c, "error", "unavailable") /\ UNCHANGED tokens
  /\ UNCHANGED <<vars, stream, wire, handout, drops>>

(* The request for the stream arrives; on refusal the client's error       *)
(* handler sets its timer.                                                 *)
Connect(c) ==
  /\ page[c].state = "opening"
  /\ \E i \in Instances :
       IF server[i] = "serving" /\ (page[c].resumes \/ c \in tokens[i])
       THEN /\ SetPage(c, "open")
            /\ stream' = [stream EXCEPT ![c] =
                 [pc |-> "replay", at |-> i, row |-> db[Watched[c]],
                  sent |-> IF page[c].resumes THEN page[c].last ELSE 0,
                  queue |-> <<>>]]
       ELSE SetPage(c, "waiting") /\ UNCHANGED stream
  /\ UNCHANGED <<vars, wire, handout, tokens, drops>>

(* Mutant: an event with the number of the last one is taken again. *)
SeenBefore(p, event) == event.sequence < p.last

Seen(p, event) == event.sequence <= p.last

(* The end of the run: a dashboard fetches it once more. *)
AfterEvent(p, event) ==
  IF event.status \notin TERMINAL_STATUSES THEN p.state
  ELSE IF p.resumes THEN "closed" ELSE "refreshing"

Hears(p, event) ==
  [p EXCEPT !.last    = event.sequence,
            !.heard   = Append(@, event.status),
            !.display = event.status,
            !.state   = AfterEvent(p, event)]

(* An event is taken unless its number was seen; a terminal one closes the *)
(* connection, so that the end of a stream itself needs no handling.       *)
Receive(c) ==
  LET event == Head(wire[c])
      fresh == ~Seen(page[c], event)
  IN /\ page[c].state = "open"
     /\ wire[c] # <<>>
     /\ page' = IF fresh THEN [page EXCEPT ![c] = Hears(@, event)] ELSE page
     /\ IF fresh /\ event.status \in TERMINAL_STATUSES
        THEN Disconnect({c})
        ELSE wire' = [wire EXCEPT ![c] = Tail(@)] /\ UNCHANGED <<stream, handout>>
     /\ UNCHANGED <<vars, tokens, drops>>

(* The last fetch of a dashboard; if it fails, nothing on display changes. *)
RefreshAtEnd(c) ==
  /\ page[c].state = "refreshing"
  /\ \E i \in Instances :
       IF server[i] = "serving" THEN Turn(c, "closed", db[Watched[c]].status)
       ELSE SetPage(c, "closed")
  /\ UNCHANGED <<vars, stream, wire, handout, tokens, drops>>

(* The lifetime of c's token passes.  A stream that is open goes on; a     *)
(* page that has yet to connect with the token will be refused.            *)
ExpireToken(c) ==
  /\ drops < MaxDrops
  /\ drops' = drops + 1
  /\ \E i \in Instances :
       /\ c \in tokens[i]
       /\ tokens' = [tokens EXCEPT ![i] = @ \ {c}]
  /\ UNCHANGED <<vars, stream, wire, handout, page>>

(* The connection breaks. *)
Drop(c) ==
  /\ page[c].state = "open"
  /\ drops < MaxDrops
  /\ drops' = drops + 1
  /\ SetPage(c, "waiting")
  /\ Disconnect({c})
  /\ UNCHANGED <<vars, tokens>>

(* A process stops with its bus, its streams and its tokens. *)
CrashServer(i) ==
  LET cut == {c \in Clients : stream[c].pc # "off" /\ stream[c].at = i}
  IN /\ Crash(i)
     /\ stream' = [c \in Clients |-> IF c \in cut THEN NoStream ELSE stream[c]]
     /\ wire' = [c \in Clients |-> IF c \in cut THEN <<>> ELSE wire[c]]
     /\ handout' = [r \in Runs |->
          IF home[r] = i THEN [busy |-> FALSE, to |-> {}] ELSE handout[r]]
     /\ tokens' = [tokens EXCEPT ![i] = {}]
     /\ page' = [c \in Clients |-> IF c \in cut
                   THEN [page[c] EXCEPT !.state = "waiting"] ELSE page[c]]
     /\ UNCHANGED drops

-----------------------------------------------------------------------------
QuietTaskStep(r) ==
  /\ \/ BeginAnalysis(r) \/ FinishAnalysis(r) \/ RaiseInAnalysis(r)
     \/ ReadRow(r) \/ WriteRow(r)
  /\ UNCHANGED streamVars

PublishStep(r) ==
  \/ ListSubscribers(r)
  \/ \E c \in Clients : PutEvent(r, c)
  \/ EndPublish(r)

StreamStep(c) == Replay(c) \/ Subscribe(c) \/ Reread(c) \/ Forward(c)

PageStep(c) ==
  FetchRun(c) \/ FetchToken(c) \/ Connect(c) \/ Receive(c) \/ RefreshAtEnd(c)

StartServer(i) == ServerStep(i) /\ UNCHANGED streamVars

EventsNext ==
  \/ \E i \in Instances : StartServer(i) \/ CrashServer(i)
  \/ \E i \in Instances, r \in Runs : Submit(i, r) /\ UNCHANGED streamVars
  \/ \E r \in Runs :
       QuietTaskStep(r) \/ PublishStep(r) \/ (StoreFault(r) /\ UNCHANGED streamVars)
  \/ \E c \in Clients : StreamStep(c) \/ PageStep(c) \/ Drop(c) \/ ExpireToken(c)

EventsSpec == EventsInit /\ [][EventsNext]_allVars

(* Besides the fairness of RunLifecycle: generators and the event loop of  *)
(* a client go on; connections are not lost and tokens do not expire for   *)
(* ever (MaxDrops).                                                        *)
EventsFairness ==
  /\ \A r \in Runs : WF_allVars(QuietTaskStep(r) \/ PublishStep(r))
  /\ \A i \in Instances : WF_allVars(StartServer(i))
  /\ \A c \in Clients : WF_allVars(StreamStep(c)) /\ WF_allVars(PageStep(c))

FairEventsSpec == EventsSpec /\ EventsFairness

-----------------------------------------------------------------------------
(***************************************************************************)
(* Properties.                                                             *)
(***************************************************************************)

(* The streams implement the feed: the history of a run is the stored one, *)
(* what a watcher hears is what its stream told the page, and what it      *)
(* displays is the status on the page, fetched or told.  A dashboard that  *)
(* reopens a finished run may show its end, go back to "queued" with the   *)
(* replay and come to the end again: the feed allows that of the display   *)
(* and not of what is heard.                                               *)
Feed == INSTANCE RunFeed WITH
          Watchers <- Clients,
          history  <- [r \in Runs |-> db[r].history],
          heard    <- [c \in Clients |-> page[c].heard],
          display  <- [c \in Clients |-> page[c].display]

FeedImplemented == Feed!FeedSpec

(* No lost wake-up.  When a stream has gone live on the process that runs  *)
(* the task, every status it has not sent is in its queue, or belongs to   *)
(* an event that is committed and still to be handed to it.                *)
NothingMissed ==
  \A c \in Clients :
    LET r == Watched[c]
        s == stream[c]
        inQueue(k) == \E n \in DOMAIN s.queue : s.queue[n].sequence = k
        toCome(k)  == /\ pc[r] = "publish"
                      /\ PendingEvent(r).sequence = k
                      /\ handout[r].busy => c \in handout[r].to
    IN s.pc = "live" /\ s.at = home[r]
         => \A k \in (s.sent + 1)..Len(db[r].history) : inQueue(k) \/ toCome(k)

(* A client that resumes with Last-Event-ID and has opened a run hears     *)
(* its terminal status, across lost connections and restarts, unless the   *)
(* run's failure could not be recorded.                                    *)
ResumingClientsSettle ==
  \A c \in Clients :
    (page[c].resumes /\ page[c].state # "idle")
      ~> (page[c].state = "closed" \/ pc[Watched[c]] = "stuck")

(* A dashboard hears the terminal status under the same condition, also    *)
(* when its token expires before it has connected with it; it gives up     *)
(* before only when the serving process has stopped since.                 *)
DashboardsSettle ==
  \A c \in Clients :
    (~page[c].resumes /\ page[c].state # "idle")
      ~> \/ page[c].state = "closed" \/ pc[Watched[c]] = "stuck"
         \/ page[c].state = "error" /\ crashes > 0

(* The dashboard reconnects after an error: once the timer is set, the     *)
(* page is connected again or has seen the end of the run.                 *)
LiveReconnects ==
  \A c \in Clients :
    (~page[c].resumes /\ page[c].state = "waiting") ~> (page[c].state \in {"open", "closed"})

=============================================================================
