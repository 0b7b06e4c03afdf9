-------------------------- MODULE RunEventsProofs --------------------------
(***************************************************************************)
(* Proofs about RunEvents: with one server process, any number of runs,    *)
(* clients, lost connections, expired tokens, stops and store faults, the  *)
(* streams implement RunFeed and no stream misses an event.                *)
(*                                                                         *)
(* The argument follows an event from the row to the page.  The number of  *)
(* an event is its place in the stored history, which only grows (the      *)
(* invariant SingleInv of RunLifecycleProofs).  Queues and wires hold runs *)
(* of consecutive numbers; a queue ends with the last number of the        *)
(* history but for the one being handed out; a wire ends with the last     *)
(* number sent, and begins no later than after the last number heard.      *)
(***************************************************************************)
EXTENDS RunEvents, RunLifecycleProofs

StreamState == {"off", "replay", "subscribing", "rereading", "live", "ended"}
PageState == {"idle", "fetched", "opening", "open", "waiting", "refreshing",
              "closed", "error"}
Display == RunStatus \cup {"absent", "sample", "unavailable"}

Stream == [pc : StreamState, at : Instances, row : RunRow, sent : Nat,
           queue : Seq(RunEvent)]
Page == [resumes : BOOLEAN, state : PageState, last : Nat,
         heard : Seq(RunStatus), display : Display]
Handout == [busy : BOOLEAN, to : SUBSET Clients]

EventsTypeOK ==
  /\ stream \in [Clients -> Stream]
  /\ wire \in [Clients -> Seq(RunEvent)]
  /\ handout \in [Runs -> Handout]
  /\ tokens \in [Instances -> SUBSET Clients]
  /\ page \in [Clients -> Page]

-----------------------------------------------------------------------------
(***************************************************************************)
(* The invariant.                                                          *)
(***************************************************************************)

History(c) == db[Watched[c]].history

(* Events in order, numbered without a gap, each true of history h. *)
Consecutive(events) ==
  \A n \in 1..Len(events) : events[n].sequence = events[1].sequence + n - 1

TrueOf(event, h) ==
  event.sequence \in 1..Len(h) /\ event.status = h[event.sequence]

Excerpt(events, h) ==
  /\ Consecutive(events)
  /\ \A n \in 1..Len(events) : TrueOf(events[n], h)

IsPrefixOf(g, h) ==
  Len(g) <= Len(h) /\ \A k \in 1..Len(g) : g[k] = h[k]

(* The publication of the last status has not reached client c yet. *)
Pending(c) ==
  LET r == Watched[c]
  IN pc[r] = "publish" /\ (handout[r].busy => c \in handout[r].to)

(* A page is open while its stream is on, on a process that serves. *)
ConnectionInv(c) ==
  /\ page[c].state = "open" <=> stream[c].pc # "off"
  /\ stream[c].pc = "off" => stream[c] = NoStream /\ wire[c] = <<>>
  /\ stream[c].pc # "off" => server[stream[c].at] = "serving"

(* What is handed out is the last status of the stored history. *)
HandoutInv(r) ==
  /\ handout[r].busy => pc[r] = "publish"
  /\ ~ handout[r].busy => handout[r].to = {}
  /\ \A c \in handout[r].to :
       Watched[c] = r /\ stream[c].pc \in {"rereading", "live", "ended"}
  /\ pc[r] = "publish" => NewRow(r).history = db[r].history

RowInv(c) ==
  /\ IsPrefixOf(stream[c].row.history, History(c))
  /\ stream[c].pc \in {"subscribing", "rereading"} =>
       stream[c].sent >= Len(stream[c].row.history)

(* The number of the last event the bus has handed to client c's queue if  *)
(* it has handed it all it could.                                          *)
Told(c) == Len(History(c)) - (IF Pending(c) THEN 1 ELSE 0)

QueueInv(c) ==
  LET queue == stream[c].queue
  IN /\ stream[c].pc \in {"replay", "subscribing"} => queue = <<>>
     /\ Subscribed(c) =>
          /\ Excerpt(queue, History(c))
          /\ queue # <<>> => queue[Len(queue)].sequence = Told(c)
          /\ stream[c].pc = "live" =>
               IF queue = <<>> THEN stream[c].sent >= Told(c)
               ELSE queue[1].sequence <= stream[c].sent + 1

WireInv(c) ==
  page[c].state = "open" =>
    /\ Excerpt(wire[c], History(c))
    /\ IF wire[c] = <<>> THEN stream[c].sent <= page[c].last
       ELSE /\ wire[c][Len(wire[c])].sequence = stream[c].sent
            /\ wire[c][1].sequence <= page[c].last + 1

(* A page counts what it has heard, and has heard the end of the run only  *)
(* when it is done with the stream.                                        *)
PageInv(c) ==
  /\ page[c].last = Len(page[c].heard)
  /\ page[c].state \in {"refreshing", "closed"} \/ ~ Feed!HasEnded(page[c].heard)
  /\ page[c].state = "refreshing" => History(c) # <<>>

ClientInv(c) ==
  /\ ConnectionInv(c)
  /\ RowInv(c)
  /\ QueueInv(c)
  /\ WireInv(c)
  /\ PageInv(c)

EventsInv ==
  /\ EventsTypeOK
  /\ \A r \in Runs : HandoutInv(r)
  /\ \A c \in Clients : ClientInv(c)

-----------------------------------------------------------------------------
(***************************************************************************)
(* Events of a row, and runs of consecutive events.                        *)
(***************************************************************************)

LEMMA EmptyExcerpt == ASSUME NEW h PROVE Excerpt(<<>>, h)
BY DEF Excerpt, Consecutive

LEMMA ReplayIsNumbered ==
  ASSUME NEW row \in RunRow
  PROVE  /\ ReplayEvents(row) \in Seq(RunEvent)
         /\ Len(ReplayEvents(row)) = Len(row.history)
         /\ \A k \in 1..Len(row.history) :
              ReplayEvents(row)[k] = [sequence |-> k, status |-> row.history[k]]
<1> DEFINE h == row.history
<1>1. h \in Seq(RunStatus) /\ Len(h) \in Nat /\ h \in [1..Len(h) -> RunStatus]
  BY LenProperties DEF RunRow
<1> HIDE DEF h
<1>2. ASSUME NEW k \in 1..Len(h)
      PROVE  StatusEvent(SubSeq(h, 1, k), h[k]) = [sequence |-> k, status |-> h[k]]
  <2>1. \A i \in 1..k : h[i] \in RunStatus
    BY <1>1, <1>2
  <2>2. Len(SubSeq(h, 1, k)) = k
    BY <1>1, <1>2, <2>1, SubSeqProperties
  <2> QED
    BY <2>2 DEF StatusEvent
<1>3. ReplayEvents(row) = [k \in 1..Len(h) |-> [sequence |-> k, status |-> h[k]]]
  BY <1>2 DEF ReplayEvents, h
<1>4. ReplayEvents(row) \in [1..Len(h) -> RunEvent]
  BY <1>1, <1>3 DEF RunEvent
<1>5. ReplayEvents(row) \in Seq(RunEvent)
  BY <1>1, <1>4, SeqDef
<1>6. Len(ReplayEvents(row)) = Len(h)
  BY <1>1, <1>4, <1>5, LenProperties
<1> QED
  BY <1>3, <1>5, <1>6 DEF h

LEMMA AfterIsTheRest ==
  ASSUME NEW row \in RunRow, NEW sent \in Nat
  PROVE  LET rest == EventsAfter(ReplayEvents(row), sent)
             n    == Len(row.history)
         IN /\ n \in Nat
            /\ rest \in Seq(RunEvent)
            /\ Len(rest) = IF sent < n THEN n - sent ELSE 0
            /\ \A k \in 1..Len(rest) : /\ rest[k].sequence = sent + k
                                       /\ rest[k].status = row.history[sent + k]
<1> DEFINE all == ReplayEvents(row)
           n == Len(row.history)
           rest == SubSeq(all, sent + 1, n)
<1>1. /\ n \in Nat
      /\ Len(all) = n
      /\ all \in Seq(RunEvent)
      /\ \A k \in 1..n : all[k] = [sequence |-> k, status |-> row.history[k]]
  BY ReplayIsNumbered DEF RunRow
<1>2. \A k \in (sent + 1)..n : all[k] \in RunEvent
  <2>1. all \in [1..n -> RunEvent]
    BY <1>1, LenProperties
  <2> QED
    BY <1>1, <2>1
<1> HIDE DEF all, n
<1>3. /\ rest \in Seq(RunEvent)
      /\ Len(rest) = IF sent + 1 <= n THEN n - (sent + 1) + 1 ELSE 0
      /\ \A k \in 1..(n - (sent + 1) + 1) : rest[k] = all[sent + 1 + k - 1]
  BY <1>1, <1>2, SubSeqProperties
<1> HIDE DEF rest
<1>4. Len(rest) = IF sent < n THEN n - sent ELSE 0
  BY <1>1, <1>3
<1>5. ASSUME NEW k \in 1..Len(rest)
      PROVE  /\ rest[k].sequence = sent + k
             /\ rest[k].status = row.history[sent + k]
  <2>1. k \in 1..(n - (sent + 1) + 1) /\ sent + k \in 1..n
    BY <1>1, <1>4, <1>5
  <2>2. rest[k] = all[sent + k]
    <3>1. sent + 1 + k - 1 = sent + k
      BY <1>1, <2>1
    <3> QED
      BY <1>3, <2>1, <3>1
  <2> QED
    BY <1>1, <2>1, <2>2
<1>6. rest = EventsAfter(ReplayEvents(row), sent)
  BY <1>1 DEF rest, all, EventsAfter
<1> QED
  BY <1>1, <1>3, <1>4, <1>5, <1>6 DEF n

LEMMA ExcerptGrows ==
  ASSUME NEW g \in Seq(RunStatus), NEW h \in Seq(RunStatus), IsPrefixOf(g, h),
         NEW s \in Seq(RunEvent), Excerpt(s, g)
  PROVE  Excerpt(s, h)
<1>1. Len(g) \in Nat /\ Len(h) \in Nat
  OBVIOUS
<1> QED
  BY <1>1 DEF Excerpt, TrueOf, IsPrefixOf

(* First and last number of a run. *)
LEMMA ExcerptEnds ==
  ASSUME NEW h \in Seq(RunStatus), NEW s \in Seq(RunEvent), Excerpt(s, h), s # <<>>
  PROVE  /\ Len(s) \in Nat \ {0}
         /\ s[1] \in RunEvent /\ s[Len(s)] \in RunEvent
         /\ TrueOf(s[1], h) /\ TrueOf(s[Len(s)], h)
         /\ s[Len(s)].sequence = s[1].sequence + Len(s) - 1
<1>1. Len(s) \in Nat \ {0} /\ s \in [1..Len(s) -> RunEvent]
  BY LenProperties, EmptySeq
<1>2. 1 \in 1..Len(s) /\ Len(s) \in 1..Len(s)
  BY <1>1
<1> QED
  BY <1>1, <1>2 DEF Excerpt, Consecutive

LEMMA ExcerptAppend ==
  ASSUME NEW h \in Seq(RunStatus), NEW s \in Seq(RunEvent), Excerpt(s, h),
         NEW e \in RunEvent, TrueOf(e, h),
         s # <<>> => s[Len(s)].sequence + 1 = e.sequence
  PROVE  LET t == Append(s, e)
         IN /\ t \in Seq(RunEvent)
            /\ t # <<>>
            /\ Excerpt(t, h)
            /\ t[Len(t)] = e
            /\ t[1] = IF s = <<>> THEN e ELSE s[1]
<1> DEFINE t == Append(s, e)
           n == Len(s)
<1>1. /\ t \in Seq(RunEvent) /\ t # <<>> /\ n \in Nat /\ Len(t) = n + 1
      /\ \A i \in 1..n : t[i] = s[i]
      /\ t[n + 1] = e
  BY AppendProperties, LenProperties
<1> HIDE DEF t
<1>2. CASE s = <<>>
  <2>1. n = 0
    BY <1>2
  <2>2. t[1] = e /\ Len(t) = 1
    BY <1>1, <2>1
  <2>3. \A i \in 1..Len(t) : i = 1
    BY <2>2
  <2>4. e.sequence = e.sequence + 1 - 1
    BY DEF RunEvent
  <2> QED
    BY <1>1, <1>2, <2>2, <2>3, <2>4 DEF Excerpt, Consecutive, t
<1>3. CASE s # <<>>
  <2>1. n \in Nat \ {0} /\ s[n].sequence = s[1].sequence + n - 1 /\ s[1] \in RunEvent
    BY <1>3, ExcerptEnds
  <2>2. t[1] = s[1]
    BY <1>1, <2>1
  <2>3. s[1].sequence \in Nat /\ e.sequence = s[1].sequence + n
    BY <1>3, <2>1 DEF RunEvent
  <2>4. ASSUME NEW i \in 1..Len(t)
        PROVE  t[i].sequence = t[1].sequence + i - 1 /\ TrueOf(t[i], h)
    <3>1. CASE i \in 1..n
      BY <1>1, <2>2, <3>1 DEF Excerpt, Consecutive
    <3>2. CASE i = n + 1
      BY <1>1, <2>1, <2>2, <2>3, <3>2
    <3> QED
      BY <1>1, <2>4, <3>1, <3>2
  <2> QED
    BY <1>1, <1>3, <2>2, <2>4 DEF Excerpt, Consecutive, t
<1> QED
  BY <1>2, <1>3

LEMMA ExcerptTail ==
  ASSUME NEW h \in Seq(RunStatus), NEW s \in Seq(RunEvent), Excerpt(s, h), s # <<>>
  PROVE  LET t == Tail(s)
         IN /\ t \in Seq(RunEvent)
            /\ Excerpt(t, h)
            /\ Head(s) = s[1]
            /\ t = <<>> => s[Len(s)] = s[1]
            /\ t # <<>> => /\ t[Len(t)] = s[Len(s)]
                           /\ t[1].sequence = s[1].sequence + 1
<1> DEFINE t == Tail(s)
           n == Len(s)
<1>1. /\ n \in Nat \ {0} /\ s[1] \in RunEvent
      /\ t \in Seq(RunEvent) /\ Len(t) = n - 1
      /\ \A i \in 1..Len(t) : t[i] = s[i + 1]
  BY HeadTailProperties, ExcerptEnds
<1>2. Head(s) = s[1]
  OBVIOUS
<1> HIDE DEF t
<1>3. s[1].sequence \in Nat
  BY <1>1 DEF RunEvent
<1>4. CASE t = <<>>
  <2>1. n = 1
    BY <1>1, <1>4, EmptySeq
  <2> QED
    BY <1>1, <1>2, <1>4, <2>1, EmptyExcerpt DEF t
<1>5. CASE t # <<>>
  <2>1. Len(t) \in Nat \ {0}
    BY <1>1, <1>5, EmptySeq, LenProperties
  <2>2. t[1] = s[2] /\ t[Len(t)] = s[n]
    BY <1>1, <2>1
  <2>3. s[2].sequence = s[1].sequence + 1
    BY <1>1, <1>3, <2>1 DEF Excerpt, Consecutive
  <2>4. ASSUME NEW i \in 1..Len(t)
        PROVE  t[i].sequence = t[1].sequence + i - 1 /\ TrueOf(t[i], h)
    <3>1. i + 1 \in 1..n /\ t[i] = s[i + 1]
      BY <1>1, <2>4
    <3>2. s[i + 1].sequence = s[1].sequence + (i + 1) - 1 /\ TrueOf(s[i + 1], h)
      BY <3>1 DEF Excerpt, Consecutive
    <3> QED
      BY <1>1, <1>3, <2>2, <2>3, <3>1, <3>2, SMTT(30)
  <2> QED
    BY <1>1, <1>2, <1>5, <2>2, <2>3, <2>4 DEF Excerpt, Consecutive, t
<1> QED
  BY <1>4, <1>5

LEMMA ExcerptConcat ==
  ASSUME NEW h \in Seq(RunStatus), NEW s \in Seq(RunEvent), NEW t \in Seq(RunEvent),
         Excerpt(s, h), Excerpt(t, h), t # <<>>,
         s # <<>> => s[Len(s)].sequence + 1 = t[1].sequence
  PROVE  /\ s \o t \in Seq(RunEvent)
         /\ s \o t # <<>>
         /\ Excerpt(s \o t, h)
         /\ (s \o t)[Len(s \o t)] = t[Len(t)]
         /\ (s \o t)[1] = IF s = <<>> THEN t[1] ELSE s[1]
<1> DEFINE u == s \o t
           m == Len(s)
           n == Len(t)
<1>1. /\ u \in Seq(RunEvent) /\ m \in Nat /\ n \in Nat \ {0} /\ Len(u) = m + n
      /\ \A i \in 1..(m + n) : u[i] = IF i <= m THEN s[i] ELSE t[i - m]
  BY ConcatProperties, LenProperties, ExcerptEnds
<1> HIDE DEF u
<1>2. u # <<>> /\ u[Len(u)] = t[n]
  BY <1>1
<1>3. t[1] \in RunEvent /\ t[1].sequence \in Nat
  BY ExcerptEnds DEF RunEvent
<1>4. /\ m = 0 <=> s = <<>>
      /\ u[1] = IF s = <<>> THEN t[1] ELSE s[1]
  <2>1. m = 0 <=> s = <<>>
    BY EmptySeq
  <2> QED
    BY <1>1, <2>1
<1>5. /\ u[1].sequence \in Nat
      /\ t[1].sequence = u[1].sequence + m
  <2>1. CASE s = <<>>
    BY <1>1, <1>3, <1>4, <2>1
  <2>2. CASE s # <<>>
    <3>1. s[1] \in RunEvent /\ s[m].sequence = s[1].sequence + m - 1
      BY <2>2, ExcerptEnds
    <3>2. u[1] = s[1] /\ s[m].sequence + 1 = t[1].sequence
      BY <1>4, <2>2
    <3>3. s[1].sequence \in Nat
      BY <3>1 DEF RunEvent
    <3>4. t[1].sequence = s[1].sequence + m
      BY <1>1, <1>3, <3>1, <3>2, <3>3
    <3> QED
      BY <3>2, <3>3, <3>4
  <2> QED
    BY <2>1, <2>2
<1>6. ASSUME NEW i \in 1..Len(u)
      PROVE  u[i].sequence = u[1].sequence + i - 1 /\ TrueOf(u[i], h)
  <2>1. CASE i <= m
    <3>1. i \in 1..m /\ u[i] = s[i] /\ s # <<>>
      BY <1>1, <1>4, <1>6, <2>1
    <3> QED
      BY <1>4, <3>1 DEF Excerpt, Consecutive
  <2>2. CASE ~ (i <= m)
    <3>1. i - m \in 1..n /\ u[i] = t[i - m]
      BY <1>1, <1>6, <2>2
    <3>2. t[i - m].sequence = t[1].sequence + (i - m) - 1 /\ TrueOf(t[i - m], h)
      BY <3>1 DEF Excerpt, Consecutive
    <3> QED
      BY <1>1, <1>5, <1>6, <3>1, <3>2
  <2> QED
    BY <2>1, <2>2
<1> QED
  BY <1>1, <1>2, <1>4, <1>6 DEF Excerpt, Consecutive, u

-----------------------------------------------------------------------------
(***************************************************************************)
(* The steps of the streams are steps of RunLifecycle.                     *)
(***************************************************************************)

LEMMA EventsNextIsNext == [EventsNext]_allVars => [Next]_vars
<1> SUFFICES ASSUME [EventsNext]_allVars PROVE [Next]_vars
  OBVIOUS
<1>1. ASSUME NEW i \in Instances, StartServer(i) \/ CrashServer(i)
      PROVE  Next
  BY <1>1 DEF StartServer, CrashServer, Next
<1>2. ASSUME NEW i \in Instances, NEW r \in Runs, Submit(i, r)
      PROVE  Next
  BY <1>2 DEF Next
<1>3. ASSUME NEW r \in Runs, QuietTaskStep(r) \/ StoreFault(r)
      PROVE  Next
  BY <1>3 DEF QuietTaskStep, TaskStep, Next
<1>4. ASSUME NEW r \in Runs, PublishStep(r)
      PROVE  [Next]_vars
  BY <1>4 DEF PublishStep, ListSubscribers, PutEvent, EndPublish, TaskStep, Next
<1>5. ASSUME NEW c \in Clients, StreamStep(c) \/ PageStep(c) \/ Drop(c) \/ ExpireToken(c)
      PROVE  UNCHANGED vars
  BY <1>5 DEF StreamStep, PageStep, Replay, Subscribe, Reread, Forward,
              FetchRun, FetchToken, Connect, Receive, RefreshAtEnd, Drop,
              ExpireToken
<1>6. CASE UNCHANGED allVars
  BY <1>6 DEF allVars
<1> QED
  BY <1>1, <1>2, <1>3, <1>4, <1>5, <1>6 DEF EventsNext

LEMMA EventsSpecIsSpec == EventsSpec => Spec
<1>1. EventsInit => Init
  BY DEF EventsInit
<1> QED
  BY <1>1, EventsNextIsNext, PTL DEF EventsSpec, Spec

-----------------------------------------------------------------------------
(***************************************************************************)
(* Types.                                                                  *)
(***************************************************************************)

LEMMA NoStreamType == NoStream \in Stream
<1>1. (CHOOSE i \in Instances : TRUE) \in Instances
  BY LifecycleAssumption
<1> QED
  BY <1>1, ConstantRows DEF NoStream, Stream, StreamState

(* What SendRow does to the stream and the wire of its client. *)
LEMMA SentRow ==
  ASSUME EventsTypeOK, NEW c \in Clients, NEW row \in RunRow,
         NEW next \in StreamState, SendRow(c, row, next)
  PROVE  LET rest == EventsAfter(ReplayEvents(row), stream[c].sent)
             n    == Len(row.history)
         IN /\ wire' = [wire EXCEPT ![c] = wire[c] \o rest]
            /\ stream'[c] = [pc |-> next, at |-> stream[c].at, row |-> row,
                             sent |-> IF stream[c].sent < n THEN n ELSE stream[c].sent,
                             queue |-> stream[c].queue]
            /\ \A d \in Clients \ {c} : stream'[d] = stream[d]
            /\ stream' \in [Clients -> Stream]
            /\ wire' \in [Clients -> Seq(RunEvent)]
<1> DEFINE rest == EventsAfter(ReplayEvents(row), stream[c].sent)
           n == Len(row.history)
           last == IF stream[c].sent < n THEN n ELSE stream[c].sent
<1>1. /\ stream[c] \in Stream /\ stream[c].sent \in Nat
      /\ wire[c] \in Seq(RunEvent)
  BY DEF EventsTypeOK, Stream
<1>2. /\ n \in Nat /\ rest \in Seq(RunEvent)
      /\ Len(rest) = IF stream[c].sent < n THEN n - stream[c].sent ELSE 0
      /\ \A k \in 1..Len(rest) : rest[k].sequence = stream[c].sent + k
  BY <1>1, AfterIsTheRest
<1> HIDE DEF rest, n
<1>3. (IF rest = <<>> THEN stream[c].sent ELSE LastOf(rest).sequence) = last
  <2>1. CASE rest = <<>>
    <3>1. ~ (stream[c].sent < n)
      BY <1>1, <1>2, <2>1
    <3> QED
      BY <2>1, <3>1
  <2>2. CASE rest # <<>>
    <3>1. Len(rest) \in Nat \ {0}
      BY <1>2, <2>2, EmptySeq
    <3>2. stream[c].sent < n /\ Len(rest) = n - stream[c].sent /\ Len(rest) \in 1..Len(rest)
      BY <1>1, <1>2, <3>1
    <3>3. rest[Len(rest)].sequence = stream[c].sent + Len(rest)
      BY <1>2, <3>2
    <3> QED
      BY <1>1, <1>2, <2>2, <3>2, <3>3 DEF LastOf
  <2> QED
    BY <2>1, <2>2
<1>4. last \in Nat
  BY <1>1, <1>2
<1>5. /\ wire' = [wire EXCEPT ![c] = wire[c] \o rest]
      /\ stream' = [stream EXCEPT ![c].pc = next, ![c].row = row, ![c].sent = last]
  <2> HIDE DEF last
  <2> QED
    BY <1>3 DEF SendRow, rest
<1> HIDE DEF last
<1>6. stream'[c] = [pc |-> next, at |-> stream[c].at, row |-> row, sent |-> last,
                    queue |-> stream[c].queue]
  BY <1>1, <1>5 DEF EventsTypeOK, Stream
<1>7. stream'[c] \in Stream
  BY <1>1, <1>4, <1>6 DEF Stream
<1>8. stream' \in [Clients -> Stream] /\ \A d \in Clients \ {c} : stream'[d] = stream[d]
  BY <1>5, <1>7 DEF EventsTypeOK
<1>9. wire[c] \o rest \in Seq(RunEvent)
  BY <1>1, <1>2
<1>10. wire' \in [Clients -> Seq(RunEvent)]
  BY <1>5, <1>9 DEF EventsTypeOK
<1> QED
  BY <1>5, <1>6, <1>8, <1>10 DEF rest, last, n

LEMMA EventsTypeInit == EventsInit => EventsTypeOK
<1> SUFFICES ASSUME EventsInit PROVE EventsTypeOK
  OBVIOUS
<1>1. /\ stream \in [Clients -> Stream]
      /\ wire \in [Clients -> Seq(RunEvent)]
  BY NoStreamType DEF EventsInit
<1>2. /\ handout \in [Runs -> Handout]
      /\ tokens \in [Instances -> SUBSET Clients]
  BY DEF EventsInit, Handout
<1>3. page \in [Clients -> Page]
  BY DEF EventsInit, NewPage, Page, PageState, Display
<1> QED
  BY <1>1, <1>2, <1>3 DEF EventsTypeOK

LEMMA DisconnectType ==
  ASSUME EventsTypeOK, NEW C \in SUBSET Clients, Disconnect(C)
  PROVE  /\ stream' \in [Clients -> Stream]
         /\ wire' \in [Clients -> Seq(RunEvent)]
         /\ handout' \in [Runs -> Handout]
<1>1. /\ stream' \in [Clients -> Stream]
      /\ wire' \in [Clients -> Seq(RunEvent)]
  BY NoStreamType DEF EventsTypeOK, Disconnect
<1>2. ASSUME NEW r \in Runs
      PROVE  [handout[r] EXCEPT !.to = @ \ C] \in Handout
  BY DEF EventsTypeOK, Handout
<1> QED
  BY <1>1, <1>2 DEF Disconnect

LEMMA SetPageType ==
  ASSUME EventsTypeOK, NEW c \in Clients, NEW s \in PageState, SetPage(c, s)
  PROVE  page' \in [Clients -> Page]
BY DEF EventsTypeOK, SetPage, Page

LEMMA TurnType ==
  ASSUME EventsTypeOK, NEW c \in Clients, NEW s \in PageState, NEW d \in Display,
         Turn(c, s, d)
  PROVE  page' \in [Clients -> Page]
BY DEF EventsTypeOK, Turn, Page

(* The event a call publishes. *)
LEMMA PendingEventType ==
  ASSUME TypeOK, NEW r \in Runs
  PROVE  /\ PendingEvent(r) \in RunEvent
         /\ PendingEvent(r).sequence = Len(NewRow(r).history)
         /\ PendingEvent(r).status = call[r].status
<1>1. NewRow(r).history \in Seq(RunStatus) /\ call[r].status \in RunStatus
  BY NewRowType DEF RunRow, TypeOK, Call
<1> QED
  BY <1>1 DEF PendingEvent, StatusEvent, RunEvent

LEMMA EventsTypeStep ==
  ASSUME TypeOK, EventsTypeOK, [EventsNext]_allVars
  PROVE  EventsTypeOK'
<1>1. CASE UNCHANGED streamVars
  BY <1>1 DEF EventsTypeOK, streamVars
<1>2. ASSUME NEW i \in Instances, CrashServer(i) PROVE EventsTypeOK'
  <2>1. /\ stream' \in [Clients -> Stream]
        /\ wire' \in [Clients -> Seq(RunEvent)]
    BY <1>2, NoStreamType DEF CrashServer, EventsTypeOK
  <2>2. /\ handout' \in [Runs -> Handout]
        /\ tokens' \in [Instances -> SUBSET Clients]
    BY <1>2 DEF CrashServer, EventsTypeOK, Handout
  <2>3. page' \in [Clients -> Page]
    BY <1>2 DEF CrashServer, EventsTypeOK, Page, PageState
  <2> QED
    BY <2>1, <2>2, <2>3 DEF EventsTypeOK
<1>3. ASSUME NEW r \in Runs, ListSubscribers(r) PROVE EventsTypeOK'
  BY <1>3 DEF ListSubscribers, Subscribers, EventsTypeOK, Handout
<1>4. ASSUME NEW r \in Runs, NEW c \in Clients, PutEvent(r, c) PROVE EventsTypeOK'
  <2>1. Append(stream[c].queue, PendingEvent(r)) \in Seq(RunEvent)
    BY PendingEventType DEF EventsTypeOK, Stream
  <2> QED
    BY <1>4, <2>1, ZenonT(40) DEF PutEvent, EventsTypeOK, Handout, Stream
<1>5. ASSUME NEW r \in Runs, EndPublish(r) PROVE EventsTypeOK'
  BY <1>5 DEF EndPublish, EventsTypeOK, Handout
<1>6. ASSUME NEW c \in Clients, Replay(c) PROVE EventsTypeOK'
  <2>1. stream[c].row \in RunRow /\ {"ended", "subscribing"} \subseteq StreamState
    BY DEF EventsTypeOK, Stream, StreamState
  <2> QED
    BY <1>6, <2>1, SentRow DEF Replay, EventsTypeOK
<1>7. ASSUME NEW c \in Clients, Subscribe(c) PROVE EventsTypeOK'
  BY <1>7, ZenonT(40) DEF Subscribe, EventsTypeOK, Stream, StreamState
<1>8. ASSUME NEW c \in Clients, Reread(c) PROVE EventsTypeOK'
  <2>1. db[Watched[c]] \in RunRow /\ {"ended", "live"} \subseteq StreamState
    BY EventsAssumption DEF TypeOK, StreamState
  <2>2. CASE StatusOf(db[Watched[c]]) # StatusOf(stream[c].row)
    BY <1>8, <2>1, <2>2, SentRow DEF Reread, EventsTypeOK
  <2>3. CASE StatusOf(db[Watched[c]]) = StatusOf(stream[c].row)
    <3>1. [stream[c] EXCEPT !.pc = "live"] \in Stream
      BY <2>1 DEF EventsTypeOK, Stream
    <3>2. stream' \in [Clients -> Stream]
      BY <1>8, <2>3, <3>1 DEF Reread, EventsTypeOK
    <3> QED
      BY <1>8, <2>3, <3>2 DEF Reread, EventsTypeOK
  <2> QED
    BY <2>2, <2>3
<1>9. ASSUME NEW c \in Clients, Forward(c) PROVE EventsTypeOK'
  <2>1. /\ Head(stream[c].queue) \in RunEvent
        /\ Tail(stream[c].queue) \in Seq(RunEvent)
    BY <1>9, HeadTailProperties DEF Forward, EventsTypeOK, Stream
  <2>2. stream' \in [Clients -> Stream]
    <3>1. /\ stream[c] \in Stream /\ Head(stream[c].queue).sequence \in Nat
          /\ "ended" \in StreamState
      BY <2>1 DEF EventsTypeOK, RunEvent, StreamState
    <3>2. ASSUME NEW q \in Seq(RunEvent), NEW n \in Nat, NEW p \in StreamState
          PROVE  [stream[c] EXCEPT !.queue = q, !.sent = n, !.pc = p] \in Stream
      BY <3>1 DEF Stream
    <3>3. stream[c].sent \in Nat /\ stream[c].pc \in StreamState
      BY <3>1 DEF Stream
    <3> QED
      BY <1>9, <2>1, <3>1, <3>2, <3>3 DEF Forward, EventsTypeOK
  <2>3. wire' \in [Clients -> Seq(RunEvent)]
    BY <1>9, <2>1 DEF Forward, EventsTypeOK
  <2> QED
    BY <1>9, <2>2, <2>3 DEF Forward, EventsTypeOK
<1>10. ASSUME NEW c \in Clients, FetchRun(c) \/ FetchToken(c) \/ RefreshAtEnd(c)
       PROVE  EventsTypeOK'
  <2>1. /\ {"opening", "fetched", "error", "closed"} \subseteq PageState
        /\ {db[Watched[c]].status, "unavailable"} \subseteq Display
    BY EventsAssumption DEF PageState, Display, TypeOK, RunRow
  <2>2. page' \in [Clients -> Page]
    <3>1. CASE FetchRun(c)
      <4>1. \/ SetPage(c, "opening")
            \/ Turn(c, "fetched", db[Watched[c]].status)
            \/ Turn(c, "error", "unavailable")
        BY <3>1 DEF FetchRun
      <4> QED
        BY <2>1, <4>1, SetPageType, TurnType
    <3>2. CASE FetchToken(c)
      BY <2>1, <3>2, SetPageType, TurnType DEF FetchToken
    <3>3. CASE RefreshAtEnd(c)
      <4>1. SetPage(c, "closed") \/ Turn(c, "closed", db[Watched[c]].status)
        BY <3>3 DEF RefreshAtEnd
      <4> QED
        BY <2>1, <4>1, SetPageType, TurnType
    <3> QED
      BY <1>10, <3>1, <3>2, <3>3
  <2>3. tokens' \in [Instances -> SUBSET Clients]
    <3>1. CASE FetchToken(c)
      BY <3>1 DEF FetchToken, Minted, EventsTypeOK
    <3>2. CASE FetchRun(c) \/ RefreshAtEnd(c)
      BY <3>2 DEF FetchRun, RefreshAtEnd, EventsTypeOK
    <3> QED
      BY <1>10, <3>1, <3>2
  <2>4. UNCHANGED <<stream, wire, handout>>
    BY <1>10 DEF FetchRun, FetchToken, RefreshAtEnd
  <2> QED
    BY <2>2, <2>3, <2>4 DEF EventsTypeOK
<1>11. ASSUME NEW c \in Clients, Connect(c) PROVE EventsTypeOK'
  <2>1. page' \in [Clients -> Page]
    BY <1>11, SetPageType DEF Connect, PageState
  <2>2. ASSUME NEW i \in Instances
        PROVE  [pc |-> "replay", at |-> i, row |-> db[Watched[c]],
                sent |-> IF page[c].resumes THEN page[c].last ELSE 0,
                queue |-> <<>>] \in Stream
    BY EventsAssumption DEF TypeOK, EventsTypeOK, Page, Stream, StreamState
  <2>3. stream' \in [Clients -> Stream]
    BY <1>11, <2>2 DEF Connect, EventsTypeOK
  <2> QED
    BY <1>11, <2>1, <2>3 DEF Connect, EventsTypeOK
<1>12. ASSUME NEW c \in Clients, Receive(c) PROVE EventsTypeOK'
  <2>1. Head(wire[c]) \in RunEvent /\ Tail(wire[c]) \in Seq(RunEvent)
    BY <1>12, HeadTailProperties DEF Receive, EventsTypeOK
  <2>2. Hears(page[c], Head(wire[c])) \in Page
    <3>1. /\ page[c] \in Page
          /\ Head(wire[c]).sequence \in Nat /\ Head(wire[c]).status \in RunStatus
      BY <2>1 DEF EventsTypeOK, RunEvent
    <3>2. /\ Append(page[c].heard, Head(wire[c]).status) \in Seq(RunStatus)
          /\ AfterEvent(page[c], Head(wire[c])) \in PageState
          /\ Head(wire[c]).status \in Display
      BY <3>1 DEF Page, PageState, AfterEvent, Display
    <3> QED
      BY <3>1, <3>2 DEF Hears, Page
  <2>3. page' \in [Clients -> Page]
    BY <1>12, <2>2 DEF Receive, EventsTypeOK
  <2>4. /\ stream' \in [Clients -> Stream]
        /\ wire' \in [Clients -> Seq(RunEvent)]
        /\ handout' \in [Runs -> Handout]
    BY <1>12, <2>1, DisconnectType DEF Receive, EventsTypeOK
  <2> QED
    BY <1>12, <2>3, <2>4 DEF Receive, EventsTypeOK
<1>13. ASSUME NEW c \in Clients, Drop(c) PROVE EventsTypeOK'
  BY <1>13, DisconnectType, SetPageType DEF Drop, EventsTypeOK, PageState
<1>14. ASSUME NEW c \in Clients, ExpireToken(c) PROVE EventsTypeOK'
  BY <1>14 DEF ExpireToken, EventsTypeOK
<1> QED
  BY <1>1, <1>2, <1>3, <1>4, <1>5, <1>6, <1>7, <1>8, <1>9, <1>10, <1>11, <1>12,
     <1>13, <1>14
     DEF EventsNext, StartServer, QuietTaskStep, PublishStep, StreamStep, PageStep,
         allVars

-----------------------------------------------------------------------------
(***************************************************************************)
(* What a step of RunLifecycle does to the history of a run.               *)
(***************************************************************************)

LEMMA RowHistory ==
  ASSUME TypeOK, NEW r \in Runs
  PROVE  db[r].history \in Seq(RunStatus) /\ Len(db[r].history) \in Nat
BY DEF TypeOK, RunRow

LEMMA SubmittedHistory ==
  ASSUME SingleInv, NEW i \in Instances, NEW r \in Runs, Submit(i, r)
  PROVE  /\ pc[r] = "none" /\ pc'[r] = "publish"
         /\ db[r].history = <<>>
         /\ db'[r].history = Append(db[r].history, "queued")
         /\ NewRow(r)'.history = db'[r].history
         /\ \A q \in Runs \ {r} :
              db'[q] = db[q] /\ pc'[q] = pc[q] /\ call'[q] = call[q]
<1>1. TypeOK /\ TaskInv(r) /\ pc[r] = "none"
  BY DEF SingleInv, Submit
<1>2. db[r] = NoRow
  BY <1>1 DEF TaskInv
<1>3. /\ db'[r] = QueuedRow /\ pc'[r] = "publish" /\ call'[r] = NoCall
      /\ \A q \in Runs \ {r} :
           db'[q] = db[q] /\ pc'[q] = pc[q] /\ call'[q] = call[q]
  BY <1>1 DEF Submit, TypeOK
<1>4. NewRow(r)'.history = Append(<<>>, "queued")
  <2>1. NewRow(r)' = WithStatus(NoRow, "queued", "none", "none")
    BY <1>3 DEF NewRow, NoCall, SetStatus
  <2>2. NoRow.history = <<>>
    BY DEF NoRow
  <2> QED
    BY <2>1, <2>2 DEF WithStatus, AppendStatus
<1>5. <<"queued">> = Append(<<>>, "queued")
  OBVIOUS
<1> QED
  BY <1>1, <1>2, <1>3, <1>4, <1>5 DEF NoRow, QueuedRow

LEMMA WrittenHistory ==
  ASSUME SingleInv, NEW r \in Runs, WriteRow(r)
  PROVE  /\ pc[r] = "writing" /\ pc'[r] = "publish"
         /\ call[r].status \in Feed!Successors(db[r].history)
         /\ db'[r].history = Append(db[r].history, call[r].status)
         /\ NewRow(r)'.history = db'[r].history
         /\ \A q \in Runs \ {r} : db'[q] = db[q] /\ pc'[q] = pc[q]
         /\ call' = call
<1>1. /\ TypeOK /\ TaskInv(r) /\ pc[r] = "writing"
      /\ db[r] \in RunRow /\ call[r] \in Call
  BY DEF SingleInv, WriteRow, TypeOK
<1>2. Legal(db[r]) /\ Permitted(db[r], call[r]) /\ call[r].row = db[r]
  BY <1>1 DEF TaskInv
<1>3. Flush(db[r], call[r].row, NewRow(r)) = NewRow(r)
  BY <1>1, <1>2, NewRowType, FlushUndisturbed
<1>4. /\ db'[r] = NewRow(r) /\ pc'[r] = "publish" /\ call' = call
      /\ \A q \in Runs \ {r} : db'[q] = db[q] /\ pc'[q] = pc[q]
  BY <1>1, <1>3 DEF WriteRow, TypeOK
<1>5. /\ db[r].history \in {<<"queued">>, <<"queued", "analyzing">>}
      /\ call[r].status \in Feed!Successors(db[r].history)
  <2>1. CASE db[r].status = "queued"
    <3>1. db[r].history = <<"queued">>
      BY <1>2, <2>1 DEF Legal, NoRow
    <3>2. call[r].status \in {"analyzing", "failed"}
      BY <1>2, <2>1 DEF Permitted
    <3> QED
      BY <3>1, <3>2 DEF Feed!Successors
  <2>2. CASE db[r].status = "analyzing"
    <3>1. db[r].history = <<"queued", "analyzing">>
      BY <1>2, <2>2 DEF Legal, NoRow
    <3>2. call[r].status \in {"completed", "failed"}
      BY <1>2, <2>2 DEF Permitted
    <3> QED
      BY <3>1, <3>2 DEF Feed!Successors
  <2> QED
    BY <1>2, <2>1, <2>2 DEF Permitted, Interrupted
<1>6. AppendStatus(db[r].history, call[r].status) = Append(db[r].history, call[r].status)
  <2>1. CASE db[r].history = <<"queued">>
    <3>1. call[r].status # "queued"
      BY <1>5, <2>1 DEF Feed!Successors
    <3> QED
      BY <2>1, <3>1 DEF AppendStatus, LastOf
  <2>2. CASE db[r].history = <<"queued", "analyzing">>
    <3>1. call[r].status # "analyzing"
      BY <1>5, <2>2 DEF Feed!Successors
    <3>2. LastOf(<<"queued", "analyzing">>) = "analyzing"
      BY DEF LastOf
    <3> QED
      BY <2>2, <3>1, <3>2 DEF AppendStatus
  <2> QED
    BY <1>5, <2>1, <2>2
<1>7. NewRow(r).history = Append(db[r].history, call[r].status)
  BY <1>2, <1>6 DEF NewRow, WithStatus
<1>8. NewRow(r)' = NewRow(r)
  BY <1>4 DEF NewRow
<1> QED
  BY <1>1, <1>4, <1>5, <1>7, <1>8

LEMMA RecoveredHistory ==
  ASSUME SingleInv, NEW i \in Instances, Recover(i), NEW r \in Runs
  PROVE  IF Interrupted(db[r])
         THEN /\ "failed" \in Feed!Successors(db[r].history)
              /\ db'[r].history = Append(db[r].history, "failed")
         ELSE db'[r].history = db[r].history
<1>1. db[r] \in RunRow /\ Legal(db[r]) /\ snapshot[i] = db
  BY DEF SingleInv, TaskInv, ServerInv, TypeOK, Recover
<1>2. CASE Interrupted(db[r])
  <2>1. db'[r] = Recovered(db[r])
    BY <1>1, <1>2, RecoveredType, FlushUndisturbed DEF Recover
  <2>2. db'[r].history = AppendStatus(db[r].history, "failed")
    BY <1>1, <2>1 DEF Recovered, RunRow
  <2>3. db[r].history \in {<<"queued">>, <<"queued", "analyzing">>}
    <3>1. db[r] # NoRow /\ db[r].status \in {"queued", "analyzing"}
      BY <1>2 DEF Interrupted, NoRow
    <3> QED
      BY <1>1, <3>1 DEF Legal
  <2>4. LastOf(<<"queued">>) # "failed" /\ LastOf(<<"queued", "analyzing">>) # "failed"
    BY DEF LastOf
  <2>5. "failed" \in Feed!Successors(db[r].history)
    BY <2>3 DEF Feed!Successors
  <2> QED
    BY <1>2, <2>2, <2>3, <2>4, <2>5 DEF AppendStatus
<1>3. CASE ~Interrupted(db[r])
  BY <1>1, <1>3 DEF Recover
<1> QED
  BY <1>2, <1>3

LEMMA AppendExtends ==
  ASSUME NEW h \in Seq(RunStatus), NEW s \in RunStatus
  PROVE  IsPrefixOf(h, Append(h, s)) /\ Len(Append(h, s)) = Len(h) + 1
<1>1. /\ Len(h) \in Nat /\ Len(Append(h, s)) = Len(h) + 1
      /\ \A k \in 1..Len(h) : Append(h, s)[k] = h[k]
  BY AppendProperties, LenProperties
<1> QED
  BY <1>1 DEF IsPrefixOf

LEMMA PrefixTransitive ==
  ASSUME NEW f \in Seq(RunStatus), NEW g \in Seq(RunStatus), NEW h \in Seq(RunStatus),
         IsPrefixOf(f, g), IsPrefixOf(g, h)
  PROVE  IsPrefixOf(f, h)
<1>1. Len(f) \in Nat /\ Len(g) \in Nat /\ Len(h) \in Nat
  OBVIOUS
<1> QED
  BY <1>1 DEF IsPrefixOf

-----------------------------------------------------------------------------
(***************************************************************************)
(* A client keeps its invariant while nobody touches its stream, wire and  *)
(* page, its run's history only grows, and the bus has told it all but     *)
(* what is still to be handed out.                                         *)
(***************************************************************************)
LEMMA ClientKept ==
  ASSUME TypeOK, TypeOK', EventsTypeOK, NEW c \in Clients, ClientInv(c),
         stream'[c] = stream[c], wire'[c] = wire[c], page'[c] = page[c],
         IsPrefixOf(History(c), History(c)'),
         Subscribed(c) => Told(c)' = Told(c),
         stream[c].pc # "off" => server'[stream[c].at] = "serving"
  PROVE  ClientInv(c)'
<1>1. /\ History(c) \in Seq(RunStatus) /\ History(c)' \in Seq(RunStatus)
      /\ stream[c].row.history \in Seq(RunStatus)
      /\ stream[c].queue \in Seq(RunEvent) /\ wire[c] \in Seq(RunEvent)
  BY EventsAssumption DEF History, TypeOK, EventsTypeOK, Stream, RunRow
<1>2. ConnectionInv(c)'
  BY DEF ClientInv, ConnectionInv
<1>3. RowInv(c)'
  BY <1>1, PrefixTransitive DEF ClientInv, RowInv
<1>4. QueueInv(c)'
  BY <1>1, ExcerptGrows DEF ClientInv, QueueInv, Subscribed
<1>5. WireInv(c)'
  BY <1>1, ExcerptGrows DEF ClientInv, WireInv
<1>6. PageInv(c)'
  <2>1. History(c) # <<>> => History(c)' # <<>>
    BY <1>1, EmptySeq, LenProperties DEF IsPrefixOf
  <2> QED
    BY <2>1 DEF ClientInv, PageInv
<1> QED
  BY <1>2, <1>3, <1>4, <1>5, <1>6 DEF ClientInv

LEMMA SamePrefix ==
  ASSUME NEW h \in Seq(RunStatus)
  PROVE  IsPrefixOf(h, h)
<1>1. Len(h) \in Nat
  OBVIOUS
<1> QED
  BY <1>1 DEF IsPrefixOf

(* The steps of other clients, and of the bus about other clients. *)
LEMMA OtherClientKept ==
  ASSUME TypeOK, EventsTypeOK, NEW c \in Clients, ClientInv(c),
         UNCHANGED <<db, server>>,
         stream'[c] = stream[c], wire'[c] = wire[c], page'[c] = page[c],
         Subscribed(c) => (Pending(c)' <=> Pending(c))
  PROVE  ClientInv(c)'
<1>2. Subscribed(c) => Told(c)' = Told(c)
  BY DEF Told, History
<1>3. stream[c].pc # "off" => server'[stream[c].at] = "serving"
  BY DEF ClientInv, ConnectionInv
<1>4. History(c)' = History(c)
  BY DEF History
<1>5. /\ ConnectionInv(c)' /\ PageInv(c)'
  BY <1>4 DEF ClientInv, ConnectionInv, PageInv
<1>6. RowInv(c)' /\ WireInv(c)'
  BY <1>4 DEF ClientInv, RowInv, WireInv
<1>7. QueueInv(c)'
  BY <1>2, <1>4 DEF ClientInv, QueueInv, Subscribed
<1> QED
  BY <1>5, <1>6, <1>7 DEF ClientInv

-----------------------------------------------------------------------------
(***************************************************************************)
(* Steps of RunLifecycle that leave bus, streams and clients alone: a run  *)
(* is kept, or its history grows and is to be published, or it is settled  *)
(* by a recovery, when nobody is connected.                                *)
(***************************************************************************)
Kept(r) ==
  /\ db'[r].history = db[r].history
  /\ pc'[r] = "publish" <=> pc[r] = "publish"
  /\ pc[r] = "publish" => call'[r] = call[r]

Grown(r) ==
  /\ pc[r] # "publish" /\ pc'[r] = "publish"
  /\ \E s \in RunStatus : db'[r].history = Append(db[r].history, s)
  /\ NewRow(r)'.history = db'[r].history

Settled(r) ==
  /\ pc[r] # "publish" /\ pc'[r] # "publish"
  /\ IsPrefixOf(db[r].history, db'[r].history)
  /\ \A c \in Clients : stream[c].pc = "off"

QuietNext ==
  \/ \E i \in Instances : ServerStep(i)
  \/ \E i \in Instances, r \in Runs : Submit(i, r)
  \/ \E r \in Runs : \/ BeginAnalysis(r) \/ FinishAnalysis(r) \/ RaiseInAnalysis(r)
                     \/ ReadRow(r) \/ WriteRow(r) \/ StoreFault(r)
  \/ UNCHANGED vars

(* A call that begins leaves the histories, and what is being published. *)
LEMMA CallKeepsRuns ==
  ASSUME TypeOK, NEW q \in Runs, pc[q] # "publish", db' = db,
         pc'[q] # "publish", \A p \in Runs \ {q} : pc'[p] = pc[p] /\ call'[p] = call[p],
         NEW r \in Runs
  PROVE  Kept(r)
BY DEF Kept

LEMMA QuietRun ==
  ASSUME SingleInstance, SingleInv, EventsInv, QuietNext, NEW r \in Runs
  PROVE  Kept(r) \/ Grown(r) \/ Settled(r)
<1>1. TypeOK
  BY DEF SingleInv
<1>2. ASSUME NEW i \in Instances, Start(i) PROVE Kept(r)
  BY <1>2 DEF Start, Kept, taskVars
<1>3. ASSUME NEW i \in Instances, Recover(i) PROVE Settled(r)
  <2>1. pc[r] \in Ended /\ pc' = pc
    BY <1>3 DEF Recover, SingleInv, ServerInv, taskVars
  <2>2. IsPrefixOf(db[r].history, db'[r].history)
    BY <1>1, <1>3, RecoveredHistory, RowHistory, AppendExtends, SamePrefix DEF RunStatus
  <2>3. \A c \in Clients : stream[c].pc = "off"
    <3>1. \A j \in Instances : server[j] # "serving"
      BY <1>3 DEF Recover, SingleInstance
    <3> QED
      BY <3>1 DEF EventsInv, ClientInv, ConnectionInv, EventsTypeOK, Stream
  <2> QED
    BY <2>1, <2>2, <2>3 DEF Settled, Ended
<1>4. ASSUME NEW i \in Instances, NEW q \in Runs, Submit(i, q) PROVE Kept(r) \/ Grown(r)
  <2>1. CASE q = r
    BY <1>4, <2>1, SubmittedHistory DEF Grown, RunStatus
  <2>2. CASE q # r
    BY <1>4, <2>2, SubmittedHistory DEF Kept
  <2> QED
    BY <2>1, <2>2
<1>5. ASSUME NEW q \in Runs, WriteRow(q) PROVE Kept(r) \/ Grown(r)
  <2>1. CASE q = r
    <3>1. call[r].status \in RunStatus
      BY <1>1 DEF TypeOK, Call
    <3> QED
      BY <1>5, <2>1, <3>1, WrittenHistory DEF Grown
  <2>2. CASE q # r
    BY <1>5, <2>2, WrittenHistory DEF Kept
  <2> QED
    BY <2>1, <2>2
<1>6. ASSUME NEW q \in Runs, NEW s, NEW e, NEW p, CallSetStatus(q, s, e, p),
             pc[q] # "publish", db' = db
      PROVE  Kept(r)
  BY <1>1, <1>6, CallKeepsRuns DEF CallSetStatus, TypeOK
<1>7. ASSUME NEW q \in Runs,
             BeginAnalysis(q) \/ FinishAnalysis(q) \/ RaiseInAnalysis(q)
      PROVE  Kept(r)
  BY <1>6, <1>7 DEF BeginAnalysis, FinishAnalysis, RaiseInAnalysis
<1>8. ASSUME NEW q \in Runs, ReadRow(q) PROVE Kept(r)
  BY <1>1, <1>8, CallKeepsRuns DEF ReadRow, TypeOK
<1>9. ASSUME NEW q \in Runs, StoreFault(q) PROVE Kept(r)
  <2>1. CASE call[q].status = "failed"
    BY <1>1, <1>9, <2>1, CallKeepsRuns DEF StoreFault, TypeOK
  <2>2. CASE call[q].status # "failed"
    BY <1>6, <1>9, <2>2 DEF StoreFault
  <2> QED
    BY <2>1, <2>2
<1>10. CASE UNCHANGED vars
  BY <1>10 DEF vars, Kept
<1> QED
  BY <1>2, <1>3, <1>4, <1>5, <1>7, <1>8, <1>9, <1>10 DEF QuietNext, ServerStep

LEMMA QuietServers ==
  ASSUME TypeOK, QuietNext, NEW i \in Instances, server[i] = "serving"
  PROVE  server'[i] = "serving"
BY DEF QuietNext, ServerStep, Start, Recover, Submit, BeginAnalysis, FinishAnalysis,
       RaiseInAnalysis, ReadRow, WriteRow, StoreFault, serverVars, vars, TypeOK

LEMMA QuietStepKeeps ==
  ASSUME SingleInstance, SingleInv, SingleInv', EventsInv, EventsTypeOK',
         QuietNext, UNCHANGED streamVars
  PROVE  EventsInv'
<1>1. TypeOK /\ TypeOK' /\ EventsTypeOK
  BY DEF SingleInv, EventsInv
<1>2. /\ stream' = stream /\ wire' = wire /\ handout' = handout /\ page' = page
  BY DEF streamVars
<1>3. ASSUME NEW r \in Runs PROVE HandoutInv(r)'
  <2>1. HandoutInv(r)
    BY DEF EventsInv
  <2>2. CASE Kept(r)
    <3>1. pc[r] = "publish" => NewRow(r)' = NewRow(r)
      BY <2>2 DEF Kept, NewRow
    <3> QED
      BY <1>2, <2>1, <2>2, <3>1 DEF Kept, HandoutInv
  <2>3. CASE Grown(r)
    BY <1>2, <2>1, <2>3 DEF Grown, HandoutInv
  <2>4. CASE Settled(r)
    BY <1>2, <2>1, <2>4 DEF Settled, HandoutInv
  <2> QED
    BY <2>2, <2>3, <2>4, QuietRun
<1>4. ASSUME NEW c \in Clients PROVE ClientInv(c)'
  <2> DEFINE r == Watched[c]
  <2>1. r \in Runs /\ ClientInv(c) /\ HandoutInv(r)
    BY EventsAssumption DEF EventsInv
  <2>2. /\ db[r].history \in Seq(RunStatus) /\ db'[r].history \in Seq(RunStatus)
        /\ Len(db[r].history) \in Nat
    BY <1>1, <2>1, RowHistory DEF TypeOK, RunRow
  <2>3. stream[c].pc # "off" => server'[stream[c].at] = "serving"
    BY <1>1, <2>1, QuietServers DEF ClientInv, ConnectionInv, EventsTypeOK, Stream
  <2> HIDE DEF r
  <2>4. CASE Kept(r)
    <3>1. History(c)' = History(c) /\ (Pending(c)' <=> Pending(c))
      BY <1>2, <2>4 DEF Kept, History, Pending, r
    <3>2. IsPrefixOf(History(c), History(c)') /\ Told(c)' = Told(c)
      BY <2>2, <3>1, SamePrefix DEF Told, History, r
    <3> QED
      BY <1>1, <1>2, <2>1, <2>3, <3>2, ClientKept
  <2>5. CASE Grown(r)
    <3>1. PICK s \in RunStatus : db'[r].history = Append(db[r].history, s)
      BY <2>5 DEF Grown
    <3>2. /\ IsPrefixOf(db[r].history, db'[r].history)
          /\ Len(db'[r].history) = Len(db[r].history) + 1
      BY <2>2, <3>1, AppendExtends
    <3>3. ~ Pending(c) /\ Pending(c)'
      BY <1>2, <2>1, <2>5 DEF Grown, Pending, HandoutInv, r
    <3>4. IsPrefixOf(History(c), History(c)') /\ Told(c)' = Told(c)
      BY <2>2, <3>2, <3>3 DEF Told, History, r
    <3> QED
      BY <1>1, <1>2, <2>1, <2>3, <3>4, ClientKept
  <2>6. CASE Settled(r)
    <3>1. IsPrefixOf(History(c), History(c)') /\ ~ Subscribed(c)
      BY <2>6 DEF Settled, History, Subscribed, r
    <3> QED
      BY <1>1, <1>2, <2>1, <2>3, <3>1, ClientKept
  <2> QED
    BY <2>1, <2>4, <2>5, <2>6, QuietRun
<1> QED
  BY <1>3, <1>4 DEF EventsInv

-----------------------------------------------------------------------------
(***************************************************************************)
(* The bus.                                                                *)
(***************************************************************************)

(* An event that is handed out is the last status of the stored history. *)
LEMMA PendingIsLast ==
  ASSUME SingleInv, EventsInv, NEW r \in Runs, pc[r] = "publish"
  PROVE  /\ PendingEvent(r) \in RunEvent
         /\ TrueOf(PendingEvent(r), db[r].history)
         /\ PendingEvent(r).sequence = Len(db[r].history)
<1>1. /\ TypeOK /\ NewRow(r).history = db[r].history
      /\ Legal(db[r]) /\ db[r] # NoRow /\ db[r].status = call[r].status
  BY DEF SingleInv, TaskInv, EventsInv, HandoutInv
<1>2. /\ PendingEvent(r) \in RunEvent
      /\ PendingEvent(r).sequence = Len(db[r].history)
      /\ PendingEvent(r).status = db[r].status
  BY <1>1, PendingEventType
<1>3. /\ db[r].history \in Seq(RunStatus) /\ db[r].history # <<>>
      /\ db[r].history[Len(db[r].history)] = db[r].status
  <2>1. db[r].history \in Seq(RunStatus)
    BY <1>1, RowHistory
  <2>2. \/ db[r].history = <<"queued">> /\ db[r].status = "queued"
        \/ db[r].history = <<"queued", "analyzing">> /\ db[r].status = "analyzing"
        \/ /\ db[r].history = <<"queued", "analyzing", "completed">>
           /\ db[r].status = "completed"
        \/ /\ db[r].history \in {<<"queued", "failed">>, <<"queued", "analyzing", "failed">>}
           /\ db[r].status = "failed"
    BY <1>1 DEF Legal
  <2>3. ASSUME NEW h \in {<<"queued">>, <<"queued", "analyzing">>, <<"queued", "failed">>,
                          <<"queued", "analyzing", "completed">>,
                          <<"queued", "analyzing", "failed">>}
        PROVE  h # <<>> /\ Len(h) \in {1, 2, 3}
    BY <2>3
  <2>4. db[r].history # <<>>
    BY <2>2, <2>3
  <2>5. db[r].history[Len(db[r].history)] = db[r].status
    <3>1. ASSUME NEW a, NEW b, NEW c
          PROVE  /\ <<a>>[Len(<<a>>)] = a
                 /\ <<a, b>>[Len(<<a, b>>)] = b
                 /\ <<a, b, c>>[Len(<<a, b, c>>)] = c
      <4>1. Len(<<a>>) = 1 /\ Len(<<a, b>>) = 2 /\ Len(<<a, b, c>>) = 3
        OBVIOUS
      <4> QED
        BY <4>1
    <3> DEFINE IsLast(h, s) == h[Len(h)] = s
    <3>2. /\ IsLast(<<"queued">>, "queued")
          /\ IsLast(<<"queued", "analyzing">>, "analyzing")
          /\ IsLast(<<"queued", "analyzing", "completed">>, "completed")
          /\ IsLast(<<"queued", "failed">>, "failed")
          /\ IsLast(<<"queued", "analyzing", "failed">>, "failed")
      BY <3>1
    <3> HIDE DEF IsLast
    <3>3. IsLast(db[r].history, db[r].status)
      BY <2>2, <3>2
    <3> QED
      BY <3>3 DEF IsLast
  <2> QED
    BY <2>1, <2>4, <2>5
<1>4. Len(db[r].history) \in Nat \ {0}
  BY <1>3, EmptySeq
<1>5. Len(db[r].history) \in 1..Len(db[r].history)
  BY <1>4
<1> QED
  BY <1>2, <1>3, <1>5 DEF TrueOf

LEMMA ListSubscribersKeeps ==
  ASSUME SingleInstance, SingleInv, EventsInv, NEW r \in Runs, ListSubscribers(r)
  PROVE  /\ \A q \in Runs : HandoutInv(q)'
         /\ \A c \in Clients : ClientInv(c)'
<1>1. TypeOK /\ EventsTypeOK
  BY DEF SingleInv, EventsInv
<1>2. /\ UNCHANGED <<db, server, pc, call, stream, wire, page>>
      /\ handout'[r] = [busy |-> TRUE, to |-> Subscribers(home[r], r)]
      /\ \A q \in Runs \ {r} : handout'[q] = handout[q]
      /\ pc[r] = "publish" /\ ~handout[r].busy
  BY <1>1 DEF ListSubscribers, vars, EventsTypeOK
<1>3. ASSUME NEW q \in Runs PROVE HandoutInv(q)'
  <2>1. HandoutInv(q) /\ NewRow(q)' = NewRow(q)
    BY <1>2 DEF EventsInv, NewRow
  <2>2. CASE q = r
    BY <1>2, <2>1, <2>2 DEF HandoutInv, Subscribers, Subscribed
  <2>3. CASE q # r
    BY <1>2, <2>1, <2>3 DEF HandoutInv
  <2> QED
    BY <2>2, <2>3
<1>4. ASSUME NEW c \in Clients PROVE ClientInv(c)'
  <2>1. ClientInv(c) /\ Watched[c] \in Runs
    BY EventsAssumption DEF EventsInv
  <2>2. ASSUME Subscribed(c) PROVE Pending(c)' <=> Pending(c)
    <3>1. CASE Watched[c] = r
      <4>1. stream[c].at = home[r]
        BY <1>1 DEF SingleInstance, TypeOK, EventsTypeOK, Stream
      <4> QED
        BY <1>2, <2>2, <3>1, <4>1 DEF Pending, Subscribers
    <3>2. CASE Watched[c] # r
      BY <1>2, <2>1, <3>2 DEF Pending
    <3> QED
      BY <3>1, <3>2
  <2> QED
    BY <1>1, <1>2, <2>1, <2>2, OtherClientKept
<1> QED
  BY <1>3, <1>4

LEMMA PutEventKeeps ==
  ASSUME SingleInv, EventsInv, NEW r \in Runs, NEW c \in Clients, PutEvent(r, c)
  PROVE  /\ \A q \in Runs : HandoutInv(q)'
         /\ \A d \in Clients : ClientInv(d)'
<1>1. TypeOK /\ EventsTypeOK /\ HandoutInv(r) /\ ClientInv(c)
  BY DEF SingleInv, EventsInv
<1>2. /\ UNCHANGED <<db, server, pc, call, wire, page>>
      /\ handout'[r].busy = handout[r].busy /\ handout'[r].to = handout[r].to \ {c}
      /\ \A q \in Runs \ {r} : handout'[q] = handout[q]
      /\ handout[r].busy /\ c \in handout[r].to /\ pc[r] = "publish"
      /\ Watched[c] = r /\ stream[c].pc \in {"rereading", "live", "ended"}
      /\ \A d \in Clients \ {c} : stream'[d] = stream[d]
      /\ stream'[c] = [stream[c] EXCEPT !.queue = Append(stream[c].queue, PendingEvent(r))]
  BY <1>1 DEF PutEvent, vars, EventsTypeOK, Handout, HandoutInv
<1>3. /\ stream'[c].queue = Append(stream[c].queue, PendingEvent(r))
      /\ stream'[c].pc = stream[c].pc /\ stream'[c].at = stream[c].at
      /\ stream'[c].row = stream[c].row /\ stream'[c].sent = stream[c].sent
      /\ stream[c].queue \in Seq(RunEvent) /\ stream[c].sent \in Nat
  BY <1>1, <1>2 DEF EventsTypeOK, Stream
<1>4. ASSUME NEW q \in Runs PROVE HandoutInv(q)'
  <2>1. HandoutInv(q) /\ NewRow(q)' = NewRow(q)
    BY <1>2 DEF EventsInv, NewRow
  <2>2. \A d \in Clients : stream'[d].pc = stream[d].pc
    BY <1>2, <1>3
  <2>3. handout'[q].busy = handout[q].busy /\ handout'[q].to \subseteq handout[q].to
    BY <1>2
  <2>4. handout[q].to \subseteq Clients
    BY <1>1 DEF EventsTypeOK, Handout
  <2> QED
    BY <1>2, <2>1, <2>2, <2>3, <2>4 DEF HandoutInv
<1>5. ASSUME NEW d \in Clients, d # c PROVE ClientInv(d)'
  <2>1. ClientInv(d) /\ Watched[d] \in Runs
    BY EventsAssumption DEF EventsInv
  <2>2. Pending(d)' <=> Pending(d)
    BY <1>2, <1>5, <2>1 DEF Pending
  <2> QED
    BY <1>1, <1>2, <1>5, <2>1, <2>2, OtherClientKept
<1>6. ClientInv(c)'
  <2> DEFINE h == db[r].history
             e == PendingEvent(r)
  <2>1. /\ h \in Seq(RunStatus) /\ Len(h) \in Nat /\ e \in RunEvent
        /\ TrueOf(e, h) /\ e.sequence = Len(h)
    BY <1>1, <1>2, RowHistory, PendingIsLast
  <2>2. History(c) = h /\ History(c)' = h
    BY <1>2 DEF History
  <2> HIDE DEF h, e
  <2>3. Told(c) = Len(h) - 1 /\ Told(c)' = Len(h)
    <3>1. Pending(c) /\ ~ Pending(c)'
      BY <1>2 DEF Pending
    <3> QED
      BY <2>1, <2>2, <3>1 DEF Told
  <2>4. ConnectionInv(c)' /\ RowInv(c)' /\ WireInv(c)' /\ PageInv(c)'
    BY <1>1, <1>2, <1>3, <2>2
       DEF ClientInv, ConnectionInv, RowInv, WireInv, PageInv
  <2>5. QueueInv(c)'
    <3>1. CASE ~ Subscribed(c)
      BY <1>2, <1>3, <3>1 DEF QueueInv, Subscribed
    <3>2. CASE Subscribed(c)
      <4> DEFINE s == stream[c].queue
                 t == Append(s, e)
      <4>1. /\ Excerpt(s, h)
            /\ s # <<>> => s[Len(s)].sequence = Len(h) - 1
            /\ stream[c].pc = "live" =>
                 IF s = <<>> THEN stream[c].sent >= Len(h) - 1
                 ELSE s[1].sequence <= stream[c].sent + 1
        BY <1>1, <2>2, <2>3, <3>2 DEF ClientInv, QueueInv
      <4>2. stream'[c].queue = t /\ s \in Seq(RunEvent)
        BY <1>3 DEF e
      <4> HIDE DEF s
      <4>3. /\ t # <<>> /\ Excerpt(t, h) /\ t[Len(t)] = e
            /\ t[1] = IF s = <<>> THEN e ELSE s[1]
        <5>1. s # <<>> => s[Len(s)].sequence + 1 = e.sequence
          BY <2>1, <4>1
        <5> QED
          BY <2>1, <4>1, <4>2, <5>1, ExcerptAppend
      <4> HIDE DEF t
      <4>4. stream[c].pc = "live" => t[1].sequence <= stream[c].sent + 1
        BY <1>3, <2>1, <4>1, <4>3
      <4>5. stream'[c].queue[Len(stream'[c].queue)].sequence = Told(c)'
        BY <2>1, <2>3, <4>2, <4>3
      <4> QED
        BY <1>2, <1>3, <2>2, <4>2, <4>3, <4>4, <4>5 DEF QueueInv, Subscribed
    <3> QED
      BY <3>1, <3>2
  <2> QED
    BY <2>4, <2>5 DEF ClientInv
<1> QED
  BY <1>4, <1>5, <1>6

LEMMA EndPublishKeeps ==
  ASSUME SingleInv, EventsInv, NEW r \in Runs, EndPublish(r)
  PROVE  /\ \A q \in Runs : HandoutInv(q)'
         /\ \A c \in Clients : ClientInv(c)'
<1>1. TypeOK /\ EventsTypeOK
  BY DEF SingleInv, EventsInv
<1>2. /\ UNCHANGED <<db, server, call, stream, wire, page>>
      /\ handout[r].busy /\ handout[r].to = {}
      /\ ~ handout'[r].busy /\ handout'[r].to = {}
      /\ pc'[r] # "publish"
      /\ \A q \in Runs \ {r} : handout'[q] = handout[q] /\ pc'[q] = pc[q]
  BY <1>1 DEF EndPublish, Publish, EventsTypeOK, Handout, TypeOK, serverVars
<1>3. ASSUME NEW q \in Runs PROVE HandoutInv(q)'
  <2>1. HandoutInv(q) /\ NewRow(q)' = NewRow(q)
    BY <1>2 DEF EventsInv, NewRow
  <2>2. CASE q = r
    BY <1>2, <2>1, <2>2 DEF HandoutInv
  <2>3. CASE q # r
    BY <1>2, <2>1, <2>3 DEF HandoutInv
  <2> QED
    BY <2>2, <2>3
<1>4. ASSUME NEW c \in Clients PROVE ClientInv(c)'
  <2>1. ClientInv(c) /\ Watched[c] \in Runs
    BY EventsAssumption DEF EventsInv
  <2>2. Pending(c)' <=> Pending(c)
    BY <1>2, <2>1 DEF Pending
  <2> QED
    BY <1>1, <1>2, <2>1, <2>2, OtherClientKept
<1> QED
  BY <1>3, <1>4

-----------------------------------------------------------------------------
(***************************************************************************)
(* Steps of one client or its stream.                                      *)
(***************************************************************************)

(* What is to be shown of client c's step is about c alone. *)
LEMMA OneClientStep ==
  ASSUME SingleInv, EventsInv, NEW c \in Clients,
         UNCHANGED <<db, server, pc, call>>,
         \A d \in Clients \ {c} :
           stream'[d] = stream[d] /\ wire'[d] = wire[d] /\ page'[d] = page[d],
         \A r \in Runs : /\ handout'[r].busy = handout[r].busy
                         /\ handout'[r].to \ {c} = handout[r].to \ {c}
                         /\ handout'[r].to \subseteq handout[r].to
                         /\ c \in handout'[r].to =>
                              stream'[c].pc \in {"rereading", "live", "ended"},
         ClientInv(c)'
  PROVE  /\ \A r \in Runs : HandoutInv(r)'
         /\ \A d \in Clients : ClientInv(d)'
<1>1. TypeOK /\ EventsTypeOK
  BY DEF SingleInv, EventsInv
<1>2. ASSUME NEW r \in Runs PROVE HandoutInv(r)'
  <2>1. HandoutInv(r) /\ NewRow(r)' = NewRow(r) /\ handout[r].to \subseteq Clients
    BY <1>1 DEF EventsInv, NewRow, EventsTypeOK, Handout
  <2>2. ASSUME NEW d \in handout'[r].to
        PROVE  Watched[d] = r /\ stream'[d].pc \in {"rereading", "live", "ended"}
    BY <2>1 DEF HandoutInv
  <2> QED
    BY <2>1, <2>2 DEF HandoutInv
<1>3. ASSUME NEW d \in Clients, d # c PROVE ClientInv(d)'
  <2>1. ClientInv(d) /\ Watched[d] \in Runs
    BY EventsAssumption DEF EventsInv
  <2>2. Pending(d)' <=> Pending(d)
    BY <1>3, <2>1 DEF Pending
  <2> QED
    BY <1>1, <1>3, <2>1, <2>2, OtherClientKept
<1> QED
  BY <1>2, <1>3

(* A step that leaves the bus alone and c's stream subscribed if it was. *)
LEMMA OneStreamStep ==
  ASSUME SingleInv, EventsInv, NEW c \in Clients,
         UNCHANGED <<db, server, pc, call, handout>>,
         \A d \in Clients \ {c} :
           stream'[d] = stream[d] /\ wire'[d] = wire[d] /\ page'[d] = page[d],
         stream[c].pc \in {"rereading", "live", "ended"} =>
           stream'[c].pc \in {"rereading", "live", "ended"},
         ClientInv(c)'
  PROVE  /\ \A r \in Runs : HandoutInv(r)'
         /\ \A d \in Clients : ClientInv(d)'
<1>1. ASSUME NEW r \in Runs, c \in handout[r].to
      PROVE  stream'[c].pc \in {"rereading", "live", "ended"}
  BY <1>1 DEF EventsInv, HandoutInv
<1> QED
  BY <1>1, OneClientStep

(* The facts about the client of a step. *)
LEMMA ClientFacts ==
  ASSUME SingleInv, EventsInv, NEW c \in Clients
  PROVE  /\ TypeOK /\ EventsTypeOK /\ ClientInv(c) /\ Watched[c] \in Runs
         /\ History(c) \in Seq(RunStatus) /\ Len(History(c)) \in Nat
         /\ Told(c) \in Int /\ Told(c) <= Len(History(c))
         /\ stream[c] \in Stream /\ stream[c].sent \in Nat
         /\ stream[c].queue \in Seq(RunEvent)
         /\ stream[c].row \in RunRow
         /\ stream[c].row.history \in Seq(RunStatus)
         /\ Len(stream[c].row.history) \in Nat
         /\ wire[c] \in Seq(RunEvent)
         /\ page[c] \in Page /\ page[c].last \in Nat
         /\ page[c].heard \in Seq(RunStatus)
<1>1. TypeOK /\ EventsTypeOK /\ ClientInv(c) /\ Watched[c] \in Runs
  BY EventsAssumption DEF SingleInv, EventsInv
<1>2. /\ History(c) \in Seq(RunStatus) /\ Len(History(c)) \in Nat
      /\ stream[c] \in Stream /\ page[c] \in Page /\ wire[c] \in Seq(RunEvent)
  BY <1>1, RowHistory DEF EventsTypeOK, History
<1>3. /\ stream[c].row \in RunRow /\ stream[c].sent \in Nat
      /\ stream[c].queue \in Seq(RunEvent)
      /\ page[c].last \in Nat /\ page[c].heard \in Seq(RunStatus)
  BY <1>2 DEF Stream, Page
<1>4. /\ stream[c].row.history \in Seq(RunStatus)
      /\ Len(stream[c].row.history) \in Nat
  BY <1>3 DEF RunRow
<1>5. Told(c) \in Int /\ Told(c) <= Len(History(c))
  BY <1>2 DEF Told
<1> QED
  BY <1>1, <1>2, <1>3, <1>4, <1>5

(***************************************************************************)
(* A row read from the database, or a prefix of it, is sent: the wire goes *)
(* on where it ended, and everything up to the end of the row is sent.     *)
(***************************************************************************)
LEMMA SendRowKeeps ==
  ASSUME SingleInv, EventsInv, NEW c \in Clients, NEW row \in RunRow,
         NEW next \in StreamState, SendRow(c, row, next),
         IsPrefixOf(row.history, History(c)),
         page[c].state = "open",
         UNCHANGED <<db, page>>
  PROVE  /\ WireInv(c)'
         /\ stream'[c].sent \in Nat
         /\ stream'[c].sent >= Len(row.history)
         /\ stream'[c].pc = next /\ stream'[c].row = row
         /\ stream'[c].at = stream[c].at /\ stream'[c].queue = stream[c].queue
         /\ \A d \in Clients \ {c} : stream'[d] = stream[d] /\ wire'[d] = wire[d]
<1> DEFINE rest == EventsAfter(ReplayEvents(row), stream[c].sent)
           n == Len(row.history)
           sent == stream[c].sent
           h == History(c)
<1>1. /\ TypeOK /\ EventsTypeOK /\ ClientInv(c) /\ h \in Seq(RunStatus) /\ Len(h) \in Nat
      /\ sent \in Nat /\ wire[c] \in Seq(RunEvent) /\ page[c].last \in Nat
  BY ClientFacts
<1>2. /\ n \in Nat /\ rest \in Seq(RunEvent)
      /\ Len(rest) = IF sent < n THEN n - sent ELSE 0
      /\ \A k \in 1..Len(rest) : /\ rest[k].sequence = sent + k
                                 /\ rest[k].status = row.history[sent + k]
  BY <1>1, AfterIsTheRest
<1>3. /\ wire' = [wire EXCEPT ![c] = wire[c] \o rest]
      /\ stream'[c] = [pc |-> next, at |-> stream[c].at, row |-> row,
                       sent |-> IF sent < n THEN n ELSE sent,
                       queue |-> stream[c].queue]
      /\ \A d \in Clients \ {c} : stream'[d] = stream[d]
  BY <1>1, SentRow
<1>4. /\ wire'[c] = wire[c] \o rest
      /\ \A d \in Clients \ {c} : wire'[d] = wire[d]
  BY <1>1, <1>3 DEF EventsTypeOK
<1>5. History(c)' = h /\ page' = page
  BY DEF History
<1>6. /\ Excerpt(wire[c], h)
      /\ IF wire[c] = <<>> THEN sent <= page[c].last
         ELSE /\ wire[c][Len(wire[c])].sequence = sent
              /\ wire[c][1].sequence <= page[c].last + 1
  BY <1>1 DEF ClientInv, WireInv
<1>7. stream'[c].sent = IF sent < n THEN n ELSE sent
  BY <1>3
<1> HIDE DEF rest, n, h, sent
<1>9. ASSUME NEW k \in 1..Len(rest)
      PROVE  rest[k].sequence = sent + k /\ rest[k].status = row.history[sent + k]
  BY <1>2
<1>8. WireInv(c)'
  <2>1. CASE rest = <<>>
    <3>1. ~ (sent < n) /\ wire'[c] = wire[c]
      BY <1>1, <1>2, <1>4, <2>1, ConcatEmptySeq
    <3>2. stream'[c].sent = sent
      BY <1>7, <3>1
    <3> QED
      BY <1>5, <1>6, <3>1, <3>2 DEF WireInv
  <2>2. CASE rest # <<>>
    <3>1. /\ Len(rest) \in Nat \ {0} /\ sent < n /\ Len(rest) = n - sent
          /\ 1 \in 1..Len(rest) /\ Len(rest) \in 1..Len(rest)
      <4>1. Len(rest) \in Nat \ {0}
        BY <1>2, <2>2, EmptySeq
      <4>2. sent < n
        BY <1>1, <1>2, <4>1
      <4>3. Len(rest) = n - sent
        BY <1>2, <4>2
      <4> QED
        BY <4>1, <4>2, <4>3
    <3>2. rest[1].sequence = sent + 1 /\ rest[Len(rest)].sequence = n
      <4>1. rest[1].sequence = sent + 1 /\ rest[Len(rest)].sequence = sent + Len(rest)
        BY <1>9, <3>1
      <4>2. sent + Len(rest) = n
        BY <1>1, <1>2, <3>1
      <4> QED
        BY <4>1, <4>2
    <3>3. Consecutive(rest)
      BY <1>1, <1>9, <3>1, <3>2 DEF Consecutive
    <3>4. ASSUME NEW k \in 1..Len(rest) PROVE TrueOf(rest[k], h)
      <4>1. /\ rest[k].sequence = sent + k /\ rest[k].status = row.history[sent + k]
            /\ sent + k \in 1..n
        <5>1. sent + k \in 1..n
          BY <1>1, <1>2, <3>1
        <5> QED
          BY <1>9, <5>1
      <4>2. n <= Len(h) /\ \A i \in 1..n : row.history[i] = h[i]
        BY DEF IsPrefixOf, n, h
      <4> QED
        BY <1>1, <1>2, <4>1, <4>2 DEF TrueOf
    <3>5. Excerpt(rest, h)
      BY <3>3, <3>4 DEF Excerpt
    <3>6. wire[c] # <<>> => wire[c][Len(wire[c])].sequence + 1 = rest[1].sequence
      BY <1>6, <3>2
    <3>7. /\ wire'[c] # <<>> /\ Excerpt(wire'[c], h)
          /\ wire'[c][Len(wire'[c])] = rest[Len(rest)]
          /\ wire'[c][1] = IF wire[c] = <<>> THEN rest[1] ELSE wire[c][1]
      <4>1. h \in Seq(RunStatus) /\ wire[c] \in Seq(RunEvent) /\ rest \in Seq(RunEvent)
        BY <1>1, <1>2
      <4>2. Excerpt(wire[c], h)
        BY <1>6
      <4> QED
        BY <1>4, <2>2, <3>5, <3>6, <4>1, <4>2, ExcerptConcat
    <3>8. wire'[c][1].sequence <= page[c].last + 1
      BY <1>1, <1>6, <3>2, <3>7
    <3>9. wire'[c][Len(wire'[c])].sequence = stream'[c].sent
      BY <1>7, <3>1, <3>2, <3>7
    <3> QED
      BY <1>5, <3>7, <3>8, <3>9 DEF WireInv
  <2> QED
    BY <2>1, <2>2
<1> QED
  BY <1>1, <1>2, <1>3, <1>4, <1>7, <1>8 DEF n, sent

LEMMA ReplayKeeps ==
  ASSUME SingleInv, EventsInv, NEW c \in Clients, Replay(c)
  PROVE  /\ \A r \in Runs : HandoutInv(r)'
         /\ \A d \in Clients : ClientInv(d)'
<1> DEFINE next == IF IsTerminal(stream[c].row) THEN "ended" ELSE "subscribing"
<1>1. /\ UNCHANGED <<db, server, pc, call, handout, page>>
      /\ stream[c].pc = "replay" /\ SendRow(c, stream[c].row, next)
  BY DEF Replay, vars
<1>2. ClientInv(c) /\ page[c].state = "open" /\ stream[c].row \in RunRow
  BY <1>1, ClientFacts DEF ClientInv, ConnectionInv
<1>3. /\ IsPrefixOf(stream[c].row.history, History(c))
      /\ stream[c].queue = <<>>
  BY <1>1, <1>2 DEF ClientInv, RowInv, QueueInv
<1>4. next \in StreamState /\ next \in {"ended", "subscribing"}
  BY DEF StreamState
<1> HIDE DEF next
<1>5. /\ WireInv(c)'
      /\ stream'[c].sent >= Len(stream[c].row.history)
      /\ stream'[c].pc = next /\ stream'[c].row = stream[c].row
      /\ stream'[c].at = stream[c].at /\ stream'[c].queue = stream[c].queue
      /\ \A d \in Clients \ {c} : stream'[d] = stream[d] /\ wire'[d] = wire[d]
  BY <1>1, <1>2, <1>3, <1>4, SendRowKeeps
<1>6. ConnectionInv(c)' /\ PageInv(c)'
  BY <1>1, <1>2, <1>4, <1>5 DEF ClientInv, ConnectionInv, PageInv
<1>7. RowInv(c)'
  BY <1>1, <1>3, <1>5 DEF RowInv, History
<1>8. QueueInv(c)'
  BY <1>3, <1>4, <1>5 DEF QueueInv, Subscribed
<1>9. ClientInv(c)'
  BY <1>5, <1>6, <1>7, <1>8 DEF ClientInv
<1> QED
  BY <1>1, <1>5, <1>9, OneStreamStep

LEMMA SubscribeKeeps ==
  ASSUME SingleInv, EventsInv, NEW c \in Clients, Subscribe(c)
  PROVE  /\ \A r \in Runs : HandoutInv(r)'
         /\ \A d \in Clients : ClientInv(d)'
<1>1. EventsTypeOK /\ ClientInv(c)
  BY ClientFacts
<1>2. /\ UNCHANGED <<db, server, pc, call, handout, page, wire>>
      /\ stream[c].pc = "subscribing" /\ stream'[c].pc = "rereading"
      /\ stream'[c].row = stream[c].row /\ stream'[c].sent = stream[c].sent
      /\ stream'[c].at = stream[c].at /\ stream'[c].queue = stream[c].queue
      /\ \A d \in Clients \ {c} : stream'[d] = stream[d]
  BY <1>1 DEF Subscribe, vars, EventsTypeOK, Stream
<1>3. stream[c].queue = <<>>
  BY <1>1, <1>2 DEF ClientInv, QueueInv
<1>4. ConnectionInv(c)' /\ RowInv(c)' /\ WireInv(c)' /\ PageInv(c)'
  BY <1>1, <1>2 DEF ClientInv, ConnectionInv, RowInv, WireInv, PageInv, History
<1>5. QueueInv(c)'
  BY <1>2, <1>3, EmptyExcerpt DEF QueueInv, Subscribed
<1>6. ClientInv(c)'
  BY <1>4, <1>5 DEF ClientInv
<1> QED
  BY <1>2, <1>6, OneStreamStep

(* Whatever was committed before the subscription is in the row read again *)
(* after it; what is committed later is handed to the queue.               *)
LEMMA RereadKeeps ==
  ASSUME SingleInv, EventsInv, NEW c \in Clients, Reread(c)
  PROVE  /\ \A r \in Runs : HandoutInv(r)'
         /\ \A d \in Clients : ClientInv(d)'
<1> DEFINE latest == db[Watched[c]]
           n == Len(History(c))
<1>1. /\ TypeOK /\ EventsTypeOK /\ ClientInv(c) /\ Watched[c] \in Runs
      /\ History(c) \in Seq(RunStatus) /\ n \in Nat
      /\ Told(c) \in Int /\ Told(c) <= n
      /\ stream[c].sent \in Nat /\ stream[c].queue \in Seq(RunEvent)
  BY ClientFacts
<1>2. /\ UNCHANGED <<db, server, pc, call, handout, page>>
      /\ stream[c].pc = "rereading"
  BY DEF Reread, vars
<1>3. page[c].state = "open" /\ Subscribed(c)
  BY <1>1, <1>2 DEF ClientInv, ConnectionInv, Subscribed
<1>4. latest \in RunRow /\ IsPrefixOf(latest.history, History(c)) /\ latest.history = History(c)
  BY <1>1, SamePrefix DEF TypeOK, History
<1>5. /\ WireInv(c)' /\ RowInv(c)'
      /\ stream'[c].sent \in Nat /\ stream'[c].sent >= n
      /\ stream'[c].pc \in {"live", "ended"}
      /\ stream'[c].at = stream[c].at /\ stream'[c].queue = stream[c].queue
      /\ \A d \in Clients \ {c} : stream'[d] = stream[d] /\ wire'[d] = wire[d]
  <2>1. CASE StatusOf(latest) # StatusOf(stream[c].row)
    <3> DEFINE next == IF IsTerminal(latest) THEN "ended" ELSE "live"
    <3>1. SendRow(c, latest, next)
      BY <2>1 DEF Reread
    <3>2. next \in StreamState /\ next \in {"live", "ended"}
      BY DEF StreamState
    <3> HIDE DEF next, latest
    <3>3. /\ WireInv(c)' /\ stream'[c].sent \in Nat
          /\ stream'[c].sent >= Len(latest.history)
          /\ stream'[c].pc = next /\ stream'[c].row = latest
          /\ stream'[c].at = stream[c].at /\ stream'[c].queue = stream[c].queue
          /\ \A d \in Clients \ {c} : stream'[d] = stream[d] /\ wire'[d] = wire[d]
      BY <1>2, <1>3, <1>4, <3>1, <3>2, SendRowKeeps
    <3>4. History(c)' = History(c)
      BY <1>2 DEF History
    <3>5. RowInv(c)'
      BY <1>4, <3>2, <3>3, <3>4 DEF RowInv
    <3> QED
      BY <1>4, <3>2, <3>3, <3>5
  <2>2. CASE StatusOf(latest) = StatusOf(stream[c].row)
    <3>1. /\ stream' = [stream EXCEPT ![c].pc = "live"] /\ wire' = wire
      BY <2>2 DEF Reread
    <3>2. /\ stream'[c].pc = "live" /\ stream'[c].row = stream[c].row
          /\ stream'[c].sent = stream[c].sent
          /\ stream'[c].at = stream[c].at /\ stream'[c].queue = stream[c].queue
          /\ \A d \in Clients \ {c} : stream'[d] = stream[d]
      BY <1>1, <3>1 DEF EventsTypeOK, Stream
    <3>3. stream[c].row.history = History(c)
      BY <1>4, <2>2 DEF StatusOf
    <3>4. stream[c].sent >= n
      BY <1>1, <1>2, <3>3 DEF ClientInv, RowInv
    <3>5. WireInv(c)' /\ RowInv(c)'
      BY <1>1, <1>2, <3>1, <3>2 DEF ClientInv, WireInv, RowInv, History
    <3> QED
      BY <1>1, <3>1, <3>2, <3>4, <3>5
  <2> QED
    BY <2>1, <2>2
<1>6. ConnectionInv(c)' /\ PageInv(c)'
  BY <1>1, <1>2, <1>3, <1>5 DEF ClientInv, ConnectionInv, PageInv
<1>7. QueueInv(c)'
  <2> DEFINE queue == stream[c].queue
  <2>1. History(c)' = History(c) /\ Told(c)' = Told(c)
    BY <1>2 DEF Told, Pending, History
  <2>2. /\ Excerpt(queue, History(c))
        /\ queue # <<>> => queue[Len(queue)].sequence = Told(c)
    BY <1>1, <1>3 DEF ClientInv, QueueInv
  <2>3. queue = <<>> => stream'[c].sent >= Told(c)
    BY <1>1, <1>5
  <2>4. queue # <<>> => queue[1].sequence <= stream'[c].sent + 1
    <3>1. SUFFICES ASSUME queue # <<>> PROVE queue[1].sequence <= stream'[c].sent + 1
      OBVIOUS
    <3>2. queue[1].sequence \in 1..n
      BY <1>1, <2>2, <3>1, ExcerptEnds DEF TrueOf
    <3> QED
      BY <1>1, <1>5, <3>2
  <2> QED
    BY <1>5, <2>1, <2>2, <2>3, <2>4 DEF QueueInv, Subscribed
<1>8. ClientInv(c)'
  BY <1>5, <1>6, <1>7 DEF ClientInv
<1> QED
  BY <1>2, <1>5, <1>8, OneStreamStep

LEMMA ForwardKeeps ==
  ASSUME SingleInv, EventsInv, NEW c \in Clients, Forward(c)
  PROVE  /\ \A r \in Runs : HandoutInv(r)'
         /\ \A d \in Clients : ClientInv(d)'
<1> DEFINE queue == stream[c].queue
           e == Head(queue)
           fresh == e.sequence > stream[c].sent
           h == History(c)
<1>1. /\ TypeOK /\ EventsTypeOK /\ ClientInv(c)
      /\ h \in Seq(RunStatus) /\ Len(h) \in Nat
      /\ stream[c].sent \in Nat /\ queue \in Seq(RunEvent)
      /\ wire[c] \in Seq(RunEvent) /\ page[c].last \in Nat
  BY ClientFacts
<1>2. /\ UNCHANGED <<db, server, pc, call, handout, page>>
      /\ stream[c].pc = "live" /\ queue # <<>>
  BY DEF Forward, vars
<1>3. page[c].state = "open" /\ Subscribed(c)
  BY <1>1, <1>2 DEF ClientInv, ConnectionInv, Subscribed
<1>4. /\ stream'[c].queue = Tail(queue)
      /\ stream'[c].sent = IF fresh THEN e.sequence ELSE stream[c].sent
      /\ stream'[c].pc \in {"live", "ended"}
      /\ stream'[c].row = stream[c].row /\ stream'[c].at = stream[c].at
      /\ \A d \in Clients \ {c} : stream'[d] = stream[d]
  BY <1>1, <1>2 DEF Forward, EventsTypeOK, Stream
<1>5. /\ wire'[c] = IF fresh THEN Append(wire[c], e) ELSE wire[c]
      /\ \A d \in Clients \ {c} : wire'[d] = wire[d]
  BY <1>1 DEF Forward, EventsTypeOK
<1>6. /\ Excerpt(queue, h) /\ queue[Len(queue)].sequence = Told(c)
      /\ queue[1].sequence <= stream[c].sent + 1
  BY <1>1, <1>2, <1>3 DEF ClientInv, QueueInv
<1>7. /\ e = queue[1] /\ e \in RunEvent /\ TrueOf(e, h) /\ e.sequence \in Nat
      /\ Tail(queue) \in Seq(RunEvent) /\ Excerpt(Tail(queue), h)
      /\ Tail(queue) = <<>> => e.sequence = Told(c)
      /\ Tail(queue) # <<>> =>
           /\ Tail(queue)[Len(Tail(queue))].sequence = Told(c)
           /\ Tail(queue)[1].sequence = e.sequence + 1
  BY <1>1, <1>2, <1>6, ExcerptTail, ExcerptEnds DEF RunEvent
<1>8. History(c)' = h /\ Told(c)' = Told(c)
  BY <1>2 DEF Told, Pending, History
<1> HIDE DEF e, fresh, h, queue
<1>9. fresh <=> e.sequence > stream[c].sent
  BY DEF fresh
<1>10. /\ e.sequence <= stream[c].sent + 1
       /\ stream'[c].sent \in Nat /\ stream'[c].sent >= e.sequence
  BY <1>1, <1>4, <1>6, <1>7, <1>9
<1>11. QueueInv(c)'
  <2>1. Tail(queue) = <<>> => stream'[c].sent >= Told(c)
    BY <1>7, <1>10
  <2>2. Tail(queue) # <<>> => Tail(queue)[1].sequence <= stream'[c].sent + 1
    BY <1>7, <1>10
  <2> QED
    BY <1>4, <1>7, <1>8, <2>1, <2>2 DEF QueueInv, Subscribed
<1>12. WireInv(c)'
  <2>1. /\ Excerpt(wire[c], h)
        /\ IF wire[c] = <<>> THEN stream[c].sent <= page[c].last
           ELSE /\ wire[c][Len(wire[c])].sequence = stream[c].sent
                /\ wire[c][1].sequence <= page[c].last + 1
    BY <1>1, <1>3 DEF ClientInv, WireInv, h
  <2>2. CASE fresh
    <3>1. e.sequence = stream[c].sent + 1 /\ stream'[c].sent = e.sequence
      BY <1>1, <1>4, <1>7, <1>9, <1>10, <2>2
    <3>2. wire[c] # <<>> => wire[c][Len(wire[c])].sequence + 1 = e.sequence
      BY <2>1, <3>1
    <3>3. /\ wire'[c] # <<>> /\ Excerpt(wire'[c], h) /\ wire'[c][Len(wire'[c])] = e
          /\ wire'[c][1] = IF wire[c] = <<>> THEN e ELSE wire[c][1]
      <4>1. /\ h \in Seq(RunStatus) /\ wire[c] \in Seq(RunEvent) /\ Excerpt(wire[c], h)
            /\ e \in RunEvent /\ TrueOf(e, h)
        BY <1>1, <1>7, <2>1
      <4>2. wire'[c] = Append(wire[c], e)
        BY <1>5, <2>2
      <4> QED
        BY <3>2, <4>1, <4>2, ExcerptAppend
    <3>4. wire'[c][1].sequence <= page[c].last + 1
      BY <1>1, <2>1, <3>1, <3>3
    <3> QED
      BY <1>2, <1>8, <3>1, <3>3, <3>4 DEF WireInv
  <2>3. CASE ~ fresh
    BY <1>2, <1>4, <1>5, <1>8, <2>1, <2>3 DEF WireInv
  <2> QED
    BY <2>2, <2>3
<1>13. ConnectionInv(c)' /\ PageInv(c)' /\ RowInv(c)'
  BY <1>1, <1>2, <1>3, <1>4 DEF ClientInv, ConnectionInv, PageInv, RowInv, History
<1>14. ClientInv(c)'
  BY <1>11, <1>12, <1>13 DEF ClientInv
<1> QED
  BY <1>2, <1>4, <1>5, <1>14, OneStreamStep

-----------------------------------------------------------------------------
(***************************************************************************)
(* Pages, lost connections and process stops.                              *)
(***************************************************************************)

(* The fetches of a dashboard, and a client that resumes: only the state   *)
(* and the display of a page that is not open change.                      *)
LEMMA FetchKeeps ==
  ASSUME SingleInv, EventsInv, NEW c \in Clients,
         FetchRun(c) \/ FetchToken(c) \/ RefreshAtEnd(c)
  PROVE  /\ \A r \in Runs : HandoutInv(r)'
         /\ \A d \in Clients : ClientInv(d)'
<1>1. EventsTypeOK /\ ClientInv(c)
  BY ClientFacts
<1>2. /\ UNCHANGED <<db, server, pc, call, handout, stream, wire>>
      /\ page[c].state # "open" /\ page'[c].state # "open"
      /\ page[c].state \in {"refreshing", "closed"} =>
           page'[c].state \in {"refreshing", "closed"}
      /\ page'[c].state # "refreshing"
      /\ page'[c].last = page[c].last /\ page'[c].heard = page[c].heard
      /\ \A d \in Clients \ {c} : page'[d] = page[d]
  BY <1>1 DEF FetchRun, FetchToken, RefreshAtEnd, SetPage, Turn, vars, EventsTypeOK,
              Page
<1>3. History(c)' = History(c) /\ Told(c)' = Told(c)
  BY <1>2 DEF Told, Pending, History
<1>4. ClientInv(c)'
  <2>1. ConnectionInv(c)' /\ WireInv(c)' /\ PageInv(c)'
    BY <1>1, <1>2, <1>3 DEF ClientInv, ConnectionInv, WireInv, PageInv
  <2>2. RowInv(c)' /\ QueueInv(c)'
    BY <1>1, <1>2, <1>3 DEF ClientInv, RowInv, QueueInv, Subscribed
  <2> QED
    BY <2>1, <2>2 DEF ClientInv
<1> QED
  BY <1>2, <1>4, OneStreamStep

LEMMA ConnectKeeps ==
  ASSUME SingleInv, EventsInv, NEW c \in Clients, Connect(c)
  PROVE  /\ \A r \in Runs : HandoutInv(r)'
         /\ \A d \in Clients : ClientInv(d)'
<1>1. /\ TypeOK /\ EventsTypeOK /\ ClientInv(c) /\ Watched[c] \in Runs
      /\ page[c].last \in Nat /\ History(c) \in Seq(RunStatus)
  BY ClientFacts
<1>2. /\ UNCHANGED <<db, server, pc, call, handout, wire>>
      /\ page[c].state = "opening" /\ page'[c].state \in {"open", "waiting"}
      /\ page'[c].last = page[c].last /\ page'[c].heard = page[c].heard
      /\ \A d \in Clients \ {c} : page'[d] = page[d] /\ stream'[d] = stream[d]
  BY <1>1 DEF Connect, SetPage, vars, EventsTypeOK, Page
<1>3. stream[c].pc = "off" /\ wire[c] = <<>>
  BY <1>1, <1>2 DEF ClientInv, ConnectionInv
<1>4. History(c)' = History(c) /\ Told(c)' = Told(c) /\ PageInv(c)'
  BY <1>1, <1>2 DEF Told, Pending, History, ClientInv, PageInv
<1>5. CASE stream' = stream /\ SetPage(c, "waiting")
  <2>1. page'[c].state = "waiting"
    BY <1>1, <1>5 DEF SetPage, EventsTypeOK, Page
  <2>2. ConnectionInv(c)' /\ WireInv(c)'
    BY <1>1, <1>2, <1>3, <1>5, <2>1 DEF ClientInv, ConnectionInv, WireInv
  <2>3. RowInv(c)' /\ QueueInv(c)'
    BY <1>1, <1>2, <1>4, <1>5 DEF ClientInv, RowInv, QueueInv, Subscribed
  <2>4. ClientInv(c)'
    BY <1>4, <2>2, <2>3 DEF ClientInv
  <2> QED
    BY <1>2, <1>5, <2>4, OneStreamStep
<1>6. ASSUME NEW i \in Instances, server[i] = "serving", SetPage(c, "open"),
             stream' = [stream EXCEPT ![c] =
               [pc |-> "replay", at |-> i, row |-> db[Watched[c]],
                sent |-> IF page[c].resumes THEN page[c].last ELSE 0,
                queue |-> <<>>]]
      PROVE  /\ \A r \in Runs : HandoutInv(r)'
             /\ \A d \in Clients : ClientInv(d)'
  <2>1. page'[c].state = "open"
    BY <1>1, <1>6 DEF SetPage, EventsTypeOK, Page
  <2>2. stream'[c] = [pc |-> "replay", at |-> i, row |-> db[Watched[c]],
                      sent |-> IF page[c].resumes THEN page[c].last ELSE 0,
                      queue |-> <<>>]
    BY <1>1, <1>6 DEF EventsTypeOK
  <2>3. /\ stream'[c].pc = "replay" /\ stream'[c].at = i
        /\ stream'[c].row = db[Watched[c]] /\ stream'[c].queue = <<>>
        /\ stream'[c].sent <= page[c].last
    BY <1>1, <2>2
  <2>4. ConnectionInv(c)'
    BY <1>2, <1>6, <2>1, <2>3 DEF ConnectionInv
  <2>5. RowInv(c)'
    BY <1>1, <1>4, <2>3, SamePrefix DEF RowInv, History
  <2>6. QueueInv(c)'
    BY <2>3 DEF QueueInv, Subscribed
  <2>7. WireInv(c)'
    BY <1>2, <1>3, <2>3, EmptyExcerpt DEF WireInv
  <2>8. ClientInv(c)'
    BY <1>4, <2>4, <2>5, <2>6, <2>7 DEF ClientInv
  <2> QED
    BY <1>2, <1>3, <2>8, OneStreamStep
<1> QED
  BY <1>5, <1>6 DEF Connect

(* The connection of c is gone and its page is not open: nothing more is   *)
(* asked of it.                                                            *)
LEMMA DisconnectKeeps ==
  ASSUME SingleInv, EventsInv, NEW c \in Clients, Disconnect({c}),
         UNCHANGED <<db, server, pc, call>>,
         \A d \in Clients \ {c} : page'[d] = page[d],
         page'[c].state # "open", PageInv(c)'
  PROVE  /\ \A r \in Runs : HandoutInv(r)'
         /\ \A d \in Clients : ClientInv(d)'
<1>1. TypeOK /\ EventsTypeOK
  BY DEF SingleInv, EventsInv
<1>2. /\ stream'[c] = NoStream /\ wire'[c] = <<>>
      /\ \A d \in Clients \ {c} : stream'[d] = stream[d] /\ wire'[d] = wire[d]
      /\ \A r \in Runs : /\ handout'[r].busy = handout[r].busy
                         /\ handout'[r].to = handout[r].to \ {c}
  BY <1>1 DEF Disconnect, EventsTypeOK, Handout
<1>3. NoStream.pc = "off" /\ NoStream.row.history = <<>> /\ NoStream.queue = <<>>
  BY DEF NoStream, NoRow
<1>4. ConnectionInv(c)' /\ QueueInv(c)' /\ WireInv(c)'
  BY <1>2, <1>3 DEF ConnectionInv, QueueInv, WireInv, Subscribed
<1>5. RowInv(c)'
  <2>1. IsPrefixOf(<<>>, History(c)')
    <3>1. History(c)' = History(c) /\ Len(History(c)) \in Nat /\ Len(<<>>) = 0
      BY ClientFacts DEF History
    <3> QED
      BY <3>1 DEF IsPrefixOf
  <2> QED
    BY <1>2, <1>3, <2>1 DEF RowInv
<1>6. ClientInv(c)'
  BY <1>4, <1>5 DEF ClientInv
<1> QED
  BY <1>2, <1>6, OneClientStep

LEMMA DropKeeps ==
  ASSUME SingleInv, EventsInv, NEW c \in Clients, Drop(c)
  PROVE  /\ \A r \in Runs : HandoutInv(r)'
         /\ \A d \in Clients : ClientInv(d)'
<1>1. EventsTypeOK /\ ClientInv(c)
  BY ClientFacts
<1>2. /\ UNCHANGED <<db, server, pc, call>> /\ Disconnect({c})
      /\ page[c].state = "open" /\ page'[c].state = "waiting"
      /\ page'[c].last = page[c].last /\ page'[c].heard = page[c].heard
      /\ \A d \in Clients \ {c} : page'[d] = page[d]
  BY <1>1 DEF Drop, SetPage, vars, EventsTypeOK, Page
<1>3. PageInv(c)'
  BY <1>1, <1>2 DEF ClientInv, PageInv
<1> QED
  BY <1>2, <1>3, DisconnectKeeps

(* What is received: the next event of the page or one it has seen. *)
LEMMA ReceivedEvent ==
  ASSUME SingleInv, EventsInv, NEW c \in Clients, Receive(c)
  PROVE  LET e == Head(wire[c])
         IN /\ e = wire[c][1] /\ e \in RunEvent /\ e.sequence \in Nat
            /\ TrueOf(e, History(c))
            /\ e.sequence <= page[c].last + 1
            /\ ~ Seen(page[c], e) => e.sequence = page[c].last + 1
<1>1. /\ ClientInv(c) /\ History(c) \in Seq(RunStatus) /\ wire[c] \in Seq(RunEvent)
      /\ page[c].last \in Nat
  BY ClientFacts
<1>2. page[c].state = "open" /\ wire[c] # <<>>
  BY DEF Receive
<1>3. Excerpt(wire[c], History(c)) /\ wire[c][1].sequence <= page[c].last + 1
  BY <1>1, <1>2 DEF ClientInv, WireInv
<1>4. /\ Head(wire[c]) = wire[c][1] /\ wire[c][1] \in RunEvent
      /\ TrueOf(wire[c][1], History(c))
  BY <1>1, <1>2, <1>3, ExcerptEnds, ExcerptTail
<1>5. wire[c][1].sequence \in Nat
  BY <1>4 DEF RunEvent
<1> QED
  BY <1>1, <1>3, <1>4, <1>5 DEF Seen

LEMMA ReceiveKeeps ==
  ASSUME SingleInv, EventsInv, NEW c \in Clients, Receive(c)
  PROVE  /\ \A r \in Runs : HandoutInv(r)'
         /\ \A d \in Clients : ClientInv(d)'
<1> DEFINE e == Head(wire[c])
           h == History(c)
<1>1. /\ EventsTypeOK /\ ClientInv(c) /\ h \in Seq(RunStatus)
      /\ wire[c] \in Seq(RunEvent) /\ page[c] \in Page
      /\ page[c].last \in Nat /\ page[c].heard \in Seq(RunStatus)
      /\ stream[c].sent \in Nat
  BY ClientFacts
<1>2. /\ UNCHANGED <<db, server, pc, call>>
      /\ page[c].state = "open" /\ wire[c] # <<>>
      /\ \A d \in Clients \ {c} : page'[d] = page[d]
      /\ page'[c] = IF ~ Seen(page[c], e) THEN Hears(page[c], e) ELSE page[c]
  BY <1>1 DEF Receive, vars, EventsTypeOK
<1>3. /\ e = wire[c][1] /\ e \in RunEvent /\ e.sequence \in Nat
      /\ e.sequence <= page[c].last + 1
      /\ ~ Seen(page[c], e) => e.sequence = page[c].last + 1
  BY ReceivedEvent
<1>4. e.status \in RunStatus
  BY <1>3 DEF RunEvent
<1> HIDE DEF e, h
<1>5. /\ page'[c].last \in Nat /\ page'[c].last >= e.sequence
      /\ PageInv(c)'
  <2>1. page[c].last = Len(page[c].heard)
    BY <1>1 DEF ClientInv, PageInv
  <2>2. CASE ~ Seen(page[c], e)
    <3>1. /\ page'[c].last = e.sequence
          /\ page'[c].heard = Append(page[c].heard, e.status)
          /\ page'[c].state = AfterEvent(page[c], e)
      BY <1>1, <1>2, <2>2 DEF Hears, Page
    <3>2. /\ Len(page'[c].heard) = page[c].last + 1
          /\ page'[c].heard[Len(page'[c].heard)] = e.status
      BY <1>1, <1>4, <2>1, <3>1, AppendProperties
    <3>3. \/ page'[c].state \in {"refreshing", "closed"}
          \/ ~ Feed!HasEnded(page'[c].heard)
      BY <3>1, <3>2 DEF AfterEvent, Feed!HasEnded, TERMINAL_STATUSES
    <3>4. History(c)' # <<>>
      BY <1>1, <1>2, ReceivedEvent DEF TrueOf, History, h
    <3> QED
      BY <1>3, <2>2, <3>1, <3>2, <3>3, <3>4 DEF PageInv
  <2>3. CASE Seen(page[c], e)
    BY <1>1, <1>2, <1>3, <2>1, <2>3 DEF Seen, PageInv, ClientInv
  <2> QED
    BY <2>2, <2>3
<1>6. CASE ~ Seen(page[c], e) /\ e.status \in TERMINAL_STATUSES
  <2>1. Disconnect({c})
    BY <1>6 DEF Receive, e
  <2>2. page'[c].state # "open"
    BY <1>1, <1>2, <1>6 DEF Hears, AfterEvent, Page
  <2> QED
    BY <1>2, <1>5, <2>1, <2>2, DisconnectKeeps
<1>7. CASE ~ (~ Seen(page[c], e) /\ e.status \in TERMINAL_STATUSES)
  <2>1. /\ UNCHANGED <<stream, handout>>
        /\ wire'[c] = Tail(wire[c])
        /\ \A d \in Clients \ {c} : wire'[d] = wire[d]
    BY <1>1, <1>7 DEF Receive, e, EventsTypeOK
  <2>2. page'[c].state = "open"
    BY <1>1, <1>2, <1>7 DEF Hears, AfterEvent, Page
  <2>3. /\ Excerpt(wire[c], h)
        /\ wire[c][Len(wire[c])].sequence = stream[c].sent
    BY <1>1, <1>2 DEF ClientInv, WireInv, h
  <2>4. /\ Excerpt(Tail(wire[c]), h)
        /\ Tail(wire[c]) = <<>> => e.sequence = stream[c].sent
        /\ Tail(wire[c]) # <<>> =>
             /\ Tail(wire[c])[Len(Tail(wire[c]))].sequence = stream[c].sent
             /\ Tail(wire[c])[1].sequence = e.sequence + 1
    BY <1>1, <1>2, <1>3, <2>3, ExcerptTail
  <2>5. History(c)' = h /\ Told(c)' = Told(c)
    BY <1>2, <2>1 DEF Told, Pending, History, h
  <2>6. WireInv(c)'
    <3>1. Tail(wire[c]) = <<>> => stream[c].sent <= page'[c].last
      BY <1>5, <2>4
    <3>2. Tail(wire[c]) # <<>> => Tail(wire[c])[1].sequence <= page'[c].last + 1
      BY <1>3, <1>5, <2>4
    <3> QED
      BY <2>1, <2>4, <2>5, <3>1, <3>2 DEF WireInv
  <2>7. ConnectionInv(c)'
    BY <1>1, <1>2, <2>1, <2>2 DEF ClientInv, ConnectionInv
  <2>8. RowInv(c)' /\ QueueInv(c)'
    BY <1>1, <2>1, <2>5 DEF ClientInv, RowInv, QueueInv, Subscribed, h
  <2>9. ClientInv(c)'
    BY <1>5, <2>6, <2>7, <2>8 DEF ClientInv
  <2> QED
    BY <1>2, <2>1, <2>9, OneStreamStep
<1> QED
  BY <1>6, <1>7

LEMMA ExpireTokenKeeps ==
  ASSUME SingleInv, EventsInv, NEW c \in Clients, ExpireToken(c)
  PROVE  /\ \A r \in Runs : HandoutInv(r)'
         /\ \A d \in Clients : ClientInv(d)'
<1>1. UNCHANGED <<db, server, pc, call, handout, stream, wire, page>>
  BY DEF ExpireToken, vars
<1>2. ClientInv(c)'
  BY <1>1, ClientFacts, OtherClientKept DEF Pending
<1> QED
  BY <1>1, <1>2, OneStreamStep

(* The only process stops: nobody is connected, nothing is published. *)
LEMMA CrashServerKeeps ==
  ASSUME SingleInstance, SingleInv, SingleInv', EventsInv, NEW i \in Instances,
         CrashServer(i)
  PROVE  /\ \A r \in Runs : HandoutInv(r)'
         /\ \A c \in Clients : ClientInv(c)'
<1>1. TypeOK /\ EventsTypeOK
  BY DEF SingleInv, EventsInv
<1>2. \A j \in Instances : j = i
  BY DEF SingleInstance
<1>3. ASSUME NEW r \in Runs PROVE HandoutInv(r)'
  <2>1. home[r] = i
    BY <1>1, <1>2 DEF TypeOK
  <2>2. ~ handout'[r].busy /\ handout'[r].to = {}
    BY <2>1 DEF CrashServer
  <2>3. pc'[r] # "publish"
    BY <1>1, <2>1 DEF CrashServer, Crash, DiesWith, Alive, TypeOK
  <2> QED
    BY <2>2, <2>3 DEF HandoutInv
<1>4. ASSUME NEW c \in Clients PROVE ClientInv(c)'
  <2>1. ClientInv(c) /\ stream[c].at = i /\ page[c] \in Page
        /\ History(c) \in Seq(RunStatus) /\ Len(History(c)) \in Nat
    BY <1>1, <1>2, ClientFacts DEF EventsTypeOK, Stream
  <2>2. stream'[c] = NoStream /\ wire'[c] = <<>>
    BY <2>1 DEF CrashServer, ClientInv, ConnectionInv
  <2>3. /\ page'[c].state # "open" /\ page'[c].last = page[c].last
        /\ page'[c].heard = page[c].heard
        /\ \/ page[c].state = "open" /\ page'[c].state = "waiting"
           \/ page'[c].state = page[c].state
    BY <2>1 DEF CrashServer, ClientInv, ConnectionInv, Page
  <2>4. History(c)' = History(c)
    BY DEF CrashServer, Crash, History
  <2>5. NoStream.pc = "off" /\ NoStream.row.history = <<>> /\ NoStream.queue = <<>>
    BY DEF NoStream, NoRow
  <2>6. ConnectionInv(c)' /\ QueueInv(c)' /\ WireInv(c)'
    BY <2>2, <2>3, <2>5 DEF ConnectionInv, QueueInv, WireInv, Subscribed
  <2>7. RowInv(c)'
    <3>1. IsPrefixOf(<<>>, History(c)') /\ Len(<<>>) = 0
      BY <2>1, <2>4 DEF IsPrefixOf
    <3> QED
      BY <2>2, <2>5, <3>1 DEF RowInv
  <2>8. PageInv(c)'
    BY <2>1, <2>3, <2>4 DEF ClientInv, PageInv
  <2> QED
    BY <2>6, <2>7, <2>8 DEF ClientInv
<1> QED
  BY <1>3, <1>4

-----------------------------------------------------------------------------
(***************************************************************************)
(* The invariant of the streams, and what follows from it.                 *)
(***************************************************************************)

LEMMA EventsInvInit == EventsInit => EventsInv
<1> SUFFICES ASSUME EventsInit PROVE EventsInv
  OBVIOUS
<1>1. EventsTypeOK
  BY EventsTypeInit
<1>2. ASSUME NEW r \in Runs PROVE HandoutInv(r)
  BY DEF EventsInit, Init, HandoutInv
<1>3. ASSUME NEW c \in Clients PROVE ClientInv(c)
  <2>1. /\ stream[c] = NoStream /\ wire[c] = <<>>
        /\ page[c].state = "idle" /\ page[c].last = 0 /\ page[c].heard = <<>>
    BY DEF EventsInit, NewPage
  <2>2. NoStream.pc = "off" /\ NoStream.row.history = <<>> /\ NoStream.queue = <<>>
    BY DEF NoStream, NoRow
  <2>3. IsPrefixOf(<<>>, History(c)) /\ Len(<<>>) = 0
    <3>1. History(c) = <<>>
      BY EventsAssumption DEF EventsInit, Init, History, NoRow
    <3> QED
      BY <3>1 DEF IsPrefixOf
  <2> QED
    BY <2>1, <2>2, <2>3
       DEF ClientInv, ConnectionInv, RowInv, QueueInv, WireInv, PageInv, Subscribed,
           Feed!HasEnded
<1> QED
  BY <1>1, <1>2, <1>3 DEF EventsInv

(* One step for each action that touches bus, streams or clients. *)
LEMMA EventsInvStep ==
  ASSUME SingleInstance
  PROVE  SingleInv /\ EventsInv /\ [EventsNext]_allVars => EventsInv'
<1> SUFFICES ASSUME SingleInv, EventsInv, [EventsNext]_allVars PROVE EventsInv'
  OBVIOUS
<1>1. SingleInv'
  BY EventsNextIsNext, SingleStep
<1>2. EventsTypeOK'
  BY EventsTypeStep DEF SingleInv, EventsInv
<1>3. CASE QuietNext /\ UNCHANGED streamVars
  BY <1>1, <1>2, <1>3, QuietStepKeeps
<1>4. ASSUME NEW i \in Instances, CrashServer(i) PROVE EventsInv'
  BY <1>1, <1>2, <1>4, CrashServerKeeps DEF EventsInv
<1>5. ASSUME NEW r \in Runs, PublishStep(r) PROVE EventsInv'
  BY <1>2, <1>5, ListSubscribersKeeps, PutEventKeeps, EndPublishKeeps
     DEF PublishStep, EventsInv
<1>6. ASSUME NEW c \in Clients, StreamStep(c) PROVE EventsInv'
  BY <1>2, <1>6, ReplayKeeps, SubscribeKeeps, RereadKeeps, ForwardKeeps
     DEF StreamStep, EventsInv
<1>7. ASSUME NEW c \in Clients, PageStep(c) \/ Drop(c) \/ ExpireToken(c)
      PROVE  EventsInv'
  BY <1>2, <1>7, FetchKeeps, ConnectKeeps, ReceiveKeeps, DropKeeps,
     ExpireTokenKeeps
     DEF PageStep, EventsInv
<1>8. CASE UNCHANGED allVars
  BY <1>3, <1>8 DEF allVars, QuietNext
<1>9. ASSUME NEW i \in Instances, StartServer(i) PROVE EventsInv'
  BY <1>3, <1>9 DEF StartServer, QuietNext
<1>10. ASSUME NEW i \in Instances, NEW r \in Runs, Submit(i, r), UNCHANGED streamVars
       PROVE  EventsInv'
  BY <1>3, <1>10 DEF QuietNext
<1>11. ASSUME NEW r \in Runs,
              QuietTaskStep(r) \/ (StoreFault(r) /\ UNCHANGED streamVars)
       PROVE  EventsInv'
  BY <1>3, <1>11 DEF QuietTaskStep, QuietNext
<1> QED
  BY <1>4, <1>5, <1>6, <1>7, <1>8, <1>9, <1>10, <1>11 DEF EventsNext

(* The invariant holds of every behaviour of one process. *)
THEOREM EventsInvariant ==
  ASSUME SingleInstance
  PROVE  EventsSpec => [](SingleInv /\ EventsInv)
<1>1. EventsSpec => []SingleInv
  BY EventsSpecIsSpec, SingleInvariant, PTL
<1> QED
  BY <1>1, EventsInvInit, EventsInvStep, PTL DEF EventsSpec

(* No lost wake-up: a status a live stream has not sent is in its queue or *)
(* still to be handed to it, wherever between its replay, its subscription *)
(* and its second read the status was committed.                           *)
THEOREM NothingIsMissed ==
  ASSUME SingleInstance
  PROVE  EventsSpec => []NothingMissed
<1>1. SingleInv /\ EventsInv => NothingMissed
  <2> SUFFICES ASSUME SingleInv, EventsInv, NEW c \in Clients,
                      stream[c].pc = "live",
                      NEW k \in (stream[c].sent + 1)..Len(History(c))
               PROVE  \/ \E n \in DOMAIN stream[c].queue :
                           stream[c].queue[n].sequence = k
                      \/ /\ Pending(c)
                         /\ PendingEvent(Watched[c]).sequence = k
    BY DEF NothingMissed, History, Pending
  <2> DEFINE queue == stream[c].queue
  <2>1. /\ ClientInv(c) /\ Watched[c] \in Runs
        /\ History(c) \in Seq(RunStatus) /\ Len(History(c)) \in Nat
        /\ stream[c].sent \in Nat /\ queue \in Seq(RunEvent) /\ Told(c) \in Int
    BY ClientFacts
  <2>2. /\ Excerpt(queue, History(c))
        /\ queue # <<>> => queue[Len(queue)].sequence = Told(c)
        /\ IF queue = <<>> THEN stream[c].sent >= Told(c)
           ELSE queue[1].sequence <= stream[c].sent + 1
    BY <2>1 DEF ClientInv, QueueInv, Subscribed
  <2>3. k \in Int /\ k > stream[c].sent /\ k <= Len(History(c))
    BY <2>1
  <2> HIDE DEF queue
  <2>4. CASE k <= Told(c)
    <3>1. queue # <<>>
      BY <2>1, <2>2, <2>3, <2>4
    <3>2. /\ Len(queue) \in Nat \ {0} /\ queue[1] \in RunEvent
          /\ queue[Len(queue)].sequence = queue[1].sequence + Len(queue) - 1
      BY <2>1, <2>2, <3>1, ExcerptEnds
    <3>3. queue[1].sequence \in Nat
      BY <3>2 DEF RunEvent
    <3> DEFINE n == k - queue[1].sequence + 1
    <3>4. n \in 1..Len(queue)
      BY <2>1, <2>2, <2>3, <2>4, <3>1, <3>2, <3>3, SMTT(30)
    <3>5. queue[n].sequence = queue[1].sequence + n - 1
      BY <2>2, <3>4 DEF Excerpt, Consecutive
    <3>6. queue[n].sequence = k
      BY <2>3, <3>3, <3>5
    <3>7. n \in DOMAIN queue
      BY <2>1, <3>4, LenProperties
    <3> QED
      BY <3>6, <3>7 DEF queue
  <2>5. CASE ~ (k <= Told(c))
    <3>1. Pending(c) /\ k = Len(History(c))
      BY <2>1, <2>3, <2>5 DEF Told
    <3>2. PendingEvent(Watched[c]).sequence = Len(History(c))
      BY <2>1, <3>1, PendingIsLast DEF Pending, History
    <3> QED
      BY <3>1, <3>2
  <2> QED
    BY <2>4, <2>5
<1> QED
  BY <1>1, EventsInvariant, PTL

-----------------------------------------------------------------------------
(***************************************************************************)
(* The streams implement the feed.                                         *)
(***************************************************************************)

LEMMA RowIsPresent ==
  ASSUME SingleInv, NEW r \in Runs, db[r].history # <<>>
  PROVE  db[r].status # "absent"
<1>1. Legal(db[r])
  BY DEF SingleInv, TaskInv
<1> QED
  BY <1>1 DEF Legal, NoRow

(* Where a run is, is the last status of its history. *)
LEMMA StatusIsLast ==
  ASSUME SingleInv, NEW r \in Runs, db[r].status # "absent"
  PROVE  db[r].history # <<>> /\ db[r].status = db[r].history[Len(db[r].history)]
<1>1. Legal(db[r]) /\ db[r] # NoRow
  BY DEF SingleInv, TaskInv, NoRow
<1>2. ASSUME NEW h \in Seq(RunStatus), NEW s \in RunStatus,
             \/ h = <<"queued">> /\ s = "queued"
             \/ h = <<"queued", "analyzing">> /\ s = "analyzing"
             \/ h = <<"queued", "failed">> /\ s = "failed"
             \/ h = <<"queued", "analyzing", "failed">> /\ s = "failed"
             \/ h = <<"queued", "analyzing", "completed">> /\ s = "completed"
      PROVE  h # <<>> /\ h[Len(h)] = s
  <2>1. CASE h = <<"queued">> /\ s = "queued"
    BY <2>1
  <2>2. CASE h = <<"queued", "analyzing">> /\ s = "analyzing"
    BY <2>2
  <2>3. CASE h = <<"queued", "failed">> /\ s = "failed"
    BY <2>3
  <2>4. CASE h = <<"queued", "analyzing", "failed">> /\ s = "failed"
    BY <2>4
  <2>5. CASE h = <<"queued", "analyzing", "completed">> /\ s = "completed"
    BY <2>5
  <2> QED
    BY <1>2, <2>1, <2>2, <2>3, <2>4, <2>5
<1>3. db[r].history \in Seq(RunStatus) /\ db[r].status \in RunStatus
  BY DEF SingleInv, TypeOK, RunRow
<1> QED
  BY <1>1, <1>2, <1>3 DEF Legal

(* Every step extends a history by a legal status, settles the interrupted *)
(* runs, tells a watcher its next status, lets it look the run up or lose  *)
(* sight of it, or changes nothing the feed knows.                         *)
LEMMA FeedStep ==
  ASSUME SingleInstance, SingleInv, EventsInv, [EventsNext]_allVars
  PROVE  [Feed!FeedNext]_(Feed!feedVars)
<1> DEFINE history == [r \in Runs |-> db[r].history]
           heard == [c \in Clients |-> page[c].heard]
           display == [c \in Clients |-> page[c].display]
<1>1. TypeOK /\ TypeOK' /\ EventsTypeOK
  BY EventsNextIsNext, TypeStep DEF SingleInv, EventsInv
<1>2. CASE UNCHANGED <<history, heard, display>>
  BY <1>2 DEF Feed!feedVars
<1>3. ASSUME NEW i \in Instances, NEW r \in Runs, Submit(i, r), UNCHANGED streamVars
      PROVE  Feed!Extend(r)
  <2>1. /\ db[r].history = <<>>
        /\ db'[r].history = Append(db[r].history, "queued")
        /\ \A q \in Runs \ {r} : db'[q] = db[q]
    BY <1>3, SubmittedHistory DEF SingleInv
  <2>2. "queued" \in Feed!Successors(history[r])
    BY <2>1 DEF Feed!Successors
  <2>3. history' = [history EXCEPT ![r] = Append(@, "queued")]
    BY <2>1
  <2>4. UNCHANGED <<heard, display>>
    BY <1>3 DEF streamVars
  <2> QED
    BY <2>2, <2>3, <2>4 DEF Feed!Extend
<1>4. ASSUME NEW r \in Runs, WriteRow(r), UNCHANGED streamVars
      PROVE  Feed!Extend(r)
  <2>1. /\ call[r].status \in Feed!Successors(db[r].history)
        /\ db'[r].history = Append(db[r].history, call[r].status)
        /\ \A q \in Runs \ {r} : db'[q] = db[q]
    BY <1>4, WrittenHistory
  <2>2. history' = [history EXCEPT ![r] = Append(@, call[r].status)]
    BY <2>1
  <2>3. UNCHANGED <<heard, display>>
    BY <1>4 DEF streamVars
  <2>4. call[r].status \in Feed!Successors(history[r])
    BY <2>1
  <2> QED
    BY <2>2, <2>3, <2>4 DEF Feed!Extend
<1>5. ASSUME NEW i \in Instances, Recover(i), UNCHANGED streamVars
      PROVE  Feed!FeedNext
  <2> DEFINE R == {r \in Runs : Interrupted(db[r])}
  <2>1. ASSUME NEW r \in Runs
        PROVE  IF r \in R
               THEN /\ "failed" \in Feed!Successors(history[r])
                    /\ db'[r].history = Append(history[r], "failed")
               ELSE db'[r].history = history[r]
    BY <1>5, RecoveredHistory
  <2>2. UNCHANGED <<heard, display>>
    BY <1>5 DEF streamVars
  <2>3. Feed!ExtendAll(R)
    <3> HIDE DEF R
    <3>1. history' = [r \in Runs |-> IF r \in R THEN Append(history[r], "failed")
                                     ELSE history[r]]
      BY <2>1
    <3>2. \A r \in R : "failed" \in Feed!Successors(history[r])
      BY <2>1 DEF R
    <3> QED
      BY <2>2, <3>1, <3>2 DEF Feed!ExtendAll
  <2>4. R \in SUBSET Runs
    OBVIOUS
  <2> HIDE DEF R, history, heard, display
  <2> QED
    BY <2>3, <2>4 DEF Feed!FeedNext, Feed!ExtendAll
<1>6. ASSUME NEW c \in Clients, Receive(c)
      PROVE  Feed!Hear(c) \/ UNCHANGED <<history, heard, display>>
  <2> DEFINE e == Head(wire[c])
  <2>1. /\ db' = db /\ page[c] \in Page
        /\ \A d \in Clients \ {c} : page'[d] = page[d]
        /\ page'[c] = IF ~ Seen(page[c], e) THEN Hears(page[c], e) ELSE page[c]
    BY <1>1, <1>6 DEF Receive, vars, EventsTypeOK
  <2>2. CASE Seen(page[c], e)
    BY <2>1, <2>2
  <2>3. CASE ~ Seen(page[c], e)
    <3>1. /\ TrueOf(e, History(c)) /\ e.sequence = page[c].last + 1
      BY <1>6, <2>3, ReceivedEvent
    <3>2. /\ Watched[c] \in Runs /\ page[c].last = Len(page[c].heard)
          /\ Len(page[c].heard) \in Nat /\ Len(History(c)) \in Nat
          /\ history[Watched[c]] = History(c)
      BY ClientFacts DEF ClientInv, PageInv, History
    <3> HIDE DEF e
    <3>3. /\ Len(heard[c]) < Len(History(c))
          /\ e.status = History(c)[Len(heard[c]) + 1]
      BY <3>1, <3>2 DEF TrueOf
    <3>4. /\ page'[c].heard = Append(page[c].heard, e.status)
          /\ page'[c].display = e.status
      BY <2>1, <2>3 DEF Hears, Page
    <3>5. /\ heard' = [heard EXCEPT ![c] = Append(@, e.status)]
          /\ display' = [display EXCEPT ![c] = e.status]
      BY <2>1, <3>4
    <3>6. UNCHANGED history
      BY <2>1
    <3> QED
      BY <3>2, <3>3, <3>5, <3>6 DEF Feed!Hear
  <2> QED
    BY <2>2, <2>3
<1> HIDE DEF history, heard, display
<1>7. ASSUME db' = db, page' = page PROVE UNCHANGED <<history, heard, display>>
  BY <1>7 DEF history, heard, display
<1>8. ASSUME db' = db,
             \A c \in Clients : /\ page'[c].heard = page[c].heard
                               /\ page'[c].display = page[c].display
      PROVE  UNCHANGED <<history, heard, display>>
  BY <1>8 DEF history, heard, display
<1>9. ASSUME NEW c \in Clients, NEW s, SetPage(c, s), db' = db
      PROVE  UNCHANGED <<history, heard, display>>
  <2>1. \A d \in Clients : page'[d].heard = page[d].heard /\ page'[d].display = page[d].display
    BY <1>1, <1>9 DEF SetPage, EventsTypeOK, Page
  <2> QED
    BY <1>8, <1>9, <2>1
<1>10. ASSUME NEW i \in Instances, StartServer(i) \/ CrashServer(i)
       PROVE  [Feed!FeedNext]_(Feed!feedVars)
  <2>1. CASE Start(i) /\ UNCHANGED streamVars
    BY <1>2, <1>7, <2>1 DEF Start, streamVars
  <2>2. CASE Recover(i) /\ UNCHANGED streamVars
    BY <1>5, <2>2
  <2>3. CASE CrashServer(i)
    <3>1. db' = db /\ \A c \in Clients : /\ page'[c].heard = page[c].heard
                                        /\ page'[c].display = page[c].display
      BY <1>1, <2>3 DEF CrashServer, Crash, EventsTypeOK, Page
    <3> QED
      BY <1>2, <1>8, <3>1
  <2> QED
    BY <1>10, <2>1, <2>2, <2>3 DEF StartServer, ServerStep
<1>11. ASSUME NEW r \in Runs, \/ QuietTaskStep(r) \/ PublishStep(r)
                              \/ StoreFault(r) /\ UNCHANGED streamVars
       PROVE  [Feed!FeedNext]_(Feed!feedVars)
  <2>1. CASE WriteRow(r) /\ UNCHANGED streamVars
    BY <1>4, <2>1 DEF Feed!FeedNext
  <2>2. CASE db' = db /\ page' = page
    BY <1>2, <1>7, <2>2
  <2> QED
    BY <1>11, <2>1, <2>2
       DEF QuietTaskStep, BeginAnalysis, FinishAnalysis, RaiseInAnalysis, ReadRow,
           StoreFault, PublishStep, ListSubscribers, PutEvent, EndPublish, Publish,
           streamVars, vars
<1>12. ASSUME NEW c \in Clients, FetchRun(c) \/ FetchToken(c) \/ RefreshAtEnd(c)
       PROVE  \/ Feed!LookUp(c) \/ Feed!LoseSight(c)
              \/ UNCHANGED <<history, heard, display>>
  <2>1. /\ db' = db /\ page[c] \in Page /\ ClientInv(c) /\ Watched[c] \in Runs
        /\ history' = history
    BY <1>12, ClientFacts DEF FetchRun, FetchToken, RefreshAtEnd, vars, history
  <2>2. ASSUME NEW s, NEW d, Turn(c, s, d)
        PROVE  UNCHANGED heard /\ display' = [display EXCEPT ![c] = d]
    BY <1>1, <2>2 DEF Turn, EventsTypeOK, Page, heard, display
  <2>3. ASSUME NEW s, Turn(c, s, db[Watched[c]].status), db[Watched[c]].status # "absent"
        PROVE  Feed!LookUp(c)
    <3>1. /\ history[Watched[c]] # <<>>
          /\ db[Watched[c]].status = history[Watched[c]][Len(history[Watched[c]])]
      BY <2>1, <2>3, StatusIsLast DEF history
    <3> QED
      BY <2>1, <2>2, <2>3, <3>1 DEF Feed!LookUp, history, heard, display
  <2>4. ASSUME NEW s, Turn(c, s, "unavailable"),
               page[c].state \notin {"refreshing", "closed"}
        PROVE  Feed!LoseSight(c)
    <3>1. ~ Feed!HasEnded(heard[c])
      BY <2>1, <2>4 DEF ClientInv, PageInv, heard
    <3> QED
      BY <2>1, <2>2, <2>4, <3>1 DEF Feed!LoseSight, history, heard, display
  <2>5. ASSUME NEW s, SetPage(c, s) PROVE UNCHANGED <<history, heard, display>>
    BY <1>9, <2>1, <2>5
  <2>6. CASE FetchRun(c)
    BY <2>3, <2>4, <2>5, <2>6 DEF FetchRun
  <2>7. CASE FetchToken(c)
    BY <2>4, <2>5, <2>7 DEF FetchToken
  <2>8. CASE RefreshAtEnd(c)
    <3>1. db[Watched[c]].status # "absent"
      BY <2>1, <2>8, RowIsPresent DEF RefreshAtEnd, ClientInv, PageInv, History
    <3> QED
      BY <2>3, <2>5, <2>8, <3>1 DEF RefreshAtEnd
  <2> QED
    BY <1>12, <2>6, <2>7, <2>8
<1>13. ASSUME NEW c \in Clients, StreamStep(c) \/ PageStep(c) \/ Drop(c) \/ ExpireToken(c)
       PROVE  [Feed!FeedNext]_(Feed!feedVars)
  <2>1. CASE Receive(c)
    BY <1>2, <1>6, <2>1 DEF Feed!FeedNext
  <2>2. CASE FetchRun(c) \/ FetchToken(c) \/ RefreshAtEnd(c)
    BY <1>2, <1>12, <2>2 DEF Feed!FeedNext
  <2>4. CASE Connect(c) \/ Drop(c)
    BY <1>2, <1>9, <2>4 DEF Connect, Drop, vars
  <2>3. CASE StreamStep(c) \/ ExpireToken(c)
    BY <1>2, <1>7, <2>3
       DEF StreamStep, Replay, Subscribe, Reread, Forward, ExpireToken, vars
  <2> QED
    BY <1>13, <2>1, <2>2, <2>3, <2>4 DEF PageStep
<1>14. CASE UNCHANGED allVars
  BY <1>2, <1>7, <1>14 DEF allVars, vars, streamVars
<1> QED
  BY <1>3, <1>10, <1>11, <1>13, <1>14 DEF EventsNext, Feed!FeedNext

(* With one process the streams implement RunFeed: what a watcher hears is *)
(* the stored history from its beginning, in order, without a gap or a     *)
(* repetition, across lost connections, expired tokens and restarts; what  *)
(* it displays is the status it heard last or the one stored when it       *)
(* fetched the run, or that the run is unavailable, and never the latter,  *)
(* nor anything but the end, once it has heard the end.                    *)
THEOREM StreamsImplementFeed ==
  ASSUME SingleInstance
  PROVE  EventsSpec => FeedImplemented
<1>1. EventsInit => Feed!FeedInit
  BY DEF EventsInit, Init, NoRow, NewPage, Feed!FeedInit
<1>2. SingleInv /\ EventsInv /\ [EventsNext]_allVars
        => [Feed!FeedNext]_(Feed!feedVars)
  BY FeedStep
<1> QED
  BY <1>1, <1>2, EventsInvariant, PTL DEF EventsSpec, FeedImplemented, Feed!FeedSpec

=============================================================================
