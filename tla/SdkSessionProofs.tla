-------------------------- MODULE SdkSessionProofs --------------------------
(***************************************************************************)
(* Theorems about SdkSession, for any threads, steps and bounds: however   *)
(* threads interleave with calls of complete(), with replays, resets and   *)
(* failures, the spans the exporter holds form a tree, the trace made from *)
(* its events is in order, and no event exported between calls is lost.    *)
(***************************************************************************)
EXTENDS SdkSession, TLAPS, SequenceTheorems, FiniteSetTheorems

Span == [start : Nat \ {0}, parent : Nat, named : BOOLEAN, step : Nat, time : Nat]

-----------------------------------------------------------------------------
(***************************************************************************)
(* Lists of spans at some time of the clock.                               *)
(***************************************************************************)

Dated(seq, time) ==
  \A n \in 1..Len(seq) : seq[n].parent < seq[n].start /\ seq[n].start <= time

Unlike(seq) == \A m, n \in 1..Len(seq) : seq[m].start = seq[n].start => m = n

Apart(one, other) ==
  \A m \in 1..Len(one), n \in 1..Len(other) : one[m].start # other[n].start

LEMMA Members ==
  ASSUME NEW seq \in Seq(Span)
  PROVE  \A n \in 1..Len(seq) :
           seq[n] \in Span /\ seq[n].start \in Nat \ {0} /\ seq[n].parent \in Nat
<1>1. \A n \in 1..Len(seq) : seq[n] \in Span
  OBVIOUS
<1> QED
  BY <1>1 DEF Span

LEMMA DatedLater ==
  ASSUME NEW seq \in Seq(Span), NEW time \in Nat, NEW later \in Nat, time <= later,
         Dated(seq, time)
  PROVE  Dated(seq, later)
BY Members DEF Dated

(* A list grows by a span that starts now. *)
LEMMA NewSpan ==
  ASSUME NEW seq \in Seq(Span), NEW span \in Span, NEW time \in Nat,
         Dated(seq, time), Unlike(seq),
         span.start = time + 1, span.parent < span.start
  PROVE  /\ Append(seq, span) \in Seq(Span)
         /\ Dated(Append(seq, span), time + 1)
         /\ Unlike(Append(seq, span))
         /\ \A other \in Seq(Span) :
              Dated(other, time) /\ Apart(seq, other) =>
                Apart(Append(seq, span), other) /\ Apart(other, Append(seq, span))
<1> DEFINE longer == Append(seq, span)
<1>1. /\ longer \in Seq(Span) /\ Len(longer) = Len(seq) + 1 /\ Len(seq) \in Nat
      /\ \A n \in 1..Len(seq) : longer[n] = seq[n]
      /\ longer[Len(seq) + 1] = span
  OBVIOUS
<1>2. \A n \in 1..Len(seq) : seq[n].start \in Nat /\ seq[n].start <= time
  BY Members DEF Dated
<1>3. \A n \in 1..Len(longer) : n \in 1..Len(seq) \/ n = Len(seq) + 1
  BY <1>1
<1> HIDE DEF longer
<1>4. Dated(longer, time + 1)
  BY <1>1, <1>2, <1>3 DEF Dated
<1>5. Unlike(longer)
  BY <1>1, <1>2, <1>3 DEF Unlike
<1>6. ASSUME NEW other \in Seq(Span), Dated(other, time), Apart(seq, other)
      PROVE  Apart(longer, other) /\ Apart(other, longer)
  <2>1. \A n \in 1..Len(other) : other[n].start \in Nat /\ other[n].start <= time
    BY <1>6, Members DEF Dated
  <2>2. \A n \in 1..Len(other) : span.start # other[n].start
    BY <2>1
  <2> QED
    BY <1>1, <1>3, <1>6, <2>2 DEF Apart
<1> QED
  BY <1>1, <1>4, <1>5, <1>6 DEF longer

(* A span that ends leaves its thread's list for the exporter's. *)
LEMMA EndedSpan ==
  ASSUME NEW seq \in Seq(Span), seq # <<>>, NEW done \in Seq(Span), NEW time \in Nat,
         Dated(seq, time), Unlike(seq), Dated(done, time), Unlike(done), Apart(seq, done)
  PROVE  LET longer == Append(done, Last(seq))
         IN /\ Front(seq) \in Seq(Span) /\ longer \in Seq(Span)
            /\ Dated(Front(seq), time) /\ Unlike(Front(seq))
            /\ Dated(longer, time) /\ Unlike(longer)
            /\ Apart(Front(seq), longer)
            /\ \A other \in Seq(Span) :
                 /\ Apart(seq, other) => Apart(Front(seq), other)
                 /\ Apart(other, seq) => Apart(other, Front(seq))
                 /\ Apart(other, seq) /\ Apart(other, done) => Apart(other, longer)
<1> DEFINE span   == Last(seq)
           front  == Front(seq)
           longer == Append(done, span)
<1>1. /\ Len(seq) \in Nat \ {0}
      /\ span = seq[Len(seq)] /\ span \in Span
  BY DEF Last
<1>2. /\ front \in Seq(Span) /\ Len(front) = Len(seq) - 1
      /\ \A n \in 1..Len(front) : front[n] = seq[n] /\ n \in 1..Len(seq) /\ n # Len(seq)
  <2>1. front = SubSeq(seq, 1, Len(seq) - 1)
    BY DEF Front
  <2> DEFINE last == Len(seq) - 1
  <2>2. last \in Nat /\ \A n \in 1..last : seq[n] \in Span
    BY <1>1
  <2> HIDE DEF last
  <2>3. /\ front \in Seq(Span) /\ Len(front) = last
        /\ \A n \in 1..last : front[n] = seq[n]
    <3>1. /\ front \in Seq(Span)
          /\ Len(front) = IF 1 <= last THEN last - 1 + 1 ELSE 0
          /\ \A n \in 1..(last - 1 + 1) : front[n] = seq[1 + n - 1]
      BY <2>1, <2>2, SubSeqProperties DEF last
    <3> QED
      BY <2>2, <3>1
  <2> QED
    BY <1>1, <2>3 DEF last
<1>3. /\ longer \in Seq(Span) /\ Len(longer) = Len(done) + 1 /\ Len(done) \in Nat
      /\ \A n \in 1..Len(done) : longer[n] = done[n]
      /\ longer[Len(done) + 1] = span
  BY <1>1
<1>4. \A n \in 1..Len(longer) : n \in 1..Len(done) \/ n = Len(done) + 1
  BY <1>3
<1> HIDE DEF span, front, longer
<1>5. Dated(front, time) /\ Unlike(front)
  BY <1>2 DEF Dated, Unlike
<1>6. Dated(longer, time)
  BY <1>1, <1>3, <1>4 DEF Dated
<1>7. \A n \in 1..Len(done) : done[n].start # span.start
  BY <1>1 DEF Apart
<1>8. Unlike(longer)
  BY <1>3, <1>4, <1>7 DEF Unlike
<1>9. Apart(front, longer)
  <2>1. ASSUME NEW m \in 1..Len(front), NEW n \in 1..Len(longer)
        PROVE  front[m].start # longer[n].start
    <3>1. m \in 1..Len(seq) /\ front[m] = seq[m]
      BY <1>2, <2>1
    <3>2. CASE n \in 1..Len(done)
      BY <1>3, <3>1, <3>2 DEF Apart
    <3>3. CASE n = Len(done) + 1
      <4>1. m # Len(seq) /\ Len(seq) \in 1..Len(seq) /\ longer[n] = seq[Len(seq)]
        BY <1>1, <1>2, <1>3, <3>3
      <4> QED
        BY <3>1, <4>1 DEF Unlike
    <3> QED
      BY <1>4, <2>1, <3>2, <3>3
  <2> QED
    BY <2>1 DEF Apart
<1>10. ASSUME NEW other \in Seq(Span)
       PROVE  /\ Apart(seq, other) => Apart(front, other)
              /\ Apart(other, seq) => Apart(other, front)
              /\ Apart(other, seq) /\ Apart(other, done) => Apart(other, longer)
  <2>1. Len(seq) \in 1..Len(seq)
    BY <1>1
  <2>2. Apart(other, seq) => \A n \in 1..Len(other) : other[n].start # span.start
    BY <1>1, <2>1 DEF Apart
  <2>3. Apart(seq, other) => Apart(front, other)
    BY <1>2 DEF Apart
  <2>4. Apart(other, seq) => Apart(other, front)
    BY <1>2 DEF Apart
  <2>5. Apart(other, seq) /\ Apart(other, done) => Apart(other, longer)
    BY <1>3, <1>4, <2>2 DEF Apart
  <2> QED
    BY <2>3, <2>4, <2>5
<1> QED
  BY <1>2, <1>3, <1>5, <1>6, <1>8, <1>9, <1>10 DEF span, front, longer

-----------------------------------------------------------------------------
(***************************************************************************)
(* Every span that is open or exported has a start of its own, which the   *)
(* clock has passed, and a parent that started before.  The parent may be  *)
(* open still, exported, or gone with a reset.                             *)
(***************************************************************************)

TreeInv ==
  /\ now \in Nat /\ raw \in Nat /\ replayed \in Nat
  /\ spans \in Seq(Span) /\ Dated(spans, now) /\ Unlike(spans)
  /\ open \in [Threads -> Seq(Span)]
  /\ \A t \in Threads :
       Dated(open[t], now) /\ Unlike(open[t]) /\ Apart(open[t], spans)
  /\ \A t, u \in Threads : t # u => Apart(open[t], open[u])

LEMMA TreeInit == Init => TreeInv
BY DEF Init, TreeInv, Dated, Unlike, Apart

LEMMA StartSpanKeeps ==
  ASSUME TreeInv, NEW t \in Threads, StartSpan(t)
  PROVE  TreeInv'
<1>1. PICK named \in BOOLEAN, step \in OwnSteps, time \in Times \cup {now + 1} :
        open' = [open EXCEPT ![t] = Append(@,
          [start |-> now + 1, parent |-> IF @ = <<>> THEN 0 ELSE Last(@).start,
           named |-> named, step |-> step, time |-> time])]
  BY DEF StartSpan
<1> DEFINE parent == IF open[t] = <<>> THEN 0 ELSE Last(open[t]).start
           span   == [start |-> now + 1, parent |-> parent, named |-> named,
                      step |-> step, time |-> time]
           longer == Append(open[t], span)
<1>2. now' = now + 1 /\ UNCHANGED <<spans, raw, replayed>>
  BY DEF StartSpan, exporterVars, callVars
<1>3. /\ now \in Nat /\ open \in [Threads -> Seq(Span)] /\ open[t] \in Seq(Span)
      /\ spans \in Seq(Span)
  BY DEF TreeInv
<1>4. parent \in Nat /\ parent <= now
  <2>1. CASE open[t] = <<>>
    BY <2>1, <1>3
  <2>2. CASE open[t] # <<>>
    <3>1. Len(open[t]) \in 1..Len(open[t]) /\ open[t][Len(open[t])] \in Span
      BY <1>3, <2>2
    <3> QED
      BY <3>1, <2>2 DEF TreeInv, Dated, Last, Span
  <2> QED
    BY <2>1, <2>2
<1>5. span \in Span /\ span.start = now + 1 /\ span.parent < span.start
  BY <1>3, <1>4, SessionAssumption DEF Span
<1>6. open' = [open EXCEPT ![t] = longer]
  BY <1>1, <1>3
<1> HIDE DEF span, parent
<1>7. /\ longer \in Seq(Span) /\ Dated(longer, now + 1) /\ Unlike(longer)
      /\ \A other \in Seq(Span) :
           Dated(other, now) /\ Apart(open[t], other) =>
             Apart(longer, other) /\ Apart(other, longer)
  BY <1>3, <1>5, NewSpan DEF TreeInv
<1> HIDE DEF longer
<1>8. /\ open' \in [Threads -> Seq(Span)] /\ open'[t] = longer
      /\ \A u \in Threads : u # t => open'[u] = open[u]
  BY <1>3, <1>6, <1>7
<1>9. \A seq \in Seq(Span) : Dated(seq, now) => Dated(seq, now + 1)
  BY <1>3, DatedLater
<1>10. \A u \in Threads : open[u] \in Seq(Span) /\ Dated(open[u], now)
  BY <1>3 DEF TreeInv
<1>11. /\ Apart(longer, spans)
       /\ \A u \in Threads : u # t => Apart(longer, open[u]) /\ Apart(open[u], longer)
  BY <1>3, <1>7, <1>10 DEF TreeInv
<1>12. \A u \in Threads :
         Dated(open'[u], now + 1) /\ Unlike(open'[u]) /\ Apart(open'[u], spans)
  BY <1>7, <1>8, <1>9, <1>10, <1>11 DEF TreeInv
<1>13. \A u, v \in Threads : u # v => Apart(open'[u], open'[v])
  BY <1>8, <1>11 DEF TreeInv
<1>14. Dated(spans, now + 1)
  BY <1>3, <1>9 DEF TreeInv
<1> QED
  BY <1>2, <1>3, <1>8, <1>12, <1>13, <1>14 DEF TreeInv

LEMMA EndSpanKeeps ==
  ASSUME TreeInv, NEW t \in Threads, EndSpan(t)
  PROVE  TreeInv'
<1> DEFINE front  == Front(open[t])
           longer == Append(spans, Last(open[t]))
<1>1. /\ open[t] # <<>> /\ UNCHANGED <<now, raw, replayed>>
      /\ open' = [open EXCEPT ![t] = front]
      /\ spans' = longer
  BY DEF EndSpan, Export, callVars, TreeInv
<1>2. /\ now \in Nat /\ open \in [Threads -> Seq(Span)] /\ open[t] \in Seq(Span)
      /\ spans \in Seq(Span)
  BY DEF TreeInv
<1>3. /\ front \in Seq(Span) /\ longer \in Seq(Span)
      /\ Dated(front, now) /\ Unlike(front) /\ Dated(longer, now) /\ Unlike(longer)
      /\ Apart(front, longer)
      /\ \A other \in Seq(Span) :
           /\ Apart(open[t], other) => Apart(front, other)
           /\ Apart(other, open[t]) => Apart(other, front)
           /\ Apart(other, open[t]) /\ Apart(other, spans) => Apart(other, longer)
  BY <1>1, <1>2, EndedSpan DEF TreeInv
<1> HIDE DEF front, longer
<1>4. /\ open' \in [Threads -> Seq(Span)] /\ open'[t] = front
      /\ \A u \in Threads : u # t => open'[u] = open[u]
  BY <1>1, <1>2, <1>3
<1>5. \A u \in Threads : open[u] \in Seq(Span)
  BY <1>2
<1>6. \A u \in Threads :
        u # t => Apart(open[u], longer) /\ Apart(front, open[u]) /\ Apart(open[u], front)
  BY <1>3, <1>5 DEF TreeInv
<1>7. \A u \in Threads :
        Dated(open'[u], now) /\ Unlike(open'[u]) /\ Apart(open'[u], longer)
  BY <1>3, <1>4, <1>6 DEF TreeInv
<1>8. \A u, v \in Threads : u # v => Apart(open'[u], open'[v])
  BY <1>4, <1>6 DEF TreeInv
<1> QED
  BY <1>1, <1>2, <1>3, <1>4, <1>7, <1>8 DEF TreeInv

LEMMA ReplayKeeps ==
  ASSUME TreeInv, Replay
  PROVE  TreeInv'
<1>0. PICK step \in OwnSteps, time \in Times :
        Export([start |-> now + 1, parent |-> 0, named |-> TRUE, step |-> step,
                time |-> time])
  BY DEF Replay
<1> DEFINE span   == [start |-> now + 1, parent |-> 0, named |-> TRUE, step |-> step,
                      time |-> time]
           longer == Append(spans, span)
<1>1. /\ spans' = longer /\ now' = now + 1 /\ UNCHANGED <<open, raw>>
      /\ replayed' = replayed + 1
  BY <1>0 DEF Replay, Export
<1>2. now \in Nat /\ raw \in Nat /\ replayed \in Nat /\ now <= now + 1
  BY DEF TreeInv
<1>3. span \in Span /\ span.start = now + 1 /\ span.parent < span.start
  BY <1>2, SessionAssumption DEF Span
<1> HIDE DEF span
<1>4. /\ longer \in Seq(Span) /\ Dated(longer, now + 1) /\ Unlike(longer)
      /\ \A other \in Seq(Span) :
           Dated(other, now) /\ Apart(spans, other) =>
             Apart(longer, other) /\ Apart(other, longer)
  BY <1>3, NewSpan DEF TreeInv
<1> HIDE DEF longer
<1>5. \A t \in Threads : /\ open[t] \in Seq(Span)
                         /\ Dated(open[t], now) /\ Apart(spans, open[t])
  BY DEF TreeInv, Apart
<1>6. \A t \in Threads : Dated(open[t], now + 1) /\ Apart(open[t], longer)
  BY <1>2, <1>4, <1>5, DatedLater
<1> QED
  BY <1>1, <1>2, <1>4, <1>6 DEF TreeInv

LEMMA ResetKeeps ==
  ASSUME TreeInv, Reset, UNCHANGED <<open, now>>, raw' \in Nat, replayed' \in Nat
  PROVE  TreeInv'
<1>1. spans' = <<>> /\ open' = open /\ now' = now
  BY DEF Reset
<1>2. /\ <<>> \in Seq(Span) /\ Dated(<<>>, now) /\ Unlike(<<>>)
      /\ \A seq : Apart(seq, <<>>)
  BY DEF Dated, Unlike, Apart
<1> QED
  BY <1>1, <1>2 DEF TreeInv

LEMMA CallKeeps ==
  ASSUME TreeInv, UNCHANGED <<open, spans, now>>, raw' \in Nat, replayed' \in Nat
  PROVE  TreeInv'
BY DEF TreeInv

LEMMA TreeStep == TreeInv /\ [Next]_vars => TreeInv'
<1> SUFFICES ASSUME TreeInv, [Next]_vars PROVE TreeInv'
  OBVIOUS
<1>1. ASSUME NEW t \in Threads, StartSpan(t) \/ EndSpan(t) PROVE TreeInv'
  BY <1>1, StartSpanKeeps, EndSpanKeeps
<1>2. CASE ResetForReplay \/ Return
  <2>1. Reset /\ UNCHANGED <<open, now>> /\ raw' \in {raw, 0} /\ replayed' \in {replayed, 0}
    BY <1>2 DEF ResetForReplay, Return
  <2> QED
    BY <2>1, ResetKeeps DEF TreeInv
<1>3. CASE Replay
  BY <1>3, ReplayKeeps
<1>4. CASE Complete
  <2>1. UNCHANGED <<open, spans, now>> /\ raw' \in 0..MaxRaw /\ replayed' = 0
    BY <1>4 DEF Complete, exporterVars
  <2> QED
    BY <2>1, CallKeeps, SessionAssumption
<1>5. CASE Recapture \/ Accept \/ Raise \/ RaiseInReplay \/ UNCHANGED vars
  <2>1. UNCHANGED <<open, spans, now>> /\ raw' \in {raw, 0} /\ replayed' \in {replayed, 0}
    BY <1>5 DEF Recapture, Accept, Raise, RaiseInReplay, vars, exporterVars, callVars
  <2> QED
    BY <2>1, CallKeeps DEF TreeInv
<1> QED
  BY <1>1, <1>2, <1>3, <1>4, <1>5 DEF Next

(* The payload of spans is a tree below its root, whatever threads export  *)
(* while complete() waits, replays, fails or resets.                       *)
THEOREM PayloadsAreTrees == Spec => []PayloadIsATree
<1>1. TreeInv => PayloadIsATree
  <2> SUFFICES ASSUME TreeInv, NEW n \in DOMAIN SpansPayload
               PROVE  LET payload == SpansPayload
                          parent  == payload[n].parent
                      IN /\ parent \in Starts(payload) \cup {0}
                         /\ parent < payload[n].start
                         /\ \A m \in DOMAIN payload :
                              payload[m].start = payload[n].start => m = n
    BY DEF PayloadIsATree
  <2>1. /\ DOMAIN SpansPayload = 1..Len(spans) /\ DOMAIN spans = 1..Len(spans)
        /\ \A m \in 1..Len(spans) :
             /\ spans[m] \in Span
             /\ SpansPayload[m].start = spans[m].start
             /\ SpansPayload[m].parent =
                  IF spans[m].parent \in Starts(spans) THEN spans[m].parent ELSE 0
    <3>1. spans \in Seq(Span) /\ DOMAIN spans = 1..Len(spans)
      BY DEF TreeInv
    <3>2. DOMAIN SpansPayload = 1..Len(spans)
      BY <3>1 DEF SpansPayload
    <3>3. ASSUME NEW m \in 1..Len(spans)
          PROVE  LET sent == SpansPayload[m]
                 IN /\ spans[m] \in Span
                    /\ sent.start = spans[m].start
                    /\ sent.parent = IF spans[m].parent \in Starts(spans)
                                     THEN spans[m].parent ELSE 0
      <4>1. spans[m] \in Span
        BY <3>1
      <4>2. SpansPayload[m] = [spans[m] EXCEPT !.parent =
                                 IF @ \in Starts(spans) THEN @ ELSE 0]
        BY <3>1 DEF SpansPayload
      <4> QED
        BY <4>1, <4>2 DEF Span
    <3> QED
      BY <3>1, <3>2, <3>3
  <2>2. Starts(SpansPayload) = Starts(spans)
    BY <2>1 DEF Starts
  <2>3. /\ spans[n].parent < spans[n].start /\ spans[n].start \in Nat \ {0}
        /\ \A m \in 1..Len(spans) : spans[m].start = spans[n].start => m = n
    BY <2>1 DEF TreeInv, Dated, Unlike, Span
  <2> QED
    BY <2>1, <2>2, <2>3
<1> QED
  BY <1>1, TreeInit, TreeStep, PTL DEF Spec
-----------------------------------------------------------------------------
(***************************************************************************)
(* The trace made from the events.  Every event has a place of its own, as *)
(* many as come before it, and the trace lists them by these places.       *)
(***************************************************************************)

(* What event m has before it, and its place; the same for any list.       *)
Ahead(m) == {k \in DOMAIN events : Before(k, m)}
PlaceOf(m) == Cardinality(Ahead(m)) + 1

(* placed is event as the n-th of a trace. *)
IsPlaced(placed, n, event) ==
  /\ placed.start = event.start /\ placed.parent = event.parent
  /\ placed.time = event.time
  /\ placed.step = IF event.step = 0 THEN n ELSE event.step

(* early is not to come after late. *)
MayPrecede(early, late) ==
  /\ late.step # 0 => early.step # 0 /\ early.step <= late.step
  /\ early.step = 0 => early.time <= late.time

IsOrdered(list, from) ==
  \E order \in [DOMAIN list -> DOMAIN from] :
    /\ \A n \in DOMAIN list : IsPlaced(list[n], n, from[order[n]])
    /\ \A m, n \in DOMAIN list : m < n => MayPrecede(from[order[m]], from[order[n]])

(* Before orders the events in a line. *)
LEMMA EventOrder ==
  ASSUME events \in Seq(Span)
  PROVE  \A l, m, n \in DOMAIN events :
           /\ ~Before(m, m)
           /\ m = n \/ Before(m, n) \/ Before(n, m)
           /\ Before(l, m) /\ Before(m, n) => Before(l, n)
           /\ Before(m, n) => MayPrecede(events[m], events[n])
<1>1. \A n \in DOMAIN events : n \in Nat /\ events[n].time \in Nat /\ events[n].step \in Nat
  <2>1. \A n \in DOMAIN events : n \in Nat /\ events[n] \in Span
    OBVIOUS
  <2> QED
    BY <2>1 DEF Span
<1> DEFINE own(k) == events[k].step # 0
           key(k) == IF own(k) THEN events[k].step ELSE events[k].time
<1>2. \A m, n \in DOMAIN events :
        Before(m, n) <=> \/ own(m) /\ ~own(n)
                         \/ (own(m) <=> own(n)) /\ key(m) < key(n)
                         \/ (own(m) <=> own(n)) /\ key(m) = key(n) /\ m < n
  BY DEF Before
<1>3. \A n \in DOMAIN events : key(n) \in Nat /\ n \in Nat
  BY <1>1
<1>4. ASSUME NEW m \in DOMAIN events, NEW n \in DOMAIN events, Before(m, n)
      PROVE  MayPrecede(events[m], events[n])
  BY <1>1, <1>2, <1>4 DEF MayPrecede
<1> HIDE DEF own, key
<1>5. \A m \in DOMAIN events : ~Before(m, m)
  BY <1>2, <1>3
<1>6. \A m, n \in DOMAIN events : m = n \/ Before(m, n) \/ Before(n, m)
  BY <1>2, <1>3
<1>7. \A l, m, n \in DOMAIN events : Before(l, m) /\ Before(m, n) => Before(l, n)
  BY <1>2, <1>3
<1> QED
  BY <1>4, <1>5, <1>6, <1>7

LEMMA TraceOrder ==
  ASSUME events \in Seq(Span)
  PROVE  /\ RunTrace \in Seq(Span) /\ Starts(RunTrace) = Starts(events)
         /\ IsOrdered(RunTrace, events)
<1> DEFINE N == Len(events)
           place == [n \in 1..N |-> PlaceOf(n)]
           order == [n \in 1..N |-> CHOOSE m \in 1..N : PlaceOf(m) = n]
<1>1. /\ N \in Nat /\ DOMAIN events = 1..N /\ \A n \in 1..N : events[n] \in Span
  OBVIOUS
<1> HIDE DEF N
<1>2. \A l, m, n \in 1..N :
        /\ ~Before(m, m)
        /\ m = n \/ Before(m, n) \/ Before(n, m)
        /\ Before(l, m) /\ Before(m, n) => Before(l, n)
        /\ Before(m, n) => MayPrecede(events[m], events[n])
  BY <1>1, EventOrder
<1>3. IsFiniteSet(1..N) /\ Cardinality(1..N) = N
  BY <1>1, FS_Interval
<1>4. \A n \in 1..N : /\ IsFiniteSet(Ahead(n)) /\ Cardinality(Ahead(n)) \in Nat
                      /\ PlaceOf(n) \in 1..N
  <2> SUFFICES ASSUME NEW n \in 1..N
               PROVE  /\ IsFiniteSet(Ahead(n)) /\ Cardinality(Ahead(n)) \in Nat
                      /\ PlaceOf(n) \in 1..N
    OBVIOUS
  <2>1. Ahead(n) \in SUBSET ((1..N) \ {n})
    BY <1>1, <1>2 DEF Ahead
  <2>2. IsFiniteSet((1..N) \ {n}) /\ Cardinality((1..N) \ {n}) = N - 1
    BY <1>3, FS_RemoveElement
  <2>3. IsFiniteSet(Ahead(n)) /\ Cardinality(Ahead(n)) <= N - 1
    BY <2>1, <2>2, FS_Subset
  <2>4. Cardinality(Ahead(n)) \in Nat
    BY <2>3, FS_CardinalityType
  <2> QED
    BY <1>1, <2>3, <2>4 DEF PlaceOf
<1>5. ASSUME NEW m \in 1..N, NEW n \in 1..N, Before(m, n)
      PROVE  PlaceOf(m) < PlaceOf(n)
  <2>1. Ahead(m) \in SUBSET Ahead(n)
    BY <1>1, <1>2, <1>5 DEF Ahead
  <2>2. m \in Ahead(n) /\ m \notin Ahead(m)
    BY <1>1, <1>2, <1>5 DEF Ahead
  <2>3. /\ Cardinality(Ahead(m)) <= Cardinality(Ahead(n))
        /\ Cardinality(Ahead(m)) # Cardinality(Ahead(n))
    BY <1>4, <2>1, <2>2, FS_Subset
  <2> QED
    BY <1>4, <2>3 DEF PlaceOf
<1>6. place \in Injection(1..N, 1..N)
  <2>1. \A m, n \in 1..N : PlaceOf(m) = PlaceOf(n) => m = n
    <3> SUFFICES ASSUME NEW m \in 1..N, NEW n \in 1..N, PlaceOf(m) = PlaceOf(n), m # n
                 PROVE  FALSE
      OBVIOUS
    <3>1. PlaceOf(m) < PlaceOf(n) \/ PlaceOf(n) < PlaceOf(m)
      BY <1>2, <1>5
    <3>2. PlaceOf(m) \in Nat /\ PlaceOf(n) \in Nat
      BY <1>4
    <3> QED
      BY <3>1, <3>2
  <2> QED
    BY <1>4, <2>1 DEF Injection, IsInjective
<1>7. \A n \in 1..N : \E m \in 1..N : PlaceOf(m) = n
  <2>1. place \in Surjection(1..N, 1..N)
    BY <1>3, <1>6, FS_Injection
  <2> QED
    BY <2>1 DEF Surjection
<1>8. \A n \in 1..N : order[n] \in 1..N /\ PlaceOf(order[n]) = n
  BY <1>7
<1>9. \A m \in 1..N : order[PlaceOf(m)] = m
  <2> SUFFICES ASSUME NEW m \in 1..N PROVE order[PlaceOf(m)] = m
    OBVIOUS
  <2>1. PlaceOf(m) \in 1..N
    BY <1>4
  <2>2. order[PlaceOf(m)] \in 1..N /\ PlaceOf(order[PlaceOf(m)]) = PlaceOf(m)
    BY <1>8, <2>1
  <2> HIDE DEF order
  <2> QED
    BY <1>6, <2>2 DEF Injection, IsInjective
<1>10. RunTrace = [n \in 1..N |->
          [events[order[n]] EXCEPT !.step = IF @ = 0 THEN n ELSE @]]
  BY <1>1 DEF RunTrace, PlaceOf, Ahead
<1>11. order \in [1..N -> 1..N]
  BY <1>8
<1> HIDE DEF order, place
<1>12. ASSUME NEW n \in 1..N
       PROVE  /\ RunTrace[n] \in Span
              /\ IsPlaced(RunTrace[n], n, events[order[n]])
  <2> DEFINE event == events[order[n]]
  <2>1. event \in Span /\ n \in Nat
    BY <1>1, <1>8
  <2>2. RunTrace[n] = [event EXCEPT !.step = IF event.step = 0 THEN n ELSE event.step]
    BY <1>10
  <2> HIDE DEF event
  <2>3. RunTrace[n] \in Span /\ IsPlaced(RunTrace[n], n, event)
    BY <2>1, <2>2 DEF Span, IsPlaced
  <2> QED
    BY <2>3 DEF event
<1>13. DOMAIN RunTrace = 1..N /\ RunTrace \in Seq(Span)
  <2>1. DOMAIN RunTrace = 1..N /\ RunTrace = [n \in 1..N |-> RunTrace[n]]
    BY <1>10
  <2> QED
    BY <1>1, <1>12, <2>1
<1>14. ASSUME NEW m \in 1..N, NEW n \in 1..N, m < n
       PROVE  MayPrecede(events[order[m]], events[order[n]])
  <2>1. order[m] \in 1..N /\ order[n] \in 1..N /\ PlaceOf(order[m]) = m /\ PlaceOf(order[n]) = n
    BY <1>8
  <2>2. order[m] # order[n] /\ ~Before(order[n], order[m])
    BY <1>5, <1>14, <2>1
  <2>3. Before(order[m], order[n])
    BY <1>2, <2>1, <2>2
  <2> QED
    BY <1>2, <2>1, <2>3
<1>15. IsOrdered(RunTrace, events)
  BY <1>1, <1>11, <1>12, <1>13, <1>14 DEF IsOrdered
<1>16. Starts(RunTrace) = Starts(events)
  <2>1. \A n \in 1..N : order[n] \in 1..N /\ RunTrace[n].start = events[order[n]].start
    BY <1>8, <1>12 DEF IsPlaced
  <2>2. \A m \in 1..N : PlaceOf(m) \in 1..N /\ RunTrace[PlaceOf(m)].start = events[m].start
    BY <1>4, <1>9, <2>1
  <2>3. Starts(RunTrace) = {RunTrace[n].start : n \in 1..N}
    BY <1>13 DEF Starts
  <2>4. Starts(events) = {events[n].start : n \in 1..N}
    BY <1>1 DEF Starts
  <2>5. ASSUME NEW e \in Starts(RunTrace) PROVE e \in Starts(events)
    BY <2>1, <2>3, <2>4
  <2>6. ASSUME NEW e \in Starts(events) PROVE e \in Starts(RunTrace)
    BY <2>2, <2>3, <2>4
  <2> QED
    BY <2>5, <2>6
<1> QED
  BY <1>13, <1>15, <1>16

-----------------------------------------------------------------------------
(***************************************************************************)
(* Calls.  What is submitted stays with the exporter until the answer, so  *)
(* that only an answer that does not arrive lets the server be given an    *)
(* event again; the exporter is reset only when the server has the events  *)
(* exported before the call, or when there were none.                      *)
(***************************************************************************)

(* The traces of list that have the event that started at e. *)
With(list, e) == {k \in DOMAIN list : e \in Starts(list[k])}

(* A turn starts before those it causes. *)
Causal(seq) == \A n \in DOMAIN seq : seq[n].parent < seq[n].start

(* Of the events exported between calls none is lost. *)
KeptInv ==
  /\ \A e \in exported : e \in Starts(events) \/ With(accepted, e) # {}
  /\ pc \in {"replay", "recapture", "answer"} =>
       \A e \in exported : With(accepted, e) # {}
  /\ pc = "submit" => \A e \in exported : e \in Starts(trace) \/ With(accepted, e) # {}

(* What the server has of an event, by who else has it. *)
OnceInv ==
  /\ \A k \in DOMAIN accepted : \A e \in Starts(accepted[k]) :
       e \in 1..now /\ \A t \in Threads : e \notin Starts(open[t])
  /\ \A e \in Nat :
       /\ Cardinality(With(accepted, e)) <= 1 + unanswered
       /\ e \in Starts(events) /\ pc # "answer" =>
            Cardinality(With(accepted, e)) <= unanswered

CallInv ==
  /\ pc \in {"idle", "replay", "recapture", "submit", "answer"}
  /\ unanswered \in Nat
  /\ events \in Seq(Span) /\ Causal(events) /\ Starts(events) \subseteq Starts(spans)
  /\ trace \in Seq(Span) /\ accepted \in Seq(Seq(Span))
  /\ pc \in {"submit", "answer"} =>
       Starts(trace) \subseteq Starts(events) /\ IsOrdered(trace, events)
  /\ KeptInv
  /\ OnceInv

LEMMA WithIsFinite ==
  ASSUME NEW list \in Seq(Seq(Span)), NEW e
  PROVE  IsFiniteSet(With(list, e)) /\ Cardinality(With(list, e)) \in Nat
<1>1. Len(list) \in Nat /\ With(list, e) \in SUBSET (1..Len(list))
  BY DEF With
<1>2. IsFiniteSet(1..Len(list))
  BY <1>1, FS_Interval
<1>3. IsFiniteSet(With(list, e))
  BY <1>1, <1>2, FS_Subset
<1> QED
  BY <1>3, FS_CardinalityType

LEMMA WithOneMore ==
  ASSUME NEW list \in Seq(Seq(Span)), NEW new \in Seq(Span), NEW e
  PROVE  /\ e \in Starts(new) =>
              /\ With(Append(list, new), e) # {}
              /\ Cardinality(With(Append(list, new), e)) = Cardinality(With(list, e)) + 1
         /\ e \notin Starts(new) => With(Append(list, new), e) = With(list, e)
         /\ With(list, e) # {} => With(Append(list, new), e) # {}
<1> DEFINE N == Len(list)
           longer == Append(list, new)
<1>1. /\ N \in Nat /\ DOMAIN list = 1..N /\ DOMAIN longer = 1..(N + 1)
      /\ \A k \in 1..N : longer[k] = list[k] /\ k \in 1..(N + 1)
      /\ longer[N + 1] = new /\ N + 1 \in 1..(N + 1) /\ N + 1 \notin 1..N
      /\ \A k \in 1..(N + 1) : k \in 1..N \/ k = N + 1
  OBVIOUS
<1> HIDE DEF N, longer
<1>2. e \in Starts(new) => /\ With(longer, e) = With(list, e) \cup {N + 1}
                           /\ N + 1 \notin With(list, e)
  BY <1>1 DEF With
<1>3. e \notin Starts(new) => With(longer, e) = With(list, e)
  BY <1>1 DEF With
<1>4. e \in Starts(new) => Cardinality(With(longer, e)) = Cardinality(With(list, e)) + 1
  BY <1>2, WithIsFinite, FS_AddElement
<1> QED
  BY <1>2, <1>3, <1>4 DEF longer

LEMMA StartsOneMore ==
  ASSUME NEW seq \in Seq(Span), NEW span \in Span
  PROVE  /\ Append(seq, span) \in Seq(Span)
         /\ Starts(Append(seq, span)) = Starts(seq) \cup {span.start}
         /\ Causal(seq) /\ span.parent < span.start => Causal(Append(seq, span))
         /\ \A list \in Seq(Span) : IsOrdered(list, seq) => IsOrdered(list, Append(seq, span))
<1> DEFINE N == Len(seq)
           longer == Append(seq, span)
<1>1. /\ N \in Nat /\ DOMAIN seq = 1..N /\ DOMAIN longer = 1..(N + 1)
      /\ \A k \in 1..N : longer[k] = seq[k] /\ k \in 1..(N + 1)
      /\ longer[N + 1] = span /\ N + 1 \in 1..(N + 1)
      /\ \A k \in 1..(N + 1) : k \in 1..N \/ k = N + 1
      /\ longer \in Seq(Span)
  OBVIOUS
<1> HIDE DEF N, longer
<1>2. Starts(longer) = Starts(seq) \cup {span.start}
  BY <1>1 DEF Starts
<1>3. ASSUME NEW list \in Seq(Span), IsOrdered(list, seq)
      PROVE  IsOrdered(list, longer)
  <2>1. PICK order \in [DOMAIN list -> DOMAIN seq] :
          /\ \A n \in DOMAIN list : IsPlaced(list[n], n, seq[order[n]])
          /\ \A m, n \in DOMAIN list : m < n => MayPrecede(seq[order[m]], seq[order[n]])
    BY <1>3 DEF IsOrdered
  <2>2. order \in [DOMAIN list -> DOMAIN longer]
    BY <1>1
  <2>3. \A n \in DOMAIN list : longer[order[n]] = seq[order[n]]
    BY <1>1
  <2> QED
    BY <2>1, <2>2, <2>3 DEF IsOrdered
<1>4. Causal(seq) /\ span.parent < span.start => Causal(longer)
  BY <1>1 DEF Causal
<1> QED
  BY <1>1, <1>2, <1>3, <1>4 DEF longer

(* A span that is in no submitted trace is exported. *)
LEMMA ExportKeeps ==
  ASSUME TreeInv, CallInv, NEW span \in Span, Export(span),
         span.parent < span.start,
         With(accepted, span.start) = {},
         UNCHANGED <<pc, trace, accepted, unanswered>>, now' \in Nat, now <= now',
         \A t \in Threads : \A e \in Starts(open'[t]) :
            e \in Starts(open[t]) \/ e > now
  PROVE  CallInv'
<1>1. /\ events \in Seq(Span) /\ spans \in Seq(Span) /\ trace \in Seq(Span)
      /\ now \in Nat /\ unanswered \in Nat
  BY DEF CallInv, TreeInv
<1>2. /\ events' = IF span.named THEN Append(events, span) ELSE events
      /\ spans' = Append(spans, span)
      /\ exported' = IF pc = "idle" /\ span.named THEN exported \cup {span.start} ELSE exported
  BY DEF Export
<1>3. /\ events' \in Seq(Span) /\ Causal(events')
      /\ Starts(events') = IF span.named THEN Starts(events) \cup {span.start} ELSE Starts(events)
      /\ IsOrdered(trace, events) => IsOrdered(trace, events')
  <2>1. Causal(events)
    BY DEF CallInv
  <2> QED
    BY <1>1, <1>2, <2>1, StartsOneMore
<1>4. Starts(spans') = Starts(spans) \cup {span.start}
  BY <1>1, <1>2, StartsOneMore
<1>5. KeptInv'
  BY <1>2, <1>3 DEF CallInv, KeptInv
<1>6. Cardinality(With(accepted, span.start)) = 0
  BY FS_EmptySet
<1>7. \A k \in DOMAIN accepted : \A e \in Starts(accepted[k]) :
        e \in 1..now' /\ \A t \in Threads : e \notin Starts(open'[t])
  <2> SUFFICES ASSUME NEW k \in DOMAIN accepted, NEW e \in Starts(accepted[k])
               PROVE  e \in 1..now' /\ \A t \in Threads : e \notin Starts(open'[t])
    OBVIOUS
  <2>1. e \in 1..now /\ \A t \in Threads : e \notin Starts(open[t])
    BY DEF CallInv, OnceInv
  <2>2. e \in 1..now' /\ ~(e > now)
    BY <1>1, <2>1
  <2> QED
    BY <2>1, <2>2
<1>8. \A e \in Nat : e \in Starts(events') /\ pc # "answer" =>
                       Cardinality(With(accepted, e)) <= unanswered
  <2> SUFFICES ASSUME NEW e \in Nat, e \in Starts(events'), pc # "answer"
               PROVE  Cardinality(With(accepted, e)) <= unanswered
    OBVIOUS
  <2>1. e \in Starts(events) \/ e = span.start
    BY <1>3
  <2>2. CASE e \in Starts(events)
    BY <2>2 DEF CallInv, OnceInv
  <2>3. CASE e = span.start
    <3>1. Cardinality(With(accepted, e)) = 0
      BY <1>6, <2>3, Zenon
    <3> QED
      BY <1>1, <3>1
  <2> QED
    BY <2>1, <2>2, <2>3
<1>9. OnceInv'
  BY <1>7, <1>8 DEF CallInv, OnceInv
<1> QED
  BY <1>3, <1>4, <1>5, <1>9 DEF CallInv

LEMMA CallInit == Init => TreeInv /\ CallInv
<1> SUFFICES ASSUME Init PROVE CallInv
  BY TreeInit
<1>1. /\ events = <<>> /\ spans = <<>> /\ trace = <<>> /\ accepted = <<>>
      /\ pc = "idle" /\ unanswered = 0 /\ exported = {}
  BY DEF Init
<1>2. \A e : With(<<>>, e) = {}
  BY DEF With
<1>3. Cardinality({}) = 0
  BY FS_EmptySet
<1>4. Starts(<<>>) = {}
  BY DEF Starts
<1>7. Causal(<<>>)
  BY DEF Causal
<1>5. KeptInv
  BY <1>1 DEF KeptInv
<1>6. OnceInv
  BY <1>1, <1>2, <1>3, <1>4 DEF OnceInv
<1> QED
  BY <1>1, <1>4, <1>5, <1>6, <1>7 DEF CallInv

(* A thread starts a span. *)
LEMMA StartSpanCall ==
  ASSUME TreeInv, CallInv, NEW t \in Threads, StartSpan(t)
  PROVE  CallInv'
<1>1. /\ now' = now + 1 /\ now \in Nat
      /\ UNCHANGED <<events, spans, pc, trace, accepted, unanswered, exported>>
  BY DEF StartSpan, exporterVars, callVars, TreeInv
<1>2. PICK named \in BOOLEAN, step \in OwnSteps, time \in Times \cup {now + 1} :
        open' = [open EXCEPT ![t] = Append(@,
          [start |-> now + 1, parent |-> IF @ = <<>> THEN 0 ELSE Last(@).start,
           named |-> named, step |-> step, time |-> time])]
  BY DEF StartSpan
<1> DEFINE span == [start |-> now + 1,
                    parent |-> IF open[t] = <<>> THEN 0 ELSE Last(open[t]).start,
                    named |-> named, step |-> step, time |-> time]
<1>3. open \in [Threads -> Seq(Span)]
  BY DEF TreeInv
<1>4. open' = [open EXCEPT ![t] = Append(open[t], span)]
  BY <1>2, <1>3
<1>5. span.start = now + 1
  OBVIOUS
<1> HIDE DEF span
<1>6. /\ open'[t] = Append(open[t], span)
      /\ \A u \in Threads : u # t => open'[u] = open[u]
  BY <1>3, <1>4
<1>7. \A e \in Starts(open'[t]) : e \in Starts(open[t]) \/ e = now + 1
  <2> DEFINE s == open[t]
  <2>1. s \in Seq(Span) /\ open'[t] = Append(s, span)
    BY <1>3, <1>6
  <2> HIDE DEF s
  <2>2. /\ DOMAIN Append(s, span) = 1..(Len(s) + 1) /\ DOMAIN s = 1..Len(s)
        /\ \A n \in 1..(Len(s) + 1) : n \in 1..Len(s) \/ n = Len(s) + 1
        /\ \A n \in 1..Len(s) : Append(s, span)[n] = s[n]
        /\ Append(s, span)[Len(s) + 1] = span
    BY <2>1
  <2>3. \A e \in Starts(Append(s, span)) : e \in Starts(s) \/ e = span.start
    BY <2>2 DEF Starts
  <2> QED
    BY <1>5, <2>1, <2>3 DEF s
<1>8. OnceInv'
  <2>1. ASSUME NEW k \in DOMAIN accepted, NEW e \in Starts(accepted[k])
        PROVE  e \in 1..(now + 1) /\ \A u \in Threads : e \notin Starts(open'[u])
    <3>1. e \in 1..now /\ \A u \in Threads : e \notin Starts(open[u])
      BY DEF CallInv, OnceInv
    <3>2. e # now + 1 /\ e \in 1..(now + 1)
      BY <1>1, <3>1
    <3> QED
      BY <1>6, <1>7, <3>1, <3>2
  <2> QED
    BY <1>1, <2>1 DEF CallInv, OnceInv
<1> QED
  BY <1>1, <1>8 DEF CallInv, KeptInv

(* A thread ends its innermost span. *)
LEMMA EndSpanCall ==
  ASSUME TreeInv, CallInv, NEW t \in Threads, EndSpan(t)
  PROVE  CallInv'
<1> DEFINE s == open[t]
<1>1. /\ s # <<>> /\ Export(Last(s)) /\ now' = now /\ now \in Nat
      /\ open' = [open EXCEPT ![t] = Front(s)]
      /\ UNCHANGED <<pc, trace, accepted, unanswered>>
      /\ open \in [Threads -> Seq(Span)] /\ s \in Seq(Span)
  BY DEF EndSpan, callVars, TreeInv
<1> HIDE DEF s
<1>2. Len(s) \in 1..Len(s) /\ Last(s) = s[Len(s)] /\ Last(s) \in Span
  BY <1>1 DEF Last
<1>3. Last(s).start \in Starts(s)
  BY <1>1, <1>2 DEF Starts
<1>4. With(accepted, Last(s).start) = {}
  BY <1>3 DEF With, CallInv, OnceInv, s
<1>5. \A u \in Threads : \A e \in Starts(open'[u]) : e \in Starts(open[u])
  <2>1. \A u \in Threads : open'[u] = IF u = t THEN Front(s) ELSE open[u]
    BY <1>1
  <2>2. \A e \in Starts(Front(s)) : e \in Starts(s)
    <3>1. Front(s) = SubSeq(s, 1, Len(s) - 1)
      BY DEF Front
    <3>2. Len(s) - 1 \in Nat /\ Len(s) \in Nat /\ DOMAIN s = 1..Len(s)
      BY <1>1, <1>2
    <3>3. DOMAIN Front(s) = 1..(Len(s) - 1)
      BY <1>1, <3>1, <3>2
    <3>4. \A n \in 1..(Len(s) - 1) : Front(s)[n] = s[n] /\ n \in DOMAIN s
      BY <1>1, <3>1, <3>2
    <3> QED
      BY <3>3, <3>4 DEF Starts
  <2> QED
    BY <2>1, <2>2 DEF s
<1>6. now' \in Nat /\ now <= now'
  BY <1>1
<1>7. Last(s).parent < Last(s).start
  BY <1>2 DEF TreeInv, Dated, s
<1> QED
  BY <1>1, <1>2, <1>4, <1>5, <1>6, <1>7, ExportKeeps

(* A span of the raw trace has started after all others. *)
LEMMA ReplayCall ==
  ASSUME TreeInv, CallInv, Replay
  PROVE  CallInv'
<1>0. PICK step \in OwnSteps, time \in Times :
        Export([start |-> now + 1, parent |-> 0, named |-> TRUE, step |-> step,
                time |-> time])
  BY DEF Replay
<1> DEFINE span == [start |-> now + 1, parent |-> 0, named |-> TRUE, step |-> step,
                    time |-> time]
<1>1. /\ Export(span) /\ now' = now + 1 /\ now \in Nat
      /\ UNCHANGED <<open, pc, trace, accepted, unanswered>>
  BY <1>0 DEF Replay, TreeInv
<1>2. span \in Span /\ span.start = now + 1 /\ span.parent < span.start
  BY <1>1, SessionAssumption DEF Span
<1> HIDE DEF span
<1>3. With(accepted, now + 1) = {}
  <2>1. now + 1 \notin 1..now
    BY <1>1
  <2> QED
    BY <2>1 DEF With, CallInv, OnceInv
<1>4. now' \in Nat /\ now <= now'
  BY <1>1
<1> QED
  BY <1>1, <1>2, <1>3, <1>4, ExportKeeps

(* The trace that a call submits. *)
LEMMA SubmitCall ==
  ASSUME CallInv, NEW k, Submit(k, RunTrace),
         UNCHANGED <<open, events, spans, now, exported, accepted, unanswered>>,
         pc \in {"idle", "recapture"}
  PROVE  CallInv'
<1>1. pc' = "submit" /\ trace' = RunTrace
  BY DEF Submit
<1>2. trace' \in Seq(Span) /\ Starts(trace') = Starts(events) /\ IsOrdered(trace', events)
  BY <1>1, TraceOrder DEF CallInv
<1>3. KeptInv'
  BY <1>1, <1>2 DEF CallInv, KeptInv
<1>4. OnceInv'
  BY <1>1 DEF CallInv, OnceInv
<1> QED
  BY <1>1, <1>2, <1>3, <1>4 DEF CallInv

LEMMA CompleteCall ==
  ASSUME TreeInv, CallInv, Complete
  PROVE  CallInv'
<1>1. /\ pc = "idle"
      /\ UNCHANGED <<open, events, spans, now, unanswered, exported, accepted>>
      /\ IF events = <<>> /\ raw' > 0
         THEN pc' = "replay" /\ UNCHANGED <<trace, tried>>
         ELSE Submit(run', RunTrace)
  BY DEF Complete, exporterVars
<1>2. CASE events = <<>> /\ raw' > 0
  <2>1. Starts(events) = {}
    BY <1>2 DEF Starts
  <2>2. pc' = "replay" /\ trace' = trace
    BY <1>1, <1>2
  <2>3. KeptInv'
    BY <1>1, <2>1, <2>2 DEF CallInv, KeptInv
  <2>4. OnceInv'
    BY <1>1, <2>2 DEF CallInv, OnceInv
  <2> QED
    BY <1>1, <2>2, <2>3, <2>4 DEF CallInv
<1>3. CASE ~(events = <<>> /\ raw' > 0)
  BY <1>1, <1>3, SubmitCall
<1> QED
  BY <1>2, <1>3

(* The exporter is reset when the server has what was exported between     *)
(* the calls.                                                              *)
LEMMA ResetCall ==
  ASSUME CallInv, Reset, pc \in {"replay", "answer"}, pc' \in {"recapture", "idle"},
         trace' \in Seq(Span), UNCHANGED <<open, now, exported, accepted, unanswered>>
  PROVE  CallInv'
<1>1. events' = <<>> /\ spans' = <<>> /\ Starts(<<>>) = {} /\ Causal(<<>>)
  BY DEF Reset, Starts, Causal
<1>2. KeptInv'
  BY <1>1 DEF CallInv, KeptInv
<1>3. OnceInv'
  BY <1>1 DEF CallInv, OnceInv
<1> QED
  BY <1>1, <1>2, <1>3 DEF CallInv

(* The server stores the trace. *)
LEMMA AcceptCall ==
  ASSUME TreeInv, CallInv, Accept
  PROVE  CallInv'
<1>1. /\ pc = "submit" /\ pc' = "answer" /\ accepted' = Append(accepted, trace)
      /\ UNCHANGED <<open, events, spans, trace, now, exported, unanswered>>
  BY DEF Accept, exporterVars
<1>2. /\ accepted \in Seq(Seq(Span)) /\ trace \in Seq(Span)
      /\ Starts(trace) \subseteq Starts(events) /\ Starts(events) \subseteq Starts(spans)
      /\ unanswered \in Nat /\ now \in Nat
  BY <1>1 DEF CallInv, TreeInv
<1>3. \A e : /\ e \in Starts(trace) =>
                  /\ With(accepted', e) # {}
                  /\ Cardinality(With(accepted', e)) = Cardinality(With(accepted, e)) + 1
             /\ e \notin Starts(trace) => With(accepted', e) = With(accepted, e)
             /\ With(accepted, e) # {} => With(accepted', e) # {}
             /\ Cardinality(With(accepted, e)) \in Nat
  BY <1>1, <1>2, WithOneMore, WithIsFinite
<1>4. accepted' \in Seq(Seq(Span))
  BY <1>1, <1>2
<1>5. KeptInv'
  BY <1>1, <1>3 DEF CallInv, KeptInv
<1>6. ASSUME NEW e \in Starts(trace)
      PROVE  e \in 1..now /\ \A t \in Threads : e \notin Starts(open[t])
  <2>1. PICK n \in DOMAIN spans : spans[n].start = e
    BY <1>2 DEF Starts
  <2>2. n \in 1..Len(spans) /\ spans[n].start \in Nat \ {0} /\ spans[n].start <= now
    BY Members DEF TreeInv, Dated
  <2>3. ASSUME NEW t \in Threads, e \in Starts(open[t]) PROVE FALSE
    <3>1. open[t] \in Seq(Span) /\ Apart(open[t], spans)
      BY DEF TreeInv
    <3>2. PICK m \in DOMAIN open[t] : open[t][m].start = e
      BY <2>3 DEF Starts
    <3>3. m \in 1..Len(open[t])
      BY <3>1
    <3> QED
      BY <2>1, <2>2, <3>1, <3>2, <3>3 DEF Apart
  <2> QED
    BY <1>2, <2>1, <2>2, <2>3
<1>7. ASSUME NEW k \in DOMAIN accepted', NEW e \in Starts(accepted'[k])
      PROVE  e \in 1..now /\ \A t \in Threads : e \notin Starts(open[t])
  <2>1. \/ accepted'[k] = trace
        \/ k \in DOMAIN accepted /\ accepted'[k] = accepted[k]
    BY <1>1, <1>2
  <2>2. CASE accepted'[k] = trace
    BY <1>6, <2>2
  <2>3. CASE k \in DOMAIN accepted /\ accepted'[k] = accepted[k]
    BY <2>3 DEF CallInv, OnceInv
  <2> QED
    BY <2>1, <2>2, <2>3
<1>8. ASSUME NEW e \in Nat
      PROVE  Cardinality(With(accepted', e)) <= 1 + unanswered
  <2> DEFINE before == Cardinality(With(accepted, e))
             after == Cardinality(With(accepted', e))
  <2>1. before \in Nat /\ before <= 1 + unanswered
    BY <1>3 DEF CallInv, OnceInv
  <2>2. CASE e \in Starts(trace)
    <3>1. before <= unanswered /\ after = before + 1
      BY <1>1, <1>2, <1>3, <2>2 DEF CallInv, OnceInv
    <3> HIDE DEF before, after
    <3>2. after <= 1 + unanswered
      BY <1>2, <2>1, <3>1
    <3> QED
      BY <3>2 DEF after
  <2>3. CASE e \notin Starts(trace)
    <3>1. after = before
      BY <1>3, <2>3
    <3> QED
      BY <2>1, <3>1
  <2> QED
    BY <2>2, <2>3
<1>9. OnceInv'
  BY <1>1, <1>7, <1>8 DEF OnceInv
<1> QED
  BY <1>1, <1>2, <1>4, <1>5, <1>9 DEF CallInv

(* The call raises; after the server stored the trace the answer is lost.  *)
LEMMA RaiseCall ==
  ASSUME CallInv, Raise
  PROVE  CallInv'
<1>1. /\ pc \in {"submit", "answer"} /\ pc' = "idle" /\ trace' = <<>>
      /\ unanswered' = IF pc = "answer" THEN unanswered + 1 ELSE unanswered
      /\ UNCHANGED <<open, events, spans, accepted, now, exported>>
  BY DEF Raise, exporterVars
<1>2. unanswered \in Nat /\ \A e : Cardinality(With(accepted, e)) \in Nat
  BY WithIsFinite DEF CallInv
<1>3. KeptInv'
  BY <1>1 DEF CallInv, KeptInv
<1>4. ASSUME NEW e \in Nat
      PROVE  /\ Cardinality(With(accepted, e)) <= 1 + unanswered'
             /\ e \in Starts(events) => Cardinality(With(accepted, e)) <= unanswered'
  <2> DEFINE there == Cardinality(With(accepted, e))
  <2>1. /\ there \in Nat /\ there <= 1 + unanswered
        /\ e \in Starts(events) /\ pc # "answer" => there <= unanswered
    BY <1>2 DEF CallInv, OnceInv
  <2> HIDE DEF there
  <2>2. /\ there <= 1 + unanswered'
        /\ e \in Starts(events) => there <= unanswered'
    BY <1>1, <1>2, <2>1
  <2> QED
    BY <2>2 DEF there
<1>5. OnceInv'
  BY <1>1, <1>4 DEF CallInv, OnceInv
<1> QED
  BY <1>1, <1>2, <1>3, <1>5 DEF CallInv

(* The call raises in the middle of the raw trace. *)
LEMMA RaiseInReplayCall ==
  ASSUME CallInv, RaiseInReplay
  PROVE  CallInv'
<1>1. /\ pc = "recapture" /\ pc' = "idle"
      /\ UNCHANGED <<open, events, spans, trace, unanswered, accepted, now, exported>>
  BY DEF RaiseInReplay, exporterVars
<1>2. KeptInv'
  BY <1>1 DEF CallInv, KeptInv
<1>3. OnceInv'
  BY <1>1 DEF CallInv, OnceInv
<1> QED
  BY <1>1, <1>2, <1>3 DEF CallInv

LEMMA CallStep == TreeInv /\ CallInv /\ [Next]_vars => CallInv'
<1> SUFFICES ASSUME TreeInv, CallInv, [Next]_vars PROVE CallInv'
  OBVIOUS
<1>1. ASSUME NEW t \in Threads, StartSpan(t) \/ EndSpan(t) PROVE CallInv'
  BY <1>1, StartSpanCall, EndSpanCall
<1>2. CASE Complete
  BY <1>2, CompleteCall
<1>3. CASE ResetForReplay \/ Return
  <2>1. /\ Reset /\ pc \in {"replay", "answer"} /\ pc' \in {"recapture", "idle"}
        /\ trace' \in {trace, <<>>} /\ UNCHANGED <<open, now, exported, accepted, unanswered>>
    BY <1>3 DEF ResetForReplay, Return
  <2>2. trace \in Seq(Span) /\ <<>> \in Seq(Span)
    BY DEF CallInv
  <2>3. trace' \in Seq(Span)
    BY <2>1, <2>2
  <2> QED
    BY <2>1, <2>3, ResetCall
<1>4. CASE Replay
  BY <1>4, ReplayCall
<1>5. CASE Recapture
  BY <1>5, SubmitCall DEF Recapture, exporterVars
<1>6. CASE Accept
  BY <1>6, AcceptCall
<1>7. CASE Raise
  BY <1>7, RaiseCall
<1>8. CASE RaiseInReplay
  BY <1>8, RaiseInReplayCall
<1>9. CASE UNCHANGED vars
  BY <1>9 DEF vars, exporterVars, callVars, CallInv, KeptInv, OnceInv
<1> QED
  BY <1>1, <1>2, <1>3, <1>4, <1>5, <1>6, <1>7, <1>8, <1>9 DEF Next

(* Spans and calls, together. *)
THEOREM SessionsAreKept == Spec => [](TreeInv /\ CallInv)
<1>1. TreeInv /\ CallInv /\ [Next]_vars => TreeInv' /\ CallInv'
  BY TreeStep, CallStep
<1> QED
  BY <1>1, CallInit, PTL DEF Spec

LEMMA KeptEvents == TreeInv /\ CallInv => EventsAreSubmitted
<1> SUFFICES ASSUME TreeInv, CallInv, NEW e \in 1..now
             PROVE  /\ e \in exported => e \in Starts(events) \/ With(accepted, e) # {}
                    /\ Cardinality(With(accepted, e)) <= 1 + unanswered
  BY DEF EventsAreSubmitted, With
<1>1. e \in Nat
  BY DEF TreeInv
<1> QED
  BY <1>1 DEF CallInv, KeptInv, OnceInv

(* An event exported between calls is held until the server has it, and    *)
(* no event is stored more often than answers are lost, however threads    *)
(* end spans during calls, replays and failures.                           *)
THEOREM EventsReachServer == Spec => []EventsAreSubmitted
  BY SessionsAreKept, KeptEvents, PTL

LEMMA OrderedTraces == TreeInv /\ CallInv => TraceIsInOrder
<1> SUFFICES ASSUME TreeInv, CallInv, pc \in {"submit", "answer"},
                    NEW m \in DOMAIN trace, NEW n \in DOMAIN trace
             PROVE  LET stepless == \A l \in DOMAIN trace : \A e \in ToSet(events) :
                                      e.start = trace[l].start => e.step = 0
                        stepped  == \A l \in DOMAIN trace : \A e \in ToSet(events) :
                                      e.start = trace[l].start => e.step # 0
                        timely   == \A l \in DOMAIN trace : trace[l].time = trace[l].start
                    IN /\ stepped /\ m < n => trace[m].step <= trace[n].step
                       /\ stepless /\ m < n => trace[m].time <= trace[n].time
                       /\ stepless /\ timely /\ trace[n].parent = trace[m].start => m < n
                       /\ stepless => trace[n].step = n
  BY DEF TraceIsInOrder
<1> DEFINE stepless == \A l \in DOMAIN trace : \A e \in ToSet(events) :
                         e.start = trace[l].start => e.step = 0
           stepped  == \A l \in DOMAIN trace : \A e \in ToSet(events) :
                         e.start = trace[l].start => e.step # 0
           timely   == \A l \in DOMAIN trace : trace[l].time = trace[l].start
<1>1. IsOrdered(trace, events)
  BY DEF CallInv
<1>2. PICK order \in [DOMAIN trace -> DOMAIN events] :
        /\ \A l \in DOMAIN trace : IsPlaced(trace[l], l, events[order[l]])
        /\ \A k, l \in DOMAIN trace : k < l => MayPrecede(events[order[k]], events[order[l]])
  BY <1>1 DEF IsOrdered
<1>3. m \in Nat /\ n \in Nat
  BY DEF CallInv
<1>4. \A l \in DOMAIN events : events[l] \in Span /\ events[l] \in ToSet(events)
  BY DEF CallInv, ToSet
<1> DEFINE first  == events[order[m]]
           second == events[order[n]]
<1>5. /\ first \in Span /\ second \in Span /\ first \in ToSet(events) /\ second \in ToSet(events)
      /\ IsPlaced(trace[m], m, first) /\ IsPlaced(trace[n], n, second)
      /\ m < n => MayPrecede(first, second)
      /\ n < m => MayPrecede(second, first)
  BY <1>2, <1>4
<1> HIDE DEF first, second
<1>6. /\ stepless => first.step = 0 /\ second.step = 0
      /\ stepped => first.step # 0 /\ second.step # 0
  BY <1>5 DEF IsPlaced
<1>7. /\ first.start \in Nat /\ second.start \in Nat /\ second.parent \in Nat
      /\ second.parent < second.start
  <2>1. second.parent < second.start
    BY <1>2 DEF CallInv, Causal, second
  <2> QED
    BY <1>5, <2>1 DEF Span
<1>8. timely => first.time = first.start /\ second.time = second.start
  BY <1>5 DEF IsPlaced
<1> HIDE DEF stepless, stepped, timely
<1>9. stepped /\ m < n => trace[m].step <= trace[n].step
  BY <1>5, <1>6 DEF IsPlaced, MayPrecede
<1>10. stepless /\ m < n => trace[m].time <= trace[n].time
  BY <1>5, <1>6 DEF IsPlaced, MayPrecede
<1>11. ASSUME stepless, timely, trace[n].parent = trace[m].start
      PROVE  m < n
  <2>1. first.start < second.start
    BY <1>5, <1>7, <1>11 DEF IsPlaced
  <2>2. m # n
    BY <1>7, <2>1 DEF first, second
  <2>3. ~(n < m)
    BY <1>5, <1>6, <1>7, <1>8, <1>11, <2>1 DEF MayPrecede
  <2> QED
    BY <1>3, <2>2, <2>3
<1>12. stepless => trace[n].step = n
  BY <1>5, <1>6 DEF IsPlaced
<1> QED
  BY <1>9, <1>10, <1>11, <1>12 DEF stepless, stepped, timely

(* A trace is submitted in the order of its steps or, without steps, of    *)
(* its times, and so of causes before effects when these are the starts of *)
(* its spans, in whatever order its spans ended.                           *)
THEOREM TracesAreOrdered == Spec => []TraceIsInOrder
  BY SessionsAreKept, OrderedTraces, PTL
=============================================================================
