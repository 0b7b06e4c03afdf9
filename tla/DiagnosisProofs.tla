--------------------------- MODULE DiagnosisProofs ---------------------------
(***************************************************************************)
(* Theorems about Diagnosis, for traces of any length and any outcome of   *)
(* the tests: the routing check means its rule, a report speaks of each    *)
(* violation once and in one voice, a clean trace looks clean, and a       *)
(* violation can be found on the dashboard.                                *)
(*                                                                         *)
(* The checks and the checker are folds.  The first section shows that a   *)
(* fold passes through the prefixes of its sequence, so that its result    *)
(* can be argued about by induction on their length.                       *)
(***************************************************************************)
EXTENDS Diagnosis, TLAPS, WellFoundedInduction, FiniteSetTheorems

-----------------------------------------------------------------------------
(***************************************************************************)
(* Folds over the places of a sequence.                                    *)
(***************************************************************************)

(* Every set of numbers has a least member, and induction on numbers for   *)
(* sets instead of predicates.                                             *)
LEMMA NatMin ==
  ASSUME NEW T, T \subseteq Nat, T # {}
  PROVE  \E x \in T : \A y \in T : x <= y
<1> DEFINE R == OpToRel(<, Nat)
<1>1. \A x, y \in Nat : x < y => <<x, y>> \in R
  BY DEF OpToRel
<1>2. IsWellFoundedOn(R, Nat)
  BY NatLessThanWellFounded
<1> HIDE DEF R
<1>3. PICK x \in T : \A y \in T : ~ (<<y, x>> \in R)
  BY <1>2, WFMin
<1>4. \A y \in T : x \in Nat /\ y \in Nat /\ ~ (y < x)
  BY <1>1, <1>3
<1> QED
  BY <1>4

LEMMA NatInd ==
  ASSUME NEW T, 0 \in T, \A n \in Nat : n \in T => n + 1 \in T
  PROVE  Nat \subseteq T
<1> SUFFICES ASSUME NEW k \in Nat, k \notin T PROVE FALSE
  OBVIOUS
<1> DEFINE U == {n \in Nat : n \notin T}
<1>1. PICK x \in U : \A y \in U : x <= y
  <2>1. U \subseteq Nat /\ U # {}
    OBVIOUS
  <2> QED
    BY <2>1, NatMin
<1>2. x # 0 /\ x - 1 \in Nat /\ x - 1 \in T
  BY <1>1
<1> QED
  BY <1>1, <1>2

(* The greatest member of a set of places, on which the folds are built.   *)
LEMMA MaxIn ==
  ASSUME NEW n \in Nat, NEW S \in SUBSET (1..n), S # {}
  PROVE  Max(S) \in S /\ \A y \in S : y <= Max(S)
<1> DEFINE T == {z \in Nat : n - z \in S}
<1>1. \A x \in S : x \in Nat /\ n - x \in T /\ x <= n
  OBVIOUS
<1>2. T \subseteq Nat /\ T # {}
  BY <1>1
<1>3. PICK t \in T : \A u \in T : t <= u
  BY <1>2, NatMin
<1>4. n - t \in S /\ t \in Nat
  BY <1>3
<1>5. \A y \in S : n - t >= y
  <2> SUFFICES ASSUME NEW y \in S PROVE n - t >= y
    OBVIOUS
  <2>1. t <= n - y /\ y \in Nat
    BY <1>1, <1>3
  <2> QED
    BY <1>4, <2>1
<1> QED
  BY <1>4, <1>5 DEF Max

(* The size of a set of places.                                            *)
LEMMA SmallSets ==
  ASSUME NEW n \in Nat, NEW S \in SUBSET (1..n)
  PROVE  /\ IsFiniteSet(S) /\ Cardinality(S) \in Nat /\ Cardinality(S) <= n
         /\ Cardinality(S) = 0 <=> S = {}
<1>1. IsFiniteSet(1..n) /\ Cardinality(1..n) = n
  BY FS_Interval
<1>2. IsFiniteSet(S) /\ Cardinality(S) <= n
  BY <1>1, FS_Subset
<1> QED
  BY <1>2, FS_CardinalityType, FS_EmptySet

(* h tells for every set of places what a fold yields over it: b for none, *)
(* and G of the last place and what the others yield.                      *)
IsTable(h, n, V, b, G) ==
  /\ h \in [SUBSET (1..n) -> V]
  /\ \A S \in SUBSET (1..n) :
        h[S] = IF S = {} THEN b ELSE G[<<Max(S), h[S \ {Max(S)}]>>]

(* There is such a table, by induction on the size of the sets.            *)
LEMMA Table ==
  ASSUME NEW n \in Nat, NEW V, NEW b \in V, NEW G \in [(1..n) \X V -> V]
  PROVE  \E h : IsTable(h, n, V, b, G)
<1> DEFINE D(k) == {S \in SUBSET (1..n) : Cardinality(S) <= k}
           Good(h, k) == \A S \in D(k) :
              h[S] = IF S = {} THEN b ELSE G[<<Max(S), h[S \ {Max(S)}]>>]
           T == {k \in Nat : \E h \in [D(k) -> V] : Good(h, k)}
<1>2. ASSUME NEW k \in Nat, NEW S \in D(k + 1), S # {}
      PROVE  S \ {Max(S)} \in D(k) /\ Max(S) \in 1..n
  <2>1. S \in SUBSET (1..n) /\ Max(S) \in S
    BY <1>2, MaxIn
  <2>2. IsFiniteSet(S) /\ Cardinality(S) \in Nat /\ Cardinality(S) <= k + 1
    BY <2>1, SmallSets
  <2>3. Cardinality(S \ {Max(S)}) = Cardinality(S) - 1
    BY <2>1, <2>2, FS_RemoveElement
  <2>4. Cardinality(S \ {Max(S)}) <= k
    BY <2>2, <2>3
  <2> QED
    BY <2>1, <2>4
<1>3. 0 \in T
  <2>1. D(0) = {{}}
    BY SmallSets
  <2>2. [S \in D(0) |-> b] \in [D(0) -> V] /\ Good([S \in D(0) |-> b], 0)
    BY <2>1
  <2> QED
    BY <2>2
<1>5. \A k \in Nat : D(k) \subseteq D(k + 1)
    BY SmallSets
<1>6. D(n) = SUBSET (1..n)
  BY SmallSets
<1> HIDE DEF D
<1>4. ASSUME NEW k \in Nat, k \in T
      PROVE  k + 1 \in T
  <2>1. PICK h \in [D(k) -> V] : Good(h, k)
    BY <1>4
  <2> DEFINE e == [S \in D(k + 1) |-> IF S = {} THEN b ELSE G[<<Max(S), h[S \ {Max(S)}]>>]]
  <2>3. e \in [D(k + 1) -> V]
    BY <1>2
  <2>5. \A S \in D(k) : e[S] = h[S]
    BY <2>1, <1>5
  <2>6. Good(e, k + 1)
    BY <1>2, <2>5
  <2> HIDE DEF e, Good
  <2> QED
    BY <2>3, <2>6
<1> HIDE DEF T
<1>7. n \in T
  BY <1>3, <1>4, NatInd
<1> QED
  BY <1>6, <1>7 DEF T, IsTable

(* The last place of a prefix.                                             *)
LEMMA PrefixMax ==
  ASSUME NEW k \in Nat
  PROVE  /\ 1..(k + 1) # {} /\ Max(1..(k + 1)) = k + 1
         /\ (1..(k + 1)) \ {k + 1} = 1..k
<1>1. Max(1..(k + 1)) \in 1..(k + 1) /\ \A y \in 1..(k + 1) : y <= Max(1..(k + 1))
  <2>1. 1..(k + 1) \in SUBSET (1..(k + 1)) /\ 1..(k + 1) # {} /\ k + 1 \in Nat
    OBVIOUS
  <2> QED
    BY <2>1, MaxIn
<1> QED
  BY <1>1

(* r is the run of G through 1..n from b, and g agrees with its end.  *)
IsRun(r, g, n, V, b, G) ==
  /\ r \in [0..n -> V]
  /\ r[0] = b
  /\ \A k \in 1..n : r[k] = G[<<k, r[k - 1]>>]
  /\ r[n] = g[1..n]

(* g meets the equation of a table as far as its values are of V. *)
MeetsTable(g, n, V, b, G) ==
  /\ g[{}] = b
  /\ \A S \in SUBSET (1..n) :
       S # {} /\ g[S \ {Max(S)}] \in V => g[S] = G[<<Max(S), g[S \ {Max(S)}]>>]

(* A fold passes through the prefixes one by one.                          *)
LEMMA FoldRuns ==
  ASSUME NEW n \in Nat, NEW V, NEW b \in V, NEW G \in [(1..n) \X V -> V], NEW g,
         MeetsTable(g, n, V, b, G)
  PROVE  \E r : IsRun(r, g, n, V, b, G)
<1> DEFINE r == [k \in 0..n |-> g[1..k]]
<1>1. r[0] = b
  BY 1..0 = {} DEF MeetsTable
<1>2. ASSUME NEW k \in Nat, k + 1 <= n, r[k] \in V
      PROVE  r[k + 1] = G[<<k + 1, r[k]>>] /\ r[k + 1] \in V
  <2>1. /\ 1..(k + 1) \in SUBSET (1..n) /\ 1..(k + 1) # {}
        /\ k \in 0..n /\ k + 1 \in 0..n /\ k + 1 \in 1..n
    <3>1. k + 1 <= n
      BY <1>2
    <3> HIDE DEF r
    <3>2. \A i \in 1..(k + 1) : i \in 1..n
      BY <3>1
    <3> QED
      BY <3>1, <3>2
  <2>2. Max(1..(k + 1)) = k + 1 /\ (1..(k + 1)) \ {k + 1} = 1..k
    BY PrefixMax
  <2>3. r[k] = g[1..k] /\ r[k + 1] = g[1..(k + 1)]
    BY <2>1
  <2> HIDE DEF r
  <2>4. r[k + 1] = G[<<k + 1, r[k]>>]
    BY <1>2, <2>1, <2>2, <2>3 DEF MeetsTable
  <2> QED
    BY <1>2, <2>1, <2>4
<1>3. r[n] = g[1..n]
  OBVIOUS
<1> DEFINE T == {k \in Nat : k <= n => r[k] \in V}
<1>4. DOMAIN r = 0..n /\ r = [k \in 0..n |-> r[k]]
  OBVIOUS
<1> HIDE DEF r
<1>5. 0 \in T
  BY <1>1
<1>6. ASSUME NEW k \in Nat, k \in T
      PROVE  k + 1 \in T
  <2>1. k + 1 <= n => r[k] \in V
    BY <1>6
  <2>2. k + 1 <= n => r[k + 1] \in V
    BY <1>2, <2>1
  <2> QED
    BY <2>2
<1> HIDE DEF T
<1>7. Nat \subseteq T
  BY <1>5, <1>6, NatInd
<1>8. \A k \in 0..n : r[k] \in V
  BY <1>7 DEF T
<1>9. \A k \in 1..n : r[k] = G[<<k, r[k - 1]>>]
  <2> SUFFICES ASSUME NEW k \in 1..n PROVE r[k] = G[<<k, r[k - 1]>>]
    OBVIOUS
  <2>1. k - 1 \in Nat /\ (k - 1) + 1 <= n /\ (k - 1) + 1 = k /\ k - 1 \in 0..n
    OBVIOUS
  <2> QED
    BY <2>1, <1>2, <1>8
<1> QED
  BY <1>1, <1>3, <1>4, <1>8, <1>9 DEF IsRun

-----------------------------------------------------------------------------
(***************************************************************************)
(* The routing scan.                                                       *)
(***************************************************************************)

(* What the routing scan remembers of the events so far.                   *)
Flags == [tool : BOOLEAN, gate : BOOLEAN, ok : BOOLEAN]

(* A step of the scan, by type and by what it sets.                        *)
LEMMA ScanType ==
  ASSUME NEW state \in Flags, NEW event \in Event
  PROVE  Scan(state, event) \in Flags
BY DEF Flags, Scan, VerifierToolEvent, Event

LEMMA ScanFields ==
  ASSUME NEW state \in Flags, NEW event \in Event
  PROVE  /\ Scan(state, event).tool <=> state.tool \/ VerifierToolEvent(event)
         /\ Scan(state, event).gate <=> state.gate \/ event.agent = "HumanGateAgent"
         /\ Scan(state, event).ok <=>
              /\ state.ok
              /\ event.agent = "ReporterAgent" => Scan(state, event).tool
              /\ event.agent = "ActionAgent" => Scan(state, event).gate
BY DEF Scan, VerifierToolEvent, Flags, Event

(* The scan of a trace, event by event. *)
LEMMA ScanFold ==
  ASSUME NEW s \in Seq(Event), NEW base \in Flags
  PROVE  \E r : /\ r \in [0..Len(s) -> Flags] /\ r[0] = base
                /\ \A k \in 1..Len(s) : r[k] = Scan(r[k - 1], s[k])
                /\ FoldLeft(Scan, base, s) = r[Len(s)]
<1> DEFINE n == Len(s)
           G == [p \in (1..n) \X Flags |-> Scan(p[2], s[p[1]])]
           Eq(g) == g = [S \in SUBSET DOMAIN s |->
                            IF S = {} THEN base ELSE Scan(g[S \ {Max(S)}], s[Max(S)])]
           iter == CHOOSE g : Eq(g)
<1>1. n \in Nat /\ DOMAIN s = 1..n /\ \A k \in 1..n : s[k] \in Event
  OBVIOUS
<1>2. FoldLeft(Scan, base, s) = iter[1..n]
  BY <1>1 DEF FoldLeft, MapThenFoldSet
<1>3. G \in [(1..n) \X Flags -> Flags]
  BY <1>1, ScanType
<1>4. \A k \in 1..n, f \in Flags : G[<<k, f>>] = Scan(f, s[k])
  OBVIOUS
<1> HIDE DEF G, n
<1>5. \E g : Eq(g)
  <2>1. PICK h : IsTable(h, n, Flags, base, G)
    BY <1>1, <1>3, Table
  <2>2. \A S \in SUBSET (1..n) :
           h[S] = IF S = {} THEN base ELSE Scan(h[S \ {Max(S)}], s[Max(S)])
    BY <1>1, <1>4, <2>1, MaxIn DEF IsTable
  <2> QED
    BY <1>1, <2>1, <2>2 DEF IsTable
<1>6. Eq(iter)
  BY <1>5
<1> HIDE DEF iter
<1>7. \A S \in SUBSET (1..n) :
         iter[S] = IF S = {} THEN base ELSE Scan(iter[S \ {Max(S)}], s[Max(S)])
  BY <1>1, <1>6
<1>8. PICK r : IsRun(r, iter, n, Flags, base, G)
  <2>1. MeetsTable(iter, n, Flags, base, G)
    BY <1>1, <1>4, <1>7, MaxIn DEF MeetsTable
  <2> QED
    BY <1>1, <1>3, <2>1, FoldRuns
<1>9. \A k \in 1..n : r[k] = Scan(r[k - 1], s[k])
  <2> SUFFICES ASSUME NEW k \in 1..n PROVE r[k] = Scan(r[k - 1], s[k])
    OBVIOUS
  <2>1. k - 1 \in 0..n
    BY <1>1
  <2>2. r[k - 1] \in Flags /\ r[k] = G[<<k, r[k - 1]>>]
    BY <1>8, <2>1 DEF IsRun
  <2> QED
    BY <1>4, <2>2
<1> QED
  BY <1>2, <1>8, <1>9 DEF IsRun, n

(* Event m of trace s comes before event n, in a stable sort by step. *)
Before(s, m, n) ==
  \/ s[m].step < s[n].step
  \/ s[m].step = s[n].step /\ m < n

Ahead(s, n) == {m \in DOMAIN s : Before(s, m, n)}

Place(s, n) == Cardinality(Ahead(s, n)) + 1

(* The sort is a permutation of the trace that keeps to the order of Before. *)
LEMMA StepOrder ==
  ASSUME NEW s \in Seq(Event)
  PROVE  /\ InStepOrder(s) \in Seq(Event) /\ Len(InStepOrder(s)) = Len(s)
         /\ \E order \in [DOMAIN s -> DOMAIN s] :
              /\ \A n \in DOMAIN s : \E k \in DOMAIN s : order[k] = n
              /\ \A k \in DOMAIN s : InStepOrder(s)[k] = s[order[k]]
              /\ \A j, k \in DOMAIN s : j <= k <=> ~Before(s, order[k], order[j])
<1> DEFINE N == Len(s)
           place == [n \in 1..N |-> Place(s, n)]
           order == [k \in 1..N |-> CHOOSE n \in 1..N : Place(s, n) = k]
<1>1. /\ N \in Nat /\ DOMAIN s = 1..N
      /\ \A n \in 1..N : s[n].step \in Nat
  <2>1. \A e \in Event : e.step \in Nat
    BY DEF Event
  <2> QED
    BY <2>1
<1>2. \A n \in 1..N : /\ IsFiniteSet(Ahead(s, n))
                      /\ Place(s, n) \in 1..N
  <2> SUFFICES ASSUME NEW n \in 1..N
               PROVE  IsFiniteSet(Ahead(s, n)) /\ Place(s, n) \in 1..N
    OBVIOUS
  <2>1. Ahead(s, n) \in SUBSET ((1..N) \ {n})
    BY <1>1 DEF Ahead, Before
  <2>2. IsFiniteSet((1..N) \ {n}) /\ Cardinality((1..N) \ {n}) = N - 1
    <3>1. IsFiniteSet(1..N) /\ Cardinality(1..N) = N
      BY <1>1, FS_Interval, SMTT(30)
    <3> QED
      BY <3>1, FS_RemoveElement
  <2>3. IsFiniteSet(Ahead(s, n)) /\ Cardinality(Ahead(s, n)) <= N - 1
    BY <2>1, <2>2, FS_Subset
  <2>4. Cardinality(Ahead(s, n)) \in Nat
    BY <2>3, FS_CardinalityType
  <2> QED
    BY <1>1, <2>3, <2>4 DEF Place
<1>3. ASSUME NEW m \in 1..N, NEW n \in 1..N, Before(s, m, n)
      PROVE  Place(s, m) < Place(s, n)
  <2>1. Ahead(s, m) \in SUBSET Ahead(s, n)
    BY <1>1, <1>3 DEF Ahead, Before
  <2>2. m \in Ahead(s, n) /\ m \notin Ahead(s, m)
    BY <1>1, <1>3 DEF Ahead, Before
  <2>3. Cardinality(Ahead(s, m)) <= Cardinality(Ahead(s, n))
        /\ Cardinality(Ahead(s, m)) # Cardinality(Ahead(s, n))
    BY <1>2, <2>1, <2>2, FS_Subset
  <2>4. Cardinality(Ahead(s, m)) \in Nat /\ Cardinality(Ahead(s, n)) \in Nat
    BY <1>2, FS_CardinalityType
  <2> QED
    BY <2>3, <2>4 DEF Place
<1>4. \A m, n \in 1..N : m = n \/ Before(s, m, n) \/ Before(s, n, m)
  BY <1>1 DEF Before
<1>5. place \in Injection(1..N, 1..N)
  <2>1. \A m, n \in 1..N : Place(s, m) = Place(s, n) => m = n
    BY <1>1, <1>2, <1>3, <1>4
  <2> QED
    BY <1>2, <2>1 DEF Injection, IsInjective
<1>6. \A k \in 1..N : \E n \in 1..N : Place(s, n) = k
  <2>1. place \in Surjection(1..N, 1..N)
    BY <1>1, <1>5, FS_Interval, FS_Injection
  <2> QED
    BY <2>1 DEF Surjection
<1>7. \A k \in 1..N : order[k] \in 1..N /\ Place(s, order[k]) = k
  BY <1>6
<1>8. order \in [1..N -> 1..N]
  BY <1>7
<1>9. \A n \in 1..N : \E k \in 1..N : order[k] = n
  <2> SUFFICES ASSUME NEW n \in 1..N PROVE order[Place(s, n)] = n
    BY <1>2
  <2>1. Place(s, order[Place(s, n)]) = Place(s, n) /\ order[Place(s, n)] \in 1..N
    BY <1>2, <1>7
  <2> QED
    BY <1>5, <2>1 DEF Injection, IsInjective
<1>10. InStepOrder(s) = [k \in 1..N |-> s[order[k]]]
  BY <1>1 DEF InStepOrder, Place, Ahead, Before
<1> HIDE DEF order, place
<1>11. \A j, k \in 1..N : j <= k <=> ~Before(s, order[k], order[j])
  <2> SUFFICES ASSUME NEW j \in 1..N, NEW k \in 1..N
               PROVE  j <= k <=> ~Before(s, order[k], order[j])
    OBVIOUS
  <2>1. /\ order[j] \in 1..N /\ Place(s, order[j]) = j
        /\ order[k] \in 1..N /\ Place(s, order[k]) = k
    BY <1>7
  <2>2. Before(s, order[k], order[j]) => k < j
    BY <1>3, <2>1
  <2>3. Before(s, order[j], order[k]) => j < k
    BY <1>3, <2>1
  <2>4. order[j] = order[k] => j = k
    BY <2>1
  <2> QED
    BY <1>1, <1>4, <2>1, <2>2, <2>3, <2>4
<1>12. InStepOrder(s) \in Seq(Event) /\ Len(InStepOrder(s)) = N
  <2>1. \A k \in 1..N : s[order[k]] \in Event
    BY <1>1, <1>8
  <2> QED
    BY <1>1, <1>10, <2>1
<1> QED
  BY <1>1, <1>8, <1>9, <1>10, <1>11, <1>12

(* Whether something was seen up to place k of trace t. *)
ToolSeen(t, k) == \E j \in 1..k : VerifierToolEvent(t[j])
GateSeen(t, k) == \E j \in 1..k : t[j].agent = "HumanGateAgent"

Admitted(t, k) ==
  /\ t[k].agent = "ReporterAgent" => ToolSeen(t, k)
  /\ t[k].agent = "ActionAgent" => GateSeen(t, k)

ScanBase == [tool |-> FALSE, gate |-> FALSE, ok |-> TRUE]

(* What the scan has set when it has gone through t, by induction on the   *)
(* places of t.                                                            *)
LEMMA ScanMeaning ==
  ASSUME NEW t \in Seq(Event)
  PROVE  FoldLeft(Scan, ScanBase, t).ok <=> \A k \in 1..Len(t) : Admitted(t, k)
<1> DEFINE n == Len(t)
<1>1. n \in Nat /\ ScanBase \in Flags
  BY DEF ScanBase, Flags
<1>2. PICK r : /\ r \in [0..n -> Flags] /\ r[0] = ScanBase
               /\ \A k \in 1..n : r[k] = Scan(r[k - 1], t[k])
               /\ FoldLeft(Scan, ScanBase, t) = r[n]
  BY <1>1, ScanFold
<1> HIDE DEF n
<1> DEFINE Said(k) == /\ r[k].tool <=> ToolSeen(t, k)
                      /\ r[k].gate <=> GateSeen(t, k)
                      /\ r[k].ok <=> \A j \in 1..k : Admitted(t, j)
           T == {k \in Nat : k <= n => Said(k)}
<1>3. 0 \in T
  BY <1>1, <1>2 DEF ScanBase, ToolSeen, GateSeen
<1>4. ASSUME NEW k \in Nat, k \in T
      PROVE  k + 1 \in T
  <2> SUFFICES ASSUME k + 1 <= n
               PROVE  Said(k + 1)
    OBVIOUS
  <2>1. Said(k)
    BY <1>1, <1>4
  <2>2. r[k + 1] = Scan(r[k], t[k + 1]) /\ r[k] \in Flags /\ t[k + 1] \in Event
    BY <1>1, <1>2 DEF n
  <2>3. 1..(k + 1) = (1..k) \cup {k + 1}
    OBVIOUS
  <2>4. r[k + 1].tool <=> ToolSeen(t, k + 1)
    <3>1. r[k + 1].tool <=> r[k].tool \/ VerifierToolEvent(t[k + 1])
      BY <2>2, ScanFields
    <3>2. ToolSeen(t, k + 1) <=> ToolSeen(t, k) \/ VerifierToolEvent(t[k + 1])
      BY <2>3 DEF ToolSeen
    <3> QED
      BY <2>1, <3>1, <3>2
  <2>5. r[k + 1].gate <=> GateSeen(t, k + 1)
    <3>1. r[k + 1].gate <=> r[k].gate \/ t[k + 1].agent = "HumanGateAgent"
      BY <2>2, ScanFields
    <3>2. GateSeen(t, k + 1) <=> GateSeen(t, k) \/ t[k + 1].agent = "HumanGateAgent"
      BY <2>3 DEF GateSeen
    <3> QED
      BY <2>1, <3>1, <3>2
  <2>6. r[k + 1].ok <=> r[k].ok /\ Admitted(t, k + 1)
    BY <2>2, <2>4, <2>5, ScanFields DEF Admitted
  <2>7. r[k + 1].ok <=> \A j \in 1..(k + 1) : Admitted(t, j)
    BY <2>1, <2>3, <2>6
  <2> QED
    BY <2>4, <2>5, <2>7
<1> HIDE DEF T
<1>5. n \in T
  BY <1>1, <1>3, <1>4, NatInd
<1> QED
  BY <1>1, <1>2, <1>5 DEF T, n

(* What the routing check finds in a trace is what its rule says.          *)
LEMMA RoutingScan ==
  ASSUME NEW s \in Seq(Event)
  PROVE  RoutingHolds(s) <=>
           \A n \in DOMAIN s :
             /\ s[n].agent = "ReporterAgent" =>
                  \E m \in DOMAIN s : VerifierToolEvent(s[m]) /\ ~Before(s, n, m)
             /\ s[n].agent = "ActionAgent" =>
                  \E m \in DOMAIN s : s[m].agent = "HumanGateAgent" /\ ~Before(s, n, m)
<1> DEFINE t == InStepOrder(s)
           N == Len(s)
<1>1. PICK order \in [DOMAIN s -> DOMAIN s] :
         /\ \A n \in DOMAIN s : \E k \in DOMAIN s : order[k] = n
         /\ \A k \in DOMAIN s : InStepOrder(s)[k] = s[order[k]]
         /\ \A j, k \in DOMAIN s : j <= k <=> ~Before(s, order[k], order[j])
  BY StepOrder
<1>2. t \in Seq(Event) /\ Len(t) = N /\ N \in Nat /\ DOMAIN s = 1..N
  BY StepOrder
<1>3. RoutingHolds(s) <=> \A k \in 1..N : Admitted(t, k)
  BY <1>2, ScanMeaning DEF RoutingHolds, ScanBase
<1>4. ASSUME NEW k \in 1..N
      PROVE  ToolSeen(t, k) <=>
               \E m \in 1..N : VerifierToolEvent(s[m]) /\ ~Before(s, order[k], m)
  <2>1. \A j \in 1..k : j \in 1..N /\ j <= k
    BY <1>2
  <2>2. \A j \in 1..N : j <= k => j \in 1..k
    BY <1>2
  <2> QED
    <3>1. ASSUME NEW j \in 1..k, VerifierToolEvent(t[j])
          PROVE  VerifierToolEvent(s[order[j]]) /\ ~Before(s, order[k], order[j]) /\ order[j] \in 1..N
      BY <1>1, <1>2, <2>1, <3>1
    <3>2. ASSUME NEW m \in 1..N, VerifierToolEvent(s[m]), ~Before(s, order[k], m)
          PROVE  \E j \in 1..k : VerifierToolEvent(t[j])
      <4>1. PICK j \in 1..N : order[j] = m
        BY <1>1, <1>2
      <4>2. j \in 1..k
        BY <1>1, <1>2, <2>2, <3>2, <4>1
      <4> QED
        BY <1>1, <1>2, <3>2, <4>1, <4>2
    <3> QED
      BY <3>1, <3>2 DEF ToolSeen
<1>5. ASSUME NEW k \in 1..N
      PROVE  GateSeen(t, k) <=>
               \E m \in 1..N : s[m].agent = "HumanGateAgent" /\ ~Before(s, order[k], m)
  <2>1. \A j \in 1..k : j \in 1..N /\ j <= k
    BY <1>2
  <2>2. \A j \in 1..N : j <= k => j \in 1..k
    BY <1>2
  <2> QED
    <3>1. ASSUME NEW j \in 1..k, t[j].agent = "HumanGateAgent"
          PROVE  s[order[j]].agent = "HumanGateAgent" /\ ~Before(s, order[k], order[j]) /\ order[j] \in 1..N
      BY <1>1, <1>2, <2>1, <3>1
    <3>2. ASSUME NEW m \in 1..N, s[m].agent = "HumanGateAgent", ~Before(s, order[k], m)
          PROVE  \E j \in 1..k : t[j].agent = "HumanGateAgent"
      <4>1. PICK j \in 1..N : order[j] = m
        BY <1>1, <1>2
      <4>2. j \in 1..k
        BY <1>1, <1>2, <2>2, <3>2, <4>1
      <4> QED
        BY <1>1, <1>2, <3>2, <4>1, <4>2
    <3> QED
      BY <3>1, <3>2 DEF GateSeen
<1> DEFINE Fine(n) ==
       /\ s[n].agent = "ReporterAgent" =>
            \E m \in 1..N : VerifierToolEvent(s[m]) /\ ~Before(s, n, m)
       /\ s[n].agent = "ActionAgent" =>
            \E m \in 1..N : s[m].agent = "HumanGateAgent" /\ ~Before(s, n, m)
<1>6. \A k \in 1..N : Admitted(t, k) <=> Fine(order[k])
  BY <1>1, <1>2, <1>4, <1>5 DEF Admitted
<1>7. (\A k \in 1..N : Fine(order[k])) <=> \A n \in 1..N : Fine(n)
  <2> HIDE DEF Fine
  <2> QED
    BY <1>1, <1>2
<1> QED
  BY <1>2, <1>3, <1>6, <1>7

-----------------------------------------------------------------------------
(***************************************************************************)
(* The contract checker.                                                   *)
(***************************************************************************)

(* The first place of a set of places.                                     *)
LEMMA FirstIn ==
  ASSUME NEW s, DOMAIN s \subseteq Nat, NEW S \in SUBSET DOMAIN s, S # {}
  PROVE  Min(S) \in S /\ \A m \in S : Min(S) <= m
<1>1. PICK x \in S : \A y \in S : x <= y
  BY NatMin
<1> QED
  BY <1>1 DEF Min

(* What becomes of the findings when one more contract is judged.          *)
Judged(s, snap, found, type) ==
  IF Holds(type, s, snap) THEN found ELSE Append(found, ViolationOf(s, type))

(* What the checker has found when it has gone through the contracts of T. *)
Findings(s, snap, found, T) ==
  /\ found \in Seq(Violation)
  /\ \A i \in DOMAIN found :
       /\ found[i].type \in T /\ ~Holds(found[i].type, s, snap)
       /\ found[i] = ViolationOf(s, found[i].type)
  /\ \A i, j \in DOMAIN found : found[i].type = found[j].type => i = j
  /\ \A type \in T : ~Holds(type, s, snap) => \E i \in DOMAIN found : found[i].type = type

(* A violation is about the type it was found for.                         *)
LEMMA ViolationType ==
  ASSUME NEW s \in Seq(Event), NEW type \in ContractTypes
  PROVE  ViolationOf(s, type) \in Violation /\ ViolationOf(s, type).type = type
<1>1. FailedAgent(type) \in Agents
  BY DEF FailedAgent, Agents, ContractTypes
<1>2. \A agent : FailedStep(s, agent) \in Int
  <2> SUFFICES ASSUME NEW agent PROVE FailedStep(s, agent) \in Int
    OBVIOUS
  <2> DEFINE own == {n \in DOMAIN s : s[n].agent = agent}
  <2>1. CASE own = {}
    BY <2>1 DEF FailedStep
  <2>2. CASE own # {}
    <3>1. Min(own) \in own
      <4>1. DOMAIN s \subseteq Nat /\ own \in SUBSET DOMAIN s
        OBVIOUS
      <4> HIDE DEF own
      <4> QED
        BY <2>2, <4>1, FirstIn
    <3>2. s[Min(own)] \in Event
      BY <3>1
    <3>3. \A e \in Event : e.step \in Int
      BY DEF Event
    <3> QED
      BY <2>2, <3>2, <3>3 DEF FailedStep
  <2> QED
    BY <2>1, <2>2
<1> QED
  BY <1>1, <1>2 DEF ViolationOf, Violation

(* Judging a contract that was not judged yet keeps what was found.        *)
LEMMA JudgedKeeps ==
  ASSUME NEW s \in Seq(Event), NEW snap, NEW found, NEW T,
         NEW type \in ContractTypes, type \notin T, Findings(s, snap, found, T)
  PROVE  Findings(s, snap, Judged(s, snap, found, type), T \cup {type})
<1>1. CASE Holds(type, s, snap)
  BY <1>1 DEF Findings, Judged
<1>2. CASE ~Holds(type, s, snap)
  <2> DEFINE v == ViolationOf(s, type)
             next == Append(found, v)
             n == Len(found)
  <2>1. v \in Violation /\ v.type = type
    BY ViolationType
  <2> HIDE DEF v
  <2>2. found \in Seq(Violation) /\ n \in Nat /\ DOMAIN found = 1..n
    BY DEF Findings
  <2>3. /\ next \in Seq(Violation) /\ DOMAIN next = 1..(n + 1)
        /\ \A i \in 1..n : next[i] = found[i]
        /\ next[n + 1] = v
    BY <2>1, <2>2
  <2> HIDE DEF next, n
  <2>4. \A i \in 1..(n + 1) : i \in 1..n \/ i = n + 1
    BY <2>2
  <2>5. \A i \in 1..n : i \in 1..(n + 1)
    BY <2>2
  <2>6. \A i \in DOMAIN next :
          /\ next[i].type \in T \cup {type} /\ ~Holds(next[i].type, s, snap)
          /\ next[i] = ViolationOf(s, next[i].type)
    BY <1>2, <2>1, <2>2, <2>3, <2>4 DEF Findings, v
  <2>7. \A i, j \in DOMAIN next : next[i].type = next[j].type => i = j
    BY <2>1, <2>2, <2>3, <2>4 DEF Findings
  <2>8. \A c \in T \cup {type} :
          ~Holds(c, s, snap) => \E i \in DOMAIN next : next[i].type = c
    <3> SUFFICES ASSUME NEW c \in T \cup {type}, ~Holds(c, s, snap)
                 PROVE  \E i \in DOMAIN next : next[i].type = c
      OBVIOUS
    <3>1. CASE c = type
      BY <2>1, <2>2, <2>3, <3>1
    <3>2. CASE c \in T
      <4>1. PICK i \in 1..n : found[i].type = c
        BY <2>2, <3>2 DEF Findings
      <4> QED
        BY <2>3, <2>5, <4>1
    <3> QED
      BY <3>1, <3>2
  <2>9. Judged(s, snap, found, type) = next
    BY <1>2 DEF Judged, next, v
  <2> QED
    BY <2>3, <2>6, <2>7, <2>8, <2>9 DEF Findings
<1> QED
  BY <1>1, <1>2

(* The checker finds each broken contract once. *)
LEMMA CheckerFindings ==
  ASSUME NEW s \in Seq(Event), NEW snap
  PROVE  Findings(s, snap, Violations(s, snap), ContractTypes)
<1> DEFINE V == Seq(Violation)
           G == [p \in (1..5) \X V |-> Judged(s, snap, p[2], Registry[p[1]])]
           Eq(g) == g = [S \in SUBSET DOMAIN Registry |->
                            IF S = {} THEN <<>>
                            ELSE Judged(s, snap, g[S \ {Max(S)}], Registry[Max(S)])]
           iter == CHOOSE g : Eq(g)
<1>1. /\ DOMAIN Registry = 1..5
      /\ \A k \in 1..5 : Registry[k] \in ContractTypes
  BY DEF Registry, ContractTypes
<1>2. Violations(s, snap) = iter[1..5]
  BY <1>1 DEF Violations, Judged, FoldLeft, MapThenFoldSet
<1>3. <<>> \in V /\ 5 \in Nat
  OBVIOUS
<1>4. \A k \in 1..5, f \in V : Judged(s, snap, f, Registry[k]) \in V
  <2> SUFFICES ASSUME NEW k \in 1..5, NEW f \in V
               PROVE  Judged(s, snap, f, Registry[k]) \in V
    OBVIOUS
  <2>1. ViolationOf(s, Registry[k]) \in Violation
    BY <1>1, ViolationType
  <2> QED
    BY <2>1 DEF Judged
<1>5. G \in [(1..5) \X V -> V]
  BY <1>4
<1>6. \A k \in 1..5, f \in V : G[<<k, f>>] = Judged(s, snap, f, Registry[k])
  OBVIOUS
<1> HIDE DEF G, V
<1>7. \E g : Eq(g)
  <2>1. PICK h : IsTable(h, 5, V, <<>>, G)
    BY <1>3, <1>5, Table
  <2>2. \A S \in SUBSET (1..5) :
           h[S] = IF S = {} THEN <<>> ELSE Judged(s, snap, h[S \ {Max(S)}], Registry[Max(S)])
    BY <1>6, <2>1, MaxIn DEF IsTable
  <2> QED
    BY <1>1, <2>1, <2>2 DEF IsTable
<1>8. Eq(iter)
  BY <1>7
<1> HIDE DEF iter
<1>9. \A S \in SUBSET (1..5) :
         iter[S] = IF S = {} THEN <<>>
                   ELSE Judged(s, snap, iter[S \ {Max(S)}], Registry[Max(S)])
  BY <1>1, <1>8
<1>10. PICK r : IsRun(r, iter, 5, V, <<>>, G)
  <2>1. MeetsTable(iter, 5, V, <<>>, G)
    BY <1>6, <1>9, MaxIn DEF MeetsTable
  <2> QED
    BY <1>3, <1>5, <2>1, FoldRuns
<1>11. \A k \in 1..5 : r[k] = Judged(s, snap, r[k - 1], Registry[k])
  BY <1>6, <1>10 DEF IsRun
<1> DEFINE Types(k) == {Registry[i] : i \in 1..k}
           T == {k \in Nat : k <= 5 => Findings(s, snap, r[k], Types(k))}
<1>12. ContractTypes = Types(5)
  BY DEF ContractTypes, Registry
<1>13. \A i, j \in 1..5 : Registry[i] = Registry[j] => i = j
  BY DEF Registry
<1>14. 0 \in T
  <2>1. r[0] = <<>> /\ Types(0) = {}
    BY <1>10 DEF IsRun
  <2>2. Findings(s, snap, <<>>, {})
    BY DEF Findings
  <2> QED
    BY <2>1, <2>2
<1>15. ASSUME NEW k \in Nat, k \in T
       PROVE  k + 1 \in T
  <2> SUFFICES ASSUME k + 1 <= 5
               PROVE  Findings(s, snap, r[k + 1], Types(k + 1))
    OBVIOUS
  <2>1. k <= 5 /\ k + 1 \in 1..5 /\ (k + 1) - 1 = k
    OBVIOUS
  <2>2. Findings(s, snap, r[k], Types(k))
    BY <1>15, <2>1
  <2>3. Registry[k + 1] \notin Types(k) /\ Registry[k + 1] \in ContractTypes
    BY <1>1, <1>13, <2>1
  <2>4. Types(k + 1) = Types(k) \cup {Registry[k + 1]}
    BY 1..(k + 1) = (1..k) \cup {k + 1}
  <2>5. r[k + 1] = Judged(s, snap, r[k], Registry[k + 1])
    BY <1>11, <2>1
  <2> HIDE DEF Types
  <2> QED
    BY <2>2, <2>3, <2>4, <2>5, JudgedKeeps
<1> HIDE DEF T, Types
<1>16. 5 \in T
  BY <1>3, <1>14, <1>15, NatInd
<1>17. Findings(s, snap, r[5], ContractTypes)
  BY <1>12, <1>16 DEF T
<1> QED
  BY <1>2, <1>10, <1>17 DEF IsRun

-----------------------------------------------------------------------------
(***************************************************************************)
(* The invariant: what each stage has left behind when the next is due.    *)
(***************************************************************************)

(* The driver goes through these stages.                                   *)
AllStages == {"recording", "collect", "check", "attribute", "repair", "test",
              "report", "gate", "shown"}

(* The stages at which the patches, the tests and the report are made. *)
Patched == stage \in {"test", "report", "gate", "shown"}
Reported == stage \in {"gate", "shown"}

IsPatched ==
  patches = [n \in DOMAIN violations |-> PatchOf(violations[n])]

IsTested ==
  \/ violations = <<>> /\ tested = [status |-> "skipped", rows |-> <<>>]
  \/ /\ violations # <<>>
     /\ \E given \in [DOMAIN violations -> RowStatuses] :
          tested.rows = [n \in DOMAIN violations |-> RowOf(violations[n], given[n])]

SaysClean ==
  /\ report.status = "skipped" /\ report.agent = Nobody
  /\ report.violations = <<>> /\ report.patches = <<>> /\ report.tests = <<>>
  /\ stage = "shown" /\ driver # "chat" => report.approval = "approved"

(* The n-th row of each of the report's lists is about the n-th violation. *)
SaysAll ==
  \E given \in [DOMAIN violations -> RowStatuses] :
    /\ report.tests = [n \in DOMAIN violations |-> RowOf(violations[n], given[n])]
    /\ report.violations = report.tests
    /\ report.patches = [n \in DOMAIN violations |-> PatchOf(violations[n])]

DiagnosisInv ==
  /\ stage \in AllStages
  /\ events \in Seq(Event)
  /\ Checked => violations = Violations(events, snapshot)
  /\ ~Checked => violations = <<>>
  /\ violations = <<>> => attributed.agent = Nobody
  /\ "approval" \in DOMAIN report
  /\ ~Reported => report = NoReport
  /\ Patched /\ violations # <<>> => IsPatched
  /\ violations = <<>> => patches = <<>>
  /\ stage = "report" => IsTested
  /\ Reported /\ violations = <<>> => SaysClean
  /\ Reported /\ violations # <<>> => SaysAll
  /\ driver = "worker" /\ Checked /\ stage # "shown" => violations # <<>>
  /\ stage = "gate" => driver # "worker"

-----------------------------------------------------------------------------
(***************************************************************************)
(* The invariant is inductive.                                             *)
(***************************************************************************)

(* What the trace sources make are events.                                 *)
LEMMA PlainEventType ==
  ASSUME NEW n \in 1..6
  PROVE  PlainEvent(n) \in Event
<1>1. RoundRobin[n] \in Agents
  BY DEF RoundRobin, Agents
<1> QED
  BY <1>1 DEF PlainEvent, Event, Absent

LEMMA StubType == \A mode : Stub(mode) \in Seq(Event)
<1> SUFFICES ASSUME NEW mode PROVE Stub(mode) \in Seq(Event)
  OBVIOUS
<1>1. ASSUME NEW n \in 1..6 PROVE Stub(mode)[n] \in Event
  <2>1. PlainEvent(n) \in Event
    BY PlainEventType
  <2>2. \A a, b \in {TRUE, FALSE}, v \in Nat, t \in SUBSET {"success", "failure"},
           p \in {"approved", "pending"}, o \in {"partial", "complete"} :
          /\ [PlainEvent(n) EXCEPT !.call = a, !.tools = t] \in Event
          /\ [PlainEvent(n) EXCEPT !.call = a, !.verified = v, !.tools = t] \in Event
          /\ [PlainEvent(n) EXCEPT !.call = a, !.verified = v] \in Event
          /\ [PlainEvent(n) EXCEPT !.output = o] \in Event
          /\ [PlainEvent(n) EXCEPT !.approval = p] \in Event
    BY <2>1, ZenonT(40) DEF Event
  <2> QED
    BY <2>1, <2>2 DEF Stub
<1>2. Stub(mode) = [n \in 1..6 |-> Stub(mode)[n]]
  BY DEF Stub
<1> QED
  BY <1>1, <1>2

LEMMA LiveType == \A chat \in Chats : LiveTrace(chat) \in Seq(Event)
<1> SUFFICES ASSUME NEW chat \in Chats PROVE LiveTrace(chat) \in Seq(Event)
  OBVIOUS
<1>1. /\ chat.spoke \in 1..6 /\ chat.ctx.verified \in Nat
      /\ chat.ctx.call \in BOOLEAN
  BY DEF Chats, Context
<1>2. ASSUME NEW n \in 1..chat.spoke PROVE LiveTrace(chat)[n] \in Event
  <2>1. n \in 1..6
    BY <1>1
  <2>2. PlainEvent(n) \in Event
    BY <2>1, PlainEventType
  <2>3. \A a \in BOOLEAN, v \in Nat, t \in SUBSET {"success", "failure"},
           p \in {"approved", "pending"}, o \in {"partial", "complete"} :
          /\ [PlainEvent(n) EXCEPT !.call = a, !.tools = t] \in Event
          /\ [PlainEvent(n) EXCEPT !.call = a, !.verified = v] \in Event
          /\ [PlainEvent(n) EXCEPT !.output = o] \in Event
          /\ [PlainEvent(n) EXCEPT !.approval = p] \in Event
    BY <2>2 DEF Event
  <2> QED
    BY <1>1, <2>2, <2>3 DEF LiveTrace
<1>3. LiveTrace(chat) = [n \in 1..chat.spoke |-> LiveTrace(chat)[n]]
  BY DEF LiveTrace
<1> DEFINE N == chat.spoke
           L == LiveTrace(chat)
<1> HIDE DEF L, N
<1>4. N \in Nat /\ L = [n \in 1..N |-> L[n]] /\ \A n \in 1..N : L[n] \in Event
  BY <1>1, <1>2, <1>3 DEF L, N
<1>5. L \in Seq(Event)
  BY <1>4
<1> QED
  BY <1>5 DEF L

(* The violations of a checked trace.                                      *)
LEMMA ViolationsAreListed ==
  ASSUME DiagnosisInv, Checked
  PROVE  Findings(events, snapshot, violations, ContractTypes)
BY CheckerFindings DEF DiagnosisInv

(* A function on nothing is the empty list.                                *)
LEMMA EmptyList == \A f : DOMAIN f = {} /\ f = [x \in DOMAIN f |-> f[x]] => f = <<>>
OBVIOUS

(* The invariant holds at first, and each stage keeps it.                  *)
LEMMA InvInit == Init => DiagnosisInv
BY DEF Init, DiagnosisInv, AllStages, Checked, Patched, Reported, NoReport

LEMMA RecordingKeeps ==
  ASSUME DiagnosisInv,
         \/ \E event \in ClientEvents : RecordEvent(event)
         \/ SubmitTrace
         \/ \E mode \in FailureModes : RunStub(mode)
         \/ \E chat \in Chats : RunLive(chat)
  PROVE  DiagnosisInv'
<1>1. /\ stage = "recording" /\ stage' \in {"recording", "collect"}
      /\ UNCHANGED <<driver, violations, attributed, patches, report>>
  BY DEF RecordEvent, SubmitTrace, RunStub, RunLive, diagnosisVars
<1>2. events' \in Seq(Event)
  <2>0. events \in Seq(Event)
    BY DEF DiagnosisInv
  <2>1. ASSUME NEW event \in ClientEvents, RecordEvent(event) PROVE events' \in Seq(Event)
    <3>1. event \in Event
      BY DiagnosisAssumption DEF DiagnosisAssumption
    <3> QED
      BY <2>0, <2>1, <3>1 DEF RecordEvent
  <2> QED
    BY <2>0, <2>1, StubType, LiveType DEF SubmitTrace, RunStub, RunLive
<1> QED
  BY <1>1, <1>2 DEF DiagnosisInv, AllStages, Checked, Patched, Reported

LEMMA CollectKeeps == DiagnosisInv /\ Collect => DiagnosisInv'
BY DEF DiagnosisInv, Collect, AllStages, Checked, Patched, Reported

LEMMA CheckKeeps == DiagnosisInv /\ Check => DiagnosisInv'
<1> SUFFICES ASSUME DiagnosisInv, Check PROVE DiagnosisInv'
  OBVIOUS
<1> DEFINE found == Violations(events, snapshot)
           clean == driver = "worker" /\ found = <<>>
<1>1. /\ stage = "check" /\ violations' = found
      /\ stage' = IF clean THEN "shown" ELSE "attribute"
      /\ report' = IF clean THEN CleanReport ELSE report
      /\ UNCHANGED <<driver, source, events, snapshot, attributed, patches, tested>>
  BY DEF Check
<1>2. /\ events \in Seq(Event) /\ violations = <<>> /\ patches = <<>>
      /\ attributed.agent = Nobody /\ report = NoReport
  BY <1>1 DEF DiagnosisInv, Checked, Reported
<1> HIDE DEF found
<1>3. CASE clean
  <2>1. SaysClean' /\ "approval" \in DOMAIN report'
    BY <1>1, <1>3 DEF SaysClean, CleanReport, NoReport
  <2> QED
    BY <1>1, <1>2, <1>3, <2>1 DEF DiagnosisInv, AllStages, Checked, Patched, Reported, found
<1>4. CASE ~clean
  BY <1>1, <1>2, <1>4 DEF DiagnosisInv, AllStages, Checked, Patched, Reported, found
<1> QED
  BY <1>3, <1>4

LEMMA AttributeKeeps == DiagnosisInv /\ Attribute => DiagnosisInv'
BY DEF DiagnosisInv, Attribute, AllStages, Checked, Patched, Reported

LEMMA RepairKeeps == DiagnosisInv /\ Repair => DiagnosisInv'
<1> SUFFICES ASSUME DiagnosisInv, Repair PROVE DiagnosisInv'
  OBVIOUS
<1>1. IsPatched'
  BY DEF Repair, IsPatched, PatchOf
<1>2. violations = <<>> => patches' = <<>>
  BY EmptyList DEF Repair
<1> QED
  BY <1>1, <1>2 DEF DiagnosisInv, Repair, AllStages, Checked, Patched, Reported

LEMMA TestKeeps == DiagnosisInv /\ Test => DiagnosisInv'
<1> SUFFICES ASSUME DiagnosisInv, Test PROVE DiagnosisInv'
  OBVIOUS
<1>1. IsTested'
  <2>1. CASE violations = <<>>
    BY <2>1 DEF Test, IsTested
  <2>2. CASE violations # <<>>
    <3>1. PICK status \in RowStatuses, given \in [DOMAIN violations -> RowStatuses] :
            tested' = [status |-> status,
                       rows |-> [n \in DOMAIN violations |-> RowOf(violations[n], given[n])]]
      BY <2>2 DEF Test
    <3>2. tested'.rows = [n \in DOMAIN violations |-> RowOf(violations[n], given[n])]
      BY <3>1
    <3> QED
      BY <2>2, <3>2 DEF Test, IsTested
  <2> QED
    BY <2>1, <2>2
<1>2. IsPatched => IsPatched'
  BY DEF Test, IsPatched, PatchOf
<1> QED
  BY <1>1, <1>2 DEF DiagnosisInv, Test, AllStages, Checked, Patched, Reported

(* Each violation is given the status of its own row, as no other row is   *)
(* about its contract.                                                     *)
LEMMA OwnStatus ==
  ASSUME DiagnosisInv, stage = "report",
         NEW given \in [DOMAIN violations -> RowStatuses],
         tested.rows = [n \in DOMAIN violations |-> RowOf(violations[n], given[n])],
         NEW n \in DOMAIN violations
  PROVE  StatusByViolation(violations[n]) = given[n]
<1> DEFINE v == violations[n]
           own == {m \in DOMAIN tested.rows : \E s \in RowStatuses :
                     tested.rows[m] = RowOf(v, s)}
           len == Len(violations)
<1>1. Findings(events, snapshot, violations, ContractTypes)
  BY ViolationsAreListed DEF Checked
<1>2. /\ DOMAIN tested.rows = DOMAIN violations /\ len \in Nat
      /\ DOMAIN violations = 1..len /\ n \in 1..len
  BY <1>1 DEF Findings
<1>3. \A m \in DOMAIN violations : m \in own <=> m = n
  <2>1. \A s : RowOf(v, s).type = v.type
    BY DEF RowOf
  <2>2. \A m \in DOMAIN violations :
           tested.rows[m].type = violations[m].type /\ given[m] \in RowStatuses
    BY DEF RowOf
  <2>3. \A m \in DOMAIN violations : violations[m].type = v.type => m = n
    BY <1>1 DEF Findings
  <2>4. tested.rows[n] = RowOf(v, given[n])
    OBVIOUS
  <2> QED
    BY <1>2, <2>1, <2>2, <2>3, <2>4
<1>4. own \in SUBSET (1..len) /\ own # {} /\ Max(own) = n
  <2>1. own \in SUBSET (1..len) /\ own # {}
    BY <1>2, <1>3
  <2> HIDE DEF own, len
  <2>2. Max(own) \in own
    BY <1>2, <2>1, MaxIn
  <2> QED
    BY <1>2, <1>3, <2>1, <2>2
<1>5. StatusByViolation(v) = tested.rows[Max(own)].status
  BY <1>4 DEF StatusByViolation
<1> QED
  BY <1>4, <1>5 DEF RowOf

LEMMA ReportKeeps == DiagnosisInv /\ Report => DiagnosisInv'
<1> SUFFICES ASSUME DiagnosisInv, Report PROVE DiagnosisInv'
  OBVIOUS
<1>1. /\ stage = "report"
      /\ stage' = IF driver = "worker" THEN "shown" ELSE "gate"
      /\ UNCHANGED <<driver, source, events, snapshot, violations, attributed, patches, tested>>
  BY DEF Report
<1>2. /\ report'.violations = [n \in DOMAIN violations |->
           RowOf(violations[n], StatusByViolation(violations[n]))]
      /\ report'.patches = patches /\ report'.tests = tested.rows
      /\ report'.agent = attributed.agent /\ report'.status = tested.status
      /\ "approval" \in DOMAIN report'
  BY DEF Report
<1>3. driver = "worker" => violations # <<>>
  BY <1>1 DEF DiagnosisInv, Checked
<1>4. CASE violations = <<>>
  <2>1. /\ tested.status = "skipped" /\ tested.rows = <<>> /\ patches = <<>>
        /\ attributed.agent = Nobody
    BY <1>1, <1>4 DEF DiagnosisInv, IsTested
  <2>2. report'.violations = <<>>
    BY <1>2, <1>4, EmptyList
  <2>3. SaysClean'
    BY <1>1, <1>2, <1>3, <1>4, <2>1, <2>2 DEF SaysClean
  <2> QED
    BY <1>1, <1>2, <1>3, <1>4, <2>3 DEF DiagnosisInv, AllStages, Checked, Patched, Reported
<1>5. CASE violations # <<>>
  <2>1. PICK given \in [DOMAIN violations -> RowStatuses] :
          tested.rows = [n \in DOMAIN violations |-> RowOf(violations[n], given[n])]
    BY <1>1, <1>5 DEF DiagnosisInv, IsTested
  <2>2. \A n \in DOMAIN violations : StatusByViolation(violations[n]) = given[n]
    BY <1>1, <2>1, OwnStatus
  <2>3. report'.violations = report'.tests
    BY <1>2, <2>1, <2>2
  <2>4. IsPatched
    BY <1>1, <1>5 DEF DiagnosisInv, Patched
  <2>5. SaysAll'
    BY <1>1, <1>2, <2>1, <2>3, <2>4 DEF SaysAll, IsPatched, PatchOf, RowOf
  <2>6. IsPatched'
    BY <1>1, <2>4 DEF IsPatched, PatchOf
  <2> QED
    BY <1>1, <1>2, <1>3, <1>5, <2>5, <2>6 DEF DiagnosisInv, AllStages, Checked, Patched, Reported
<1> QED
  BY <1>4, <1>5

LEMMA HumanGateKeeps == DiagnosisInv /\ HumanGate => DiagnosisInv'
<1> SUFFICES ASSUME DiagnosisInv, HumanGate PROVE DiagnosisInv'
  OBVIOUS
<1>1. PICK decision \in IF driver = "chat" THEN {"approved", "rejected", "pending"}
                        ELSE {"approved"} :
        report' = [report EXCEPT !.approval = decision]
  BY DEF HumanGate
<1>2. /\ stage = "gate" /\ stage' = "shown"
      /\ UNCHANGED <<driver, source, events, snapshot, violations, attributed, patches, tested>>
  BY DEF HumanGate
<1>3. /\ report'.violations = report.violations /\ report'.patches = report.patches
      /\ report'.tests = report.tests /\ report'.status = report.status
      /\ report'.agent = report.agent /\ DOMAIN report' = DOMAIN report
  BY <1>1
<1>4. violations = <<>> => SaysClean'
  <2>1. driver # "chat" /\ violations = <<>> => report'.approval = "approved"
    BY <1>1, <1>2 DEF DiagnosisInv
  <2> QED
    BY <1>2, <1>3, <2>1 DEF DiagnosisInv, Reported, SaysClean
<1>5. violations # <<>> => SaysAll'
  BY <1>2, <1>3 DEF DiagnosisInv, Reported, SaysAll, PatchOf, RowOf
<1>6. IsPatched => IsPatched'
  BY <1>2 DEF IsPatched, PatchOf
<1> QED
  BY <1>2, <1>3, <1>4, <1>5, <1>6 DEF DiagnosisInv, AllStages, Checked, Patched, Reported

LEMMA InvStep == DiagnosisInv /\ [Next]_vars => DiagnosisInv'
<1> SUFFICES ASSUME DiagnosisInv, [Next]_vars PROVE DiagnosisInv'
  OBVIOUS
<1>1. CASE UNCHANGED vars
  BY <1>1, ZenonT(40) DEF vars, DiagnosisInv, AllStages, Checked, Patched, Reported, IsPatched,
              PatchOf, IsTested, SaysClean, SaysAll
<1>2. CASE Diagnose
  BY <1>2, CollectKeeps, CheckKeeps, AttributeKeeps, RepairKeeps, TestKeeps, ReportKeeps
     DEF Diagnose
<1>3. CASE HumanGate
  BY <1>3, HumanGateKeeps
<1>4. CASE Next
  BY <1>2, <1>3, <1>4, RecordingKeeps DEF Next, WorkerStep, PipelineStep, ChatStep
<1> QED
  BY <1>1, <1>4

(* Whatever the driver, each stage leaves what the later ones rely on: the *)
(* patches follow the violations one by one, so do the rows of the tests,  *)
(* and the report repeats both.                                            *)
THEOREM StagesAgree == Spec => []DiagnosisInv
BY InvInit, InvStep, PTL DEF Spec

-----------------------------------------------------------------------------
(***************************************************************************)
(* What follows from it.                                                   *)
(***************************************************************************)

(* In a checked trace a routing violation is recorded exactly when the     *)
(* rule is broken in the order of the steps.                               *)
LEMMA RoutingAsOrdered == DiagnosisInv => RoutingMeansOrder
<1> SUFFICES ASSUME DiagnosisInv, Checked
             PROVE  Found("routing") <=>
       \E n \in DOMAIN events :
         \/ /\ events[n].agent = "ReporterAgent"
            /\ \A m \in DOMAIN events : VerifierToolEvent(events[m]) => ~Precedes(m, n)
         \/ /\ events[n].agent = "ActionAgent"
            /\ \A m \in DOMAIN events :
                 events[m].agent = "HumanGateAgent" => ~Precedes(m, n)
  BY DEF RoutingMeansOrder
<1>1. Findings(events, snapshot, violations, ContractTypes)
  BY ViolationsAreListed
<1>2. Found("routing") <=> ~RoutingHolds(events)
  <2>1. "routing" \in ContractTypes /\ (Holds("routing", events, snapshot) <=> RoutingHolds(events))
    BY DEF ContractTypes, Holds
  <2> QED
    BY <1>1, <2>1 DEF Findings, Found
<1>3. events \in Seq(Event)
  BY DEF DiagnosisInv
<1>4. \A m, n \in DOMAIN events : ~Before(events, n, m) <=> Precedes(m, n)
  <2>1. \A e \in Event : e.step \in Nat
    BY DEF Event
  <2>2. \A n \in DOMAIN events : events[n].step \in Nat /\ n \in Nat
    BY <1>3, <2>1
  <2> QED
    BY <2>2 DEF Before, Precedes
<1> QED
  BY <1>2, <1>3, <1>4, RoutingScan

(* The check of routing, which scans the events in the order of their steps*)
(* (check_routing), finds exactly the traces in which a Reporter event has *)
(* no verifier event before it or an Action event no gate before it.       *)
THEOREM RoutingIsOrdered == Spec => []RoutingMeansOrder
BY StagesAgree, RoutingAsOrdered, PTL

(* The lists of a report are those of the violations.                      *)
LEMMA CoherentReport == DiagnosisInv => ReportIsCoherent
<1> SUFFICES ASSUME DiagnosisInv, stage = "shown", violations # <<>>
             PROVE  /\ Len(report.violations) = Len(violations)
                    /\ Len(report.patches) = Len(violations)
                    /\ \A n \in DOMAIN violations :
                         /\ report.violations[n] = report.tests[n]
                         /\ report.patches[n].type = violations[n].type
                         /\ report.patches[n].agent = violations[n].agent
  BY DEF ReportIsCoherent
<1>1. /\ report.violations = report.tests
      /\ DOMAIN report.violations = DOMAIN violations
      /\ report.violations = [n \in DOMAIN violations |-> report.violations[n]]
      /\ report.patches = [n \in DOMAIN violations |-> PatchOf(violations[n])]
  BY DEF DiagnosisInv, Reported, SaysAll
<1>2. Findings(events, snapshot, violations, ContractTypes)
  BY ViolationsAreListed DEF Checked
<1> DEFINE len == Len(violations)
<1>3. /\ len \in Nat /\ DOMAIN violations = 1..len
      /\ \A n \in 1..len : violations[n] \in Violation
  BY <1>2 DEF Findings
<1> HIDE DEF len
<1>4. Len(report.violations) = len /\ Len(report.patches) = len
  BY <1>1, <1>3
<1>5. \A v \in Violation : PatchOf(v).type = v.type /\ PatchOf(v).agent = v.agent
  BY DEF PatchOf, Violation
<1> QED
  BY <1>1, <1>3, <1>4, <1>5 DEF len

(* A report that is shown has one row and one patch for each violation, in *)
(* the same order, and the status it gives a violation is that of its test *)
(* (run_reporter looks statuses up by contract type).                      *)
THEOREM ReportsAreCoherent == Spec => []ReportIsCoherent
BY StagesAgree, CoherentReport, PTL

(* Without violations nobody is charged.                                   *)
LEMMA CleanReports == DiagnosisInv => CleanTracesAreClean
<1> SUFFICES ASSUME DiagnosisInv, stage = "shown", violations = <<>>
             PROVE  CleanTracesAreClean
  BY DEF CleanTracesAreClean
<1>1. SaysClean
  BY DEF DiagnosisInv, Reported
<1>2. Charged = {}
  BY <1>1 DEF SaysClean, Charged
<1>3. \A type : ContractCard(type) = "PASS"
  BY <1>2 DEF ContractCard
<1>4. \A route : RouteStatus(route) = "ok"
  BY <1>2 DEF RouteStatus
<1> QED
  BY <1>1, <1>3, <1>4 DEF CleanTracesAreClean, SaysClean

(* A trace without violations is shown as clean by every card and route of *)
(* the dashboard, under all three drivers.                                 *)
THEOREM CleanTracesReportedClean == Spec => []CleanTracesAreClean
BY StagesAgree, CleanReports, PTL

(* A violation is among those charged, at the first event of its agent.    *)
LEMMA VisibleViolations == DiagnosisInv => ViolationsAreVisible
<1> SUFFICES ASSUME DiagnosisInv, stage = "shown", NEW n \in DOMAIN violations
             PROVE  LET v   == violations[n]
                        own == {m \in DOMAIN events : events[m].agent = v.agent}
                    IN /\ ContractCard(v.type) = "FAIL"
                       /\ own # {} => /\ AgentCard(v.agent) = "FAIL"
                                       /\ Flagged(events[Min(own)])
                       /\ v.type \in {"routing", "approval"} =>
                            \A route \in Routes : route[2] = v.agent => RouteStatus(route) # "ok"
  BY DEF ViolationsAreVisible
<1> DEFINE v   == violations[n]
           own == {m \in DOMAIN events : events[m].agent = v.agent}
           c   == report.violations[n]
<1>1. violations # <<>>
  OBVIOUS
<1>2. c \in Charged /\ c.type = v.type /\ c.agent = v.agent /\ c.step = v.step
  <2>1. PICK given \in [DOMAIN violations -> RowStatuses] :
          /\ report.tests = [m \in DOMAIN violations |-> RowOf(violations[m], given[m])]
          /\ report.violations = report.tests
    BY <1>1 DEF DiagnosisInv, Reported, SaysAll
  <2>2. DOMAIN report.violations = DOMAIN violations /\ c = RowOf(v, given[n])
    BY <2>1
  <2> QED
    BY <2>2 DEF Charged, RowOf
<1>3. v = ViolationOf(events, v.type)
  BY ViolationsAreListed DEF Checked, Findings
<1>4. ContractCard(v.type) = "FAIL"
  BY <1>2 DEF ContractCard
<1>5. own # {} => AgentCard(v.agent) = "FAIL"
  BY <1>2 DEF AgentCard
<1>6. own # {} => Flagged(events[Min(own)])
  <2>1. v.agent = FailedAgent(v.type) /\ v.step = FailedStep(events, FailedAgent(v.type))
    BY <1>3 DEF ViolationOf
  <2>2. own # {} => v.step = events[Min(own)].step
    BY <2>1 DEF FailedStep
  <2> QED
    BY <1>2, <2>2 DEF Flagged
<1>7. ASSUME v.type \in {"routing", "approval"}, NEW route \in Routes, route[2] = v.agent
      PROVE  RouteStatus(route) # "ok"
  <2>1. c.type \in {w.type : w \in {w \in Charged : w.agent = route[2]}}
    BY <1>2, <1>7
  <2> QED
    BY <1>2, <1>7, <2>1 DEF RouteStatus
<1> QED
  BY <1>4, <1>5, <1>6, <1>7

(* A violation that was found fails the card of its contract and, if its   *)
(* agent has an event, the card of that agent and a flagged event; no route*)
(* into the agent stays ok for a routing or approval violation             *)
(* (api/adapter.py).                                                       *)
THEOREM ViolationsStayVisible == Spec => []ViolationsAreVisible
BY StagesAgree, VisibleViolations, PTL

=============================================================================
