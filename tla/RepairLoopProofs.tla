-------------------------- MODULE RepairLoopProofs --------------------------
(***************************************************************************)
(* Theorems about RepairLoop, for any contract types, runners, outputs of  *)
(* generated tests, durations, usages and number of iterations.            *)
(*                                                                         *)
(* Costs are added up by a fold.  The first section shows what it makes of *)
(* a sequence that grows by one.                                           *)
(***************************************************************************)
EXTENDS RepairLoop, TLAPS, SequenceTheorems, WellFoundedInduction

-----------------------------------------------------------------------------
(***************************************************************************)
(* Totals.                                                                 *)
(***************************************************************************)

(* Every set of numbers has a least member, and induction on numbers for   *)
(* sets instead of predicates.                                             *)
LEMMA NatMin ==
  ASSUME NEW T, T \subseteq Nat, T # {}
  PROVE  \E x \in T : \A y \in T : x <= y
<1> DEFINE R == OpToRel(<, Nat)
<1>1. \A x, y \in Nat : x < y => <<x, y>> \in R
  BY DEF OpToRel
<1>2. IsWellFoundedOn(R, Nat)
  BY NatLessThanWellFounded
<1> HIDE DEF R
<1>3. PICK x \in T : \A y \in T : ~ (<<y, x>> \in R)
  BY <1>2, WFMin
<1>4. \A y \in T : x \in Nat /\ y \in Nat /\ ~ (y < x)
  BY <1>1, <1>3
<1> QED
  BY <1>4

LEMMA NatInd ==
  ASSUME NEW T, 0 \in T, \A n \in Nat : n \in T => n + 1 \in T
  PROVE  Nat \subseteq T
<1> SUFFICES ASSUME NEW k \in Nat, k \notin T PROVE FALSE
  OBVIOUS
<1> DEFINE U == {n \in Nat : n \notin T}
<1>1. PICK x \in U : \A y \in U : x <= y
  <2>1. U \subseteq Nat /\ U # {}
    OBVIOUS
  <2> QED
    BY <2>1, NatMin
<1>2. x # 0 /\ x - 1 \in Nat /\ x - 1 \in T
  BY <1>1
<1> QED
  BY <1>1, <1>2

(* The greatest member of a set of places, on which the folds are built.   *)
LEMMA MaxIn ==
  ASSUME NEW n \in Nat, NEW S \in SUBSET (1..n), S # {}
  PROVE  Max(S) \in S /\ \A y \in S : y <= Max(S)
<1> DEFINE T == {z \in Nat : n - z \in S}
<1>1. \A x \in S : x \in Nat /\ n - x \in T /\ x <= n
  OBVIOUS
<1>2. T \subseteq Nat /\ T # {}
  BY <1>1
<1>3. PICK t \in T : \A u \in T : t <= u
  BY <1>2, NatMin
<1>4. n - t \in S /\ t \in Nat
  BY <1>3
<1>5. \A y \in S : n - t >= y
  <2> SUFFICES ASSUME NEW y \in S PROVE n - t >= y
    OBVIOUS
  <2>1. t <= n - y /\ y \in Nat
    BY <1>1, <1>3
  <2> QED
    BY <1>4, <2>1
<1> QED
  BY <1>4, <1>5 DEF Max

(* What the sum yields over every set of the places 1..n of s. *)
IsSumTable(h, s, n) ==
  /\ h \in [SUBSET (1..n) -> Nat]
  /\ \A S \in SUBSET (1..n) :
        h[S] = IF S = {} THEN 0 ELSE h[S \ {Max(S)}] + s[Max(S)]

(* There is such a table, by induction on the places. *)
LEMMA SumTable ==
  ASSUME NEW s \in Seq(Nat)
  PROVE  \E h : IsSumTable(h, s, Len(s))
<1> DEFINE T == {k \in Nat : k <= Len(s) => \E h : IsSumTable(h, s, k)}
<1>1. 0 \in T
  <2>1. IsSumTable([S \in SUBSET (1..0) |-> 0], s, 0)
    BY DEF IsSumTable
  <2> QED
    BY <2>1
<1>2. ASSUME NEW k \in Nat, k \in T
      PROVE  k + 1 \in T
  <2> SUFFICES ASSUME k + 1 <= Len(s)
               PROVE  \E h : IsSumTable(h, s, k + 1)
    OBVIOUS
  <2>1. PICK h : IsSumTable(h, s, k)
    BY <1>2
  <2> DEFINE D == SUBSET (1..(k + 1))
             e == [S \in D |-> IF k + 1 \in S THEN h[S \ {k + 1}] + s[k + 1] ELSE h[S]]
  <2>2. ASSUME NEW S \in D, k + 1 \in S
        PROVE  /\ Max(S) = k + 1 /\ S # {} /\ S \ {k + 1} \in SUBSET (1..k)
               /\ S \ {k + 1} \in D /\ k + 1 \notin S \ {k + 1}
    <3>1. Max(S) \in S /\ \A y \in S : y <= Max(S)
      <4>1. k + 1 \in Nat /\ S \in SUBSET (1..(k + 1)) /\ S # {}
        BY <2>2
      <4> QED
        BY <4>1, MaxIn
    <3>2. Max(S) = k + 1
      <4>1. k + 1 <= Max(S)
        BY <2>2, <3>1
      <4>2. Max(S) \in 1..(k + 1)
        BY <3>1
      <4> HIDE DEF D
      <4> QED
        BY <4>1, <4>2
    <3>3. S \ {k + 1} \in SUBSET (1..k)
      OBVIOUS
    <3> QED
      BY <2>2, <3>2, <3>3
  <2>3. ASSUME NEW S \in D, k + 1 \notin S
        PROVE  /\ S \in SUBSET (1..k)
               /\ S # {} => /\ Max(S) \in S /\ S \ {Max(S)} \in SUBSET (1..k)
                            /\ S \ {Max(S)} \in D /\ k + 1 \notin S \ {Max(S)}
    <3>1. S \in SUBSET (1..k)
      BY <2>3
    <3> QED
      BY <2>3, <3>1, MaxIn
  <2>4. e \in [D -> Nat]
    <3>1. s[k + 1] \in Nat
      OBVIOUS
    <3> QED
      BY <2>1, <2>2, <2>3, <3>1 DEF IsSumTable
  <2>5. ASSUME NEW S \in D
        PROVE  e[S] = IF S = {} THEN 0 ELSE e[S \ {Max(S)}] + s[Max(S)]
    <3>1. CASE k + 1 \in S
      BY <2>2, <3>1
    <3>2. CASE k + 1 \notin S
      BY <2>1, <2>3, <3>2 DEF IsSumTable
    <3> QED
      BY <3>1, <3>2
  <2> HIDE DEF e
  <2> QED
    BY <2>4, <2>5 DEF IsSumTable
<1> HIDE DEF T
<1>3. Len(s) \in T
  BY <1>1, <1>2, NatInd
<1> QED
  BY <1>3 DEF T

(* r has the sums of the prefixes of s. *)
AreSums(r, s) ==
  /\ r \in [0..Len(s) -> Nat]
  /\ r[0] = 0
  /\ \A k \in 1..Len(s) : r[k] = r[k - 1] + s[k]
  /\ Total(s) = r[Len(s)]

(* The total passes through the sums of the prefixes.                      *)
LEMMA Sums ==
  ASSUME NEW s \in Seq(Nat)
  PROVE  \E r : AreSums(r, s)
<1> DEFINE N == Len(s)
           Eq(g) == g = [S \in SUBSET DOMAIN s |->
                            IF S = {} THEN 0 ELSE g[S \ {Max(S)}] + s[Max(S)]]
           iter == CHOOSE g : Eq(g)
           r == [k \in 0..N |-> iter[1..k]]
<1>1. N \in Nat /\ DOMAIN s = 1..N /\ \A k \in 1..N : s[k] \in Nat
  OBVIOUS
<1>2. Total(s) = iter[1..N]
  BY <1>1 DEF Total, FoldLeft, MapThenFoldSet
<1> HIDE DEF N
<1>3. \E g : Eq(g)
  <2>1. PICK h : IsSumTable(h, s, N)
    BY SumTable DEF N
  <2> QED
    BY <1>1, <2>1 DEF IsSumTable
<1>4. Eq(iter)
  BY <1>3
<1> HIDE DEF iter
<1>5. \A S \in SUBSET (1..N) :
         iter[S] = IF S = {} THEN 0 ELSE iter[S \ {Max(S)}] + s[Max(S)]
  BY <1>1, <1>4
<1>6. r[0] = 0 /\ r[N] = Total(s) /\ DOMAIN r = 0..N /\ r = [k \in 0..N |-> r[k]]
  <2>1. iter[1..0] = 0
    BY <1>5, 1..0 = {}
  <2>2. 0 \in 0..N /\ N \in 0..N
    BY <1>1
  <2> QED
    BY <1>2, <2>1, <2>2
<1>7. ASSUME NEW k \in Nat, k + 1 <= N
      PROVE  r[k + 1] = r[k] + s[k + 1]
  <2>1. /\ 1..(k + 1) \in SUBSET (1..N) /\ 1..(k + 1) # {}
        /\ k \in 0..N /\ k + 1 \in 0..N
    <3>1. \A i \in 1..(k + 1) : i \in 1..N
      BY <1>1, <1>7
    <3>2. k + 1 \in 1..(k + 1) /\ k <= N /\ k + 1 <= N /\ 0 <= k
      BY <1>1, <1>7
    <3> QED
      BY <1>1, <3>1, <3>2, SMTT(30)
  <2>2. Max(1..(k + 1)) = k + 1 /\ (1..(k + 1)) \ {k + 1} = 1..k
    <3>1. 1..(k + 1) \in SUBSET (1..(k + 1)) /\ k + 1 \in Nat
      OBVIOUS
    <3>2. Max(1..(k + 1)) \in 1..(k + 1) /\ \A y \in 1..(k + 1) : y <= Max(1..(k + 1))
      BY <2>1, <3>1, MaxIn
    <3> QED
      BY <3>2
  <2>3. r[k] = iter[1..k] /\ r[k + 1] = iter[1..(k + 1)]
    BY <2>1
  <2> QED
    BY <1>5, <2>1, <2>2, <2>3
<1> DEFINE T == {k \in Nat : k <= N => r[k] \in Nat}
<1> HIDE DEF r
<1>8. 0 \in T
  BY <1>6
<1>9. ASSUME NEW k \in Nat, k \in T
      PROVE  k + 1 \in T
  <2> SUFFICES ASSUME k + 1 <= N PROVE r[k + 1] \in Nat
    OBVIOUS
  <2>1. r[k] \in Nat /\ s[k + 1] \in Nat
    BY <1>1, <1>9
  <2> QED
    BY <1>7, <2>1
<1> HIDE DEF T
<1>10. \A k \in 0..N : r[k] \in Nat
  <2>1. Nat \subseteq T
    BY <1>8, <1>9, NatInd
  <2> QED
    BY <1>1, <2>1 DEF T
<1>11. \A k \in 1..N : r[k] = r[k - 1] + s[k]
  <2> SUFFICES ASSUME NEW k \in 1..N PROVE r[k] = r[k - 1] + s[k]
    OBVIOUS
  <2>1. k - 1 \in Nat /\ (k - 1) + 1 <= N /\ (k - 1) + 1 = k
    BY <1>1
  <2> QED
    BY <1>7, <2>1
<1> QED
  BY <1>6, <1>10, <1>11 DEF AreSums, N

(* What has been added up does not change when a cost is appended. *)
LEMMA TotalOfNone == Total(<<>>) = 0
<1>1. <<>> \in Seq(Nat) /\ Len(<<>>) = 0
  OBVIOUS
<1> QED
  BY <1>1, Sums DEF AreSums

LEMMA TotalAppended ==
  ASSUME NEW s \in Seq(Nat), NEW cost \in Nat
  PROVE  Total(s) \in Nat /\ Total(Append(s, cost)) = Total(s) + cost
<1> DEFINE N == Len(s)
           t == Append(s, cost)
<1>1. /\ N \in Nat /\ t \in Seq(Nat) /\ Len(t) = N + 1
      /\ \A k \in 1..N : t[k] = s[k]
      /\ t[N + 1] = cost
  OBVIOUS
<1> HIDE DEF t
<1>2. PICK p : AreSums(p, s)
  BY Sums
<1>3. PICK q : AreSums(q, t)
  BY <1>1, Sums
<1> HIDE DEF N
<1> DEFINE T == {k \in Nat : k <= N => q[k] = p[k]}
<1>4. 0 \in T
  BY <1>2, <1>3 DEF AreSums
<1>5. ASSUME NEW k \in Nat, k \in T
      PROVE  k + 1 \in T
  <2> SUFFICES ASSUME k + 1 <= N PROVE q[k + 1] = p[k + 1]
    OBVIOUS
  <2>1. q[k] = p[k] /\ k + 1 \in 1..N /\ k + 1 \in 1..(N + 1) /\ (k + 1) - 1 = k
    BY <1>1, <1>5
  <2>2. p[k + 1] = p[k] + s[k + 1]
    BY <1>2, <2>1 DEF AreSums, N
  <2>3. q[k + 1] = q[k] + t[k + 1]
    BY <1>1, <1>3, <2>1 DEF AreSums
  <2> QED
    BY <1>1, <2>1, <2>2, <2>3
<1> HIDE DEF T
<1>6. q[N] = p[N]
  <2>1. N \in T
    BY <1>1, <1>4, <1>5, NatInd
  <2> QED
    BY <1>1, <2>1 DEF T
<1>7. q[N + 1] = q[N] + cost
  <2>1. N + 1 \in 1..(N + 1) /\ (N + 1) - 1 = N
    BY <1>1
  <2> QED
    BY <1>1, <1>3, <2>1 DEF AreSums
<1>8. Total(s) = p[N] /\ p[N] \in Nat
  <2>1. N \in 0..N
    BY <1>1
  <2> QED
    BY <1>2, <2>1 DEF AreSums, N
<1> QED
  BY <1>1, <1>3, <1>6, <1>7, <1>8 DEF AreSums, t

-----------------------------------------------------------------------------
(***************************************************************************)
(* Sequences of attempts and runs, whatever their elements are.            *)
(***************************************************************************)

IsSequence(s) == \E S : s \in Seq(S)

LEMMA EmptyIsSequence == IsSequence(<<>>) /\ Len(<<>>) = 0
BY DEF IsSequence

LEMMA Appended ==
  ASSUME NEW s, NEW e, IsSequence(s)
  PROVE  /\ IsSequence(Append(s, e))
         /\ Len(s) \in Nat /\ Len(Append(s, e)) = Len(s) + 1
         /\ \A n \in 1..Len(s) : Append(s, e)[n] = s[n]
         /\ Append(s, e)[Len(s) + 1] = e
<1>1. PICK S : s \in Seq(S)
  BY DEF IsSequence
<1> DEFINE T == S \cup {e}
<1>2. s \in Seq(T) /\ e \in T
  BY <1>1
<1> HIDE DEF T
<1>3. Append(s, e) \in Seq(T)
  BY <1>2
<1> QED
  BY <1>2, <1>3 DEF IsSequence

LEMMA LimitType == Limit \in Nat \ {0}
BY RepairLoopAssumption DEF Limit

-----------------------------------------------------------------------------
(***************************************************************************)
(* The loop.  An attempt is appended once in every iteration, and the next *)
(* iteration begins only after a failed attempt below the cap.             *)
(***************************************************************************)

InAttempt == {"generate", "execute", "judge"}

Failed(n) == attempts[n].status = "fail"

LoopInv ==
  /\ pc \in {"repair", "done"} \cup InAttempt
  /\ iteration \in Nat
  /\ IsSequence(attempts)
  /\ pc \in InAttempt =>
       /\ iteration = Len(attempts) + 1 /\ iteration <= Limit
       /\ \A n \in 1..Len(attempts) : Failed(n)
  /\ pc = "repair" =>
       /\ iteration = Len(attempts) /\ iteration < Limit
       /\ \A n \in 1..Len(attempts) : Failed(n)
  /\ pc = "done" =>
       /\ iteration = Len(attempts) /\ iteration \in 1..Limit
       /\ \A n \in 1..(Len(attempts) - 1) : Failed(n)
       /\ ~Failed(iteration) \/ iteration = Limit

LEMMA LoopInit == Init => LoopInv
BY LimitType, EmptyIsSequence DEF Init, LoopInv, InAttempt

LEMMA EndAttemptStep ==
  ASSUME LoopInv, NEW attempt, EndAttempt(attempt), pc \in InAttempt,
         iteration' = iteration
  PROVE  LoopInv'
<1>1. /\ attempts' = Append(attempts, attempt)
      /\ pc' = IF attempt.status = "fail" /\ iteration < Limit THEN "repair" ELSE "done"
  BY DEF EndAttempt, Continue
<1>2. /\ iteration = Len(attempts) + 1 /\ iteration <= Limit /\ iteration \in Nat
      /\ \A n \in 1..Len(attempts) : attempts[n].status = "fail"
      /\ IsSequence(attempts)
  BY DEF LoopInv, Failed
<1>3. /\ IsSequence(attempts') /\ Len(attempts) \in Nat
      /\ Len(attempts') = Len(attempts) + 1
      /\ \A n \in 1..Len(attempts) : attempts'[n] = attempts[n]
      /\ attempts'[Len(attempts) + 1] = attempt
  BY <1>1, <1>2, Appended
<1>4. \A n \in 1..(Len(attempts') - 1) : attempts'[n].status = "fail"
  BY <1>2, <1>3
<1>5. CASE attempt.status = "fail" /\ iteration < Limit
  <2>1. \A n \in 1..Len(attempts') : attempts'[n].status = "fail"
    BY <1>3, <1>4, <1>5
  <2>2. pc' = "repair"
    BY <1>1, <1>5
  <2> QED
    BY <1>2, <1>3, <1>5, <2>1, <2>2 DEF LoopInv, Failed, InAttempt
<1>6. CASE ~(attempt.status = "fail" /\ iteration < Limit)
  <2>1. pc' = "done"
    BY <1>1, <1>6
  <2>2. attempts'[iteration].status # "fail" \/ iteration = Limit
    BY <1>2, <1>3, <1>6, LimitType
  <2>3. iteration \in 1..Limit
    BY <1>2, <1>3, LimitType
  <2> QED
    BY <1>2, <1>3, <1>4, <2>1, <2>2, <2>3 DEF LoopInv, Failed, InAttempt
<1> QED
  BY <1>5, <1>6

LEMMA LoopStep == LoopInv /\ [Next]_vars => LoopInv'
<1> SUFFICES ASSUME LoopInv, [Next]_vars PROVE LoopInv'
  OBVIOUS
<1>1. CASE Repair
  <2>1. /\ pc = "repair" /\ pc' = "generate" /\ iteration' = iteration + 1
        /\ attempts' = attempts
    BY <1>1 DEF Repair
  <2> QED
    BY <2>1, LimitType DEF LoopInv, InAttempt, Failed
<1>2. CASE SkipTest
  BY <1>2, EndAttemptStep DEF SkipTest, InAttempt
<1>3. CASE Judge
  BY <1>3, EndAttemptStep DEF Judge, InAttempt
<1>4. CASE CallerTests
  <2>1. /\ pc \in InAttempt /\ iteration' = iteration
        /\ \E attempt : EndAttempt(attempt)
    BY <1>4 DEF CallerTests, InAttempt
  <2> QED
    BY <2>1, EndAttemptStep
<1>5. CASE UseLocalTest \/ GenerateTest \/ GenerationFails \/ Execute
  <2>1. /\ iteration' = iteration /\ attempts' = attempts
        /\ pc \in InAttempt /\ pc' \in InAttempt
    BY <1>5 DEF UseLocalTest, GenerateTest, GenerationFails, Execute, InAttempt
  <2> QED
    BY <2>1 DEF LoopInv, InAttempt, Failed
<1>6. CASE Returned \/ UNCHANGED vars
  BY <1>6 DEF Returned, vars, LoopInv, Failed
<1> QED
  BY <1>1, <1>2, <1>3, <1>4, <1>5, <1>6 DEF Next, Step

(* The loop goes on only after a failed test and returns only for another  *)
(* status or at the cap, whatever the cap is and whatever tests report.    *)
THEOREM StopsAsDecided == Spec => []StopsWhenDecided
<1>1. LoopInv => StopsWhenDecided
  BY DEF LoopInv, StopsWhenDecided, Failed, InAttempt
<1> QED
  BY <1>1, LoopInit, LoopStep, PTL DEF Spec

(* It never begins more iterations than the cap allows. *)
THEOREM IterationsAreCapped == Spec => [](iteration <= Limit)
<1>1. LoopInv => iteration <= Limit
  BY LimitType DEF LoopInv, InAttempt
<1> QED
  BY <1>1, LoopInit, LoopStep, PTL DEF Spec

-----------------------------------------------------------------------------
(***************************************************************************)
(* Infrastructure errors.  Only a test that ran is replaced by the         *)
(* fallback, so that a run in a failing sandbox is the last of its attempt *)
(* and the one that is judged; it printed nothing a row could be read from.*)
(***************************************************************************)

Ran(n) == runs[n].end = "ran"

RunsInv ==
  /\ IsSequence(runs)
  /\ \A n \in 1..Len(runs) : Ran(n) \/ runs[n].lines = {}
  /\ pc = "generate" => runs = <<>>
  /\ pc = "execute" => \A n \in 1..Len(runs) : Ran(n)
  /\ pc \in {"judge", "done"} => \A n \in 1..(Len(runs) - 1) : Ran(n)
  /\ pc = "judge" => Len(runs) # 0
  /\ pc = "done" /\ runs # <<>> =>
       LET last   == runs[Len(runs)]
           report == attempts[Len(attempts)]
       IN /\ {"status", "state", "rows"} \subseteq DOMAIN report
          /\ report.status = Status(last)
          /\ report.state = StateFor(Status(last), last)
          /\ report.rows = [t \in violated |-> RowStatus(last, t)]

LEMMA RunsInit == Init => RunsInv
BY EmptyIsSequence DEF Init, RunsInv

LEMMA RunsPrinted ==
  ASSUME NEW kind, NEW r \in PossibleRuns(kind)
  PROVE  r.end = "ran" \/ r.lines = {}
BY DEF PossibleRuns

LEMMA RunsStep == LoopInv /\ RunsInv /\ [Next]_vars => RunsInv'
<1> SUFFICES ASSUME LoopInv, RunsInv, [Next]_vars PROVE RunsInv'
  OBVIOUS
<1>1. CASE Repair
  BY <1>1, EmptyIsSequence DEF Repair, RunsInv
<1>2. CASE SkipTest \/ CallerTests
  <2>1. pc = "generate" /\ runs' = runs /\ pc' \in {"repair", "done"}
    BY <1>2 DEF SkipTest, CallerTests, EndAttempt
  <2> QED
    BY <2>1, EmptyIsSequence DEF RunsInv
<1>3. CASE UseLocalTest \/ GenerateTest \/ GenerationFails
  <2>1. pc = "generate" /\ pc' = "execute" /\ runs' = runs
    BY <1>3 DEF UseLocalTest, GenerateTest, GenerationFails
  <2> QED
    BY <2>1, EmptyIsSequence DEF RunsInv
<1>4. CASE Execute
  <2>1. PICK r \in PossibleRuns(test.kind) :
          /\ runs' = Append(runs, r)
          /\ IF RerunWithFallback(r) THEN pc' = pc ELSE pc' = "judge"
    BY <1>4 DEF Execute
  <2>2. pc = "execute" /\ IsSequence(runs) /\ \A n \in 1..Len(runs) : Ran(n)
    BY <1>4 DEF Execute, RunsInv
  <2>3. /\ IsSequence(runs') /\ Len(runs) \in Nat /\ Len(runs') = Len(runs) + 1
        /\ \A n \in 1..Len(runs) : runs'[n] = runs[n]
        /\ runs'[Len(runs) + 1] = r
    BY <2>1, <2>2, Appended
  <2>4. r.end = "ran" \/ r.lines = {}
    BY <2>1, RunsPrinted
  <2>5. \A n \in 1..Len(runs') : n \in 1..Len(runs) \/ n = Len(runs) + 1
    BY <2>3
  <2>6. \A n \in 1..Len(runs') : runs'[n].end = "ran" \/ runs'[n].lines = {}
    BY <2>2, <2>3, <2>4, <2>5 DEF Ran
  <2>7. CASE RerunWithFallback(r)
    <3>1. r.end = "ran" /\ pc' = "execute"
      BY <2>1, <2>2, <2>7 DEF RerunWithFallback, InfrastructureError
    <3>2. \A n \in 1..Len(runs') : runs'[n].end = "ran"
      BY <2>2, <2>3, <2>5, <3>1 DEF Ran
    <3> QED
      BY <2>3, <2>6, <3>1, <3>2 DEF RunsInv, Ran
  <2>8. CASE ~RerunWithFallback(r)
    <3>1. pc' = "judge"
      BY <2>1, <2>8
    <3>2. \A n \in 1..(Len(runs') - 1) : runs'[n].end = "ran"
      BY <2>2, <2>3 DEF Ran
    <3> QED
      BY <2>3, <2>6, <3>1, <3>2 DEF RunsInv, Ran
  <2> QED
    BY <2>7, <2>8
<1>5. CASE Judge
  <2>1. /\ pc = "judge" /\ runs' = runs /\ violated' = violated /\ runner' = runner
        /\ attempts' = Append(attempts, JudgedAttempt) /\ pc' \in {"repair", "done"}
    BY <1>5 DEF Judge, EndAttempt
  <2>2. /\ IsSequence(attempts') /\ Len(attempts') = Len(attempts) + 1
        /\ attempts'[Len(attempts')] = JudgedAttempt
    BY <2>1, Appended DEF LoopInv
  <2> DEFINE last == runs[Len(runs)]
  <2>3. /\ {"status", "state", "rows"} \subseteq DOMAIN JudgedAttempt
        /\ JudgedAttempt.status = Status(last)
        /\ JudgedAttempt.state = StateFor(Status(last), last)
        /\ JudgedAttempt.rows = [t \in violated |-> RowStatus(last, t)]
    BY DEF JudgedAttempt
  <2>4. Status(last)' = Status(last) /\ \A t : RowStatus(last, t)' = RowStatus(last, t)
    BY <2>1 DEF Status, RowStatus
  <2>5. StateFor(Status(last), last)' = StateFor(Status(last), last)
    BY <2>1, <2>4 DEF StateFor
  <2>6. [t \in violated |-> RowStatus(last, t)]' = [t \in violated |-> RowStatus(last, t)]
    BY <2>1, <2>4
  <2> QED
    BY <2>1, <2>2, <2>3, <2>4, <2>5, <2>6 DEF RunsInv, Ran
<1>6. CASE Returned \/ UNCHANGED vars
  <2>1. UNCHANGED vars
    BY <1>6 DEF Returned
  <2>2. \A r, t : Status(r)' = Status(r) /\ RowStatus(r, t)' = RowStatus(r, t)
    BY <2>1 DEF vars, Status, RowStatus
  <2> DEFINE last == runs[Len(runs)]
             rowsOf == [t \in violated |-> RowStatus(last, t)]
  <2>3. StateFor(Status(last), last)' = StateFor(Status(last), last)
    BY <2>1, <2>2 DEF vars, StateFor
  <2>4. rowsOf' = rowsOf
    BY <2>1, <2>2 DEF vars
  <2> QED
    BY <2>1, <2>2, <2>3, <2>4 DEF vars, RunsInv, Ran
<1> QED
  BY <1>1, <1>2, <1>3, <1>4, <1>5, <1>6 DEF Next, Step

(* The costs of all attempts replace those of the last, and nothing else. *)
LEMMA AggregateKeeps ==
  ASSUME NEW all, {"status", "state", "rows"} \subseteq DOMAIN all[Len(all)]
  PROVE  /\ Aggregate(all).status = all[Len(all)].status
         /\ Aggregate(all).state = all[Len(all)].state
         /\ Aggregate(all).rows = all[Len(all)].rows
BY DEF Aggregate

(* What is judged of a run without a sandbox that worked. *)
LEMMA ErrorsAreJudged ==
  ASSUME NEW r, r.end # "ran", r.lines = {}, NEW t
  PROVE  /\ Status(r) = "error"
         /\ StateFor(Status(r), r) \in {"unavailable", "credential_failure", "execution_error"}
         /\ RowStatus(r, t) = "error"
<1> DEFINE quiet == \A word : ~Says(r.lines, word)
<1>0. quiet
  BY DEF Says
<1>1. Status(r) = "error"
  BY <1>0 DEF Status
<1>2. StateFor(Status(r), r) \in {"unavailable", "credential_failure", "execution_error"}
  BY <1>1 DEF StateFor
<1>3. RowStatus(r, t) = "error"
  BY <1>1 DEF RowStatus, Says
<1> QED
  BY <1>1, <1>2, <1>3

(* A sandbox that fails is never reported as a passed or failed test, nor  *)
(* is any violation: whatever ran before it and in earlier iterations.     *)
THEOREM ErrorsStayErrors == Spec => []InfrastructureErrorsStayErrors
<1>1. ASSUME LoopInv, RunsInv PROVE InfrastructureErrorsStayErrors
  <2> SUFFICES ASSUME pc = "done", runs # <<>>,
                      NEW n \in DOMAIN runs, InfrastructureError(runs[n])
               PROVE  /\ Aggregate(attempts).status = "error"
                      /\ Aggregate(attempts).state \in
                           {"unavailable", "credential_failure", "execution_error"}
                      /\ \A t \in violated : Aggregate(attempts).rows[t] = "error"
    BY DEF InfrastructureErrorsStayErrors
  <2> DEFINE last == runs[Len(runs)]
  <2>1. n \in 1..Len(runs) /\ Len(runs) \in Nat
    BY <1>1 DEF RunsInv, IsSequence
  <2>2. n = Len(runs)
    BY <1>1, <2>1 DEF RunsInv, Ran, InfrastructureError
  <2>3. last.end # "ran" /\ last.lines = {}
    BY <1>1, <2>1, <2>2 DEF RunsInv, Ran, InfrastructureError
  <2>4. /\ Status(last) = "error"
        /\ StateFor(Status(last), last) \in
             {"unavailable", "credential_failure", "execution_error"}
        /\ \A t : RowStatus(last, t) = "error"
    BY <2>3, ErrorsAreJudged
  <2>5. /\ {"status", "state", "rows"} \subseteq DOMAIN attempts[Len(attempts)]
        /\ attempts[Len(attempts)].status = Status(last)
        /\ attempts[Len(attempts)].state = StateFor(Status(last), last)
        /\ attempts[Len(attempts)].rows = [t \in violated |-> RowStatus(last, t)]
    BY <1>1 DEF RunsInv
  <2> QED
    BY <2>4, <2>5, AggregateKeeps
<1>2. LoopInv /\ RunsInv /\ [Next]_vars => (LoopInv /\ RunsInv)'
  BY LoopStep, RunsStep
<1> QED
  BY <1>1, <1>2, LoopInit, RunsInit, PTL DEF Spec

-----------------------------------------------------------------------------
(***************************************************************************)
(* Costs.  What was spent is what the attempts charge and, while one is    *)
(* under way, what its generation and its runs so far have used.           *)
(***************************************************************************)

HasCosts(attempt) ==
  /\ {"seconds", "tokens"} \subseteq DOMAIN attempt
  /\ attempt.seconds \in Nat /\ attempt.tokens \in Nat

Amounts == [tokens : Nat, seconds : Nat, masked : Nat]

UnderWay == pc \in {"execute", "judge"}

(* What runs cost where they are run. *)
BilledAt(where, run) ==
  IF where = "daytona" /\ run.end \in {"ran", "broke"} THEN run.seconds ELSE 0

AllBilledAt(where, all) == Total([n \in DOMAIN all |-> BilledAt(where, all[n])])

CostInv ==
  /\ IsSequence(attempts) /\ \A n \in DOMAIN attempts : HasCosts(attempts[n])
  /\ IsSequence(runs) /\ \A n \in DOMAIN runs : BilledAt(runner, runs[n]) \in Nat
  /\ usage \in Nat
  /\ spent \in Amounts
  /\ pc = "generate" => usage = 0 /\ runs = <<>>
  /\ spent.tokens = TotalTokens(attempts) + (IF UnderWay THEN usage ELSE 0)
  /\ spent.seconds = TotalSeconds(attempts) + spent.masked
                       + (IF UnderWay THEN AllBilledAt(runner, runs) ELSE 0)

(* What the code charges is what runs cost under its runner.               *)
LEMMA BilledHere ==
  /\ \A run : BilledSeconds(run) = BilledAt(runner, run)
  /\ \A all : SecondsOfAll(all) = AllBilledAt(runner, all)
BY DEF BilledSeconds, BilledAt, SecondsOfAll, AllBilledAt

(* What is spent by an attempt that ends at once, a run and an LLM call. *)
WithCosts(a, s, u) == [a EXCEPT !.seconds = @ + s, !.tokens = @ + u]
WithRun(a, s, m) == [a EXCEPT !.seconds = @ + s, !.masked = @ + m]
WithCall(a, u) == [a EXCEPT !.tokens = @ + u]

(* What is spent stays a record of numbers, and how it grows.              *)
LEMMA CostsSpent ==
  ASSUME NEW a \in Amounts, NEW s \in Nat, NEW u \in Nat
  PROVE  LET b == WithCosts(a, s, u)
         IN /\ b \in Amounts /\ b.tokens = a.tokens + u
            /\ b.seconds = a.seconds + s /\ b.masked = a.masked
<1> DEFINE b == WithCosts(a, s, u)
<1>1. a.tokens \in Nat /\ a.seconds \in Nat /\ a.masked \in Nat
  BY DEF Amounts
<1>2. a = [tokens |-> a.tokens, seconds |-> a.seconds, masked |-> a.masked]
  BY DEF Amounts
<1>3. DOMAIN b = {"tokens", "seconds", "masked"} /\ b = [f \in DOMAIN b |-> b[f]]
  BY <1>2 DEF WithCosts
<1>4. b.tokens = a.tokens + u /\ b.seconds = a.seconds + s /\ b.masked = a.masked
  BY <1>2 DEF WithCosts
<1> HIDE DEF b
<1>5. b = [tokens |-> b.tokens, seconds |-> b.seconds, masked |-> b.masked]
  BY <1>3
<1>6. b.tokens \in Nat /\ b.seconds \in Nat /\ b.masked \in Nat
  BY <1>1, <1>4
<1>7. b \in Amounts
  BY <1>5, <1>6 DEF Amounts
<1> QED
  BY <1>4, <1>7 DEF b

LEMMA RunSpent ==
  ASSUME NEW a \in Amounts, NEW s \in Nat, NEW m \in Nat
  PROVE  LET b == WithRun(a, s, m)
         IN /\ b \in Amounts /\ b.tokens = a.tokens
            /\ b.seconds = a.seconds + s /\ b.masked = a.masked + m
<1> DEFINE b == WithRun(a, s, m)
<1>1. a.tokens \in Nat /\ a.seconds \in Nat /\ a.masked \in Nat
  BY DEF Amounts
<1>2. a = [tokens |-> a.tokens, seconds |-> a.seconds, masked |-> a.masked]
  BY DEF Amounts
<1>3. DOMAIN b = {"tokens", "seconds", "masked"} /\ b = [f \in DOMAIN b |-> b[f]]
  BY <1>2 DEF WithRun
<1>4. b.tokens = a.tokens /\ b.seconds = a.seconds + s /\ b.masked = a.masked + m
  BY <1>2 DEF WithRun
<1> HIDE DEF b
<1>5. b = [tokens |-> b.tokens, seconds |-> b.seconds, masked |-> b.masked]
  BY <1>3
<1>6. b.tokens \in Nat /\ b.seconds \in Nat /\ b.masked \in Nat
  BY <1>1, <1>4
<1>7. b \in Amounts
  BY <1>5, <1>6 DEF Amounts
<1> QED
  BY <1>4, <1>7 DEF b

LEMMA CallSpent ==
  ASSUME NEW a \in Amounts, NEW u \in Nat
  PROVE  LET b == WithCall(a, u)
         IN /\ b \in Amounts /\ b.tokens = a.tokens + u
            /\ b.seconds = a.seconds /\ b.masked = a.masked
<1> DEFINE b == WithCall(a, u)
<1>1. a.tokens \in Nat /\ a.seconds \in Nat /\ a.masked \in Nat
  BY DEF Amounts
<1>2. a = [tokens |-> a.tokens, seconds |-> a.seconds, masked |-> a.masked]
  BY DEF Amounts
<1>3. DOMAIN b = {"tokens", "seconds", "masked"} /\ b = [f \in DOMAIN b |-> b[f]]
  BY <1>2 DEF WithCall
<1>4. b.tokens = a.tokens + u /\ b.seconds = a.seconds /\ b.masked = a.masked
  BY <1>2 DEF WithCall
<1> HIDE DEF b
<1>5. b = [tokens |-> b.tokens, seconds |-> b.seconds, masked |-> b.masked]
  BY <1>3
<1>6. b.tokens \in Nat /\ b.seconds \in Nat /\ b.masked \in Nat
  BY <1>1, <1>4
<1>7. b \in Amounts
  BY <1>5, <1>6 DEF Amounts
<1> QED
  BY <1>4, <1>7 DEF b

LEMMA AmountsStay ==
  ASSUME NEW a \in Amounts
  PROVE  a = WithCosts(a, 0, 0)
<1>1. a.tokens + 0 = a.tokens /\ a.seconds + 0 = a.seconds
  BY DEF Amounts
<1>2. a = [tokens |-> a.tokens, seconds |-> a.seconds, masked |-> a.masked]
  BY DEF Amounts
<1> QED
  BY <1>1, <1>2 DEF WithCosts

(* One more attempt adds its costs. *)
LEMMA AttemptAdds ==
  ASSUME NEW all, IsSequence(all), \A n \in DOMAIN all : HasCosts(all[n]),
         NEW attempt, HasCosts(attempt)
  PROVE  /\ TotalSeconds(all) \in Nat /\ TotalTokens(all) \in Nat
         /\ TotalSeconds(Append(all, attempt)) = TotalSeconds(all) + attempt.seconds
         /\ TotalTokens(Append(all, attempt)) = TotalTokens(all) + attempt.tokens
         /\ \A n \in DOMAIN Append(all, attempt) : HasCosts(Append(all, attempt)[n])
<1> DEFINE N == Len(all)
           more == Append(all, attempt)
           seconds == [n \in DOMAIN all |-> all[n].seconds]
           tokens == [n \in DOMAIN all |-> all[n].tokens]
<1>1. /\ N \in Nat /\ DOMAIN all = 1..N /\ DOMAIN more = 1..(N + 1)
      /\ \A n \in 1..N : more[n] = all[n]
      /\ more[N + 1] = attempt
  <2>1. PICK S : all \in Seq(S)
    BY DEF IsSequence
  <2>2. IsSequence(more) /\ Len(more) = N + 1
    BY Appended
  <2>3. PICK S2 : more \in Seq(S2)
    BY <2>2 DEF IsSequence
  <2> HIDE DEF more
  <2>4. DOMAIN more = 1..Len(more)
    BY <2>3
  <2> QED
    BY <2>1, <2>2, <2>4, Appended DEF more
<1> HIDE DEF N, more
<1>2. seconds \in Seq(Nat) /\ tokens \in Seq(Nat) /\ Len(seconds) = N /\ Len(tokens) = N
  BY <1>1, SMTT(30) DEF HasCosts
<1>3. \A n \in 1..(N + 1) : n \in 1..N \/ n = N + 1
  BY <1>1
<1>4. [n \in DOMAIN more |-> more[n].seconds] = Append(seconds, attempt.seconds)
  BY <1>1, <1>2, <1>3
<1>5. [n \in DOMAIN more |-> more[n].tokens] = Append(tokens, attempt.tokens)
  BY <1>1, <1>2, <1>3
<1>6. \A n \in DOMAIN more : HasCosts(more[n])
  BY <1>1, <1>3
<1> HIDE DEF seconds, tokens
<1>7. attempt.seconds \in Nat /\ attempt.tokens \in Nat
  BY DEF HasCosts
<1> QED
  BY <1>2, <1>4, <1>5, <1>6, <1>7, TotalAppended
     DEF TotalSeconds, TotalTokens, seconds, tokens, more

(* One more run adds what it bills. *)
LEMMA RunAdds ==
  ASSUME NEW where, NEW all, IsSequence(all), \A n \in DOMAIN all : BilledAt(where, all[n]) \in Nat,
         NEW run, BilledAt(where, run) \in Nat
  PROVE  /\ AllBilledAt(where, all) \in Nat
         /\ AllBilledAt(where, Append(all, run)) = AllBilledAt(where, all) + BilledAt(where, run)
         /\ \A n \in DOMAIN Append(all, run) : BilledAt(where, Append(all, run)[n]) \in Nat
<1> DEFINE N == Len(all)
           more == Append(all, run)
           seconds == [n \in DOMAIN all |-> BilledAt(where, all[n])]
<1>1. /\ N \in Nat /\ DOMAIN all = 1..N /\ DOMAIN more = 1..(N + 1)
      /\ \A n \in 1..N : more[n] = all[n]
      /\ more[N + 1] = run
  <2>1. PICK S : all \in Seq(S)
    BY DEF IsSequence
  <2>2. IsSequence(more) /\ Len(more) = N + 1
    BY Appended
  <2>3. PICK S2 : more \in Seq(S2)
    BY <2>2 DEF IsSequence
  <2> HIDE DEF more
  <2>4. DOMAIN more = 1..Len(more)
    BY <2>3
  <2> QED
    BY <2>1, <2>2, <2>4, Appended DEF more
<1> HIDE DEF N, more
<1>2. seconds \in Seq(Nat) /\ Len(seconds) = N
  BY <1>1
<1>3. \A n \in 1..(N + 1) : n \in 1..N \/ n = N + 1
  BY <1>1
<1>4. [n \in DOMAIN more |-> BilledAt(where, more[n])] = Append(seconds, BilledAt(where, run))
  BY <1>1, <1>2, <1>3
<1>5. \A n \in DOMAIN more : BilledAt(where, more[n]) \in Nat
  BY <1>1, <1>3
<1> HIDE DEF seconds
<1> QED
  BY <1>2, <1>4, <1>5, TotalAppended DEF AllBilledAt, seconds, more

(* Nothing is charged for nothing.                                         *)
LEMMA NothingSpent ==
  TotalSeconds(<<>>) = 0 /\ TotalTokens(<<>>) = 0 /\ \A where : AllBilledAt(where, <<>>) = 0
<1>1. /\ [n \in DOMAIN <<>> |-> <<>>[n].seconds] = <<>>
      /\ [n \in DOMAIN <<>> |-> <<>>[n].tokens] = <<>>
      /\ \A where : [n \in DOMAIN <<>> |-> BilledAt(where, <<>>[n])] = <<>>
  OBVIOUS
<1> QED
  BY <1>1, TotalOfNone DEF TotalSeconds, TotalTokens, AllBilledAt

LEMMA CostInit == Init => CostInv
<1>1. DOMAIN <<>> = {}
  OBVIOUS
<1> QED
  BY <1>1, NothingSpent, EmptyIsSequence DEF Init, CostInv, UnderWay, Amounts

(* The sums of what has been charged so far are numbers. *)
LEMMA CostType ==
  ASSUME CostInv
  PROVE  /\ TotalSeconds(attempts) \in Nat /\ TotalTokens(attempts) \in Nat
         /\ AllBilledAt(runner, runs) \in Nat
         /\ spent.tokens \in Nat /\ spent.seconds \in Nat /\ spent.masked \in Nat
<1>1. HasCosts([seconds |-> 0, tokens |-> 0])
  BY DEF HasCosts
<1>2. BilledAt(runner, [end |-> "refused", seconds |-> 0]) \in Nat
  BY DEF BilledAt
<1>3. /\ IsSequence(attempts) /\ \A n \in DOMAIN attempts : HasCosts(attempts[n])
      /\ IsSequence(runs) /\ \A n \in DOMAIN runs : BilledAt(runner, runs[n]) \in Nat
      /\ spent \in Amounts
  BY DEF CostInv
<1> QED
  BY <1>1, <1>2, <1>3, AttemptAdds, RunAdds DEF Amounts

(* The end of an attempt: its costs are charged, and none is under way. *)
LEMMA EndCharges ==
  ASSUME CostInv, NEW attempt, EndAttempt(attempt), HasCosts(attempt),
         NEW s \in Nat, NEW u \in Nat,
         runner' = runner, runs' = runs, usage' = usage,
         spent' = WithCosts(spent, s, u),
         attempt.seconds = s + (IF UnderWay THEN AllBilledAt(runner, runs) ELSE 0),
         attempt.tokens = u + (IF UnderWay THEN usage ELSE 0)
  PROVE  CostInv'
<1> DEFINE billed == IF UnderWay THEN AllBilledAt(runner, runs) ELSE 0
           used == IF UnderWay THEN usage ELSE 0
<1>1. /\ attempts' = Append(attempts, attempt) /\ ~UnderWay' /\ pc' # "generate"
  BY DEF EndAttempt, UnderWay
<1>2. /\ IsSequence(attempts) /\ \A n \in DOMAIN attempts : HasCosts(attempts[n])
      /\ IsSequence(runs) /\ \A n \in DOMAIN runs : BilledAt(runner, runs[n]) \in Nat
      /\ usage \in Nat /\ spent \in Amounts
      /\ spent.tokens = TotalTokens(attempts) + used
      /\ spent.seconds = TotalSeconds(attempts) + spent.masked + billed
  BY DEF CostInv
<1>3. /\ TotalSeconds(attempts') = TotalSeconds(attempts) + attempt.seconds
      /\ TotalTokens(attempts') = TotalTokens(attempts) + attempt.tokens
      /\ IsSequence(attempts') /\ \A n \in DOMAIN attempts' : HasCosts(attempts'[n])
  BY <1>1, <1>2, AttemptAdds, Appended
<1>4. /\ spent'.seconds = spent.seconds + s /\ spent'.tokens = spent.tokens + u
      /\ spent'.masked = spent.masked /\ spent' \in Amounts
  BY <1>2, CostsSpent
<1>5. /\ billed \in Nat /\ used \in Nat
      /\ attempt.seconds = s + billed /\ attempt.tokens = u + used
  BY <1>2, CostType
<1> HIDE DEF billed, used
<1>6. /\ spent'.tokens = TotalTokens(attempts')
      /\ spent'.seconds = TotalSeconds(attempts') + spent'.masked
  BY <1>2, <1>3, <1>4, <1>5, CostType
<1>7. /\ spent'.seconds = TotalSeconds(attempts') + spent'.masked + 0
      /\ spent'.tokens = TotalTokens(attempts') + 0
  <2>1. /\ TotalSeconds(attempts') \in Nat /\ TotalTokens(attempts') \in Nat
        /\ spent'.masked \in Nat
    BY <1>3, <1>4, <1>5, CostType
  <2> QED
    BY <1>6, <2>1
<1> QED
  BY <1>1, <1>2, <1>3, <1>4, <1>7 DEF CostInv

(* Every step keeps the account.                                           *)
LEMMA CostStep == CostInv /\ [Next]_vars => CostInv'
<1> SUFFICES ASSUME CostInv, [Next]_vars PROVE CostInv'
  OBVIOUS
<1>1. runner' = runner
  BY DEF Next, Step, Repair, SkipTest, UseLocalTest, GenerateTest, GenerationFails, Execute,
         Judge, CallerTests, Returned, vars
<1>2. /\ IsSequence(attempts) /\ \A n \in DOMAIN attempts : HasCosts(attempts[n])
      /\ IsSequence(runs) /\ \A n \in DOMAIN runs : BilledAt(runner, runs[n]) \in Nat
      /\ usage \in Nat /\ spent \in Amounts
      /\ pc = "generate" => usage = 0 /\ runs = <<>>
      /\ UnderWay => /\ spent.tokens = TotalTokens(attempts) + usage
                     /\ spent.seconds = TotalSeconds(attempts) + spent.masked
                                          + AllBilledAt(runner, runs)
      /\ ~UnderWay => /\ spent.tokens = TotalTokens(attempts)
                      /\ spent.seconds = TotalSeconds(attempts) + spent.masked
  BY CostType DEF CostInv
<1>0. Durations \subseteq Nat /\ Usages \subseteq Nat
  BY RepairLoopAssumption DEF RepairLoopAssumption
<1>3. DOMAIN <<>> = {}
  OBVIOUS
<1>4. CASE Repair
  <2>1. /\ ~UnderWay /\ ~UnderWay' /\ pc' = "generate" /\ usage' = 0 /\ runs' = <<>>
        /\ attempts' = attempts /\ spent' = spent
    BY <1>4 DEF Repair, UnderWay
  <2> QED
    BY <1>2, <1>3, <2>1, CostType, EmptyIsSequence DEF CostInv
<1>5. CASE SkipTest
  <2>1. /\ EndAttempt(SkippedAttempt) /\ ~UnderWay
        /\ runs' = runs /\ usage' = usage /\ spent' = spent
    BY <1>5 DEF SkipTest, UnderWay
  <2>2. /\ HasCosts(SkippedAttempt)
        /\ SkippedAttempt.seconds = 0 /\ SkippedAttempt.tokens = 0
    BY DEF SkippedAttempt, HasCosts
  <2>3. spent' = WithCosts(spent, 0, 0)
    BY <1>2, <2>1, AmountsStay
  <2>4. /\ SkippedAttempt.seconds = 0 + (IF UnderWay THEN AllBilledAt(runner, runs) ELSE 0)
        /\ SkippedAttempt.tokens = 0 + (IF UnderWay THEN usage ELSE 0)
        /\ 0 \in Nat
    BY <2>1, <2>2
  <2> QED
    BY <1>1, <2>1, <2>2, <2>3, <2>4, EndCharges
<1>6. CASE CallerTests
  <2>1. PICK status \in {"pass", "fail", "error"}, s \in Durations, u \in Usages :
          /\ EndAttempt([SkippedAttempt EXCEPT
               !.status = status, !.reason = Empty, !.seconds = s, !.tokens = u])
          /\ spent' = WithCosts(spent, s, u)
    BY <1>6 DEF CallerTests, WithCosts
  <2>2. ~UnderWay /\ runs' = runs /\ usage' = usage
    BY <1>6 DEF CallerTests, UnderWay
  <2> DEFINE attempt == [SkippedAttempt EXCEPT
               !.status = status, !.reason = Empty, !.seconds = s, !.tokens = u]
  <2>3. s \in Nat /\ u \in Nat
    BY <1>0
  <2>4. HasCosts(attempt) /\ attempt.seconds = s + 0 /\ attempt.tokens = u + 0
    BY <2>3 DEF SkippedAttempt, HasCosts
  <2>5. EndAttempt(attempt)
    BY <2>1
  <2> HIDE DEF attempt
  <2> QED
    BY <1>1, <2>1, <2>2, <2>3, <2>4, <2>5, EndCharges
<1>7. CASE UseLocalTest
  <2>1. /\ pc = "generate" /\ pc' = "execute" /\ usage' = usage /\ runs' = runs
        /\ attempts' = attempts /\ spent' = spent /\ ~UnderWay
    BY <1>7 DEF UseLocalTest, UnderWay
  <2>2. AllBilledAt(runner', runs') = 0 /\ usage' = 0
    BY <1>2, <2>1, NothingSpent
  <2> QED
    BY <1>1, <1>2, <2>1, <2>2, CostType DEF CostInv
<1>8. CASE GenerateTest \/ GenerationFails
  <2>1. PICK u \in Usages \cup {0} :
          usage' = u /\ spent' = WithCall(spent, u)
    BY <1>8 DEF GenerateTest, GenerationFails, WithCall
  <2>2. /\ pc = "generate" /\ pc' = "execute" /\ runs' = runs /\ attempts' = attempts
        /\ ~UnderWay
    BY <1>8 DEF GenerateTest, GenerationFails, UnderWay
  <2>3. AllBilledAt(runner', runs') = 0 /\ u \in Nat
    BY <1>0, <1>2, <2>2, NothingSpent
  <2>4. /\ spent'.tokens = spent.tokens + u /\ spent'.seconds = spent.seconds
        /\ spent'.masked = spent.masked /\ spent' \in Amounts
    BY <1>2, <2>1, <2>3, CallSpent
  <2>5. UnderWay' /\ pc' # "generate" /\ u \in Nat
    BY <2>2, <2>3 DEF UnderWay
  <2>6. /\ spent'.tokens = TotalTokens(attempts') + usage'
        /\ spent'.seconds = TotalSeconds(attempts') + spent'.masked
                              + AllBilledAt(runner', runs')
    BY <1>2, <2>1, <2>2, <2>3, <2>4, CostType
  <2> QED
    BY <1>1, <1>2, <2>1, <2>2, <2>3, <2>4, <2>5, <2>6 DEF CostInv
<1>9. CASE Execute
  <2>1. PICK r \in PossibleRuns(test.kind) :
          /\ runs' = Append(runs, r)
          /\ spent' = IF runner = "local" THEN spent
                      ELSE [spent EXCEPT !.seconds = @ + r.seconds,
                                         !.masked = @ + r.seconds - BilledSeconds(r)]
    BY <1>9 DEF Execute
  <2>2. /\ UnderWay /\ pc' \in {"execute", "judge"}
        /\ attempts' = attempts /\ usage' = usage
    BY <1>9 DEF Execute, UnderWay
  <2> DEFINE b == BilledAt(runner, r)
             m == r.seconds - b
  <2>3. r.seconds \in Nat
    <3>1. r.seconds \in Durations \cup {0}
      BY DEF PossibleRuns
    <3> HIDE DEF b, m
    <3>2. ASSUME r.seconds \in Durations PROVE r.seconds \in Nat
      BY <1>0, <3>2
    <3> QED
      BY <3>1, <3>2
  <2>4. /\ b \in Nat /\ m \in Nat /\ r.seconds = b + m
        /\ runner = "local" => b = 0
    BY <2>3 DEF BilledAt
  <2>5. /\ IsSequence(runs')
        /\ AllBilledAt(runner, runs') = AllBilledAt(runner, runs) + b
        /\ \A n \in DOMAIN runs' : BilledAt(runner, runs'[n]) \in Nat
    BY <1>2, <2>1, <2>4, RunAdds, Appended
  <2>6. /\ spent' \in Amounts /\ spent'.tokens = spent.tokens
        /\ spent'.seconds - spent'.masked = spent.seconds - spent.masked + b
    <3>1. CASE runner = "local"
      BY <1>2, <2>1, <2>4, <3>1, CostType
    <3>2. CASE runner # "local"
      <4>1. spent' = [spent EXCEPT !.seconds = @ + r.seconds, !.masked = @ + r.seconds - b]
        BY <2>1, <3>2, BilledHere
      <4>2. spent.masked + r.seconds - b = spent.masked + m
        BY <2>3, <2>4, CostType
      <4>3. spent' = WithRun(spent, r.seconds, m)
        BY <4>1, <4>2 DEF WithRun
      <4> HIDE DEF b, m
      <4>4. /\ spent' \in Amounts /\ spent'.seconds = spent.seconds + r.seconds
            /\ spent'.tokens = spent.tokens /\ spent'.masked = spent.masked + m
        <5>1. spent \in Amounts /\ m \in Nat
          BY <1>2, <2>4
        <5> QED
          BY <2>3, <4>3, <5>1, RunSpent
      <4> QED
        BY <2>3, <2>4, <4>4, CostType
    <3> QED
      BY <3>1, <3>2
  <2> HIDE DEF b, m
  <2>7. /\ spent'.seconds \in Nat /\ spent'.masked \in Nat
        /\ AllBilledAt(runner, runs') \in Nat
    BY <2>4, <2>5, <2>6, CostType DEF Amounts
  <2>8. spent'.seconds = TotalSeconds(attempts) + spent'.masked + AllBilledAt(runner, runs')
    <3>1. spent.seconds = TotalSeconds(attempts) + spent.masked + AllBilledAt(runner, runs)
      BY <1>2, <2>2
    <3>2. b \in Nat
      BY <2>4
    <3> DEFINE S == TotalSeconds(attempts)
               A == AllBilledAt(runner, runs)
               B == AllBilledAt(runner, runs')
    <3>3. /\ S \in Nat /\ A \in Nat /\ B = A + b
          /\ spent.seconds = S + spent.masked + A
          /\ spent.seconds \in Nat /\ spent.masked \in Nat
      BY <2>5, <3>1, CostType
    <3> HIDE DEF S, A, B
    <3>4. spent'.seconds = S + spent'.masked + B
      BY <2>6, <2>7, <3>2, <3>3
    <3> QED
      BY <3>4 DEF S, B
  <2>9. UnderWay' /\ pc' # "generate"
    BY <2>2 DEF UnderWay
  <2> QED
    BY <1>1, <1>2, <2>2, <2>5, <2>6, <2>8, <2>9 DEF CostInv
<1>10. CASE Judge
  <2>1. /\ EndAttempt(JudgedAttempt) /\ UnderWay
        /\ runs' = runs /\ usage' = usage /\ spent' = spent
    BY <1>10 DEF Judge, UnderWay
  <2>2. JudgedAttempt.seconds = AllBilledAt(runner, runs) /\ JudgedAttempt.tokens = usage
        /\ {"seconds", "tokens"} \subseteq DOMAIN JudgedAttempt
    BY BilledHere DEF JudgedAttempt
  <2>3. /\ HasCosts(JudgedAttempt)
        /\ JudgedAttempt.seconds = 0 + AllBilledAt(runner, runs)
        /\ JudgedAttempt.tokens = 0 + usage
    BY <1>2, <2>2, CostType DEF HasCosts
  <2>4. spent' = WithCosts(spent, 0, 0)
    BY <1>2, <2>1, AmountsStay
  <2> QED
    BY <1>1, <2>1, <2>3, <2>4, EndCharges
<1>11. CASE Returned \/ UNCHANGED vars
  <2>1. UNCHANGED vars
    BY <1>11 DEF Returned
  <2> QED
    BY <2>1 DEF vars, CostInv, UnderWay
<1> QED
  BY <1>4, <1>5, <1>6, <1>7, <1>8, <1>9, <1>10, <1>11 DEF Next, Step

(* When the loop has returned no attempt is under way.                     *)
LEMMA CostsCharged == LoopInv /\ CostInv => ChargesWhatWasUsed
<1> SUFFICES ASSUME LoopInv, CostInv, pc = "done"
             PROVE  /\ Aggregate(attempts).tokens = spent.tokens
                    /\ Aggregate(attempts).seconds + spent.masked = spent.seconds
  BY DEF ChargesWhatWasUsed
<1>1. /\ spent.tokens = TotalTokens(attempts) /\ spent.masked \in Nat
      /\ TotalSeconds(attempts) \in Nat
      /\ spent.seconds = TotalSeconds(attempts) + spent.masked
  <2>1. ~UnderWay
    BY DEF UnderWay
  <2> QED
    BY <2>1, CostType DEF CostInv
<1>2. {"seconds", "tokens"} \subseteq DOMAIN attempts[Len(attempts)]
  <2>1. Len(attempts) \in DOMAIN attempts
    <3>1. PICK S : attempts \in Seq(S)
      BY DEF CostInv, IsSequence
    <3> QED
      BY <3>1, LimitType DEF LoopInv, InAttempt
  <2> QED
    BY <2>1 DEF CostInv, HasCosts
<1>3. /\ Aggregate(attempts).tokens = TotalTokens(attempts)
      /\ Aggregate(attempts).seconds = TotalSeconds(attempts)
  BY <1>2 DEF Aggregate
<1> QED
  BY <1>1, <1>3

(* Whatever tests and sandboxes do and however often the loop goes round,  *)
(* the report charges every token and every second in a sandbox that was   *)
(* used, except for runs the pool answered with an error of its own.       *)
THEOREM UsageIsCharged == Spec => []ChargesWhatWasUsed
<1>1. LoopInv /\ CostInv /\ [Next]_vars => (LoopInv /\ CostInv)'
  BY LoopStep, CostStep
<1> QED
  BY <1>1, LoopInit, CostInit, CostsCharged, PTL DEF Spec

-----------------------------------------------------------------------------
(***************************************************************************)
(* Provenance.  Only the first run of an attempt can be of a generated     *)
(* test, and the test that is run next says whose place it takes.          *)
(***************************************************************************)

(* Status, for runs of any runner. *)
StatusAt(where, run) ==
  CASE run.end # "ran" -> "error"
    [] /\ Says(run.lines, "PASS") /\ ~Says(run.lines, "FAIL")
       /\ where = "local" \/ run.exit = 0 -> "pass"
    [] Says(run.lines, "FAIL") -> "fail"
    [] OTHER -> "error"

(* The run is of a generated test that the given one replaces. *)
ReplacedBy(where, run, next) ==
  /\ run.kind = "generated" /\ StatusAt(where, run) \in {"fail", "error"}
  /\ next.kind = "fallback" /\ next.reason = Replaced(StatusAt(where, run))

TrulyMarked(attempt, all) ==
  LET last == all[Len(all)]
  IN /\ {"fallback", "reason", "generated", "status"} \subseteq DOMAIN attempt
     /\ attempt.fallback <=> last.kind = "fallback"
     /\ attempt.fallback <=> attempt.reason # Empty
     /\ ~attempt.fallback => attempt.generated = attempt.status
     /\ Len(all) = 2 => /\ attempt.generated \in {"fail", "error"}
                        /\ attempt.reason = Replaced(attempt.generated)

OriginInv ==
  /\ IsSequence(runs)
  /\ pc = "generate" => runs = <<>> /\ test = NoTest
  /\ pc \in {"execute", "judge"} =>
       /\ test.kind \in {"generated", "fallback"}
       /\ test.kind = "fallback" <=> test.reason # Empty
  /\ pc = "execute" =>
       \/ Len(runs) = 0
       \/ Len(runs) = 1 /\ ReplacedBy(runner, runs[1], test)
  /\ pc = "judge" =>
       /\ Len(runs) \in {1, 2}
       /\ runs[Len(runs)].kind = test.kind
       /\ Len(runs) = 2 => ReplacedBy(runner, runs[1], test)
  /\ pc = "done" /\ runs # <<>> => TrulyMarked(attempts[Len(attempts)], runs)

(* The status of a run under the runner of this process.                   *)
LEMMA StatusHere ==
  \A run : Status(run) = StatusAt(runner, run) /\ Status(run) \in {"pass", "fail", "error"}
BY DEF Status, StatusAt

LEMMA ReasonsAreGiven == \A status : Replaced(status) # Empty
BY DEF Replaced, Empty

LEMMA OriginInit == Init => OriginInv
BY EmptyIsSequence DEF Init, OriginInv

(* The attempt that is judged is marked with the origin of its verdict. *)
LEMMA JudgedTruly ==
  ASSUME OriginInv, pc = "judge"
  PROVE  TrulyMarked(JudgedAttempt, runs)
<1> DEFINE last == runs[Len(runs)]
<1>1. /\ {"fallback", "reason", "generated", "status"} \subseteq DOMAIN JudgedAttempt
      /\ JudgedAttempt.fallback <=> test.kind = "fallback"
      /\ JudgedAttempt.reason = test.reason
      /\ JudgedAttempt.status = Status(last)
      /\ JudgedAttempt.generated = GeneratedStatus
  BY DEF JudgedAttempt
<1>2. /\ test.kind \in {"generated", "fallback"}
      /\ test.kind = "fallback" <=> test.reason # Empty
      /\ Len(runs) \in {1, 2} /\ last.kind = test.kind
      /\ Len(runs) = 2 => ReplacedBy(runner, runs[1], test)
  BY DEF OriginInv
<1>3. ASSUME test.kind # "fallback"
      PROVE  GeneratedStatus = Status(last)
  <2>1. Len(runs) = 1 /\ test.kind = "generated"
    BY <1>2, <1>3 DEF ReplacedBy
  <2> QED
    BY <1>2, <2>1 DEF GeneratedStatus
<1>4. ASSUME Len(runs) = 2
      PROVE  GeneratedStatus \in {"fail", "error"} /\ test.reason = Replaced(GeneratedStatus)
  BY <1>2, <1>4, StatusHere DEF GeneratedStatus, ReplacedBy
<1> QED
  BY <1>1, <1>2, <1>3, <1>4 DEF TrulyMarked

(* Every step keeps the marks true.                                        *)
LEMMA OriginStep == LoopInv /\ OriginInv /\ [Next]_vars => OriginInv'
<1> SUFFICES ASSUME LoopInv, OriginInv, [Next]_vars PROVE OriginInv'
  OBVIOUS
<1>1. runner' = runner
  BY DEF Next, Step, Repair, SkipTest, UseLocalTest, GenerateTest, GenerationFails, Execute,
         Judge, CallerTests, Returned, vars
<1>2. CASE Repair
  BY <1>2, EmptyIsSequence DEF Repair, OriginInv
<1>3. CASE SkipTest \/ CallerTests
  <2>1. pc = "generate" /\ runs' = runs /\ pc' \in {"repair", "done"}
    BY <1>3 DEF SkipTest, CallerTests, EndAttempt
  <2> QED
    BY <2>1, EmptyIsSequence DEF OriginInv
<1>4. CASE UseLocalTest \/ GenerateTest \/ GenerationFails
  <2>1. /\ pc = "generate" /\ pc' = "execute" /\ runs' = runs
        /\ test' \in {Generated, Fallback("local_regression_runner"),
                      Fallback("generation_error")}
    BY <1>4 DEF UseLocalTest, GenerateTest, GenerationFails
  <2>2. /\ test'.kind \in {"generated", "fallback"}
        /\ test'.kind = "fallback" <=> test'.reason # Empty
    BY <2>1 DEF Generated, Fallback, Empty
  <2> QED
    BY <2>1, <2>2, EmptyIsSequence DEF OriginInv
<1>5. CASE Execute
  <2>1. PICK r \in PossibleRuns(test.kind) :
          /\ runs' = Append(runs, r)
          /\ IF RerunWithFallback(r)
             THEN test' = Fallback(Replaced(Status(r))) /\ pc' = pc
             ELSE pc' = "judge" /\ test' = test
    BY <1>5 DEF Execute
  <2>2. r.kind = test.kind
    BY DEF PossibleRuns
  <2>3. /\ pc = "execute" /\ IsSequence(runs)
        /\ test.kind \in {"generated", "fallback"}
        /\ test.kind = "fallback" <=> test.reason # Empty
        /\ Len(runs) = 0 \/ (Len(runs) = 1 /\ ReplacedBy(runner, runs[1], test))
    BY <1>5 DEF Execute, OriginInv
  <2>4. /\ IsSequence(runs') /\ Len(runs) \in Nat /\ Len(runs') = Len(runs) + 1
        /\ \A n \in 1..Len(runs) : runs'[n] = runs[n]
        /\ runs'[Len(runs) + 1] = r
    BY <2>1, <2>3, Appended
  <2>5. CASE RerunWithFallback(r)
    <3>1. /\ test' = Fallback(Replaced(Status(r))) /\ pc' = "execute"
          /\ r.kind = "generated" /\ Status(r) # "pass"
      BY <2>1, <2>3, <2>5 DEF RerunWithFallback
    <3>2. Len(runs) = 0
      BY <2>2, <2>3, <3>1 DEF ReplacedBy
    <3>3. ReplacedBy(runner', runs'[1], test')
      BY <1>1, <2>4, <3>1, <3>2, StatusHere DEF ReplacedBy, Fallback
    <3>4. test'.kind = "fallback" /\ test'.reason # Empty
      BY <3>1, ReasonsAreGiven DEF Fallback
    <3> QED
      BY <2>4, <3>1, <3>2, <3>3, <3>4 DEF OriginInv
  <2>6. CASE ~RerunWithFallback(r)
    <3>1. pc' = "judge" /\ test' = test
      BY <2>1, <2>6
    <3>2. Len(runs') \in {1, 2} /\ runs'[Len(runs')].kind = test'.kind
      BY <2>2, <2>3, <2>4, <3>1
    <3>3. Len(runs') = 2 => ReplacedBy(runner', runs'[1], test')
      <4>1. CASE Len(runs) = 0
        BY <2>4, <4>1
      <4>2. CASE Len(runs) = 1 /\ ReplacedBy(runner, runs[1], test)
        BY <1>1, <2>4, <3>1, <4>2
      <4> QED
        BY <2>3, <4>1, <4>2
    <3> QED
      BY <2>3, <2>4, <3>1, <3>2, <3>3 DEF OriginInv
  <2> QED
    BY <2>5, <2>6
<1>6. CASE Judge
  <2>1. /\ pc = "judge" /\ runs' = runs
        /\ attempts' = Append(attempts, JudgedAttempt) /\ pc' \in {"repair", "done"}
    BY <1>6 DEF Judge, EndAttempt
  <2>2. attempts'[Len(attempts')] = JudgedAttempt
    BY <2>1, Appended DEF LoopInv
  <2>3. TrulyMarked(attempts'[Len(attempts')], runs')
    BY <2>1, <2>2, JudgedTruly
  <2> QED
    BY <2>1, <2>3 DEF OriginInv
<1>7. CASE Returned \/ UNCHANGED vars
  <2>1. UNCHANGED vars
    BY <1>7 DEF Returned
  <2> QED
    BY <2>1 DEF vars, OriginInv
<1> QED
  BY <1>2, <1>3, <1>4, <1>5, <1>6, <1>7 DEF Next, Step

(* The status, reason and origin shown with a verdict are those of the run *)
(* it comes from, whatever earlier runs and attempts reported.             *)
THEOREM OriginsAreTrue == Spec => []ProvenanceIsTrue
<1>1. OriginInv => ProvenanceIsTrue
  <2> SUFFICES ASSUME OriginInv, pc = "done", runs # <<>>
               PROVE  TrulyMarked(Aggregate(attempts), runs)
    BY DEF ProvenanceIsTrue, TrulyMarked
  <2>1. TrulyMarked(attempts[Len(attempts)], runs)
    BY DEF OriginInv
  <2>2. /\ DOMAIN Aggregate(attempts) = DOMAIN attempts[Len(attempts)]
        /\ \A f \in {"fallback", "reason", "generated", "status"} \cap DOMAIN attempts[Len(attempts)] :
             Aggregate(attempts)[f] = attempts[Len(attempts)][f]
    BY DEF Aggregate
  <2> QED
    BY <2>1, <2>2 DEF TrulyMarked
<1>2. LoopInv /\ OriginInv /\ [Next]_vars => (LoopInv /\ OriginInv)'
  BY LoopStep, OriginStep
<1> QED
  BY <1>1, <1>2, LoopInit, OriginInit, PTL DEF Spec

-----------------------------------------------------------------------------
(***************************************************************************)
(* Termination.  That a step is taken is a matter of fairness, and that    *)
(* one is possible of TLC's check for deadlocks; how many there can be is  *)
(* bounded by what is left of the cap and of the iteration.                *)
(***************************************************************************)

LeftInIteration ==
  CASE pc = "generate" -> 4
    [] pc = "execute"  -> IF test.kind = "fallback" THEN 2 ELSE 3
    [] pc = "judge"    -> 1
    [] OTHER           -> 0

StepsLeft == 5 * (Limit - iteration) + LeftInIteration

LEMMA StepsLeftType == LoopInv => StepsLeft \in Nat
<1> SUFFICES ASSUME LoopInv PROVE StepsLeft \in Nat
  OBVIOUS
<1>1. LeftInIteration \in Nat
  BY DEF LeftInIteration
<1>2. iteration \in Nat /\ Limit \in Nat /\ iteration <= Limit
  BY LimitType DEF LoopInv, InAttempt
<1> QED
  BY <1>1, <1>2 DEF StepsLeft

(* An attempt that ends begins no step that was not counted. *)
LEMMA EndCounts ==
  ASSUME NEW attempt, EndAttempt(attempt)
  PROVE  LeftInIteration' = 0
<1>1. pc' \in {"repair", "done"}
  BY DEF EndAttempt
<1> QED
  BY <1>1 DEF LeftInIteration

LEMMA StepCounts == LoopInv /\ Step => StepsLeft' < StepsLeft
<1> SUFFICES ASSUME LoopInv, Step PROVE StepsLeft' < StepsLeft
  OBVIOUS
<1>1. Limit \in Nat /\ iteration \in Nat
  BY LimitType DEF LoopInv
<1>2. ASSUME iteration' = iteration, LeftInIteration' \in Nat, LeftInIteration \in Nat,
             LeftInIteration' < LeftInIteration
      PROVE  StepsLeft' < StepsLeft
  <2>1. StepsLeft = 5 * (Limit - iteration) + LeftInIteration
    BY DEF StepsLeft
  <2>2. StepsLeft' = 5 * (Limit - iteration) + LeftInIteration'
    BY <1>2 DEF StepsLeft, Limit
  <2>3. 5 * (Limit - iteration) \in Int
    BY <1>1
  <2> QED
    BY <1>2, <2>1, <2>2, <2>3
<1>3. CASE Repair
  <2>1. LeftInIteration = 0 /\ LeftInIteration' = 4 /\ iteration' = iteration + 1
    BY <1>3 DEF Repair, LeftInIteration
  <2> QED
    BY <1>1, <2>1 DEF StepsLeft
<1>4. CASE SkipTest \/ CallerTests
  <2>1. LeftInIteration = 4 /\ iteration' = iteration /\ \E attempt : EndAttempt(attempt)
    BY <1>4 DEF SkipTest, CallerTests, LeftInIteration
  <2> QED
    BY <1>2, <2>1, EndCounts
<1>5. CASE UseLocalTest \/ GenerateTest \/ GenerationFails
  <2>1. LeftInIteration = 4 /\ iteration' = iteration /\ LeftInIteration' \in {2, 3}
    BY <1>5 DEF UseLocalTest, GenerateTest, GenerationFails, LeftInIteration
  <2> QED
    BY <1>2, <2>1
<1>6. CASE Execute
  <2>1. PICK run \in PossibleRuns(test.kind) :
          IF RerunWithFallback(run)
          THEN test' = Fallback(Replaced(Status(run))) /\ UNCHANGED pc
          ELSE pc' = "judge" /\ UNCHANGED test
    BY <1>6 DEF Execute
  <2>2. pc = "execute" /\ iteration' = iteration
    BY <1>6 DEF Execute
  <2>3. run.kind = test.kind
    BY DEF PossibleRuns
  <2>4. CASE RerunWithFallback(run)
    <3>1. test.kind = "generated" /\ test'.kind = "fallback" /\ pc' = "execute"
      BY <2>1, <2>2, <2>3, <2>4 DEF RerunWithFallback, Fallback
    <3>2. LeftInIteration = 3 /\ LeftInIteration' = 2
      BY <2>2, <3>1 DEF LeftInIteration
    <3> QED
      BY <1>2, <2>2, <3>2
  <2>5. CASE ~ RerunWithFallback(run)
    <3>1. LeftInIteration \in {2, 3} /\ LeftInIteration' = 1
      BY <2>1, <2>2, <2>5 DEF LeftInIteration
    <3> QED
      BY <1>2, <2>2, <3>1
  <2> QED
    BY <2>4, <2>5
<1>7. CASE Judge
  <2>1. LeftInIteration = 1 /\ iteration' = iteration /\ \E attempt : EndAttempt(attempt)
    BY <1>7 DEF Judge, LeftInIteration
  <2> QED
    BY <1>2, <2>1, EndCounts
<1> QED
  BY <1>3, <1>4, <1>5, <1>6, <1>7 DEF Step

(* Whatever tests report and generations return, the loop has at most five *)
(* steps for each iteration the cap allows, and every step uses one up:    *)
(* nothing in it is repeated without a bound.                              *)
THEOREM StepsAreBounded ==
  Spec => /\ StepsLeft <= 5 * Limit
          /\ [](StepsLeft \in Nat)
          /\ [][StepsLeft' < StepsLeft]_vars
<1>1. Init => StepsLeft <= 5 * Limit
  <2>1. Init => iteration = 0 /\ LeftInIteration = 0
    BY DEF Init, LeftInIteration
  <2> QED
    BY <2>1, LimitType DEF StepsLeft
<1>2. LoopInv /\ [Next]_vars => [StepsLeft' < StepsLeft]_vars
  BY StepCounts DEF Next, Returned
<1> QED
  BY <1>1, <1>2, LoopInit, LoopStep, StepsLeftType, PTL DEF Spec

=============================================================================
