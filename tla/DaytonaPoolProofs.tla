------------------------- MODULE DaytonaPoolProofs --------------------------
(***************************************************************************)
(* Theorems about DaytonaPool, for any pool size, any finite set of        *)
(* threads and any number of failures, with close() at any moment.         *)
(***************************************************************************)
EXTENDS DaytonaPool, TLAPS, SequenceTheorems, FiniteSetTheorems

USE DEF CallStep, CloseStep, poolVars, callVars, closeVars, sandboxVars, vars

-----------------------------------------------------------------------------
(***************************************************************************)
(* The queue.                                                              *)
(***************************************************************************)

(* Taking the top element of a queue without repetitions. *)
LEMMA PopProperties ==
  ASSUME NEW S, NEW q \in Seq(S), q # <<>>
  PROVE  /\ Top(q) \in S /\ Top(q) \in Elements(q)
         /\ Pop(q) \in Seq(S)
         /\ Len(q) \in Nat \ {0} /\ Len(Pop(q)) = Len(q) - 1
         /\ Elements(Pop(q)) \subseteq Elements(q)
         /\ Distinct(q) => /\ Distinct(Pop(q))
                           /\ Elements(Pop(q)) = Elements(q) \ {Top(q)}
<1>1. Len(q) \in Nat \ {0} /\ DOMAIN q = 1..Len(q)
  BY EmptySeq
<1>2. \A i \in 1..(Len(q) - 1) : q[i] \in S
  BY <1>1
<1>3. /\ Pop(q) \in Seq(S)
      /\ Len(Pop(q)) = Len(q) - 1
      /\ \A i \in 1..(Len(q) - 1) : Pop(q)[i] = q[i]
  BY <1>1, <1>2, SubSeqProperties DEF Pop
<1>4. DOMAIN Pop(q) = 1..(Len(q) - 1)
  BY <1>3
<1> HIDE DEF Pop
<1>5. Elements(Pop(q)) \subseteq Elements(q)
  BY <1>1, <1>3, <1>4 DEF Elements
<1>6. Top(q) \in S /\ Top(q) \in Elements(q)
  BY <1>1 DEF Top, Elements
<1>7. ASSUME Distinct(q) PROVE Distinct(Pop(q))
  BY <1>1, <1>3, <1>4, <1>7 DEF Distinct
<1>8. ASSUME Distinct(q) PROVE Elements(Pop(q)) = Elements(q) \ {Top(q)}
  <2>1. \A i \in 1..(Len(q) - 1) : q[i] # Top(q)
    BY <1>1, <1>8 DEF Distinct, Top
  <2>2. \A i \in 1..Len(q) : i \in 1..(Len(q) - 1) \/ q[i] = Top(q)
    BY <1>1 DEF Top
  <2> QED
    BY <1>1, <1>3, <1>4, <2>1, <2>2 DEF Elements
<1> QED
  BY <1>1, <1>3, <1>5, <1>6, <1>7, <1>8

(* Putting an element that is not there. *)
LEMMA PushProperties ==
  ASSUME NEW S, NEW q \in Seq(S), NEW e \in S
  PROVE  /\ Append(q, e) \in Seq(S)
         /\ Len(Append(q, e)) = Len(q) + 1
         /\ Elements(Append(q, e)) = Elements(q) \cup {e}
         /\ Distinct(q) /\ e \notin Elements(q) => Distinct(Append(q, e))
<1>1. /\ Len(q) \in Nat /\ DOMAIN q = 1..Len(q)
      /\ Append(q, e) \in Seq(S)
      /\ Len(Append(q, e)) = Len(q) + 1
      /\ DOMAIN Append(q, e) = 1..(Len(q) + 1)
      /\ \A i \in 1..Len(q) : Append(q, e)[i] = q[i]
      /\ Append(q, e)[Len(q) + 1] = e
  OBVIOUS
<1>2. \A i \in 1..(Len(q) + 1) : i \in 1..Len(q) \/ i = Len(q) + 1
  BY <1>1
<1>3. Elements(Append(q, e)) = Elements(q) \cup {e}
  BY <1>1, <1>2 DEF Elements
<1>4. ASSUME Distinct(q), e \notin Elements(q) PROVE Distinct(Append(q, e))
  BY <1>1, <1>2, <1>4 DEF Distinct, Elements
<1> QED
  BY <1>1, <1>3, <1>4

LEMMA InitialQueue ==
  ASSUME Init
  PROVE  /\ available \in Seq(Executors) /\ Len(available) = Size
         /\ Elements(available) \subseteq Executors
<1>1. Size \in Nat /\ available \in [1..Size -> Executors]
  BY PoolAssumption DEF Init
<1>2. available \in Seq(Executors)
  BY <1>1, SeqDef
<1>3. Len(available) = Size
  BY <1>1, <1>2, LenProperties
<1> QED
  BY <1>1, <1>2, <1>3 DEF Elements

-----------------------------------------------------------------------------
(***************************************************************************)
(* Type correctness: a thread that puts or deletes holds an executor.      *)
(***************************************************************************)

EmptyHanded == {"idle", "getting", "creating"}

TypeInv ==
  /\ TypeOK
  /\ \A t \in Threads : held[t] = NoExecutor <=> pc[t] \in EmptyHanded

LEMMA FaultType ==
  ASSUME TypeOK, NEW k \in Fallible, Fault(k)
  PROVE  faults' \in [Fallible -> Nat]
BY DEF TypeOK, Fault

LEMMA DeleteType ==
  ASSUME TypeOK, NEW e \in Executors, DeleteSandbox(e)
  PROVE  faults' \in [Fallible -> Nat] /\ deleted' \subseteq Executors
<1>1. "delete" \in Fallible
  BY DEF Fallible
<1> QED
  BY <1>1, FaultType DEF DeleteSandbox, TypeOK

(* The control of one thread moves, and only what it holds may change. *)
LEMMA HandType ==
  ASSUME TypeInv, NEW t \in Threads, NEW s \in CallState, Goto(t, s),
         NEW e \in Executors \cup {NoExecutor},
         held' = [held EXCEPT ![t] = e],
         e = NoExecutor <=> s \in EmptyHanded
  PROVE  /\ pc' \in [Threads -> CallState]
         /\ held' \in [Threads -> Executors \cup {NoExecutor}]
         /\ \A u \in Threads : held'[u] = NoExecutor <=> pc'[u] \in EmptyHanded
BY DEF TypeInv, TypeOK, Goto

LEMMA SameHandType ==
  ASSUME TypeInv, NEW t \in Threads, NEW s \in CallState, Goto(t, s),
         held' = held, pc[t] \in EmptyHanded <=> s \in EmptyHanded
  PROVE  /\ pc' \in [Threads -> CallState]
         /\ held' \in [Threads -> Executors \cup {NoExecutor}]
         /\ \A u \in Threads : held'[u] = NoExecutor <=> pc'[u] \in EmptyHanded
BY DEF TypeInv, TypeOK, Goto

LEMMA TypeInit == Init => TypeInv
<1> SUFFICES ASSUME Init PROVE TypeInv
  OBVIOUS
<1> QED
  BY InitialQueue
     DEF Init, TypeInv, TypeOK, CallState, CloseState, EmptyHanded

LEMMA TypeStep == TypeInv /\ [Next]_vars => TypeInv'
<1> SUFFICES ASSUME TypeInv, [Next]_vars PROVE TypeInv'
  OBVIOUS
<1> USE DEF CallState, Holding, EmptyHanded
<1>1. ASSUME NEW t \in Threads,
             Acquire(t) \/ GiveUp(t) \/ Execute(t) \/ Restart(t)
               \/ List(t) \/ Remove(t)
      PROVE  TypeInv'
  <2>1. held[t] \in Executors \cup {NoExecutor}
        /\ (held[t] # NoExecutor \/ pc[t] \in EmptyHanded)
    BY DEF TypeInv, TypeOK
  <2>2. /\ pc' \in [Threads -> CallState]
        /\ held' \in [Threads -> Executors \cup {NoExecutor}]
        /\ \A u \in Threads : held'[u] = NoExecutor <=> pc'[u] \in EmptyHanded
    BY <1>1, SameHandType DEF Acquire, GiveUp, Execute, Restart, List, Remove
  <2>3. /\ UNCHANGED <<available, closeVars, created, deleted, faults>>
        /\ executors' \subseteq executors \cup ({held[t]} \ {NoExecutor})
        /\ dirty' \subseteq dirty \cup ({held[t]} \ {NoExecutor})
    BY <1>1, <2>1 DEF Acquire, GiveUp, Execute, Restart, List, Remove
  <2> QED
    BY <2>1, <2>2, <2>3 DEF TypeInv, TypeOK
<1>2. ASSUME NEW t \in Threads, Get(t) PROVE TypeInv'
  <2>1. Top(available) \in Executors /\ Pop(available) \in Seq(Executors)
    BY <1>2, PopProperties DEF TypeInv, TypeOK, Get
  <2>2. Top(available) # NoExecutor
    BY <2>1, PoolAssumption
  <2>3. /\ pc' \in [Threads -> CallState]
        /\ held' \in [Threads -> Executors \cup {NoExecutor}]
        /\ \A u \in Threads : held'[u] = NoExecutor <=> pc'[u] \in EmptyHanded
    BY <1>2, <2>1, <2>2 DEF Get, Goto, TypeInv, TypeOK
  <2>4. UNCHANGED <<executors, closer, todo, created, dirty, deleted, faults>>
        /\ available' = Pop(available)
    BY <1>2 DEF Get
  <2> QED
    BY <2>1, <2>3, <2>4 DEF TypeInv, TypeOK
<1>3. ASSUME NEW t \in Threads, Put(t) PROVE TypeInv'
  <2>1. held[t] \in Executors
    BY <1>3 DEF TypeInv, TypeOK, Put
  <2>2. available' \in Seq(Executors)
    BY <1>3, <2>1, PushProperties DEF TypeInv, TypeOK, Put
  <2>3. /\ pc' \in [Threads -> CallState]
        /\ held' \in [Threads -> Executors \cup {NoExecutor}]
        /\ \A u \in Threads : held'[u] = NoExecutor <=> pc'[u] \in EmptyHanded
    BY <1>3, HandType DEF Put
  <2>4. UNCHANGED <<executors, closer, todo, created, dirty, deleted, faults>>
    BY <1>3 DEF Put
  <2> QED
    BY <2>2, <2>3, <2>4 DEF TypeInv, TypeOK
<1>4. ASSUME NEW t \in Threads, RestartRaises(t) PROVE TypeInv'
  <2>1. faults' \in [Fallible -> Nat]
    BY <1>4, FaultType DEF TypeInv, TypeOK, RestartRaises, Fallible
  <2>2. /\ pc' \in [Threads -> CallState]
        /\ held' \in [Threads -> Executors \cup {NoExecutor}]
        /\ \A u \in Threads : held'[u] = NoExecutor <=> pc'[u] \in EmptyHanded
    BY <1>4, SameHandType DEF RestartRaises
  <2>3. UNCHANGED <<available, executors, closer, todo, created, dirty, deleted>>
    BY <1>4 DEF RestartRaises
  <2> QED
    BY <2>1, <2>2, <2>3 DEF TypeInv, TypeOK
<1>5. ASSUME NEW t \in Threads, DeleteBroken(t) PROVE TypeInv'
  <2>1. held[t] \in Executors
    BY <1>5 DEF TypeInv, TypeOK, DeleteBroken
  <2>2. faults' \in [Fallible -> Nat] /\ deleted' \subseteq Executors
    BY <1>5, <2>1, DeleteType DEF TypeInv, DeleteBroken
  <2>3. /\ pc' \in [Threads -> CallState]
        /\ held' \in [Threads -> Executors \cup {NoExecutor}]
        /\ \A u \in Threads : held'[u] = NoExecutor <=> pc'[u] \in EmptyHanded
    BY <1>5, HandType DEF DeleteBroken
  <2>4. UNCHANGED <<available, executors, closer, todo, created, dirty>>
    BY <1>5 DEF DeleteBroken
  <2> QED
    BY <2>2, <2>3, <2>4 DEF TypeInv, TypeOK
<1>6. ASSUME NEW t \in Threads, Create(t) PROVE TypeInv'
  <2>1. PICK e \in Executors \ created :
          created' = created \cup {e} /\ held' = [held EXCEPT ![t] = e]
    BY <1>6 DEF Create
  <2>2. e # NoExecutor
    BY PoolAssumption
  <2>3. /\ pc' \in [Threads -> CallState]
        /\ held' \in [Threads -> Executors \cup {NoExecutor}]
        /\ \A u \in Threads : held'[u] = NoExecutor <=> pc'[u] \in EmptyHanded
    BY <1>6, <2>1, <2>2 DEF Create, Goto, TypeInv, TypeOK
  <2>4. UNCHANGED <<available, executors, closer, todo, dirty, deleted, faults>>
    BY <1>6 DEF Create
  <2> QED
    BY <2>1, <2>3, <2>4 DEF TypeInv, TypeOK
<1>7. ASSUME NEW t \in Threads, CreateRaises(t) PROVE TypeInv'
  <2>1. faults' \in [Fallible -> Nat]
    BY <1>7, FaultType DEF TypeInv, TypeOK, CreateRaises, Fallible
  <2>2. /\ pc' \in [Threads -> CallState]
        /\ held' \in [Threads -> Executors \cup {NoExecutor}]
        /\ \A u \in Threads : held'[u] = NoExecutor <=> pc'[u] \in EmptyHanded
    BY <1>7, SameHandType DEF CreateRaises
  <2>3. UNCHANGED <<available, executors, closer, todo, created, dirty, deleted>>
    BY <1>7 DEF CreateRaises
  <2> QED
    BY <2>1, <2>2, <2>3 DEF TypeInv, TypeOK
<1>8. ASSUME NEW t \in Threads, Release(t) PROVE TypeInv'
  <2>1. /\ pc' \in [Threads -> CallState]
        /\ held' \in [Threads -> Executors \cup {NoExecutor}]
        /\ \A u \in Threads : held'[u] = NoExecutor <=> pc'[u] \in EmptyHanded
    <3>1. CASE closer # "closed" /\ held[t] \in executors
      BY <1>8, <3>1, SameHandType DEF Release
    <3>2. CASE ~ (closer # "closed" /\ held[t] \in executors)
      BY <1>8, <3>2, HandType DEF Release
    <3> QED
      BY <3>1, <3>2
  <2>2. UNCHANGED <<available, executors, closer, todo, created, dirty, deleted, faults>>
    BY <1>8 DEF Release
  <2> QED
    BY <2>1, <2>2 DEF TypeInv, TypeOK
<1>9. CASE StartClose
  BY <1>9 DEF TypeInv, TypeOK, StartClose, CloseState
<1>10. CASE CloseDelete
  <2>1. PICK e \in todo : DeleteSandbox(e) /\ todo' = todo \ {e}
    BY <1>10 DEF CloseDelete
  <2>2. faults' \in [Fallible -> Nat] /\ deleted' \subseteq Executors
    BY <2>1, DeleteType DEF TypeInv, TypeOK
  <2> QED
    BY <1>10, <2>1, <2>2 DEF TypeInv, TypeOK, CloseDelete
<1>11. CASE Drain
  BY <1>11, PopProperties DEF TypeInv, TypeOK, Drain, CloseState
<1>12. CASE Clear \/ SetClosed
  BY <1>12 DEF TypeInv, TypeOK, Clear, SetClosed, CloseState
<1>13. CASE UNCHANGED vars
  BY <1>13 DEF TypeInv, TypeOK
<1> QED
  BY <1>1, <1>2, <1>3, <1>4, <1>5, <1>6, <1>7, <1>8, <1>9, <1>10, <1>11,
     <1>12, <1>13 DEF Next

(* Every variable keeps its type.                                          *)
THEOREM TypeCorrect == Spec => []TypeOK
<1>1. TypeInv => TypeOK
  BY DEF TypeInv
<1> QED
  BY <1>1, TypeInit, TypeStep, PTL DEF Spec

-----------------------------------------------------------------------------
(***************************************************************************)
(* Exclusive use.  A new executor differs from all others because every    *)
(* executor in the queue or in use was created before.                     *)
(***************************************************************************)

HandsInv ==
  /\ TypeInv
  /\ Exclusive
  /\ Elements(available) \subseteq created
  /\ executors \cup todo \subseteq created
  /\ dirty \cup deleted \subseteq created
  /\ \A t \in Threads : held[t] # NoExecutor => held[t] \in created

LEMMA HandsInit == Init => HandsInv
<1> SUFFICES ASSUME Init PROVE HandsInv
  OBVIOUS
<1> QED
  BY TypeInit DEF Init, HandsInv, Exclusive

(* Steps that neither touch the queue nor what anybody holds. *)
LEMMA HandsKept ==
  ASSUME HandsInv, TypeInv', available' = available, held' = held,
         created' = created, executors' \cup todo' \subseteq created,
         dirty' \cup deleted' \subseteq created
  PROVE  HandsInv'
BY DEF HandsInv, Exclusive

(* Steps in which thread t lets go of its executor or has none. *)
LEMMA HandsEmptied ==
  ASSUME HandsInv, TypeInv', NEW t \in Threads, available' = available,
         held' = [held EXCEPT ![t] = NoExecutor],
         created' = created, executors' \cup todo' \subseteq created,
         dirty' \cup deleted' \subseteq created
  PROVE  HandsInv'
<1>1. \A u \in Threads : held'[u] = NoExecutor \/ held'[u] = held[u]
  BY DEF HandsInv, TypeInv, TypeOK
<1> QED
  BY <1>1 DEF HandsInv, Exclusive

LEMMA HandsStep == HandsInv /\ [Next]_vars => HandsInv'
<1> SUFFICES ASSUME HandsInv, [Next]_vars PROVE HandsInv'
  OBVIOUS
<1>1. TypeInv /\ TypeOK /\ TypeInv'
  BY TypeStep DEF HandsInv, TypeInv
<1>2. ASSUME NEW t \in Threads,
             Acquire(t) \/ GiveUp(t) \/ RestartRaises(t) \/ CreateRaises(t)
               \/ Restart(t) \/ Remove(t)
      PROVE  HandsInv'
  <2>1. /\ available' = available /\ held' = held /\ created' = created
        /\ executors' \subseteq executors /\ dirty' \subseteq dirty
        /\ deleted' = deleted /\ todo' = todo
    BY <1>2 DEF Acquire, GiveUp, RestartRaises, CreateRaises, Restart, Remove
  <2> QED
    BY <1>1, <2>1, HandsKept DEF HandsInv
<1>3. ASSUME NEW t \in Threads, Execute(t) \/ List(t) PROVE HandsInv'
  <2>1. held[t] \in created
    BY <1>1, <1>3 DEF HandsInv, TypeInv, EmptyHanded, Execute, List
  <2>2. /\ available' = available /\ held' = held /\ created' = created
        /\ executors' \subseteq executors \cup {held[t]}
        /\ dirty' \subseteq dirty \cup {held[t]}
        /\ deleted' = deleted /\ todo' = todo
    BY <1>3 DEF Execute, List
  <2> QED
    BY <1>1, <2>1, <2>2, HandsKept DEF HandsInv
<1>4. ASSUME NEW t \in Threads, Get(t) PROVE HandsInv'
  <2> DEFINE e == Top(available)
  <2>1. /\ Distinct(available)
        /\ available' = Pop(available) /\ available # <<>>
        /\ held' = [held EXCEPT ![t] = e]
        /\ UNCHANGED <<executors, todo, created, dirty, deleted>>
    BY <1>4 DEF HandsInv, Exclusive, Get
  <2>2. /\ e \in Elements(available)
        /\ Distinct(available')
        /\ Elements(available') = Elements(available) \ {e}
    BY <1>1, <2>1, PopProperties DEF TypeOK
  <2>3. held'[t] = e /\ \A u \in Threads \ {t} : held'[u] = held[u]
    BY <1>1, <2>1 DEF TypeOK
  <2> HIDE DEF e
  <2> QED
    BY <1>1, <2>1, <2>2, <2>3 DEF HandsInv, Exclusive
<1>5. ASSUME NEW t \in Threads, Put(t) PROVE HandsInv'
  <2>1. /\ held[t] # NoExecutor /\ held[t] \in Executors
        /\ held[t] \in created /\ held[t] \notin Elements(available)
        /\ Distinct(available)
    BY <1>1, <1>5 DEF HandsInv, Exclusive, TypeInv, TypeOK, EmptyHanded, Put
  <2>2. /\ available' = Append(available, held[t])
        /\ held' = [held EXCEPT ![t] = NoExecutor]
        /\ UNCHANGED <<executors, todo, created, dirty, deleted>>
    BY <1>5 DEF Put
  <2>3. /\ Distinct(available')
        /\ Elements(available') = Elements(available) \cup {held[t]}
    BY <1>1, <2>1, <2>2, PushProperties DEF TypeOK
  <2>4. held'[t] = NoExecutor /\ \A u \in Threads \ {t} : held'[u] = held[u]
    BY <1>1, <2>2 DEF TypeOK
  <2> QED
    BY <1>1, <2>1, <2>2, <2>3, <2>4 DEF HandsInv, Exclusive
<1>6. ASSUME NEW t \in Threads, Release(t) PROVE HandsInv'
  <2>1. /\ available' = available /\ created' = created
        /\ executors' = executors /\ dirty' = dirty /\ deleted' = deleted
        /\ todo' = todo
        /\ held' = held \/ held' = [held EXCEPT ![t] = NoExecutor]
    BY <1>6 DEF Release
  <2> QED
    BY <1>1, <2>1, HandsKept, HandsEmptied DEF HandsInv
<1>7. ASSUME NEW t \in Threads, DeleteBroken(t) PROVE HandsInv'
  <2>1. held[t] \in created
    BY <1>1, <1>7 DEF HandsInv, TypeInv, EmptyHanded, DeleteBroken
  <2>2. /\ available' = available /\ created' = created
        /\ executors' = executors /\ dirty' = dirty /\ todo' = todo
        /\ deleted' \subseteq deleted \cup {held[t]}
        /\ held' = [held EXCEPT ![t] = NoExecutor]
    BY <1>7 DEF DeleteBroken, DeleteSandbox
  <2> QED
    BY <1>1, <2>1, <2>2, HandsEmptied DEF HandsInv
<1>8. ASSUME NEW t \in Threads, Create(t) PROVE HandsInv'
  <2>1. PICK e \in Executors \ created :
          created' = created \cup {e} /\ held' = [held EXCEPT ![t] = e]
    BY <1>8 DEF Create
  <2>2. held'[t] = e /\ \A u \in Threads \ {t} : held'[u] = held[u]
    BY <1>1, <2>1 DEF TypeOK
  <2>3. UNCHANGED <<available, executors, todo, dirty, deleted>>
    BY <1>8 DEF Create
  <2>4. /\ e \notin Elements(available)
        /\ e # NoExecutor
        /\ \A u \in Threads \ {t} : held[u] # e
    BY <2>1, PoolAssumption DEF HandsInv
  <2> QED
    BY <1>1, <2>1, <2>2, <2>3, <2>4 DEF HandsInv, Exclusive
<1>9. CASE StartClose \/ Clear \/ SetClosed
  <2>1. /\ available' = available /\ held' = held /\ created' = created
        /\ executors' \subseteq executors /\ dirty' = dirty
        /\ deleted' = deleted /\ todo' \subseteq todo \cup executors
    BY <1>9 DEF StartClose, Clear, SetClosed
  <2> QED
    BY <1>1, <2>1, HandsKept DEF HandsInv
<1>10. CASE Drain
  <2>1. \/ available' = available
        \/ available # <<>> /\ available' = Pop(available)
    BY <1>10 DEF Drain
  <2>2. UNCHANGED <<executors, held, todo, created, dirty, deleted>>
    BY <1>10 DEF Drain
  <2>3. CASE available' = available
    BY <1>1, <2>2, <2>3, HandsKept DEF HandsInv
  <2>4. CASE available # <<>> /\ available' = Pop(available)
    <3>1. /\ Distinct(available')
          /\ Elements(available') \subseteq Elements(available)
      BY <1>1, <2>4, PopProperties DEF HandsInv, Exclusive, TypeOK
    <3> QED
      BY <1>1, <2>2, <3>1 DEF HandsInv, Exclusive
  <2> QED
    BY <2>1, <2>3, <2>4
<1>11. CASE UNCHANGED vars
  BY <1>1, <1>11, HandsKept DEF HandsInv
<1>12. CASE CloseDelete
  <2>1. PICK e \in todo : DeleteSandbox(e) /\ todo' = todo \ {e}
    BY <1>12 DEF CloseDelete
  <2>2. deleted' \subseteq deleted \cup {e}
    BY <2>1 DEF DeleteSandbox
  <2>3. UNCHANGED <<available, executors, held, created, dirty>>
    BY <1>12 DEF CloseDelete
  <2> QED
    BY <1>1, <2>1, <2>2, <2>3, HandsKept DEF HandsInv
<1> QED
  BY <1>2, <1>3, <1>4, <1>5, <1>6, <1>7, <1>8, <1>9, <1>10, <1>11, <1>12
     DEF Next

(* No executor is used by two threads at once, however calls, failures and *)
(* close() interleave.                                                     *)
THEOREM ExclusiveUse == Spec => []Exclusive
<1>1. HandsInv => Exclusive
  BY DEF HandsInv
<1> QED
  BY <1>1, HandsInit, HandsStep, PTL DEF Spec

-----------------------------------------------------------------------------
(***************************************************************************)
(* Isolation.  While the pool is open every executor that will be handed   *)
(* out, now or after a put, is listed, exists and is clean; a used one     *)
(* stays with its thread until it is reset or replaced, because release    *)
(* finds it among the listed executors.                                    *)
(***************************************************************************)

Owning == {"running", "returning", "resetting", "replacing", "putting", "adding"}
Fresh  == {"running", "putting", "listing", "adding"}

CleanInv ==
  closer = "open" =>
    /\ Elements(available) \subseteq executors \ (dirty \cup deleted)
    /\ \A t \in Threads :
         /\ pc[t] \in Owning => held[t] \in executors \ deleted
         /\ pc[t] \in Fresh  => held[t] \notin dirty \cup deleted

LEMMA CleanInit == Init => CleanInv
<1> SUFFICES ASSUME Init PROVE CleanInv
  OBVIOUS
<1> QED
  BY DEF Init, CleanInv, Owning, Fresh

LEMMA StaysOpen ==
  ASSUME [Next]_vars, closer' = "open"
  PROVE  closer = "open"
BY DEF Next, Acquire, Get, GiveUp, Execute, Release, Restart, RestartRaises,
       Put, Remove, DeleteBroken, Create, CreateRaises, List, StartClose,
       CloseDelete, Drain, Clear, SetClosed

(* A step of thread t: the others keep what they hold, and it is neither   *)
(* in the queue nor what t holds.                                          *)
LEMMA OthersApart ==
  ASSUME HandsInv, NEW t \in Threads, NEW u \in Threads \ {t}
  PROVE  /\ held[t] # NoExecutor => held[u] # held[t]
         /\ held[t] # NoExecutor => held[t] \notin Elements(available)
         /\ pc[u] \in Owning \cup Fresh => held[u] # NoExecutor
BY DEF HandsInv, Exclusive, TypeInv, EmptyHanded, Owning, Fresh

LEMMA GotoOne ==
  ASSUME TypeOK, NEW t \in Threads, NEW s, Goto(t, s)
  PROVE  pc'[t] = s /\ \A u \in Threads \ {t} : pc'[u] = pc[u]
BY DEF TypeOK, Goto

LEMMA CleanStep == HandsInv /\ CleanInv /\ [Next]_vars => CleanInv'
<1> SUFFICES ASSUME HandsInv, CleanInv, [Next]_vars, closer' = "open"
             PROVE  CleanInv'
  BY DEF CleanInv
<1>1. TypeInv /\ TypeOK
  BY DEF HandsInv, TypeInv
<1>2. /\ Elements(available) \subseteq executors \ (dirty \cup deleted)
      /\ \A t \in Threads :
           /\ pc[t] \in Owning => held[t] \in executors \ deleted
           /\ pc[t] \in Fresh  => held[t] \notin dirty \cup deleted
  BY StaysOpen DEF CleanInv
<1>3. ASSUME NEW t \in Threads,
             Acquire(t) \/ GiveUp(t) \/ RestartRaises(t) \/ CreateRaises(t)
      PROVE  CleanInv'
  <2>1. UNCHANGED <<available, executors, held, dirty, deleted>>
    BY <1>3 DEF Acquire, GiveUp, RestartRaises, CreateRaises
  <2>2. /\ pc'[t] \in {"getting", "idle", "replacing"}
        /\ pc'[t] = "replacing" => pc[t] = "resetting"
        /\ \A u \in Threads \ {t} : pc'[u] = pc[u]
    BY <1>1, <1>3, GotoOne
       DEF Acquire, GiveUp, RestartRaises, CreateRaises
  <2> QED
    BY <1>2, <2>1, <2>2 DEF CleanInv, Owning, Fresh
<1>4. ASSUME NEW t \in Threads, Get(t) PROVE CleanInv'
  <2>1. /\ held' = [held EXCEPT ![t] = Top(available)]
        /\ available' = Pop(available) /\ available # <<>>
        /\ UNCHANGED <<executors, dirty, deleted>>
    BY <1>4 DEF Get
  <2>2. /\ Top(available) \in Elements(available)
        /\ Elements(available') \subseteq Elements(available)
    BY <1>1, <2>1, PopProperties DEF TypeOK
  <2>3. /\ pc'[t] = "running" /\ \A u \in Threads \ {t} : pc'[u] = pc[u]
        /\ held'[t] = Top(available)
        /\ \A u \in Threads \ {t} : held'[u] = held[u]
    BY <1>1, <1>4, <2>1, GotoOne DEF Get, TypeOK
  <2> QED
    BY <1>2, <2>1, <2>2, <2>3 DEF CleanInv
<1>5. ASSUME NEW t \in Threads, Execute(t) PROVE CleanInv'
  <2>1. /\ UNCHANGED <<available, executors, held, deleted>>
        /\ dirty' = dirty \cup {held[t]}
        /\ pc[t] = "running" /\ held[t] # NoExecutor
    BY <1>1, <1>5 DEF Execute, TypeInv, EmptyHanded
  <2>2. pc'[t] = "returning" /\ \A u \in Threads \ {t} : pc'[u] = pc[u]
    BY <1>1, <1>5, GotoOne DEF Execute
  <2>3. held[t] \notin Elements(available)
    BY <2>1 DEF HandsInv, Exclusive
  <2> QED
    BY <1>2, <2>1, <2>2, <2>3, OthersApart DEF CleanInv, Owning, Fresh
<1>6. ASSUME NEW t \in Threads, Release(t) PROVE CleanInv'
  <2>1. closer = "open" /\ pc[t] = "returning"
    BY <1>6, StaysOpen DEF Release
  <2>2. held[t] \in executors
    BY <1>2, <2>1 DEF Owning
  <2>3. UNCHANGED <<available, executors, held, dirty, deleted>>
    BY <1>6, <2>1, <2>2 DEF Release
  <2>4. pc'[t] = "resetting" /\ \A u \in Threads \ {t} : pc'[u] = pc[u]
    BY <1>1, <1>6, <2>1, <2>2, GotoOne DEF Release
  <2> QED
    BY <1>2, <2>1, <2>3, <2>4 DEF CleanInv, Owning, Fresh
<1>7. ASSUME NEW t \in Threads, Restart(t) PROVE CleanInv'
  <2>1. /\ UNCHANGED <<available, executors, held, deleted>>
        /\ dirty' = dirty \ {held[t]} /\ pc[t] = "resetting"
    BY <1>7 DEF Restart
  <2>2. pc'[t] = "putting" /\ \A u \in Threads \ {t} : pc'[u] = pc[u]
    BY <1>1, <1>7, GotoOne DEF Restart
  <2> QED
    BY <1>2, <2>1, <2>2 DEF CleanInv, Owning, Fresh
<1>8. ASSUME NEW t \in Threads, Put(t) PROVE CleanInv'
  <2>1. /\ pc[t] \in {"putting", "adding"}
        /\ UNCHANGED <<executors, dirty, deleted>>
        /\ available' = Append(available, held[t])
        /\ held' = [held EXCEPT ![t] = NoExecutor]
    BY <1>8 DEF Put
  <2>2. held[t] \in executors \ (dirty \cup deleted)
    BY <1>2, <2>1 DEF Owning, Fresh
  <2>3. Elements(available') = Elements(available) \cup {held[t]}
    BY <1>1, <2>1, <2>2, PushProperties DEF TypeOK
  <2>4. /\ pc'[t] = "idle" /\ \A u \in Threads \ {t} : pc'[u] = pc[u]
        /\ \A u \in Threads \ {t} : held'[u] = held[u]
    BY <1>1, <1>8, <2>1, GotoOne DEF Put, TypeOK
  <2> QED
    BY <1>2, <2>1, <2>2, <2>3, <2>4 DEF CleanInv, Owning, Fresh
<1>9. ASSUME NEW t \in Threads, Remove(t) PROVE CleanInv'
  <2>1. /\ UNCHANGED <<available, held, dirty, deleted>>
        /\ executors' = executors \ {held[t]}
        /\ pc[t] = "replacing" /\ held[t] # NoExecutor
    BY <1>1, <1>9 DEF Remove, TypeInv, EmptyHanded
  <2>2. pc'[t] = "deleting" /\ \A u \in Threads \ {t} : pc'[u] = pc[u]
    BY <1>1, <1>9, GotoOne DEF Remove
  <2>3. held[t] \notin Elements(available)
    BY <2>1 DEF HandsInv, Exclusive
  <2> QED
    BY <1>2, <2>1, <2>2, <2>3, OthersApart DEF CleanInv, Owning, Fresh
<1>10. ASSUME NEW t \in Threads, DeleteBroken(t) PROVE CleanInv'
  <2>1. /\ UNCHANGED <<available, executors, dirty>>
        /\ deleted' \subseteq deleted \cup {held[t]}
        /\ held' = [held EXCEPT ![t] = NoExecutor]
        /\ held[t] # NoExecutor
    BY <1>1, <1>10
       DEF DeleteBroken, DeleteSandbox, TypeInv, EmptyHanded
  <2>2. /\ pc'[t] = "creating" /\ \A u \in Threads \ {t} : pc'[u] = pc[u]
        /\ \A u \in Threads \ {t} : held'[u] = held[u]
    BY <1>1, <1>10, <2>1, GotoOne DEF DeleteBroken, TypeOK
  <2>3. held[t] \notin Elements(available)
    BY <2>1 DEF HandsInv, Exclusive
  <2> QED
    BY <1>2, <2>1, <2>2, <2>3, OthersApart DEF CleanInv, Owning, Fresh
<1>11. ASSUME NEW t \in Threads, Create(t) PROVE CleanInv'
  <2>1. PICK e \in Executors \ created : held' = [held EXCEPT ![t] = e]
    BY <1>11 DEF Create
  <2>2. e \notin dirty \cup deleted
    BY DEF HandsInv
  <2>3. /\ pc'[t] = "listing" /\ \A u \in Threads \ {t} : pc'[u] = pc[u]
        /\ held'[t] = e /\ \A u \in Threads \ {t} : held'[u] = held[u]
        /\ UNCHANGED <<available, executors, dirty, deleted>>
    BY <1>1, <1>11, <2>1, GotoOne DEF Create, TypeOK
  <2> QED
    BY <1>2, <2>2, <2>3 DEF CleanInv, Owning, Fresh
<1>12. ASSUME NEW t \in Threads, List(t) PROVE CleanInv'
  <2>1. /\ UNCHANGED <<available, held, dirty, deleted>>
        /\ executors' = executors \cup {held[t]} /\ pc[t] = "listing"
    BY <1>12 DEF List
  <2>2. pc'[t] = "adding" /\ \A u \in Threads \ {t} : pc'[u] = pc[u]
    BY <1>1, <1>12, GotoOne DEF List
  <2> QED
    BY <1>2, <2>1, <2>2 DEF CleanInv, Owning, Fresh
<1>13. CASE UNCHANGED vars
  BY <1>2, <1>13 DEF CleanInv
<1>14. ~(StartClose \/ CloseDelete \/ Drain \/ Clear \/ SetClosed)
  BY StaysOpen DEF StartClose, CloseDelete, Drain, Clear, SetClosed
<1> QED
  BY <1>3, <1>4, <1>5, <1>6, <1>7, <1>8, <1>9, <1>10, <1>11, <1>12, <1>13,
     <1>14 DEF Next

(* Whatever is in the queue, or will be put there, is clean at any time:   *)
(* an executor goes back only after its restart, or new.                   *)
ResetInv ==
  /\ Elements(available) \cap dirty = {}
  /\ \A t \in Threads : pc[t] \in Fresh => held[t] \notin dirty

LEMMA ResetInit == Init => ResetInv
<1> SUFFICES ASSUME Init PROVE ResetInv
  OBVIOUS
<1> QED
  BY DEF Init, ResetInv, Fresh

LEMMA ResetStep == HandsInv /\ ResetInv /\ [Next]_vars => ResetInv'
<1> SUFFICES ASSUME HandsInv, ResetInv, [Next]_vars PROVE ResetInv'
  OBVIOUS
<1>1. TypeInv /\ TypeOK
  BY DEF HandsInv, TypeInv
<1>2. ASSUME NEW t \in Threads,
             \/ Acquire(t) \/ GiveUp(t) \/ RestartRaises(t) \/ CreateRaises(t)
             \/ Release(t) \/ DeleteBroken(t) \/ Remove(t) \/ List(t)
      PROVE  ResetInv'
  <2>1. UNCHANGED <<available, dirty>>
    BY <1>2 DEF Acquire, GiveUp, RestartRaises, CreateRaises, Release,
                DeleteBroken, Remove, List
  <2>2. /\ pc'[t] \in Fresh => pc[t] \in Fresh /\ held'[t] = held[t]
        /\ \A u \in Threads \ {t} : pc'[u] = pc[u]
    BY <1>1, <1>2, GotoOne
       DEF Acquire, GiveUp, RestartRaises, CreateRaises, Release,
           DeleteBroken, Remove, List, Fresh
  <2>3. \A u \in Threads \ {t} : held'[u] = held[u]
    BY <1>1, <1>2
       DEF Acquire, GiveUp, RestartRaises, CreateRaises, Release,
           DeleteBroken, Remove, List, TypeOK
  <2> QED
    BY <2>1, <2>2, <2>3 DEF ResetInv
<1>3. ASSUME NEW t \in Threads, Get(t) PROVE ResetInv'
  <2>1. /\ held' = [held EXCEPT ![t] = Top(available)]
        /\ available' = Pop(available) /\ available # <<>> /\ dirty' = dirty
    BY <1>3 DEF Get
  <2>2. /\ Top(available) \in Elements(available)
        /\ Elements(available') \subseteq Elements(available)
    BY <1>1, <2>1, PopProperties DEF TypeOK
  <2>3. /\ held'[t] = Top(available)
        /\ \A u \in Threads \ {t} : pc'[u] = pc[u] /\ held'[u] = held[u]
    BY <1>1, <1>3, <2>1, GotoOne DEF Get, TypeOK
  <2> QED
    BY <2>1, <2>2, <2>3 DEF ResetInv
<1>4. ASSUME NEW t \in Threads, Execute(t) PROVE ResetInv'
  <2>1. /\ UNCHANGED <<available, held>> /\ dirty' = dirty \cup {held[t]}
        /\ held[t] # NoExecutor
    BY <1>1, <1>4 DEF Execute, TypeInv, EmptyHanded
  <2>2. pc'[t] = "returning" /\ \A u \in Threads \ {t} : pc'[u] = pc[u]
    BY <1>1, <1>4, GotoOne DEF Execute
  <2>3. held[t] \notin Elements(available)
    BY <2>1 DEF HandsInv, Exclusive
  <2>4. \A u \in Threads \ {t} : pc[u] \in Fresh => held[u] # held[t]
    BY <2>1, OthersApart
  <2>5. Elements(available') = Elements(available)
    BY <2>1
  <2> QED
    BY <2>1, <2>2, <2>3, <2>4, <2>5 DEF ResetInv, Fresh
<1>5. ASSUME NEW t \in Threads, Restart(t) PROVE ResetInv'
  <2>1. UNCHANGED <<available, held>> /\ dirty' = dirty \ {held[t]}
    BY <1>5 DEF Restart
  <2>2. \A u \in Threads \ {t} : pc'[u] = pc[u]
    BY <1>1, <1>5, GotoOne DEF Restart
  <2> QED
    BY <2>1, <2>2 DEF ResetInv
<1>6. ASSUME NEW t \in Threads, Put(t) PROVE ResetInv'
  <2>1. /\ pc[t] \in Fresh /\ held[t] \in Executors /\ dirty' = dirty
        /\ available' = Append(available, held[t])
        /\ held' = [held EXCEPT ![t] = NoExecutor]
    BY <1>1, <1>6 DEF Put, Fresh, TypeInv, TypeOK, EmptyHanded
  <2>2. Elements(available') = Elements(available) \cup {held[t]}
    BY <1>1, <2>1, PushProperties DEF TypeOK
  <2>3. /\ pc'[t] = "idle"
        /\ \A u \in Threads \ {t} : pc'[u] = pc[u] /\ held'[u] = held[u]
    BY <1>1, <1>6, <2>1, GotoOne DEF Put, TypeOK
  <2> QED
    BY <2>1, <2>2, <2>3 DEF ResetInv, Fresh
<1>7. ASSUME NEW t \in Threads, Create(t) PROVE ResetInv'
  <2>1. PICK e \in Executors \ created : held' = [held EXCEPT ![t] = e]
    BY <1>7 DEF Create
  <2>2. e \notin dirty
    BY DEF HandsInv
  <2>3. /\ held'[t] = e
        /\ \A u \in Threads \ {t} : pc'[u] = pc[u] /\ held'[u] = held[u]
        /\ UNCHANGED <<available, dirty>>
    BY <1>1, <1>7, <2>1, GotoOne DEF Create, TypeOK
  <2> QED
    BY <2>2, <2>3 DEF ResetInv
<1>8. CASE Drain
  <2>1. Elements(available') \subseteq Elements(available)
    BY <1>1, <1>8, PopProperties DEF Drain, TypeOK
  <2>2. UNCHANGED <<pc, held, dirty>>
    BY <1>8 DEF Drain
  <2> QED
    BY <2>1, <2>2 DEF ResetInv
<1>9. CASE StartClose \/ CloseDelete \/ Clear \/ SetClosed \/ UNCHANGED vars
  <2>1. UNCHANGED <<available, pc, held, dirty>>
    BY <1>9 DEF StartClose, CloseDelete, Clear, SetClosed
  <2> QED
    BY <2>1 DEF ResetInv
<1> QED
  BY <1>2, <1>3, <1>4, <1>5, <1>6, <1>7, <1>8, <1>9 DEF Next

(* Code runs only in a clean sandbox, however calls, failures and close()  *)
(* interleave, and until close() is called only in an existing one.        *)
THEOREM IsolatedRuns == Spec => []RunsAreIsolated
<1>1. CleanInv /\ ResetInv => RunsAreIsolated
  BY DEF CleanInv, ResetInv, RunsAreIsolated, Fresh
<1>2. HandsInv /\ CleanInv /\ ResetInv /\ [Next]_vars
        => (HandsInv /\ CleanInv /\ ResetInv)'
  BY HandsStep, CleanStep, ResetStep
<1> QED
  BY <1>1, <1>2, HandsInit, CleanInit, ResetInit, PTL DEF Spec

-----------------------------------------------------------------------------
(***************************************************************************)
(* Slots.  Each slot is in the queue, with a call in progress, or lost     *)
(* with a replacement that was never created; close() only takes slots     *)
(* away, as does a call that finds its executor no longer listed.  So a    *)
(* thread that returns an executor finds room for it.                      *)
(***************************************************************************)

SlotsUsed == Len(available) + Cardinality(Holders) + faults["factory"]

SlotInv == SlotsUsed <= Size /\ (closer = "open" => SlotsUsed = Size)

LEMMA SlotTypes ==
  ASSUME TypeOK
  PROVE  /\ Len(available) \in Nat /\ faults["factory"] \in Nat
         /\ IsFiniteSet(Holders) /\ Cardinality(Holders) \in Nat
         /\ Size \in Nat
<1>1. Holders \in SUBSET Threads /\ IsFiniteSet(Threads)
  BY PoolAssumption DEF Holders
<1> QED
  BY <1>1, FS_Subset, FS_CardinalityType, PoolAssumption DEF TypeOK, Fallible

(* What a step of thread t does to the set of holders. *)
LEMMA HoldersStep ==
  ASSUME TypeOK, NEW t \in Threads, NEW s, Goto(t, s)
  PROVE  /\ Holders' = IF s \in Holding THEN Holders \cup {t} ELSE Holders \ {t}
         /\ Cardinality(Holders') =
              CASE t \in Holders /\ s \in Holding  -> Cardinality(Holders)
                [] t \notin Holders /\ s \in Holding -> Cardinality(Holders) + 1
                [] t \in Holders /\ s \notin Holding -> Cardinality(Holders) - 1
                [] OTHER                           -> Cardinality(Holders)
<1>1. Holders' = IF s \in Holding THEN Holders \cup {t} ELSE Holders \ {t}
  BY GotoOne DEF Holders
<1>2. IsFiniteSet(Holders)
  BY SlotTypes
<1>3. CASE s \in Holding
  BY <1>1, <1>2, <1>3, FS_AddElement
<1>4. CASE s \notin Holding
  BY <1>1, <1>2, <1>4, FS_RemoveElement
<1> QED
  BY <1>1, <1>3, <1>4

LEMMA SlotInit == Init => SlotInv
<1> SUFFICES ASSUME Init PROVE SlotInv
  OBVIOUS
<1>1. Holders = {}
  BY DEF Init, Holders, Holding
<1>2. faults["factory"] = 0
  BY DEF Init, Fallible
<1> QED
  BY <1>1, <1>2, InitialQueue, FS_EmptySet, PoolAssumption
     DEF SlotInv, SlotsUsed

(* Steps within a call, or before one, that move no slot. *)
LEMMA SlotsKept ==
  ASSUME TypeOK, SlotInv, NEW t \in Threads, NEW s, Goto(t, s),
         pc[t] \in Holding <=> s \in Holding,
         Len(available') = Len(available), closer' = closer,
         faults'["factory"] = faults["factory"]
  PROVE  SlotInv'
<1>1. Cardinality(Holders') = Cardinality(Holders)
  BY HoldersStep DEF Holders
<1> QED
  BY <1>1 DEF SlotInv, SlotsUsed

LEMMA FaultCount ==
  ASSUME TypeOK, NEW k \in Fallible, Fault(k)
  PROVE  /\ faults'[k] = faults[k] + 1
         /\ \A l \in Fallible \ {k} : faults'[l] = faults[l]
BY DEF TypeOK, Fault

LEMMA SlotStep == TypeInv /\ CleanInv /\ SlotInv /\ [Next]_vars => SlotInv'
<1> SUFFICES ASSUME TypeInv, CleanInv, SlotInv, [Next]_vars PROVE SlotInv'
  OBVIOUS
<1>1. TypeOK /\ "factory" \in Fallible /\ "restart" \in Fallible
      /\ "delete" \in Fallible
  BY DEF TypeInv, Fallible
<1>2. ASSUME NEW t \in Threads,
             \/ Acquire(t) \/ GiveUp(t) \/ Execute(t) \/ Restart(t)
             \/ Remove(t) \/ Create(t) \/ List(t)
      PROVE  SlotInv'
  <2>1. available' = available /\ closer' = closer /\ faults' = faults
    BY <1>2 DEF Acquire, GiveUp, Execute, Restart, Remove, Create, List
  <2>2. \E s : Goto(t, s) /\ (pc[t] \in Holding <=> s \in Holding)
    BY <1>2
       DEF Acquire, GiveUp, Execute, Restart, Remove, Create, List, Holding
  <2> QED
    BY <1>1, <2>1, <2>2, SlotsKept
<1>3. ASSUME NEW t \in Threads, RestartRaises(t) PROVE SlotInv'
  <2>1. faults'["factory"] = faults["factory"]
    BY <1>1, <1>3, FaultCount DEF RestartRaises
  <2>2. available' = available /\ closer' = closer
        /\ Goto(t, "replacing") /\ pc[t] = "resetting"
    BY <1>3 DEF RestartRaises
  <2> QED
    BY <1>1, <2>1, <2>2, SlotsKept DEF Holding
<1>4. ASSUME NEW t \in Threads, DeleteBroken(t) PROVE SlotInv'
  <2>1. faults'["factory"] = faults["factory"]
    BY <1>1, <1>4, FaultCount DEF DeleteBroken, DeleteSandbox
  <2>2. available' = available /\ closer' = closer
        /\ Goto(t, "creating") /\ pc[t] = "deleting"
    BY <1>4 DEF DeleteBroken
  <2> QED
    BY <1>1, <2>1, <2>2, SlotsKept DEF Holding
<1>5. ASSUME NEW t \in Threads, Release(t) PROVE SlotInv'
  <2>1. available' = available /\ closer' = closer /\ faults' = faults
        /\ pc[t] = "returning"
    BY <1>5 DEF Release
  <2>2. CASE closer # "closed" /\ held[t] \in executors
    <3>1. Goto(t, "resetting")
      BY <1>5, <2>2 DEF Release
    <3> QED
      BY <1>1, <2>1, <3>1, SlotsKept DEF Holding
  <2>3. CASE ~ (closer # "closed" /\ held[t] \in executors)
    <3>1. Cardinality(Holders') = Cardinality(Holders) - 1
      <4>1. Goto(t, "idle")
        BY <1>5, <2>3 DEF Release
      <4>2. t \in Holders /\ "idle" \notin Holding
        BY <2>1 DEF Holders, Holding
      <4> QED
        BY <1>1, <4>1, <4>2, HoldersStep
    <3>2. closer # "open"
      BY <1>5, <2>1, <2>3 DEF CleanInv, Owning
    <3> QED
      BY <1>1, <2>1, <3>1, <3>2, SlotTypes DEF SlotInv, SlotsUsed
  <2> QED
    BY <2>2, <2>3
<1>6. ASSUME NEW t \in Threads, Get(t) PROVE SlotInv'
  <2>1. Len(available') = Len(available) - 1
    BY <1>1, <1>6, PopProperties DEF Get, TypeOK
  <2>2. Cardinality(Holders') = Cardinality(Holders) + 1
    BY <1>1, <1>6, HoldersStep DEF Get, Holders, Holding
  <2>3. closer' = closer /\ faults' = faults
    BY <1>6 DEF Get
  <2> QED
    BY <1>1, <2>1, <2>2, <2>3, SlotTypes DEF SlotInv, SlotsUsed
<1>7. ASSUME NEW t \in Threads, Put(t) PROVE SlotInv'
  <2>1. Len(available') = Len(available) + 1
    <3>1. held[t] \in Executors
      BY <1>1, <1>7 DEF Put, TypeInv, TypeOK, EmptyHanded
    <3> QED
      BY <1>1, <1>7, <3>1, PushProperties DEF Put, TypeOK
  <2>2. Cardinality(Holders') = Cardinality(Holders) - 1
    BY <1>1, <1>7, HoldersStep DEF Put, Holders, Holding
  <2>3. closer' = closer /\ faults' = faults
    BY <1>7 DEF Put
  <2> QED
    BY <1>1, <2>1, <2>2, <2>3, SlotTypes DEF SlotInv, SlotsUsed
<1>8. ASSUME NEW t \in Threads, CreateRaises(t) PROVE SlotInv'
  <2>1. faults'["factory"] = faults["factory"] + 1
    BY <1>1, <1>8, FaultCount DEF CreateRaises
  <2>2. Cardinality(Holders') = Cardinality(Holders) - 1
    BY <1>1, <1>8, HoldersStep DEF CreateRaises, Holders, Holding
  <2>3. available' = available /\ closer' = closer
    BY <1>8 DEF CreateRaises
  <2> QED
    BY <1>1, <2>1, <2>2, <2>3, SlotTypes DEF SlotInv, SlotsUsed
<1>9. CASE StartClose \/ Clear \/ SetClosed
  BY <1>9 DEF StartClose, Clear, SetClosed, SlotInv, SlotsUsed, Holders
<1>10. CASE CloseDelete
  <2>1. faults'["factory"] = faults["factory"]
    BY <1>1, <1>10, FaultCount DEF CloseDelete, DeleteSandbox
  <2> QED
    BY <1>10, <2>1 DEF CloseDelete, SlotInv, SlotsUsed, Holders
<1>11. CASE Drain
  <2>1. Len(available') <= Len(available) /\ Len(available') \in Nat
    <3>1. CASE available = <<>>
      <4>1. available' = available
        BY <1>11, <3>1 DEF Drain
      <4> QED
        BY <1>1, <4>1, SlotTypes
    <3>2. CASE available # <<>>
      <4>1. available' = Pop(available)
        BY <1>11, <3>2 DEF Drain
      <4>2. Len(available) \in Nat \ {0} /\ Len(Pop(available)) = Len(available) - 1
        BY <1>1, <3>2, PopProperties DEF TypeOK
      <4> QED
        BY <4>1, <4>2
    <3> QED
      BY <3>1, <3>2
  <2>2. Holders' = Holders /\ faults' = faults /\ closer' # "open"
    BY <1>11 DEF Drain, Holders
  <2> QED
    BY <1>1, <2>1, <2>2, SlotTypes DEF SlotInv, SlotsUsed
<1>12. CASE UNCHANGED vars
  BY <1>12 DEF SlotInv, SlotsUsed, Holders
<1> QED
  BY <1>2, <1>3, <1>4, <1>5, <1>6, <1>7, <1>8, <1>9, <1>10, <1>11, <1>12
     DEF Next

(* An open pool of N slots is short of exactly the replacements the        *)
(* factory failed to create.                                               *)
THEOREM SlotsNeverVanish == Spec => []SlotsAccounted
<1>1. SlotInv => SlotsAccounted
  BY DEF SlotInv, SlotsUsed, SlotsAccounted
<1>2. HandsInv => TypeInv
  BY DEF HandsInv
<1>3. HandsInv /\ CleanInv /\ SlotInv /\ [Next]_vars
        => (HandsInv /\ CleanInv /\ SlotInv)'
  BY <1>2, HandsStep, CleanStep, SlotStep
<1> QED
  BY <1>1, <1>3, HandsInit, CleanInit, SlotInit, PTL DEF Spec

(* A thread that puts an executor into the bounded queue never blocks.     *)
THEOREM PutsNeverBlock == Spec => []PutNeverBlocks
<1>1. ASSUME TypeInv, SlotInv, NEW t \in Threads, pc[t] \in {"putting", "adding"}
      PROVE  Len(available) < Size
  <2>1. TypeOK
    BY <1>1 DEF TypeInv
  <2>2. t \in Holders
    BY <1>1 DEF Holders, Holding
  <2>3. Cardinality(Holders) > 0
    BY <2>1, <2>2, SlotTypes, FS_EmptySet
  <2> QED
    BY <1>1, <2>1, <2>3, SlotTypes DEF SlotInv, SlotsUsed
<1>2. TypeInv /\ SlotInv => PutNeverBlocks
  BY <1>1 DEF PutNeverBlocks
<1>3. HandsInv => TypeInv
  BY DEF HandsInv
<1>4. HandsInv /\ CleanInv /\ SlotInv /\ [Next]_vars
        => (HandsInv /\ CleanInv /\ SlotInv)'
  BY <1>3, HandsStep, CleanStep, SlotStep
<1> QED
  BY <1>2, <1>3, <1>4, HandsInit, CleanInit, SlotInit, PTL DEF Spec

-----------------------------------------------------------------------------
(***************************************************************************)
(* Leaks.  While the pool is open, no listed sandbox is deleted and the    *)
(* one a thread has in hand, to delete it or because it was just made, is  *)
(* not listed: so none can leave the list but into a hand, nor a hand but  *)
(* by its deletion or into the list.                                       *)
(***************************************************************************)

InHand == {"deleting", "listing"}
HeldInHand == {held[t] : t \in {u \in Threads : pc[u] \in InHand}}

LeakInv ==
  closer = "open" =>
    /\ executors \cap deleted = {}
    /\ \A t \in Threads : pc[t] \in InHand => held[t] \notin executors \cup deleted
    /\ faults["delete"] = 0 => created \ deleted = executors \cup HeldInHand

LEMMA LeakInit == Init => LeakInv
<1> SUFFICES ASSUME Init PROVE LeakInv
  OBVIOUS
<1>1. HeldInHand = {}
  BY DEF Init, HeldInHand, InHand
<1> QED
  BY <1>1 DEF Init, LeakInv, InHand

(* A failure is never forgotten. *)
LEMMA FaultsRemain ==
  ASSUME TypeOK, [Next]_vars, faults'["delete"] = 0
  PROVE  faults["delete"] = 0
<1>1. "delete" \in Fallible /\ faults["delete"] \in Nat
  BY DEF TypeOK, Fallible
<1>2. faults' = faults \/ \E k \in Fallible : Fault(k)
  BY DEF Next, Acquire, Get, GiveUp, Execute, Release, Restart, RestartRaises,
         Put, Remove, DeleteBroken, Create, CreateRaises, List, StartClose,
         CloseDelete, Drain, Clear, SetClosed, DeleteSandbox, Fallible
<1> QED
  BY <1>1, <1>2, FaultCount

(* A step of thread t: what the others have in hand stays there.           *)
LEMMA HandsOfOthers ==
  ASSUME HandsInv, NEW t \in Threads,
         \A u \in Threads \ {t} : pc'[u] = pc[u] /\ held'[u] = held[u]
  PROVE  HeldInHand' =
           (IF pc[t] \in InHand THEN HeldInHand \ {held[t]} ELSE HeldInHand)
           \cup (IF pc'[t] \in InHand THEN {held'[t]} ELSE {})
<1> DEFINE others == {held[u] : u \in {v \in Threads \ {t} : pc[v] \in InHand}}
<1>1. HeldInHand = others \cup (IF pc[t] \in InHand THEN {held[t]} ELSE {})
  BY DEF HeldInHand
<1>2. HeldInHand' = others \cup (IF pc'[t] \in InHand THEN {held'[t]} ELSE {})
  BY DEF HeldInHand
<1>3. pc[t] \in InHand => held[t] \notin others
  BY DEF HandsInv, Exclusive, TypeInv, EmptyHanded, InHand
<1> HIDE DEF others
<1> QED
  BY <1>1, <1>2, <1>3

LEMMA LeakStep == HandsInv /\ CleanInv /\ LeakInv /\ [Next]_vars => LeakInv'
<1> SUFFICES ASSUME HandsInv, CleanInv, LeakInv, [Next]_vars, closer' = "open"
             PROVE  LeakInv'
  BY DEF LeakInv
<1>1. TypeInv /\ TypeOK /\ closer = "open"
  BY StaysOpen DEF HandsInv, TypeInv
<1>2. /\ executors \cap deleted = {}
      /\ \A t \in Threads : pc[t] \in InHand => held[t] \notin executors \cup deleted
      /\ faults["delete"] = 0 => created \ deleted = executors \cup HeldInHand
  BY <1>1 DEF LeakInv
<1>3. faults'["delete"] = 0 => faults["delete"] = 0
  BY <1>1, FaultsRemain
<1>4. ASSUME NEW t \in Threads, UNCHANGED <<executors, created, deleted>>,
             pc[t] \notin InHand, pc'[t] \notin InHand,
             \A u \in Threads \ {t} : pc'[u] = pc[u] /\ held'[u] = held[u]
      PROVE  LeakInv'
  <2>1. HeldInHand' = HeldInHand
    BY <1>4, HandsOfOthers
  <2> QED
    BY <1>2, <1>3, <1>4, <2>1 DEF LeakInv
<1>5. ASSUME NEW t \in Threads,
             \/ Acquire(t) \/ Get(t) \/ GiveUp(t) \/ Execute(t) \/ Release(t)
             \/ Restart(t) \/ RestartRaises(t) \/ Put(t) \/ CreateRaises(t)
      PROVE  LeakInv'
  <2>1. UNCHANGED <<executors, created, deleted>>
    BY <1>5 DEF Acquire, Get, GiveUp, Execute, Release, Restart, RestartRaises,
                Put, CreateRaises
  <2>2. /\ pc[t] \notin InHand /\ pc'[t] \notin InHand
        /\ \A u \in Threads \ {t} : pc'[u] = pc[u]
    BY <1>1, <1>5, GotoOne
       DEF Acquire, Get, GiveUp, Execute, Release, Restart, RestartRaises,
           Put, CreateRaises, InHand
  <2>3. \A u \in Threads \ {t} : held'[u] = held[u]
    BY <1>1, <1>5
       DEF Acquire, Get, GiveUp, Execute, Release, Restart, RestartRaises,
           Put, CreateRaises, TypeOK
  <2> QED
    BY <1>4, <2>1, <2>2, <2>3
<1>6. ASSUME NEW t \in Threads, Remove(t) PROVE LeakInv'
  <2>1. /\ UNCHANGED <<held, created, deleted>>
        /\ executors' = executors \ {held[t]} /\ pc[t] = "replacing"
    BY <1>6 DEF Remove
  <2>2. pc'[t] = "deleting" /\ \A u \in Threads \ {t} : pc'[u] = pc[u]
    BY <1>1, <1>6, GotoOne DEF Remove
  <2>3. held[t] \in executors \ deleted
    BY <1>1, <2>1 DEF CleanInv, Owning
  <2>4. HeldInHand' = HeldInHand \cup {held[t]}
    BY <2>1, <2>2, HandsOfOthers DEF InHand
  <2> QED
    BY <1>2, <1>3, <2>1, <2>2, <2>3, <2>4 DEF LeakInv
<1>7. ASSUME NEW t \in Threads, DeleteBroken(t) PROVE LeakInv'
  <2>1. /\ UNCHANGED <<executors, created>> /\ pc[t] = "deleting"
        /\ held' = [held EXCEPT ![t] = NoExecutor]
        /\ \/ deleted' = deleted \cup {held[t]}
           \/ Fault("delete") /\ deleted' = deleted
    BY <1>7 DEF DeleteBroken, DeleteSandbox
  <2>2. /\ pc'[t] = "creating"
        /\ \A u \in Threads \ {t} : pc'[u] = pc[u] /\ held'[u] = held[u]
    BY <1>1, <1>7, <2>1, GotoOne DEF DeleteBroken, TypeOK
  <2>3. HeldInHand' = HeldInHand \ {held[t]}
    BY <2>1, <2>2, HandsOfOthers DEF InHand
  <2>4. held[t] \notin executors
    BY <1>2, <2>1 DEF InHand
  <2>5. ASSUME NEW u \in Threads, pc'[u] \in InHand
        PROVE  held'[u] \notin executors' \cup deleted'
    <3>1. u # t /\ pc[u] \in InHand
      BY <2>2, <2>5 DEF InHand
    <3>2. held[t] # NoExecutor /\ held[u] # held[t]
      BY <2>1, <3>1 DEF HandsInv, Exclusive, TypeInv, EmptyHanded
    <3> QED
      BY <1>2, <2>1, <2>2, <3>1, <3>2
  <2>6. CASE deleted' = deleted \cup {held[t]}
    BY <1>2, <1>3, <2>1, <2>3, <2>4, <2>5, <2>6 DEF LeakInv
  <2>7. CASE Fault("delete") /\ deleted' = deleted
    <3>1. faults'["delete"] # 0
      BY <1>1, <2>7, FaultCount DEF TypeOK, Fallible
    <3> QED
      BY <1>2, <2>1, <2>5, <2>7, <3>1 DEF LeakInv
  <2> QED
    BY <2>1, <2>6, <2>7
<1>8. ASSUME NEW t \in Threads, Create(t) PROVE LeakInv'
  <2>1. PICK e \in Executors \ created :
          created' = created \cup {e} /\ held' = [held EXCEPT ![t] = e]
    BY <1>8 DEF Create
  <2>2. e \notin executors \cup deleted
    BY DEF HandsInv
  <2>3. /\ pc[t] = "creating" /\ pc'[t] = "listing" /\ held'[t] = e
        /\ \A u \in Threads \ {t} : pc'[u] = pc[u] /\ held'[u] = held[u]
        /\ UNCHANGED <<executors, deleted>>
    BY <1>1, <1>8, <2>1, GotoOne DEF Create, TypeOK
  <2>4. HeldInHand' = HeldInHand \cup {e}
    BY <2>3, HandsOfOthers DEF InHand
  <2> QED
    BY <1>2, <1>3, <2>1, <2>2, <2>3, <2>4 DEF LeakInv
<1>9. ASSUME NEW t \in Threads, List(t) PROVE LeakInv'
  <2>1. /\ UNCHANGED <<held, created, deleted>>
        /\ executors' = executors \cup {held[t]} /\ pc[t] = "listing"
    BY <1>9 DEF List
  <2>2. pc'[t] = "adding" /\ \A u \in Threads \ {t} : pc'[u] = pc[u]
    BY <1>1, <1>9, GotoOne DEF List
  <2>3. HeldInHand' = HeldInHand \ {held[t]} /\ held[t] \in HeldInHand
    <3>1. held[t] \in HeldInHand
      BY <2>1 DEF HeldInHand, InHand
    <3> QED
      BY <2>1, <2>2, <3>1, HandsOfOthers DEF InHand
  <2>4. held[t] \notin deleted
    BY <1>2, <2>1 DEF InHand
  <2>5. ASSUME NEW u \in Threads, pc'[u] \in InHand
        PROVE  held'[u] \notin executors' \cup deleted'
    <3>1. u # t /\ pc[u] \in InHand
      BY <2>2, <2>5 DEF InHand
    <3>2. held[t] # NoExecutor /\ held[u] # held[t]
      BY <2>1, <3>1 DEF HandsInv, Exclusive, TypeInv, EmptyHanded
    <3> QED
      BY <1>2, <2>1, <3>1, <3>2
  <2> QED
    BY <1>2, <1>3, <2>1, <2>3, <2>4, <2>5 DEF LeakInv
<1>10. CASE UNCHANGED vars
  BY <1>2, <1>10 DEF LeakInv, HeldInHand
<1>11. ~(StartClose \/ CloseDelete \/ Drain \/ Clear \/ SetClosed)
  BY StaysOpen DEF StartClose, CloseDelete, Drain, Clear, SetClosed
<1> QED
  BY <1>5, <1>6, <1>7, <1>8, <1>9, <1>10, <1>11 DEF Next

(* While the pool is open and deletions succeed, no sandbox that exists,   *)
(* and is paid for, is out of sight of the pool and of its callers.        *)
THEOREM NothingLeaks == Spec => []NoLeakWhileOpen
<1>1. LeakInv => NoLeakWhileOpen
  BY DEF LeakInv, NoLeakWhileOpen, HeldInHand, InHand
<1>2. HandsInv /\ CleanInv /\ LeakInv /\ [Next]_vars
        => (HandsInv /\ CleanInv /\ LeakInv)'
  BY HandsStep, CleanStep, LeakStep
<1> QED
  BY <1>1, <1>2, HandsInit, CleanInit, LeakInit, PTL DEF Spec

-----------------------------------------------------------------------------
(***************************************************************************)
(* close() against calls that go on.  Calls in progress put executors back *)
(* into the queue while it is drained, and new calls take some out; but    *)
(* what is in the queue and what is with a call can only become less, and  *)
(* each step of close() makes it less or comes nearer to the end.          *)
(***************************************************************************)

Circulating == Len(available) + Cardinality(Holders)

Stage == CASE closer = "deleting" -> 3 [] closer = "clearing" -> 2
           [] closer = "closing"  -> 1 [] OTHER -> 0

CloseLeft == Circulating + Cardinality(todo) + Stage

FiniteInv == IsFiniteSet(executors) /\ IsFiniteSet(todo)

LEMMA FiniteInit == Init => FiniteInv
<1> SUFFICES ASSUME Init PROVE FiniteInv
  OBVIOUS
<1>1. Size \in Nat /\ available \in [1..Size -> Executors]
  BY PoolAssumption DEF Init
<1>2. available \in Surjection(1..Size, Elements(available))
  BY <1>1 DEF Elements, Surjection
<1>3. IsFiniteSet(Elements(available))
  BY <1>1, <1>2, FS_Interval, FS_Surjection
<1> QED
  BY <1>3, FS_EmptySet DEF Init, FiniteInv

LEMMA FiniteStep == FiniteInv /\ [Next]_vars => FiniteInv'
<1> SUFFICES ASSUME FiniteInv, [Next]_vars PROVE FiniteInv'
  OBVIOUS
<1>1. ASSUME NEW t \in Threads, Remove(t) \/ List(t) PROVE FiniteInv'
  <2>1. todo' = todo /\ (\/ executors' = executors \ {held[t]}
                         \/ executors' = executors \cup {held[t]})
    BY <1>1 DEF Remove, List
  <2> QED
    BY <2>1, FS_AddElement, FS_RemoveElement DEF FiniteInv
<1>2. ASSUME NEW t \in Threads,
             \/ Acquire(t) \/ Get(t) \/ GiveUp(t) \/ Execute(t) \/ Release(t)
             \/ Restart(t) \/ RestartRaises(t) \/ Put(t) \/ DeleteBroken(t)
             \/ Create(t) \/ CreateRaises(t)
      PROVE  FiniteInv'
  <2>1. executors' = executors /\ todo' = todo
    BY <1>2 DEF Acquire, Get, GiveUp, Execute, Release, Restart, RestartRaises, Put,
                DeleteBroken, Create, CreateRaises
  <2> QED
    BY <2>1 DEF FiniteInv
<1>3. CASE StartClose \/ Drain \/ Clear \/ SetClosed
  BY <1>3, FS_EmptySet DEF StartClose, Drain, Clear, SetClosed, FiniteInv
<1>4. CASE CloseDelete
  <2>1. PICK e \in todo : todo' = todo \ {e}
    BY <1>4 DEF CloseDelete
  <2>2. executors' = executors
    BY <1>4 DEF CloseDelete
  <2> QED
    BY <2>1, <2>2, FS_RemoveElement DEF FiniteInv
<1>5. CASE UNCHANGED vars
  BY <1>5 DEF FiniteInv
<1> QED
  BY <1>1, <1>2, <1>3, <1>4, <1>5 DEF Next

LEMMA CloseLeftType == TypeInv /\ FiniteInv => CloseLeft \in Nat
<1> SUFFICES ASSUME TypeInv, FiniteInv PROVE CloseLeft \in Nat
  OBVIOUS
<1>1. Len(available) \in Nat /\ Cardinality(Holders) \in Nat
  BY SlotTypes DEF TypeInv
<1>2. Cardinality(todo) \in Nat
  BY FS_CardinalityType DEF FiniteInv
<1>3. Stage \in Nat
  BY DEF Stage
<1> QED
  BY <1>1, <1>2, <1>3 DEF CloseLeft, Circulating

(* No call brings an executor into circulation that was not there.         *)
LEMMA CallsAddNothing ==
  ASSUME TypeInv, NEW t \in Threads, Acquire(t) \/ CallStep(t)
  PROVE  /\ Circulating' \in Nat /\ Circulating' <= Circulating
         /\ closer' = closer /\ todo' = todo
<1>1. TypeOK
  BY DEF TypeInv
<1>2. Len(available) \in Nat /\ Cardinality(Holders) \in Nat
  BY <1>1, SlotTypes
<1>3. ASSUME available' = available, closer' = closer, todo' = todo,
             NEW s, Goto(t, s), s \in Holding => pc[t] \in Holding
      PROVE  /\ Circulating' \in Nat /\ Circulating' <= Circulating
             /\ closer' = closer /\ todo' = todo
  <2>1. t \in Holders <=> pc[t] \in Holding
    BY DEF Holders
  <2>2. t \in Holders => Cardinality(Holders) # 0
    BY <1>1, SlotTypes, FS_EmptySet
  <2>3. \/ Cardinality(Holders') = Cardinality(Holders)
        \/ Cardinality(Holders') = Cardinality(Holders) - 1 /\ t \in Holders
    BY <1>1, <1>3, <2>1, HoldersStep
  <2> QED
    BY <1>2, <1>3, <2>2, <2>3 DEF Circulating
<1>4. CASE \/ Acquire(t) \/ GiveUp(t) \/ Execute(t) \/ Release(t) \/ Restart(t)
           \/ RestartRaises(t) \/ Remove(t) \/ DeleteBroken(t) \/ Create(t)
           \/ CreateRaises(t) \/ List(t)
  <2>1. available' = available /\ closer' = closer /\ todo' = todo
    BY <1>4 DEF Acquire, GiveUp, Execute, Release, Restart, RestartRaises, Remove,
                DeleteBroken, Create, CreateRaises, List
  <2>2. \E s : Goto(t, s) /\ (s \in Holding => pc[t] \in Holding)
    <3>1. CASE Release(t)
      <4>1. pc[t] \in Holding
        BY <3>1 DEF Release, Holding
      <4>2. \E s : Goto(t, s)
        BY <3>1 DEF Release
      <4> QED
        BY <4>1, <4>2
    <3>2. CASE ~ Release(t)
      BY <1>4, <3>2 DEF Acquire, GiveUp, Execute, Restart, RestartRaises, Remove,
                        DeleteBroken, Create, CreateRaises, List, Holding
    <3> QED
      BY <3>1, <3>2
  <2> QED
    BY <1>3, <2>1, <2>2
<1>5. CASE Get(t)
  <2>1. Len(available') = Len(available) - 1 /\ Len(available) # 0
    BY <1>1, <1>5, PopProperties DEF Get, TypeOK
  <2>2. Cardinality(Holders') = Cardinality(Holders) + 1
    BY <1>1, <1>5, HoldersStep DEF Get, Holders, Holding
  <2>3. closer' = closer /\ todo' = todo
    BY <1>5 DEF Get
  <2> QED
    BY <1>2, <2>1, <2>2, <2>3 DEF Circulating
<1>6. CASE Put(t)
  <2>1. Len(available') = Len(available) + 1
    <3>1. held[t] \in Executors
      BY <1>1, <1>6 DEF Put, TypeInv, TypeOK, EmptyHanded
    <3> QED
      BY <1>1, <1>6, <3>1, PushProperties DEF Put, TypeOK
  <2>2. Cardinality(Holders') = Cardinality(Holders) - 1 /\ t \in Holders
    BY <1>1, <1>6, HoldersStep DEF Put, Holders, Holding
  <2>3. Cardinality(Holders) # 0
    BY <1>1, <2>2, SlotTypes, FS_EmptySet
  <2>4. closer' = closer /\ todo' = todo
    BY <1>6 DEF Put
  <2> QED
    BY <1>2, <2>1, <2>2, <2>3, <2>4 DEF Circulating
<1> QED
  BY <1>4, <1>5, <1>6

(* A step of close() deletes an executor, takes one from the queue, or     *)
(* reaches its next stage.                                                 *)
LEMMA CloseGoesOn ==
  ASSUME TypeInv, FiniteInv, CloseStep
  PROVE  CloseLeft' < CloseLeft
<1>1. Len(available) \in Nat /\ Cardinality(Holders) \in Nat
  BY SlotTypes DEF TypeInv
<1>2. Cardinality(todo) \in Nat
  BY FS_CardinalityType DEF FiniteInv
<1>3. Holders' = Holders
  BY DEF CloseDelete, Drain, Clear, SetClosed, Holders
<1>4. CASE CloseDelete
  <2>1. PICK e \in todo : todo' = todo \ {e}
    BY <1>4 DEF CloseDelete
  <2>2. Cardinality(todo') = Cardinality(todo) - 1
    BY <2>1, FS_RemoveElement DEF FiniteInv
  <2>3. available' = available /\ Stage' = Stage
    BY <1>4 DEF CloseDelete, Stage
  <2>4. Stage \in Nat
    BY DEF Stage
  <2> QED
    BY <1>1, <1>2, <1>3, <2>2, <2>3, <2>4 DEF CloseLeft, Circulating
<1>5. CASE Drain
  <2>1. todo' = todo /\ Stage = 3
    BY <1>5 DEF Drain, Stage
  <2>2. CASE available = <<>>
    <3>1. available' = available /\ Stage' = 2
      BY <1>5, <2>2 DEF Drain, Stage
    <3> QED
      BY <1>1, <1>2, <1>3, <2>1, <3>1 DEF CloseLeft, Circulating
  <2>3. CASE available # <<>>
    <3>1. available' = Pop(available) /\ Stage' = 3
      BY <1>5, <2>3 DEF Drain, Stage
    <3>2. Len(available') = Len(available) - 1
      BY <2>3, <3>1, PopProperties DEF TypeInv, TypeOK
    <3> QED
      BY <1>1, <1>2, <1>3, <2>1, <3>1, <3>2 DEF CloseLeft, Circulating
  <2> QED
    BY <2>2, <2>3
<1>6. CASE Clear \/ SetClosed
  <2>1. available' = available /\ todo' = todo
    BY <1>6 DEF Clear, SetClosed
  <2>2. Stage \in Nat /\ Stage' = Stage - 1
    BY <1>6 DEF Clear, SetClosed, Stage
  <2> QED
    BY <1>1, <1>2, <1>3, <2>1, <2>2 DEF CloseLeft, Circulating
<1> QED
  BY <1>4, <1>5, <1>6

(* However many calls go on, begin or end beside it, close() has a bounded *)
(* number of steps left: each of them uses one up, and no call adds any,   *)
(* although it may put an executor into the queue that close() drains.     *)
THEOREM CloseIsBounded ==
  Spec => /\ [](CloseLeft \in Nat)
          /\ [][closer # "open" =>
                  /\ CloseLeft' <= CloseLeft
                  /\ CloseStep => CloseLeft' < CloseLeft]_vars
<1>1. TypeInv /\ FiniteInv /\ [Next]_vars
        => [closer # "open" => /\ CloseLeft' <= CloseLeft
                               /\ CloseStep => CloseLeft' < CloseLeft]_vars
  <2> SUFFICES ASSUME TypeInv, FiniteInv, Next, closer # "open"
               PROVE  /\ CloseLeft' <= CloseLeft
                      /\ CloseStep => CloseLeft' < CloseLeft
    OBVIOUS
  <2>1. CloseLeft \in Nat /\ CloseLeft' \in Nat
    <3>1. TypeInv' /\ FiniteInv'
      BY TypeStep, FiniteStep
    <3>2. (TypeInv /\ FiniteInv => CloseLeft \in Nat)'
      BY CloseLeftType, PTL
    <3> QED
      BY <3>1, <3>2, CloseLeftType
  <2>2. CASE CloseStep
    BY <2>1, <2>2, CloseGoesOn
  <2>3. ASSUME NEW t \in Threads, Acquire(t) \/ CallStep(t)
        PROVE  CloseLeft' <= CloseLeft
    <3>1. Circulating' \in Nat /\ Circulating' <= Circulating
      BY <2>3, CallsAddNothing
    <3>2. closer' = closer /\ todo' = todo
      BY <2>3, CallsAddNothing
    <3>3. Stage' = Stage /\ Stage \in Nat
      BY <3>2 DEF Stage
    <3>4. Cardinality(todo') = Cardinality(todo) /\ Cardinality(todo) \in Nat
      BY <3>2, FS_CardinalityType DEF FiniteInv
    <3>5. Circulating \in Nat
      BY SlotTypes DEF Circulating, TypeInv
    <3> HIDE DEF CallStep
    <3> QED
      BY <3>1, <3>3, <3>4, <3>5 DEF CloseLeft
  <2>4. ~ StartClose
    BY DEF StartClose
  <2> QED
    BY <2>2, <2>3, <2>4 DEF Next
<1>2. TypeInv /\ FiniteInv /\ [Next]_vars => (TypeInv /\ FiniteInv)'
  BY TypeStep, FiniteStep
<1> QED
  BY <1>1, <1>2, TypeInit, FiniteInit, CloseLeftType, PTL DEF Spec

=============================================================================
