---------------------------- MODULE DaytonaPool -----------------------------
(***************************************************************************)
(* The warm pool of sandbox executors (zone_b/sandbox/daytona_pool.py)     *)
(* shared by the threads that run regression tests.                        *)
(*                                                                         *)
(* A thread takes an executor from a bounded LIFO queue, runs code in it,  *)
(* resets it and puts it back; when the reset raises it replaces the       *)
(* executor under the pool's lock.  close() takes no lock and may run      *)
(* while calls are in progress.                                            *)
(*                                                                         *)
(* The executor itself is external: restart() clears its state or raises,  *)
(* delete() removes the sandbox or raises, and the factory returns a new   *)
(* executor or raises.                                                     *)
(***************************************************************************)
EXTENDS Naturals, Sequences, FiniteSets

CONSTANTS
  Threads,     \* callers of run_python
  Executors,   \* identities of the executors the factory can return
  NoExecutor,  \* the caller holds none
  Size,        \* size of the pool
  MaxFaults    \* MaxFaults[k]: bound on failures of kind k

Fallible == {"restart", "delete", "factory"}

ASSUME PoolAssumption ==
  /\ NoExecutor \notin Executors
  /\ Size \in Nat \ {0}
  /\ MaxFaults \in [Fallible -> Nat]
  /\ IsFiniteSet(Threads)

VARIABLES
  available,  \* the LIFO queue; its last element is handed out next
  executors,  \* executors the pool lists as its own
  pc,         \* pc[t]: where the call of thread t stands
  held,       \* held[t]: the executor thread t works with
  closer,     \* progress of close()
  todo,       \* executors close() has listed and not yet deleted
  (*************************************************************************)
  (* State of the sandboxes.                                               *)
  (*************************************************************************)
  created,    \* executors the factory has returned
  dirty,      \* executors that ran code since their last restart
  deleted,    \* executors whose sandbox is gone
  faults      \* bound: failures so far, by kind

poolVars    == <<available, executors>>
callVars    == <<pc, held>>
closeVars   == <<closer, todo>>
sandboxVars == <<created, dirty, deleted>>
vars == <<available, executors, pc, held, closer, todo,
          created, dirty, deleted, faults>>

(* Between taking a slot of the queue and giving it back. *)
Holding == {"running", "returning", "resetting", "putting",
            "replacing", "deleting", "creating", "listing", "adding"}
(* The part of _replace_executor under the lock. *)
Critical == {"deleting", "creating", "listing", "adding"}

CallState  == {"idle", "getting"} \cup Holding
CloseState == {"open", "deleting", "clearing", "closing", "closed"}

TypeOK ==
  /\ available \in Seq(Executors)
  /\ executors \subseteq Executors
  /\ pc \in [Threads -> CallState]
  /\ held \in [Threads -> Executors \cup {NoExecutor}]
  /\ closer \in CloseState
  /\ todo \subseteq Executors
  /\ created \subseteq Executors
  /\ dirty \subseteq Executors
  /\ deleted \subseteq Executors
  /\ faults \in [Fallible -> Nat]

Elements(q) == {q[n] : n \in DOMAIN q}
Distinct(q) == \A m, n \in DOMAIN q : q[m] = q[n] => m = n
Top(q)      == q[Len(q)]
Pop(q)      == SubSeq(q, 1, Len(q) - 1)

Holders == {t \in Threads : pc[t] \in Holding}

LockFree == \A t \in Threads : pc[t] \notin Critical

Fault(kind) ==
  /\ faults[kind] < MaxFaults[kind]
  /\ faults' = [faults EXCEPT ![kind] = @ + 1]

Goto(t, label) == pc' = [pc EXCEPT ![t] = label]

(* The constructor has warmed the pool; nobody else has seen it before. *)
Init ==
  /\ available \in [1..Size -> Executors]
  /\ Distinct(available)
  /\ executors = Elements(available)
  /\ pc = [t \in Threads |-> "idle"]
  /\ held = [t \in Threads |-> NoExecutor]
  /\ closer = "open"
  /\ todo = {}
  /\ created = executors
  /\ dirty = {}
  /\ deleted = {}
  /\ faults = [k \in Fallible |-> 0]

-----------------------------------------------------------------------------
(***************************************************************************)
(* run_python: acquire, execute, release.                                  *)
(***************************************************************************)

(* The pool is open; the thread waits on the queue. *)
Acquire(t) ==
  /\ pc[t] = "idle"
  /\ closer # "closed"
  /\ Goto(t, "getting")
  /\ UNCHANGED <<poolVars, held, closeVars, sandboxVars, faults>>

(* Mutant: the executor stays in the queue. *)
Peek(t) ==
  /\ pc[t] = "getting"
  /\ available # <<>>
  /\ held' = [held EXCEPT ![t] = Top(available)]
  /\ Goto(t, "running")
  /\ UNCHANGED <<poolVars, closeVars, sandboxVars, faults>>

Get(t) ==
  /\ pc[t] = "getting"
  /\ available # <<>>
  /\ held' = [held EXCEPT ![t] = Top(available)]
  /\ available' = Pop(available)
  /\ Goto(t, "running")
  /\ UNCHANGED <<executors, closeVars, sandboxVars, faults>>

(* Mutant: the thread waits for ever. *)
NeverGiveUp(t) == FALSE

(* acquire_timeout passed and the queue is empty: the call fails. *)
GiveUp(t) ==
  /\ pc[t] = "getting"
  /\ available = <<>>
  /\ Goto(t, "idle")
  /\ UNCHANGED <<poolVars, held, closeVars, sandboxVars, faults>>

(* The code ran, or its exception became an error result. *)
Execute(t) ==
  /\ pc[t] = "running"
  /\ dirty' = dirty \cup {held[t]}
  /\ Goto(t, "returning")
  /\ UNCHANGED <<poolVars, held, closeVars, created, deleted, faults>>

(* Mutant: the executor is put back without a reset. *)
ReleaseAsIs(t) ==
  /\ pc[t] = "returning"
  /\ Goto(t, "putting")
  /\ UNCHANGED <<poolVars, held, closeVars, sandboxVars, faults>>

(* On a closed pool release raises, and an executor the pool no longer     *)
(* lists is dropped: neither goes back into the queue.                     *)
Release(t) ==
  /\ pc[t] = "returning"
  /\ IF closer # "closed" /\ held[t] \in executors
     THEN Goto(t, "resetting") /\ UNCHANGED held
     ELSE Goto(t, "idle") /\ held' = [held EXCEPT ![t] = NoExecutor]
  /\ UNCHANGED <<poolVars, closeVars, sandboxVars, faults>>

Restart(t) ==
  /\ pc[t] = "resetting"
  /\ dirty' = dirty \ {held[t]}
  /\ Goto(t, "putting")
  /\ UNCHANGED <<poolVars, held, closeVars, created, deleted, faults>>

(* Mutant: an executor that cannot be reset is not replaced. *)
RestartGivesUp(t) ==
  /\ pc[t] = "resetting"
  /\ Fault("restart")
  /\ Goto(t, "idle")
  /\ held' = [held EXCEPT ![t] = NoExecutor]
  /\ UNCHANGED <<poolVars, closeVars, sandboxVars>>

(* restart() raises; on a sandbox that was deleted this is no fault. *)
RestartRaises(t) ==
  /\ pc[t] = "resetting"
  /\ IF held[t] \in deleted THEN UNCHANGED faults ELSE Fault("restart")
  /\ Goto(t, "replacing")
  /\ UNCHANGED <<poolVars, held, closeVars, sandboxVars>>

(* Queue.put blocks while the queue is full. *)
Put(t) ==
  /\ pc[t] \in {"putting", "adding"}
  /\ Len(available) < Size
  /\ available' = Append(available, held[t])
  /\ held' = [held EXCEPT ![t] = NoExecutor]
  /\ Goto(t, "idle")
  /\ UNCHANGED <<executors, closeVars, sandboxVars, faults>>

-----------------------------------------------------------------------------
(***************************************************************************)
(* _replace_executor.                                                      *)
(***************************************************************************)

Remove(t) ==
  /\ pc[t] = "replacing"
  /\ LockFree
  /\ executors' = executors \ {held[t]}
  /\ Goto(t, "deleting")
  /\ UNCHANGED <<available, held, closeVars, sandboxVars, faults>>

(* delete() is called once; what it raises is swallowed. *)
DeleteSandbox(e) ==
  \/ deleted' = deleted \cup {e} /\ UNCHANGED faults
  \/ Fault("delete") /\ UNCHANGED deleted

(* Mutant: the executor that is replaced is not deleted. *)
ForgetBroken(t) ==
  /\ pc[t] = "deleting"
  /\ held' = [held EXCEPT ![t] = NoExecutor]
  /\ Goto(t, "creating")
  /\ UNCHANGED <<poolVars, closeVars, sandboxVars, faults>>

DeleteBroken(t) ==
  /\ pc[t] = "deleting"
  /\ DeleteSandbox(held[t])
  /\ held' = [held EXCEPT ![t] = NoExecutor]
  /\ Goto(t, "creating")
  /\ UNCHANGED <<poolVars, closeVars, created, dirty>>

Create(t) ==
  /\ pc[t] = "creating"
  /\ \E e \in Executors \ created :
       /\ created' = created \cup {e}
       /\ held' = [held EXCEPT ![t] = e]
  /\ Goto(t, "listing")
  /\ UNCHANGED <<poolVars, closeVars, dirty, deleted, faults>>

(* Mutant: the pool goes on with no executor. *)
CreateNothing(t) ==
  /\ pc[t] = "creating"
  /\ Fault("factory")
  /\ Goto(t, "listing")
  /\ UNCHANGED <<poolVars, held, closeVars, sandboxVars>>

(* The factory raises: the lock is released and the call fails. *)
CreateRaises(t) ==
  /\ pc[t] = "creating"
  /\ Fault("factory")
  /\ Goto(t, "idle")
  /\ UNCHANGED <<poolVars, held, closeVars, sandboxVars>>

List(t) ==
  /\ pc[t] = "listing"
  /\ executors' = executors \cup {held[t]}
  /\ Goto(t, "adding")
  /\ UNCHANGED <<available, held, closeVars, sandboxVars, faults>>

-----------------------------------------------------------------------------
(***************************************************************************)
(* close.                                                                  *)
(***************************************************************************)

StartClose ==
  /\ closer = "open"
  /\ closer' = "deleting"
  /\ todo' = executors
  /\ UNCHANGED <<poolVars, callVars, sandboxVars, faults>>

CloseDelete ==
  /\ closer = "deleting"
  /\ \E e \in todo : DeleteSandbox(e) /\ todo' = todo \ {e}
  /\ UNCHANGED <<poolVars, callVars, closer, created, dirty>>

(* Mutant: close() waits until no call is in progress. *)
DrainUntilIdle ==
  /\ closer = "deleting"
  /\ todo = {}
  /\ IF available = <<>>
     THEN Holders = {} /\ closer' = "clearing" /\ UNCHANGED available
     ELSE available' = Pop(available) /\ UNCHANGED closer
  /\ UNCHANGED <<executors, callVars, todo, sandboxVars, faults>>

Drain ==
  /\ closer = "deleting"
  /\ todo = {}
  /\ IF available = <<>>
     THEN closer' = "clearing" /\ UNCHANGED available
     ELSE available' = Pop(available) /\ UNCHANGED closer
  /\ UNCHANGED <<executors, callVars, todo, sandboxVars, faults>>

Clear ==
  /\ closer = "clearing"
  /\ executors' = {}
  /\ closer' = "closing"
  /\ UNCHANGED <<available, callVars, todo, sandboxVars, faults>>

SetClosed ==
  /\ closer = "closing"
  /\ closer' = "closed"
  /\ UNCHANGED <<poolVars, callVars, todo, sandboxVars, faults>>

-----------------------------------------------------------------------------
CallStep(t) ==
  \/ Get(t) \/ GiveUp(t) \/ Execute(t) \/ Release(t)
  \/ Restart(t) \/ RestartRaises(t) \/ Put(t)
  \/ Remove(t) \/ DeleteBroken(t) \/ Create(t) \/ CreateRaises(t) \/ List(t)

CloseStep == CloseDelete \/ Drain \/ Clear \/ SetClosed

Next ==
  \/ \E t \in Threads : Acquire(t) \/ CallStep(t)
  \/ StartClose
  \/ CloseStep

Spec == Init /\ [][Next]_vars

(* A call in progress goes on (waits on the queue and executions time out) *)
(* and so does close(); nobody has to start either.                        *)
Fairness ==
  /\ \A t \in Threads : WF_vars(CallStep(t))
  /\ WF_vars(CloseStep)

FairSpec == Spec /\ Fairness

-----------------------------------------------------------------------------
(***************************************************************************)
(* Properties.                                                             *)
(***************************************************************************)

(* No executor is in the queue twice, in the queue and in use, or in use   *)
(* by two threads: not even while the pool is being closed.                *)
Exclusive ==
  /\ Distinct(available)
  /\ \A t \in Threads :
       held[t] # NoExecutor =>
         /\ held[t] \notin Elements(available)
         /\ \A u \in Threads \ {t} : held[u] # held[t]

(* Code runs only in a sandbox with no trace of an earlier run, also while *)
(* the pool is being closed, and until close() is called only in one that  *)
(* exists.                                                                 *)
RunsAreIsolated ==
  \A t \in Threads : pc[t] = "running" =>
    /\ held[t] \notin dirty
    /\ closer = "open" => held[t] \notin deleted

(* A thread that puts an executor back never finds the queue full, so it   *)
(* never blocks, least of all with the lock held.                          *)
PutNeverBlocks ==
  \A t \in Threads : pc[t] \in {"putting", "adding"} => Len(available) < Size

(* Every slot of an open pool is in the queue or with a call in progress,  *)
(* except those lost when the factory raised for a replacement.            *)
SlotsAccounted ==
  closer = "open" =>
    Len(available) + Cardinality(Holders) + faults["factory"] = Size

(* While the pool is open and deletions succeed, every existing sandbox is *)
(* listed or with the thread that replaces one.                            *)
NoLeakWhileOpen ==
  closer = "open" /\ faults["delete"] = 0 =>
    created \ deleted =
      executors \cup {held[t] : t \in {u \in Threads :
                                         pc[u] \in {"deleting", "listing"}}}

(* Every call of run_python returns, also one that waits for an executor   *)
(* on a pool that lost its slots or is being closed.                       *)
CallsReturn == \A t \in Threads : (pc[t] # "idle") ~> (pc[t] = "idle")

(* close() returns although calls in progress keep putting executors back  *)
(* into the queue it drains.                                               *)
CloseReturns == (closer # "open") ~> (closer = "closed")

(* docs/QA_DEEP.md: the pool "keeps N executors ready".                    *)
KeepsExecutorsReady ==
  closer = "open" => Len(available) + Cardinality(Holders) = Size

=============================================================================
