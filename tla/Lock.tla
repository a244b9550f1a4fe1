-------------------------------- MODULE Lock --------------------------------
(***************************************************************************)
(* Thread-bound locks of the Lua scheduler (luafwk/sched/lock.lua).        *)
(*                                                                         *)
(* Tasks are coroutines: what a task does between two blocking calls is    *)
(* one step.  A task is                                                    *)
(*   "idle"     outside acquire() (running, ready, or blocked elsewhere),  *)
(*   "waiting"  registered by sched.wait(lock, {t}) inside acquire(),      *)
(*   "woken"    signalled, in __tasks.ready, not yet resumed,              *)
(*   "dead"     ended: returned, raised an error, or was killed.           *)
(* A call that raises is modelled as the end of the task (sched.step,      *)
(* init.lua:559-571); a caller of a failed assertion that catches the      *)
(* error has changed nothing, which is a stuttering step.                  *)
(***************************************************************************)
EXTENDS FiniteSets

CONSTANTS Threads,   \* coroutines
          Locks,     \* lock objects
          nil,       \* Lua's nil
          Destroyed  \* the owner string "destroyed"

ASSUME LockAssumption ==
  /\ nil \notin Threads \cup Locks
  /\ Destroyed \notin Threads
  /\ nil # Destroyed

VARIABLES owner,  \* lock.owner
          wt,     \* lock.wt: the set of waiting threads
          hooks,  \* hooks[thread]: the locks to release when thread dies
          stage,     \* what the scheduler knows of each thread
          want,   \* the lock a thread suspended in acquire() is after
          lost    \* history: the locks whose signalled waiter was killed
                  \* before it ran, until they are taken again

lockVars == <<owner, wt, hooks, stage, want, lost>>

TablesTyped ==
  /\ owner \in [Locks -> Threads \cup {nil, Destroyed}]
  /\ wt \in [Locks -> SUBSET Threads]
  /\ hooks \in [Threads -> SUBSET Locks]
  /\ stage \in [Threads -> {"idle", "waiting", "woken", "dead"}]
  /\ want \in [Threads -> Locks \cup {nil}]

\* Every variable keeps to the values lock.lua gives it.
LockTypeOK == TablesTyped /\ lost \in SUBSET Locks

LockInit ==
  /\ owner = [l \in Locks |-> nil]
  /\ wt = [l \in Locks |-> {}]
  /\ hooks = [t \in Threads |-> {}]
  /\ stage = [t \in Threads |-> "idle"]
  /\ want = [t \in Threads |-> nil]
  /\ lost = {}

-----------------------------------------------------------------------------
\* sched.signal(l, u) for each pair <<l, u>> of S: a task that waits for it
\* becomes ready; a task signalled before that did not run yet misses it.
Signalled(S) ==
  [u \in Threads |-> IF stage[u] = "waiting" /\ <<want[u], u>> \in S
                     THEN "woken" ELSE stage[u]]

\* What next(self.wt) may return: any waiting thread, nil if there is none.
NextWaiter(l) == IF wt[l] = {} THEN {nil} ELSE wt[l]

\* Mutant of Die: autorelease() forgets the locks t only waits for.
DieStaysListed(t) ==
  LET mine == {l \in hooks[t] : owner[l] = t} IN
  \E next \in [mine -> Threads \cup {nil}] :
    /\ \A l \in mine : next[l] \in NextWaiter(l)
    /\ stage' = [Signalled({<<l, next[l]>> : l \in mine}) EXCEPT ![t] = "dead"]
    /\ owner' = [l \in Locks |-> IF l \in mine THEN nil ELSE owner[l]]
    /\ hooks' = [hooks EXCEPT ![t] = {}]
    /\ want' = [want EXCEPT ![t] = nil]
    /\ UNCHANGED wt

\* The end of thread t, by itself or killed: the "die" signal runs the hook
\* that protectdie() installed, autorelease().  Locks t owns are released and
\* one waiter of each is signalled; t leaves the wt of the others.
Die(t) ==
  LET mine == {l \in hooks[t] : owner[l] = t} IN
  \E next \in [mine -> Threads \cup {nil}] :
    /\ \A l \in mine : next[l] \in NextWaiter(l)
    /\ stage' = [Signalled({<<l, next[l]>> : l \in mine}) EXCEPT ![t] = "dead"]
    /\ owner' = [l \in Locks |-> IF l \in mine THEN nil ELSE owner[l]]
    /\ wt' = [l \in Locks |->
                IF l \in hooks[t] \ mine THEN wt[l] \ {t} ELSE wt[l]]
    /\ hooks' = [hooks EXCEPT ![t] = {}]
    /\ want' = [want EXCEPT ![t] = nil]

\* t becomes the owner: the exit of acquire()'s loop.
Take(t, l) ==
  /\ owner[l] = nil
  /\ owner' = [owner EXCEPT ![l] = t]
  /\ wt' = [wt EXCEPT ![l] = @ \ {t}]
  /\ stage' = [stage EXCEPT ![t] = "idle"]
  /\ want' = [want EXCEPT ![t] = nil]
  /\ lost' = lost \ {l}

\* t blocks: one turn of acquire()'s loop.
BlockOn(t, l) ==
  /\ owner[l] \in Threads
  /\ wt' = [wt EXCEPT ![l] = @ \cup {t}]
  /\ stage' = [stage EXCEPT ![t] = "waiting"]
  /\ want' = [want EXCEPT ![t] = l]
  /\ UNCHANGED <<owner, lost>>

-----------------------------------------------------------------------------
\* LOCK:acquire(nonblocking), from its call to its return or its first wait.
Acquire(t, l, nonblocking) ==
  /\ stage[t] = "idle"
  /\ \/ /\ owner[l] \in {t, Destroyed}          \* failed assertions
        /\ Die(t) /\ UNCHANGED lost
     \/ /\ owner[l] \notin {t, Destroyed}
        /\ ~(nonblocking /\ owner[l] # nil)    \* else: nil, "lock is used"
        /\ hooks' = [hooks EXCEPT ![t] = @ \cup {l}]
        /\ Take(t, l) \/ BlockOn(t, l)

\* Mutant of Resume: the test of the loop for a destroyed lock is missing.
ResumeUntested(t) ==
  /\ stage[t] = "woken"
  /\ Take(t, want[t]) \/ BlockOn(t, want[t])
  /\ UNCHANGED hooks

\* A signalled task is resumed inside acquire()'s loop.
Resume(t) ==
  /\ stage[t] = "woken"
  /\ \/ /\ owner[want[t]] = Destroyed           \* error: destroyed while waiting
        /\ UNCHANGED lost
        /\ \/ Die(t)
           \/ /\ stage' = [stage EXCEPT ![t] = "idle"]          \* error caught
              /\ want' = [want EXCEPT ![t] = nil]
              /\ UNCHANGED <<owner, wt, hooks>>
     \/ /\ Take(t, want[t]) \/ BlockOn(t, want[t])
        /\ UNCHANGED hooks

\* Mutant of Release: nobody is signalled.
ReleaseSilently(t, l, thread) ==
  /\ stage[t] = "idle"
  /\ owner[l] = thread
  /\ hooks' = [hooks EXCEPT ![thread] = @ \ {l}]
  /\ owner' = [owner EXCEPT ![l] = nil]
  /\ UNCHANGED <<stage, wt, want, lost>>

\* LOCK:release(thread): by its owner, or by a task that names the owner.
Release(t, l, thread) ==
  /\ stage[t] = "idle"
  /\ \/ /\ owner[l] # thread                    \* failed assertions
        /\ Die(t) /\ UNCHANGED lost
     \/ /\ owner[l] = thread
        /\ hooks' = [hooks EXCEPT ![thread] = @ \ {l}]
        /\ owner' = [owner EXCEPT ![l] = nil]
        /\ \E u \in NextWaiter(l) : stage' = Signalled({<<l, u>>})
        /\ UNCHANGED <<wt, want, lost>>

\* LOCK:destroy(), called by any task.
Destroy(l) ==
  /\ owner' = [owner EXCEPT ![l] = Destroyed]
  /\ stage' = Signalled({l} \X wt[l])
  /\ wt' = [wt EXCEPT ![l] = {}]
  /\ UNCHANGED <<hooks, want, lost>>

\* A task returns, raises, or is killed while it is not inside acquire().
End(t) ==
  /\ stage[t] = "idle"
  /\ Die(t)
  /\ UNCHANGED lost

\* sched.kill(t) of a task suspended inside acquire(): the coroutine is
\* resumed with KILL_TOKEN, wait() raises, and "die" is signalled.
KillSuspended(t) ==
  /\ stage[t] \in {"waiting", "woken"}
  /\ Die(t)
  /\ lost' = IF stage[t] = "woken" THEN lost \cup {want[t]} ELSE lost

LockNext ==
  \/ \E t \in Threads, l \in Locks :
       \/ \E nonblocking \in BOOLEAN : Acquire(t, l, nonblocking)
       \/ \E thread \in Threads : Release(t, l, thread)
  \/ \E t \in Threads : Resume(t) \/ End(t) \/ KillSuspended(t)
  \/ \E l \in Locks : Destroy(l)

\* sched.step() runs every ready task, so a woken task is resumed.
LockFairness == \A t \in Threads : WF_lockVars(Resume(t))

LockSpec == LockInit /\ [][LockNext]_lockVars /\ LockFairness

-----------------------------------------------------------------------------
\* Properties.

Suspended(t, l) == stage[t] \in {"waiting", "woken"} /\ want[t] = l

\* "A lock is automatically released when its owning thread dies": the owner
\* of a lock is a live thread, and the lock is among those its death releases.
OwnerAlive ==
  \A l \in Locks : owner[l] \in Threads =>
    stage[owner[l]] # "dead" /\ l \in hooks[owner[l]]

\* The waiters release() chooses from are threads suspended in acquire() on
\* that lock, never dead ones, so the one signal it sends is not wasted.
WaitersSuspended ==
  \A l \in Locks : \A t \in wt[l] : Suspended(t, l)

\* Every thread blocked in acquire() is in the wt of a lock that has not been
\* destroyed, where release() or destroy() will find it.
BlockedIsListed ==
  \A t \in Threads : stage[t] = "waiting" =>
    want[t] # nil /\ t \in wt[want[t]] /\ owner[want[t]] # Destroyed

\* The tables of lock.lua agree with the threads: what release() and the death
\* of a thread look up is there, and nothing else is, wherever threads are
\* killed (acquire, release, destroy, autorelease).
Bookkeeping == LockTypeOK /\ OwnerAlive /\ WaitersSuspended /\ BlockedIsListed

\* acquire() "might block until the current owner releases it": threads
\* blocked on a lock without owner have a wake-up on its way to one of them,
\* unless the waiter that release() signalled was killed before it ran and
\* nobody has taken the lock since.
WakeupPending ==
  \A l \in Locks \ lost :
    owner[l] = nil /\ (\E t \in Threads : stage[t] = "waiting" /\ want[t] = l)
      => \E u \in Threads : stage[u] = "woken" /\ want[u] = l

\* destroy() is final: no release, automatic or not, makes the lock free again.
DestroyIsFinal ==
  [][\A l \in Locks : owner[l] = Destroyed => owner'[l] = Destroyed]_lockVars

\* A lock that is free while threads are blocked on it gets a new owner (or
\* is destroyed): the signal of release() is enough, whoever barges in, as
\* long as the waiter it went to is not killed.  destroy(): "Any waiting
\* thread on that lock will trigger a 'destroyed' error": nobody stays
\* suspended on a destroyed lock, and it stays destroyed.
WaitersServed ==
  DestroyIsFinal /\ \A l \in Locks :
    /\ (owner[l] = nil /\ \E t \in Threads : Suspended(t, l))
         ~> (owner[l] # nil \/ l \in lost \/ \A t \in Threads : ~Suspended(t, l))
    /\ owner[l] = Destroyed ~> \A t \in Threads : ~Suspended(t, l)
=============================================================================
