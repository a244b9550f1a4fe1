----------------------------- MODULE LockProofs -----------------------------
(***************************************************************************)
(* Proofs about the locks of luafwk/sched/lock.lua, for any number of      *)
(* threads and locks.                                                      *)
(***************************************************************************)
EXTENDS Lock, TLAPS

\* What the three safety invariants need to be inductive: a thread suspended
\* in acquire() is after a lock it does not own and that its death would make
\* it leave (protectdie() ran before the first wait).
SuspendedProtected ==
  \A t \in Threads : stage[t] \in {"waiting", "woken"} =>
    /\ want[t] \in Locks
    /\ want[t] \in hooks[t]
    /\ owner[want[t]] # t

\* destroy() emptied wt, and no thread blocks on a destroyed lock afterwards.
DestroyedNoWaiters ==
  \A l \in Locks : owner[l] = Destroyed => wt[l] = {}

IInv ==
  /\ TablesTyped
  /\ OwnerAlive
  /\ WaitersSuspended
  /\ BlockedIsListed
  /\ SuspendedProtected
  /\ DestroyedNoWaiters

-----------------------------------------------------------------------------
\* What signalling does to the threads: some waiting threads become woken,
\* nothing else changes.
LEMMA SignalledType ==
  ASSUME TablesTyped, NEW S
  PROVE  /\ Signalled(S) \in [Threads -> {"idle", "waiting", "woken", "dead"}]
         /\ \A u \in Threads :
              Signalled(S)[u] = IF stage[u] = "waiting" /\ <<want[u], u>> \in S
                                THEN "woken" ELSE stage[u]
  BY DEF Signalled, TablesTyped

\* The effect of a thread's death, autorelease(), lock by lock and thread by
\* thread.
LEMMA DieEffect ==
  ASSUME TablesTyped, NEW t \in Threads, Die(t)
  PROVE  /\ owner' = [l \in Locks |-> IF l \in hooks[t] /\ owner[l] = t
                                      THEN nil ELSE owner[l]]
         /\ wt' = [l \in Locks |-> IF l \in hooks[t] /\ owner[l] # t
                                   THEN wt[l] \ {t} ELSE wt[l]]
         /\ hooks' = [hooks EXCEPT ![t] = {}]
         /\ want' = [want EXCEPT ![t] = nil]
         /\ stage' \in [Threads -> {"idle", "waiting", "woken", "dead"}]
         /\ stage'[t] = "dead"
         /\ \A u \in Threads \ {t} :
              \/ stage'[u] = stage[u]
              \/ /\ stage[u] = "waiting"
                 /\ stage'[u] = "woken"
                 /\ want[u] \in hooks[t]
                 /\ owner[want[u]] = t
         /\ \A l \in Locks : l \in hooks[t] /\ owner[l] = t /\ wt[l] # {} =>
              \E u \in wt[l] :
                u # t /\ stage[u] = "waiting" /\ want[u] = l => stage'[u] = "woken"
<1> DEFINE mine == {l \in hooks[t] : owner[l] = t}
<1>1. PICK next \in [mine -> Threads \cup {nil}] :
        /\ \A l \in mine : next[l] \in NextWaiter(l)
        /\ stage' = [Signalled({<<l, next[l]>> : l \in mine}) EXCEPT ![t] = "dead"]
        /\ owner' = [l \in Locks |-> IF l \in mine THEN nil ELSE owner[l]]
        /\ wt' = [l \in Locks |->
                    IF l \in hooks[t] \ mine THEN wt[l] \ {t} ELSE wt[l]]
        /\ hooks' = [hooks EXCEPT ![t] = {}]
        /\ want' = [want EXCEPT ![t] = nil]
  BY Zenon DEF Die
<1> DEFINE S == {<<l, next[l]>> : l \in mine}
<1>2. /\ stage' \in [Threads -> {"idle", "waiting", "woken", "dead"}]
      /\ stage'[t] = "dead"
      /\ \A u \in Threads \ {t} :
           stage'[u] = IF stage[u] = "waiting" /\ <<want[u], u>> \in S
                    THEN "woken" ELSE stage[u]
  <2>1. stage' = [Signalled(S) EXCEPT ![t] = "dead"]
    BY <1>1
  <2> HIDE DEF S
  <2> QED BY <2>1, SignalledType
<1>3. \A u \in Threads : <<want[u], u>> \in S =>
        want[u] \in hooks[t] /\ owner[want[u]] = t
  OBVIOUS
<1>4. \A l \in mine : wt[l] # {} => next[l] \in wt[l] /\ <<l, next[l]>> \in S
  BY <1>1 DEF NextWaiter
<1>5. \A l \in Locks : l \in hooks[t] /\ owner[l] = t /\ wt[l] # {} =>
        \E u \in wt[l] :
          u # t /\ stage[u] = "waiting" /\ want[u] = l => stage'[u] = "woken"
  <2> SUFFICES ASSUME NEW l \in Locks, l \in hooks[t], owner[l] = t, wt[l] # {}
               PROVE \E u \in wt[l] :
          u # t /\ stage[u] = "waiting" /\ want[u] = l => stage'[u] = "woken"
    OBVIOUS
  <2>1. next[l] \in wt[l] /\ <<l, next[l]>> \in S
    BY <1>4
  <2>2. next[l] \in Threads
    BY <2>1 DEF TablesTyped
  <2> HIDE DEF S
  <2> QED BY <1>2, <2>1, <2>2
<1>6. owner' = [l \in Locks |-> IF l \in hooks[t] /\ owner[l] = t
                                THEN nil ELSE owner[l]]
  BY <1>1
<1>7. wt' = [l \in Locks |-> IF l \in hooks[t] /\ owner[l] # t
                             THEN wt[l] \ {t} ELSE wt[l]]
  BY <1>1
<1> HIDE DEF S
<1> QED BY <1>1, <1>2, <1>3, <1>5, <1>6, <1>7, Zenon

-----------------------------------------------------------------------------
LEMMA InitIInv == LockInit => IInv
  BY LockAssumption DEF LockInit, IInv, TablesTyped, OwnerAlive, WaitersSuspended,
     BlockedIsListed, SuspendedProtected, DestroyedNoWaiters

\* A thread's death keeps the invariant, whatever it was doing.
LEMMA DieKeepsIInv ==
  ASSUME IInv, NEW t \in Threads, Die(t)
  PROVE  IInv'
<1>1. TablesTyped'
  BY DieEffect DEF IInv, TablesTyped
<1>2. OwnerAlive'
  BY DieEffect, LockAssumption DEF IInv, TablesTyped, OwnerAlive
<1>3. WaitersSuspended'
  <2> SUFFICES ASSUME NEW l \in Locks, NEW u \in wt[l]'
               PROVE Suspended(u, l)'
    BY DEF WaitersSuspended
  <2>1. u \in wt[l] /\ u \in Threads /\ Suspended(u, l)
    BY DieEffect DEF IInv, TablesTyped, WaitersSuspended
  <2>2. u # t
    BY <2>1, DieEffect DEF IInv, TablesTyped, SuspendedProtected, Suspended
  <2> QED BY <2>1, <2>2, DieEffect DEF IInv, TablesTyped, Suspended
<1>4. BlockedIsListed'
  BY DieEffect, LockAssumption DEF IInv, TablesTyped, BlockedIsListed, SuspendedProtected
<1>5. SuspendedProtected'
  BY DieEffect, LockAssumption DEF IInv, TablesTyped, SuspendedProtected
<1>6. DestroyedNoWaiters'
  BY DieEffect, LockAssumption DEF IInv, TablesTyped, DestroyedNoWaiters
<1> QED BY <1>1, <1>2, <1>3, <1>4, <1>5, <1>6 DEF IInv

\* Entering acquire()'s loop, from the call or after a wake-up, keeps the
\* invariant: the lock is taken or the thread waits for it.
LEMMA LoopKeepsIInv ==
  ASSUME IInv, NEW t \in Threads, NEW l \in Locks,
         \/ stage[t] = "idle" /\ hooks' = [hooks EXCEPT ![t] = @ \cup {l}]
         \/ stage[t] = "woken" /\ want[t] = l /\ UNCHANGED hooks,
         owner[l] # t,
         Take(t, l) \/ BlockOn(t, l)
  PROVE  IInv'
<1>0. l \in hooks'[t] /\ \A u \in Threads \ {t} : hooks'[u] = hooks[u]
  BY DEF IInv, TablesTyped, SuspendedProtected
<1>00. hooks' \in [Threads -> SUBSET Locks] /\ \A k \in hooks[t] : k \in hooks'[t]
  BY DEF IInv, TablesTyped
<1>1. CASE Take(t, l)
  <2>1. TablesTyped'
    BY <1>1, <1>00, Zenon DEF IInv, TablesTyped, Take
  <2>2. OwnerAlive'
    BY <1>1, <1>0, <1>00 DEF IInv, TablesTyped, OwnerAlive, Take
  <2>3. WaitersSuspended'
    BY <1>1 DEF IInv, TablesTyped, WaitersSuspended, Suspended, Take
  <2>4. BlockedIsListed'
    BY <1>1, LockAssumption DEF IInv, TablesTyped, BlockedIsListed, Take
  <2>5. SuspendedProtected'
    BY <1>1, <1>0 DEF IInv, TablesTyped, SuspendedProtected, Take
  <2>6. DestroyedNoWaiters'
    BY <1>1, LockAssumption DEF IInv, TablesTyped, DestroyedNoWaiters, Take
  <2> QED BY <2>1, <2>2, <2>3, <2>4, <2>5, <2>6 DEF IInv
<1>2. CASE BlockOn(t, l)
  <2>1. TablesTyped'
    BY <1>2, <1>00, Zenon DEF IInv, TablesTyped, BlockOn
  <2>2. OwnerAlive'
    BY <1>2, <1>0, <1>00 DEF IInv, TablesTyped, OwnerAlive, BlockOn
  <2>3. WaitersSuspended'
    BY <1>2 DEF IInv, TablesTyped, WaitersSuspended, Suspended, BlockOn
  <2>4. BlockedIsListed'
    BY <1>2, LockAssumption DEF IInv, TablesTyped, BlockedIsListed, BlockOn
  <2>5. SuspendedProtected'
    BY <1>2, <1>0 DEF IInv, TablesTyped, SuspendedProtected, BlockOn
  <2>6. DestroyedNoWaiters'
    BY <1>2, LockAssumption DEF IInv, TablesTyped, DestroyedNoWaiters, BlockOn
  <2> QED BY <2>1, <2>2, <2>3, <2>4, <2>5, <2>6 DEF IInv
<1> QED BY <1>1, <1>2

LEMMA AcquireKeepsIInv ==
  ASSUME IInv, NEW t \in Threads, NEW l \in Locks, NEW nonblocking \in BOOLEAN,
         Acquire(t, l, nonblocking)
  PROVE  IInv'
  BY DieKeepsIInv, LoopKeepsIInv DEF Acquire

LEMMA ResumeKeepsIInv ==
  ASSUME IInv, NEW t \in Threads, Resume(t)
  PROVE  IInv'
<1>1. CASE Die(t)
  BY <1>1, DieKeepsIInv
<1>2. CASE UNCHANGED hooks /\ (Take(t, want[t]) \/ BlockOn(t, want[t]))
  <2>1. stage[t] = "woken" /\ want[t] \in Locks /\ owner[want[t]] # t
    BY DEF IInv, SuspendedProtected, Resume
  <2> QED BY <1>2, <2>1, LoopKeepsIInv
<1>3. CASE /\ stage[t] = "woken"
           /\ owner[want[t]] = Destroyed
           /\ stage' = [stage EXCEPT ![t] = "idle"]
           /\ want' = [want EXCEPT ![t] = nil]
           /\ UNCHANGED <<owner, wt, hooks>>
  <2>1. \A l \in Locks : t \notin wt[l]
    BY <1>3 DEF IInv, WaitersSuspended, Suspended, DestroyedNoWaiters
  <2>2. TablesTyped' /\ OwnerAlive'
    BY <1>3 DEF IInv, TablesTyped, OwnerAlive
  <2>3. WaitersSuspended'
    BY <1>3, <2>1 DEF IInv, TablesTyped, WaitersSuspended, Suspended
  <2>4. BlockedIsListed' /\ SuspendedProtected' /\ DestroyedNoWaiters'
    BY <1>3 DEF IInv, TablesTyped, BlockedIsListed, SuspendedProtected, DestroyedNoWaiters
  <2> QED BY <2>2, <2>3, <2>4 DEF IInv
<1> QED BY <1>1, <1>2, <1>3 DEF Resume

LEMMA ReleaseKeepsIInv ==
  ASSUME IInv, NEW t \in Threads, NEW l \in Locks, NEW thread \in Threads,
         Release(t, l, thread)
  PROVE  IInv'
<1>1. CASE Die(t)
  BY <1>1, DieKeepsIInv
<1>2. CASE /\ owner[l] = thread
           /\ hooks' = [hooks EXCEPT ![thread] = @ \ {l}]
           /\ owner' = [owner EXCEPT ![l] = nil]
           /\ \E u \in NextWaiter(l) : stage' = Signalled({<<l, u>>})
           /\ UNCHANGED <<wt, want>>
  <2>1. PICK u \in NextWaiter(l) : stage' = Signalled({<<l, u>>})
    BY <1>2, Zenon
  <2>2. /\ stage' \in [Threads -> {"idle", "waiting", "woken", "dead"}]
        /\ \A v \in Threads :
             stage'[v] = IF stage[v] = "waiting" /\ <<want[v], v>> \in {<<l, u>>}
                      THEN "woken" ELSE stage[v]
    BY <2>1, SignalledType, Zenon DEF IInv
  <2>3. \A v \in Threads : stage'[v] = stage[v] \/ (stage[v] = "waiting" /\ stage'[v] = "woken")
    BY <2>2
  <2>4. TablesTyped'
    BY <1>2, <2>2, Zenon DEF IInv, TablesTyped
  <2>5. OwnerAlive'
    <3> SUFFICES ASSUME NEW k \in Locks, owner'[k] \in Threads
                 PROVE  stage'[owner'[k]] # "dead" /\ k \in hooks'[owner'[k]]
      BY DEF OwnerAlive
    <3>1. k # l /\ owner'[k] = owner[k]
      BY <1>2, LockAssumption DEF IInv, TablesTyped
    <3>2. stage[owner[k]] # "dead" /\ k \in hooks[owner[k]]
      BY <3>1 DEF IInv, OwnerAlive
    <3>3. stage'[owner[k]] # "dead"
      BY <2>3, <3>1, <3>2
    <3>4. k \in hooks'[owner[k]]
      BY <1>2, <3>1, <3>2 DEF IInv, TablesTyped
    <3> QED BY <3>1, <3>3, <3>4
  <2>6. WaitersSuspended'
    BY <1>2, <2>3, Zenon DEF IInv, TablesTyped, WaitersSuspended, Suspended
  <2>7. BlockedIsListed'
    BY <1>2, <2>3, LockAssumption, Zenon DEF IInv, TablesTyped, BlockedIsListed
  <2>8. SuspendedProtected'
    BY <1>2, <2>3, LockAssumption, Zenon DEF IInv, TablesTyped, SuspendedProtected
  <2>9. DestroyedNoWaiters'
    BY <1>2, LockAssumption DEF IInv, TablesTyped, DestroyedNoWaiters
  <2> QED BY <2>4, <2>5, <2>6, <2>7, <2>8, <2>9 DEF IInv
<1> QED BY <1>1, <1>2 DEF Release

LEMMA DestroyKeepsIInv ==
  ASSUME IInv, NEW l \in Locks, Destroy(l)
  PROVE  IInv'
<1>1. /\ stage' \in [Threads -> {"idle", "waiting", "woken", "dead"}]
      /\ \A v \in Threads :
           stage'[v] = IF stage[v] = "waiting" /\ <<want[v], v>> \in {l} \X wt[l]
                    THEN "woken" ELSE stage[v]
  BY SignalledType DEF IInv, Destroy
<1>2. \A v \in Threads : stage'[v] = stage[v] \/ (stage[v] = "waiting" /\ stage'[v] = "woken")
  BY <1>1, Zenon
<1>3. TablesTyped'
  BY <1>1, Zenon DEF IInv, TablesTyped, Destroy
<1>4. OwnerAlive'
  <2> SUFFICES ASSUME NEW k \in Locks, owner'[k] \in Threads
               PROVE  stage'[owner'[k]] # "dead" /\ k \in hooks'[owner'[k]]
    BY DEF OwnerAlive
  <2>1. owner'[k] = owner[k] /\ hooks' = hooks
    BY LockAssumption DEF IInv, TablesTyped, Destroy
  <2>2. stage[owner[k]] # "dead" /\ k \in hooks[owner[k]]
    BY <2>1 DEF IInv, OwnerAlive
  <2> QED BY <1>2, <2>1, <2>2
<1>5. WaitersSuspended'
  <2> SUFFICES ASSUME NEW k \in Locks, NEW v \in wt'[k]
               PROVE  stage'[v] \in {"waiting", "woken"} /\ want'[v] = k
    BY Zenon DEF WaitersSuspended, Suspended
  <2>1. v \in wt[k] /\ want' = want
    BY Zenon DEF IInv, TablesTyped, Destroy
  <2>2. v \in Threads /\ stage[v] \in {"waiting", "woken"} /\ want[v] = k
    BY <2>1, Zenon DEF IInv, TablesTyped, WaitersSuspended, Suspended
  <2> QED
    BY <1>2, <2>1, <2>2, Zenon
<1>6. BlockedIsListed'
  <2> SUFFICES ASSUME NEW v \in Threads, stage'[v] = "waiting"
               PROVE  want'[v] # nil /\ v \in wt'[want'[v]]
                        /\ owner'[want'[v]] # Destroyed
    BY DEF BlockedIsListed
  <2>1. stage[v] = "waiting" /\ <<want[v], v>> \notin {l} \X wt[l]
    BY <1>1
  <2>2. want[v] \in Locks /\ v \in wt[want[v]] /\ owner[want[v]] # Destroyed
    BY <2>1, LockAssumption DEF IInv, TablesTyped, BlockedIsListed
  <2> QED BY <2>1, <2>2, LockAssumption DEF IInv, TablesTyped, Destroy
<1>7. SuspendedProtected'
  BY <1>2, LockAssumption, Zenon DEF IInv, TablesTyped, SuspendedProtected, Destroy
<1>8. DestroyedNoWaiters'
  BY DEF IInv, TablesTyped, DestroyedNoWaiters, Destroy
<1> QED BY <1>3, <1>4, <1>5, <1>6, <1>7, <1>8 DEF IInv

\* One step of any task keeps the inductive invariant.
LEMMA NextKeepsIInv == IInv /\ [LockNext]_lockVars => IInv'
<1> SUFFICES ASSUME IInv, [LockNext]_lockVars PROVE IInv'
  OBVIOUS
<1>1. ASSUME NEW t \in Threads, NEW l \in Locks, NEW nonblocking \in BOOLEAN,
             Acquire(t, l, nonblocking)
      PROVE  IInv'
  BY <1>1, AcquireKeepsIInv
<1>2. ASSUME NEW t \in Threads, NEW l \in Locks, NEW thread \in Threads,
             Release(t, l, thread)
      PROVE  IInv'
  BY <1>2, ReleaseKeepsIInv
<1>3. ASSUME NEW t \in Threads, Resume(t) PROVE IInv'
  BY <1>3, ResumeKeepsIInv
<1>4. ASSUME NEW t \in Threads, End(t) \/ KillSuspended(t) PROVE IInv'
  BY <1>4, DieKeepsIInv DEF End, KillSuspended
<1>5. ASSUME NEW l \in Locks, Destroy(l) PROVE IInv'
  BY <1>5, DestroyKeepsIInv
<1>6. CASE UNCHANGED lockVars
  BY <1>6 DEF lockVars, IInv, TablesTyped, OwnerAlive, WaitersSuspended, Suspended,
     BlockedIsListed, SuspendedProtected, DestroyedNoWaiters
<1> QED BY <1>1, <1>2, <1>3, <1>4, <1>5, <1>6 DEF LockNext

\* The three invariants of the locks hold in every reachable state, for any
\* threads and locks and with tasks killed at any point: the owner of a lock
\* is alive and its death would release it, the waiters a release chooses from
\* are suspended on that lock, and a blocked thread is among them.
THEOREM LockSafety ==
  LockSpec => []Bookkeeping
<1> DEFINE LostOK == lost \in SUBSET Locks
<1>1. LockInit => LostOK
  BY DEF LockInit
<1>2. IInv /\ LostOK /\ [LockNext]_lockVars => LostOK'
  <2> SUFFICES ASSUME IInv, LostOK, [LockNext]_lockVars PROVE LostOK'
    OBVIOUS
  <2>1. \A t \in Threads : KillSuspended(t) => LostOK'
    BY DEF KillSuspended, IInv, SuspendedProtected
  <2>2. \A t \in Threads, l \in Locks : Take(t, l) \/ BlockOn(t, l) => LostOK'
    BY DEF Take, BlockOn
  <2>3. \A t \in Threads : Resume(t) => LostOK'
    BY <2>2 DEF Resume, IInv, SuspendedProtected
  <2> QED BY <2>1, <2>2, <2>3, Zenon
          DEF LockNext, Acquire, Release, End, Destroy, lockVars
<1>3. IInv /\ LostOK => Bookkeeping
  BY DEF IInv, LockTypeOK, Bookkeeping
<1> QED BY <1>1, <1>2, <1>3, InitIInv, NextKeepsIInv, PTL DEF LockSpec

\* No step makes a destroyed lock free again: neither release(), nor the
\* automatic release of a dead owner, nor an acquire().
THEOREM DestroyIsFinalThm == LockSpec => DestroyIsFinal
<1> DEFINE Final == \A l \in Locks : owner[l] = Destroyed => owner'[l] = Destroyed
<1>1. IInv /\ [LockNext]_lockVars => [Final]_lockVars
  <2> SUFFICES ASSUME IInv, LockNext, NEW l \in Locks, owner[l] = Destroyed
               PROVE  owner'[l] = Destroyed
    OBVIOUS
  <2>1. ASSUME NEW t \in Threads, Die(t) PROVE owner'[l] = Destroyed
    BY <2>1, DieEffect, LockAssumption DEF IInv
  <2>2. ASSUME NEW t \in Threads, NEW k \in Locks, Take(t, k) \/ BlockOn(t, k)
        PROVE  owner'[l] = Destroyed
    BY <2>2, LockAssumption DEF IInv, TablesTyped, Take, BlockOn
  <2>3. ASSUME NEW t \in Threads, NEW k \in Locks, NEW nonblocking \in BOOLEAN,
               Acquire(t, k, nonblocking)
        PROVE  owner'[l] = Destroyed
    BY <2>1, <2>2, <2>3 DEF Acquire
  <2>4. ASSUME NEW t \in Threads, NEW k \in Locks, NEW thread \in Threads,
               Release(t, k, thread)
        PROVE  owner'[l] = Destroyed
    BY <2>1, <2>4, LockAssumption DEF IInv, TablesTyped, Release
  <2>5. ASSUME NEW t \in Threads, Resume(t) PROVE owner'[l] = Destroyed
    <3>1. want[t] \in Locks
      BY <2>5 DEF IInv, SuspendedProtected, Resume
    <3> QED BY <2>1, <2>2, <2>5, <3>1 DEF Resume
  <2>6. ASSUME NEW t \in Threads, End(t) \/ KillSuspended(t)
        PROVE  owner'[l] = Destroyed
    BY <2>1, <2>6 DEF End, KillSuspended
  <2>7. ASSUME NEW k \in Locks, Destroy(k) PROVE owner'[l] = Destroyed
    BY <2>7 DEF IInv, TablesTyped, Destroy
  <2> QED BY <2>3, <2>4, <2>5, <2>6, <2>7 DEF LockNext
<1> QED BY <1>1, InitIInv, NextKeepsIInv, PTL DEF LockSpec, DestroyIsFinal

-----------------------------------------------------------------------------
\* The wake-up of a lock is lost only with the waiter it went to.

\* A step that leaves lock l without owner, as it was, and keeps its woken
\* threads woken, keeps the wake-up.
LEMMA WakeupKept ==
  ASSUME WakeupPending, NEW l \in Locks \ lost, owner[l] = nil,
         \A u \in Threads : /\ stage'[u] = "waiting" /\ want'[u] = l =>
                                 stage[u] = "waiting" /\ want[u] = l
                            /\ stage[u] = "woken" /\ want[u] = l =>
                                 stage'[u] = "woken" /\ want'[u] = l,
         \E t \in Threads : stage'[t] = "waiting" /\ want'[t] = l
  PROVE  \E u \in Threads : stage'[u] = "woken" /\ want'[u] = l
  BY DEF WakeupPending

\* The death of a thread: if it had been signalled for a lock that is not
\* destroyed, that lock's wake-up is known to be lost.
LEMMA DieKeepsWakeup ==
  ASSUME IInv, WakeupPending, NEW t \in Threads, Die(t),
         lost \subseteq lost',
         stage[t] = "woken" => owner[want[t]] = Destroyed \/ want[t] \in lost'
  PROVE  WakeupPending'
<1> SUFFICES ASSUME NEW l \in Locks \ lost', owner'[l] = nil,
                    NEW v \in Threads, stage'[v] = "waiting", want'[v] = l
             PROVE  \E u \in Threads : stage'[u] = "woken" /\ want'[u] = l
  BY DEF WakeupPending
<1>1. v # t /\ stage[v] = "waiting" /\ want[v] = l
  BY DieEffect DEF IInv, TablesTyped
<1>2. CASE owner[l] = nil
  <2>1. ASSUME NEW u \in Threads, stage'[u] = "waiting", want'[u] = l
        PROVE  stage[u] = "waiting" /\ want[u] = l
    BY <2>1, DieEffect DEF IInv, TablesTyped
  <2>2. ASSUME NEW u \in Threads, stage[u] = "woken", want[u] = l
        PROVE  stage'[u] = "woken" /\ want'[u] = l
    <3>1. u # t
      BY <1>2, <2>2, LockAssumption
    <3> QED BY <2>2, <3>1, DieEffect DEF IInv, TablesTyped
  <2> QED BY <1>2, <2>1, <2>2, WakeupKept
<1>3. CASE l \in hooks[t] /\ owner[l] = t
  <2>1. v \in wt[l]
    BY <1>1 DEF IInv, BlockedIsListed
  <2>2. PICK u \in wt[l] :
          u # t /\ stage[u] = "waiting" /\ want[u] = l => stage'[u] = "woken"
    BY <1>3, <2>1, DieEffect DEF IInv
  <2>3. u \in Threads /\ Suspended(u, l) /\ u # t
    BY <1>3 DEF IInv, TablesTyped, WaitersSuspended, SuspendedProtected, Suspended
  <2>4. stage'[u] = "woken"
    BY <2>2, <2>3, DieEffect DEF IInv, Suspended
  <2>5. want'[u] = l
    BY <2>3, DieEffect DEF IInv, TablesTyped, Suspended
  <2> QED BY <2>3, <2>4, <2>5
<1> QED BY <1>2, <1>3, DieEffect DEF IInv

\* acquire()'s loop: the thread that takes a lock, or blocks on one that has
\* an owner, uses up no wake-up of another lock.
LEMMA LoopKeepsWakeup ==
  ASSUME IInv, WakeupPending, NEW t \in Threads, NEW l \in Locks,
         stage[t] = "idle" \/ (stage[t] = "woken" /\ want[t] = l),
         Take(t, l) \/ BlockOn(t, l)
  PROVE  WakeupPending'
<1> SUFFICES ASSUME NEW k \in Locks \ lost', owner'[k] = nil,
                    \E v \in Threads : stage'[v] = "waiting" /\ want'[v] = k
             PROVE  \E u \in Threads : stage'[u] = "woken" /\ want'[u] = k
  BY DEF WakeupPending
<1>1. k # l /\ owner[k] = nil /\ k \notin lost
  BY LockAssumption DEF IInv, TablesTyped, Take, BlockOn
<1>2. \A u \in Threads \ {t} : stage'[u] = stage[u] /\ want'[u] = want[u]
  BY DEF IInv, TablesTyped, Take, BlockOn
<1>3. want'[t] # k /\ ~(stage[t] = "woken" /\ want[t] = k)
  BY <1>1, LockAssumption DEF IInv, TablesTyped, Take, BlockOn
<1> QED BY <1>1, <1>2, <1>3, WakeupKept

LEMMA ReleaseKeepsWakeup ==
  ASSUME IInv, WakeupPending, NEW t \in Threads, NEW l \in Locks,
         NEW thread \in Threads, Release(t, l, thread)
  PROVE  WakeupPending'
<1>1. CASE Die(t)
  BY <1>1, DieKeepsWakeup DEF Release
<1>2. CASE /\ owner[l] = thread
           /\ owner' = [owner EXCEPT ![l] = nil]
           /\ \E u \in NextWaiter(l) : stage' = Signalled({<<l, u>>})
           /\ UNCHANGED <<wt, want, lost>>
  <2>1. PICK u \in NextWaiter(l) : stage' = Signalled({<<l, u>>})
    BY <1>2, Zenon
  <2>2. \A v \in Threads :
          stage'[v] = IF stage[v] = "waiting" /\ <<want[v], v>> \in {<<l, u>>}
                   THEN "woken" ELSE stage[v]
    BY <2>1, SignalledType, Zenon DEF IInv
  <2> SUFFICES ASSUME NEW k \in Locks \ lost', owner'[k] = nil,
                      NEW v \in Threads, stage'[v] = "waiting", want'[v] = k
               PROVE  \E w \in Threads : stage'[w] = "woken" /\ want'[w] = k
    BY DEF WakeupPending
  <2>3. CASE k # l
    <3>1. owner[k] = nil /\ k \notin lost
      BY <1>2, <2>3 DEF IInv, TablesTyped
    <3> QED BY <1>2, <2>2, <3>1, WakeupKept, Zenon
  <2>4. CASE k = l
    <3>1. stage[v] = "waiting" /\ want[v] = l
      BY <1>2, <2>2, <2>4, Zenon
    <3>2. v \in wt[l]
      BY <3>1 DEF IInv, BlockedIsListed
    <3>3. u \in wt[l] /\ u \in Threads /\ Suspended(u, l)
      BY <2>1, <3>2 DEF NextWaiter, IInv, TablesTyped, WaitersSuspended
    <3>4. stage'[u] = "woken" /\ want'[u] = l
      BY <1>2, <2>2, <3>3, Zenon DEF Suspended
    <3> QED BY <2>4, <3>3, <3>4
  <2> QED BY <2>3, <2>4
<1> QED BY <1>1, <1>2 DEF Release

LEMMA DestroyKeepsWakeup ==
  ASSUME IInv, WakeupPending, NEW l \in Locks, Destroy(l)
  PROVE  WakeupPending'
<1> SUFFICES ASSUME NEW k \in Locks \ lost', owner'[k] = nil,
                    \E v \in Threads : stage'[v] = "waiting" /\ want'[v] = k
             PROVE  \E w \in Threads : stage'[w] = "woken" /\ want'[w] = k
  BY DEF WakeupPending
<1>1. \A v \in Threads :
        stage'[v] = IF stage[v] = "waiting" /\ <<want[v], v>> \in {l} \X wt[l]
                 THEN "woken" ELSE stage[v]
  BY SignalledType DEF IInv, Destroy
<1>2. owner[k] = nil /\ want' = want /\ k \notin lost
  BY LockAssumption DEF IInv, TablesTyped, Destroy
<1> QED BY <1>1, <1>2, WakeupKept, Zenon

\* acquire() "might block until the current owner releases it": a lock that
\* has no owner while threads are blocked on it always has a woken thread
\* about to take it, unless the thread that release() woke was killed before
\* it ran.
THEOREM NoLostWakeup == LockSpec => []WakeupPending
<1>1. LockInit => WakeupPending
  BY DEF LockInit, WakeupPending
<1>2. IInv /\ WakeupPending /\ [LockNext]_lockVars => WakeupPending'
  <2> SUFFICES ASSUME IInv, WakeupPending, [LockNext]_lockVars PROVE WakeupPending'
    OBVIOUS
  <2>1. ASSUME NEW t \in Threads, NEW l \in Locks, NEW nonblocking \in BOOLEAN,
               Acquire(t, l, nonblocking)
        PROVE  WakeupPending'
    BY <2>1, DieKeepsWakeup, LoopKeepsWakeup DEF Acquire
  <2>2. ASSUME NEW t \in Threads, NEW l \in Locks, NEW thread \in Threads,
               Release(t, l, thread)
        PROVE  WakeupPending'
    BY <2>2, ReleaseKeepsWakeup
  <2>3. ASSUME NEW t \in Threads, Resume(t) PROVE WakeupPending'
    <3>1. stage[t] = "woken" /\ want[t] \in Locks
      BY <2>3 DEF IInv, SuspendedProtected, Resume
    <3>2. CASE Die(t) /\ owner[want[t]] = Destroyed /\ UNCHANGED lost
      BY <3>1, <3>2, DieKeepsWakeup
    <3>3. CASE Take(t, want[t]) \/ BlockOn(t, want[t])
      BY <3>1, <3>3, LoopKeepsWakeup
    <3>4. CASE /\ owner[want[t]] = Destroyed
               /\ stage' = [stage EXCEPT ![t] = "idle"]
               /\ want' = [want EXCEPT ![t] = nil]
               /\ UNCHANGED <<owner, wt, hooks, lost>>
      <4> SUFFICES ASSUME NEW k \in Locks \ lost', owner'[k] = nil,
                          \E v \in Threads : stage'[v] = "waiting" /\ want'[v] = k
                   PROVE  \E w \in Threads : stage'[w] = "woken" /\ want'[w] = k
        BY DEF WakeupPending
      <4>1. owner[k] = nil /\ want[t] # k /\ k \notin lost
        BY <3>4, LockAssumption
      <4>2. \A u \in Threads \ {t} : stage'[u] = stage[u] /\ want'[u] = want[u]
        BY <3>4 DEF IInv, TablesTyped
      <4>3. stage'[t] = "idle"
        BY <3>4 DEF IInv, TablesTyped
      <4> QED BY <4>1, <4>2, <4>3, WakeupKept
    <3> QED BY <2>3, <3>2, <3>3, <3>4 DEF Resume
  <2>4. ASSUME NEW t \in Threads, End(t) \/ KillSuspended(t) PROVE WakeupPending'
    BY <2>4, DieKeepsWakeup DEF End, KillSuspended
  <2>5. ASSUME NEW l \in Locks, Destroy(l) PROVE WakeupPending'
    BY <2>5, DestroyKeepsWakeup
  <2>6. CASE UNCHANGED lockVars
    BY <2>6 DEF lockVars, WakeupPending
  <2> QED BY <2>1, <2>2, <2>3, <2>4, <2>5, <2>6 DEF LockNext
<1> QED BY <1>1, <1>2, InitIInv, NextKeepsIInv, PTL DEF LockSpec
=============================================================================
