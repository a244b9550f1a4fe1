----------------------------- MODULE ExecProofs -----------------------------
(***************************************************************************)
(* Proofs about the signals of the main loop (sched/lposixsignal.c) and    *)
(* os.execute (sched/exec.lua), for any tasks and signals, any number of   *)
(* commands and a buffer of any size: step() reads from the ring what the  *)
(* handler wrote, and the wakeup of a task that waits for its process is   *)
(* not lost.                                                               *)
(***************************************************************************)
EXTENDS Exec, TLAPS

USE ExecAssumption

Signals == Others \cup {"SIGCHLD"}

\* The place in the ring of the signal that k others have followed.
Place(k) == IF lastI - k < 0 THEN lastI - k + MaxSignals ELSE lastI - k

\* The ring holds the last signals handled, the newest at lastI.
RingHolds ==
  /\ taken \in Seq(Signals)
  /\ nSig = (IF Len(taken) > MaxSignals THEN MaxSignals ELSE Len(taken))
  /\ nSig > 0 => lastI >= 0
  /\ \A k \in 0 .. nSig - 1 : sigs[Place(k)] = taken[Len(taken) - k]

\* The task that forks and installs the handler is not interrupted by the loop.
RunsInTasks ==
  /\ running # None => phase = "tasks"
  /\ \A t \in Tasks : pc[t] \in {"forked", "armed"} => running = t

Unserved(t) ==
  child[t] = "zombie" /\ pc[t] \in {"forked", "armed", "waiting"} /\ t \notin unheard

Heard == \A t \in Tasks : Unserved(t) => "SIGCHLD" \in pending \/ InRing("SIGCHLD")

IInv ==
  /\ TypeOK /\ pending \subseteq Signals
  /\ RingHolds /\ RunsInTasks /\ Heard

-----------------------------------------------------------------------------
\* Arithmetic of the ring: one turn at most is to be taken off.
LEMMA ModTurn ==
  ASSUME NEW M \in Nat \ {0}, NEW x \in 0 .. M - 1
  PROVE  x % M = x /\ (x + M) % M = x /\ M % M = 0
  BY SMT

\* The place signal_handler() writes is the one after lastI, and the place of
\* the oldest signal of a full ring.
LEMMA NextPlace ==
  ASSUME lastI \in -1 .. MaxSignals - 1
  PROVE  /\ (lastI + 1) % MaxSignals = (IF lastI = MaxSignals - 1 THEN 0 ELSE lastI + 1)
         /\ lastI >= 0 => Place(MaxSignals - 1) = (lastI + 1) % MaxSignals
  <1>1. CASE lastI = MaxSignals - 1
    BY <1>1, ModTurn DEF Place
  <1>2. CASE lastI < MaxSignals - 1
    <2>1. lastI + 1 \in 0 .. MaxSignals - 1
      BY <1>2
    <2>2. (lastI + 1) % MaxSignals = lastI + 1
      BY <2>1, ModTurn
    <2> QED
      BY <1>2, <2>2 DEF Place
  <1> QED
    BY <1>1, <1>2

\* step() walks the ring from tmpI, the oldest signal, to the newest.
LEMMA Walk ==
  ASSUME TypeOK, RingHolds, NEW k \in 1 .. nSig
  PROVE  (Oldest + k - 1) % MaxSignals = Place(nSig - k)
  <1>1. nSig \in 1 .. MaxSignals /\ lastI \in 0 .. MaxSignals - 1
    BY DEF TypeOK, RingHolds
  <1>2. CASE lastI - nSig + 1 < 0
    <2>1. Oldest + k - 1 = (lastI - (nSig - k)) + MaxSignals
      BY <1>1, <1>2 DEF Oldest
    <2>2. CASE lastI - (nSig - k) < 0
      <3>1. Oldest + k - 1 \in 0 .. MaxSignals - 1
        BY <1>1, <1>2, <2>1, <2>2
      <3> QED
        BY <1>1, <2>1, <2>2, <3>1, ModTurn DEF Place
    <2>3. CASE lastI - (nSig - k) >= 0
      <3>1. lastI - (nSig - k) \in 0 .. MaxSignals - 1
        BY <1>1, <2>3
      <3>2. ((lastI - (nSig - k)) + MaxSignals) % MaxSignals = lastI - (nSig - k)
        BY <3>1, ModTurn
      <3> QED
        BY <1>1, <2>1, <2>3, <3>2 DEF Place
    <2> QED
      BY <1>1, <2>2, <2>3
  <1>3. CASE lastI - nSig + 1 >= 0
    <2>1. Oldest + k - 1 = lastI - (nSig - k) /\ lastI - (nSig - k) \in 0 .. MaxSignals - 1
      BY <1>1, <1>3 DEF Oldest
    <2>2. (lastI - (nSig - k)) % MaxSignals = lastI - (nSig - k)
      BY <2>1, ModTurn
    <2> QED
      BY <1>1, <2>1, <2>2 DEF Place
  <1> QED
    BY <1>1, <1>2, <1>3

\* What step() reads, in terms of the signals handled.
LEMMA QueuedIsTaken ==
  ASSUME TypeOK, RingHolds
  PROVE  /\ Queued = SubSeq(taken, Len(taken) - nSig + 1, Len(taken))
         /\ \A k \in 1 .. nSig : Queued[k] = taken[Len(taken) - (nSig - k)]
  <1>1. /\ nSig \in 0 .. MaxSignals /\ Len(taken) \in Nat /\ nSig <= Len(taken)
        /\ taken \in Seq(Signals)
    BY DEF TypeOK, RingHolds
  <1>2. ASSUME NEW k \in 1 .. nSig PROVE Queued[k] = taken[Len(taken) - (nSig - k)]
    <2>1. Queued[k] = sigs[Place(nSig - k)]
      BY Walk DEF Queued
    <2>2. nSig - k \in 0 .. nSig - 1
      BY <1>1
    <2> QED
      BY <2>1, <2>2, Zenon DEF RingHolds
  <1>3. Queued = [k \in 1 .. nSig |-> taken[Len(taken) - (nSig - k)]]
    BY <1>2 DEF Queued
  <1>4. SubSeq(taken, Len(taken) - nSig + 1, Len(taken))
          = [k \in 1 .. nSig |-> taken[Len(taken) - (nSig - k)]]
    BY <1>1
  <1> QED
    BY <1>2, <1>3, <1>4

LEMMA InRingIsQueued ==
  ASSUME TypeOK, RingHolds, InRing("SIGCHLD")
  PROVE  \E k \in 1 .. nSig : Queued[k] = "SIGCHLD"
  <1>1. PICK j \in 0 .. nSig - 1 : taken[Len(taken) - j] = "SIGCHLD"
    BY DEF InRing
  <1>2. nSig \in Nat
    BY DEF TypeOK
  <1>3. nSig - j \in 1 .. nSig /\ nSig - (nSig - j) = j
    BY <1>2
  <1>4. Queued[nSig - j] = taken[Len(taken) - (nSig - (nSig - j))]
    BY <1>3, QueuedIsTaken
  <1> QED
    BY <1>1, <1>3, <1>4

LEMMA FirstPlace ==
  ASSUME NEW x \in 0 .. MaxSignals - 1
  PROVE  (IF x - 0 < 0 THEN x - 0 + MaxSignals ELSE x - 0) = x
  OBVIOUS

-----------------------------------------------------------------------------
\* signal_handler() keeps the ring.  The newest signal is in it, and a SIGCHLD
\* that was in it still is, unless it was the oldest of a full ring.
LEMMA HandleRing ==
  ASSUME TypeOK, RingHolds, NEW s \in Signals, Handle(s)
  PROVE  /\ RingHolds'
         /\ lastI' \in 0 .. MaxSignals - 1 /\ nSig' \in 0 .. MaxSignals
         /\ sigs' \in [0 .. MaxSignals - 1 -> Others \cup {"SIGCHLD", None}]
         /\ InRing(s)'
         /\ \A u : InRing(u) => InRing(u)' \/ (nSig = MaxSignals /\ sigs[(lastI + 1) % MaxSignals] = u)
  <1>1. /\ lastI \in -1 .. MaxSignals - 1 /\ nSig \in 0 .. MaxSignals
        /\ sigs \in [0 .. MaxSignals - 1 -> Others \cup {"SIGCHLD", None}]
        /\ taken \in Seq(Signals) /\ Len(taken) \in Nat
        /\ nSig = (IF Len(taken) > MaxSignals THEN MaxSignals ELSE Len(taken))
        /\ nSig > 0 => lastI >= 0
    BY DEF TypeOK, RingHolds
  <1>2. lastI' = (IF lastI = MaxSignals - 1 THEN 0 ELSE lastI + 1)
    BY <1>1, NextPlace DEF Handle
  <1>3. lastI' \in 0 .. MaxSignals - 1
    BY <1>1, <1>2
  <1>4. /\ nSig' = (IF nSig + 1 >= MaxSignals THEN MaxSignals ELSE nSig + 1)
        /\ nSig' \in 1 .. MaxSignals /\ nSig' <= nSig + 1
    BY <1>1 DEF Handle
  <1>5. /\ taken' \in Seq(Signals) /\ Len(taken') = Len(taken) + 1
        /\ taken'[Len(taken) + 1] = s
        /\ \A i \in 1 .. Len(taken) : taken'[i] = taken[i]
    BY <1>1 DEF Handle
  <1>6. /\ sigs' \in [0 .. MaxSignals - 1 -> Others \cup {"SIGCHLD", None}]
        /\ sigs'[lastI'] = s
        /\ \A i \in 0 .. MaxSignals - 1 : i # lastI' => sigs'[i] = sigs[i]
    BY <1>1, <1>3 DEF Handle, Signals
  <1>7. nSig' = (IF Len(taken') > MaxSignals THEN MaxSignals ELSE Len(taken'))
    BY <1>1, <1>4, <1>5
  <1>8. ASSUME NEW k \in 1 .. nSig' - 1
        PROVE  /\ k - 1 \in 0 .. nSig - 1 /\ Place(k)' = Place(k - 1)
               /\ Place(k)' # lastI' /\ Place(k)' \in 0 .. MaxSignals - 1
               /\ taken'[Len(taken') - k] = taken[Len(taken) - (k - 1)]
    <2>1. k - 1 \in 0 .. nSig - 1 /\ k < MaxSignals /\ lastI >= 0
      BY <1>1, <1>4
    <2>2. Len(taken) - (k - 1) \in 1 .. Len(taken) /\ Len(taken') - k = Len(taken) - (k - 1)
      BY <1>1, <1>5, <2>1
    <2>3. Place(k)' = Place(k - 1) /\ Place(k)' # lastI' /\ Place(k)' \in 0 .. MaxSignals - 1
      BY <1>1, <1>2, <2>1 DEF Place
    <2> QED
      BY <1>5, <2>1, <2>2, <2>3
  <1>9. \A k \in 0 .. nSig' - 1 : sigs'[Place(k)'] = taken'[Len(taken') - k]
    <2>1. sigs'[Place(0)'] = taken'[Len(taken') - 0]
      <3>1. Place(0)' = lastI'
        BY <1>3, FirstPlace, Zenon DEF Place
      <3>2. Len(taken') - 0 = Len(taken) + 1
        BY <1>1, <1>5
      <3> QED
        BY <1>5, <1>6, <3>1, <3>2, Zenon
    <2>2. ASSUME NEW k \in 1 .. nSig' - 1
          PROVE  sigs'[Place(k)'] = taken'[Len(taken') - k]
      <3>1. sigs'[Place(k)'] = sigs[Place(k - 1)]
        BY <1>6, <1>8
      <3>2. sigs[Place(k - 1)] = taken[Len(taken) - (k - 1)]
        BY <1>8, Zenon DEF RingHolds
      <3> QED
        BY <1>8, <3>1, <3>2
    <2>3. \A k \in 0 .. nSig' - 1 : k = 0 \/ k \in 1 .. nSig' - 1
      BY <1>4
    <2> QED
      BY <2>1, <2>2, <2>3
  <1>10. RingHolds'
    <2>1. nSig' > 0 => lastI' >= 0
      BY <1>3
    <2> QED
      BY <1>5, <1>7, <1>9, <2>1, Zenon DEF RingHolds
  <1>11. InRing(s)'
    <2>1. 0 \in 0 .. nSig' - 1 /\ Len(taken') - 0 = Len(taken) + 1
      BY <1>1, <1>4, <1>5
    <2> QED
      BY <1>5, <2>1 DEF InRing
  <1>12. ASSUME NEW u, InRing(u)
         PROVE  InRing(u)' \/ (nSig = MaxSignals /\ sigs[(lastI + 1) % MaxSignals] = u)
    <2>1. PICK k \in 0 .. nSig - 1 : taken[Len(taken) - k] = u
      BY <1>12 DEF InRing
    <2>2. CASE k + 1 \in 1 .. nSig' - 1
      <3>1. taken'[Len(taken') - (k + 1)] = taken[Len(taken) - ((k + 1) - 1)]
        BY <1>8, <2>2
      <3>2. (k + 1) - 1 = k /\ k + 1 \in 0 .. nSig' - 1
        BY <1>1, <2>2
      <3> QED
        BY <2>1, <3>1, <3>2 DEF InRing
    <2>3. CASE k + 1 \notin 1 .. nSig' - 1
      <3>1. nSig = MaxSignals /\ k = MaxSignals - 1 /\ lastI >= 0
        BY <1>1, <1>4, <2>3
      <3>2. sigs[Place(k)] = u
        BY <2>1 DEF RingHolds
      <3> QED
        BY <1>1, <3>1, <3>2, NextPlace
    <2> QED
      BY <2>2, <2>3
  <1> QED
    BY <1>3, <1>4, <1>6, <1>10, <1>11, <1>12

\* A signal is handled: the wakeups that were not lost still are not.
LEMMA HandleHeard ==
  ASSUME TypeOK, RingHolds, NEW s \in Signals, Handle(s),
         NEW t \in Tasks, child[t] = "zombie", t \notin unheard', InRing("SIGCHLD")
  PROVE  InRing("SIGCHLD")'
  <1>1. InRing("SIGCHLD")' \/ (nSig = MaxSignals /\ sigs[(lastI + 1) % MaxSignals] = "SIGCHLD")
    BY HandleRing
  <1>2. unheard' = unheard \cup Overwritten
    BY DEF Handle
  <1> QED
    BY <1>1, <1>2 DEF Overwritten

\* A signal arrives: it is handled, or it stays pending.
LEMMA ArrivesKeeps ==
  ASSUME TypeOK, RingHolds, pending \subseteq Signals,
         NEW s \in Signals, Arrives(s)
  PROVE  /\ RingHolds' /\ pending' \subseteq Signals /\ unheard' \subseteq Tasks
         /\ lastI' \in -1 .. MaxSignals - 1 /\ nSig' \in 0 .. MaxSignals
         /\ sigs' \in [0 .. MaxSignals - 1 -> Others \cup {"SIGCHLD", None}]
         /\ s \in pending' \/ InRing(s)'
         /\ unheard \subseteq unheard'
         /\ \A t \in Tasks :
              child[t] = "zombie" /\ t \notin unheard' /\ ("SIGCHLD" \in pending \/ InRing("SIGCHLD"))
                => "SIGCHLD" \in pending' \/ InRing("SIGCHLD")'
  <1>1. CASE phase = "blocked"
    <2>1. pending' = pending \cup {s} /\ UNCHANGED <<lastI, nSig, sigs, taken, unheard>>
      BY <1>1 DEF Arrives, buffer
    <2>2. RingHolds' /\ (InRing("SIGCHLD") => InRing("SIGCHLD")')
      BY <2>1 DEF RingHolds, InRing, Place
    <2> QED
      BY <2>1, <2>2 DEF TypeOK
  <1>2. CASE phase # "blocked"
    <2>1. Handle(s) /\ pending' = pending
      BY <1>2 DEF Arrives
    <2>2. unheard \subseteq unheard' /\ unheard' \subseteq Tasks
      BY <2>1 DEF Handle, Overwritten, TypeOK
    <2>3. /\ RingHolds' /\ InRing(s)'
          /\ lastI' \in -1 .. MaxSignals - 1 /\ nSig' \in 0 .. MaxSignals
          /\ sigs' \in [0 .. MaxSignals - 1 -> Others \cup {"SIGCHLD", None}]
      BY <2>1, HandleRing
    <2>4. ASSUME NEW t \in Tasks, child[t] = "zombie", t \notin unheard',
                 "SIGCHLD" \in pending \/ InRing("SIGCHLD")
          PROVE  "SIGCHLD" \in pending' \/ InRing("SIGCHLD")'
      <3>1. CASE "SIGCHLD" \in pending
        BY <2>1, <3>1
      <3>2. CASE InRing("SIGCHLD")
        BY <2>1, <2>4, <3>2, HandleHeard
      <3> QED
        BY <2>4, <3>1, <3>2
    <2>5. pending' \subseteq Signals
      BY <2>1
    <2> QED
      BY <2>2, <2>3, <2>4, <2>5, Zenon
  <1> QED
    BY <1>1, <1>2

\* A step that leaves the buffer, its history and the pending signals alone.
LEMMA SameRing ==
  ASSUME UNCHANGED <<lastI, nSig, sigs, taken>>
  PROVE  (RingHolds' <=> RingHolds) /\ (InRing("SIGCHLD")' <=> InRing("SIGCHLD"))
  BY DEF RingHolds, InRing, Place

-----------------------------------------------------------------------------
\* One lemma per action.

LEMMA ChildDiesKeeps ==
  ASSUME IInv, NEW t \in Tasks, ChildDies(t)
  PROVE  IInv'
  <1>1. /\ child[t] = "runs" /\ child' = [child EXCEPT ![t] = "zombie"]
        /\ UNCHANGED <<handler, phase, running, pc, runs, others>>
    BY DEF ChildDies
  <1>2. /\ child' \in [Tasks -> {"none", "runs", "zombie"}]
        /\ \A u \in Tasks : u # t => child'[u] = child[u]
    BY <1>1 DEF IInv, TypeOK
  <1>3. RunsInTasks'
    BY <1>1 DEF IInv, RunsInTasks
  <1>4. CASE Arrives("SIGCHLD")
    <2>1. "SIGCHLD" \in pending' \/ InRing("SIGCHLD")'
      BY <1>4, ArrivesKeeps DEF IInv, Signals
    <2>2. Heard'
      BY <2>1 DEF Heard
    <2>3. TypeOK'
      BY <1>1, <1>2, <1>4, ArrivesKeeps DEF IInv, Signals, TypeOK
    <2> QED
      BY <1>3, <1>4, <2>2, <2>3, ArrivesKeeps DEF IInv, Signals
  <1>5. CASE unheard' = unheard \cup {t} /\ UNCHANGED <<lastI, nSig, sigs, taken, pending>>
    <2>1. RingHolds' /\ (InRing("SIGCHLD")' <=> InRing("SIGCHLD"))
      BY <1>5, SameRing DEF IInv
    <2>2. \A u \in Tasks : Unserved(u)' => Unserved(u)
      BY <1>1, <1>2, <1>5 DEF Unserved
    <2>3. Heard'
      BY <1>5, <2>1, <2>2 DEF IInv, Heard
    <2>4. TypeOK' /\ pending' \subseteq Signals
      BY <1>1, <1>2, <1>5 DEF IInv, TypeOK
    <2> QED
      BY <1>3, <2>1, <2>3, <2>4 DEF IInv
  <1> QED
    BY <1>4, <1>5 DEF ChildDies

LEMMA OtherSignalKeeps ==
  ASSUME IInv, NEW s \in Others, OtherSignal(s)
  PROVE  IInv'
  <1>1. Arrives(s) /\ UNCHANGED <<handler, phase, running, pc, child, runs>>
    BY DEF OtherSignal
  <1>2. RunsInTasks'
    BY <1>1 DEF IInv, RunsInTasks
  <1>3. s \in Signals
    BY DEF Signals
  <1>4. unheard \subseteq unheard'
    BY <1>1, <1>3, ArrivesKeeps DEF IInv
  <1>5. ASSUME NEW u \in Tasks, Unserved(u)' PROVE "SIGCHLD" \in pending' \/ InRing("SIGCHLD")'
    <2>1. Unserved(u) /\ child[u] = "zombie" /\ u \notin unheard'
      BY <1>1, <1>4, <1>5 DEF Unserved
    <2>2. "SIGCHLD" \in pending \/ InRing("SIGCHLD")
      BY <2>1 DEF IInv, Heard
    <2> QED
      BY <1>1, <1>3, <2>1, <2>2, ArrivesKeeps DEF IInv
  <1>6. TypeOK' /\ RingHolds' /\ pending' \subseteq Signals
    BY <1>1, <1>3, ArrivesKeeps DEF IInv, TypeOK
  <1> QED
    BY <1>2, <1>5, <1>6 DEF IInv, Heard

LEMMA UnblockedKeeps ==
  ASSUME IInv, NEW s \in pending, Unblocked(s)
  PROVE  IInv'
  <1>1. /\ Handle(s) /\ pending' = pending \ {s} /\ s \in Signals
        /\ UNCHANGED <<handler, phase, running, pc, child, runs, others>>
    BY DEF Unblocked, IInv
  <1>2. RunsInTasks'
    BY <1>1 DEF IInv, RunsInTasks
  <1>3. unheard \subseteq unheard' /\ unheard' \subseteq Tasks
    BY <1>1 DEF Handle, Overwritten, IInv, TypeOK
  <1>4. ASSUME NEW u \in Tasks, Unserved(u)' PROVE "SIGCHLD" \in pending' \/ InRing("SIGCHLD")'
    <2>1. Unserved(u) /\ child[u] = "zombie" /\ u \notin unheard'
      BY <1>1, <1>3, <1>4 DEF Unserved
    <2>2. "SIGCHLD" \in pending \/ InRing("SIGCHLD")
      BY <2>1 DEF IInv, Heard
    <2>3. CASE s = "SIGCHLD"
      BY <1>1, <2>3, HandleRing DEF IInv
    <2>4. CASE s # "SIGCHLD" /\ "SIGCHLD" \in pending
      BY <1>1, <2>4
    <2>5. CASE InRing("SIGCHLD")
      BY <1>1, <2>1, <2>5, HandleHeard DEF IInv
    <2> QED
      BY <2>2, <2>3, <2>4, <2>5
  <1>5. RingHolds' /\ TypeOK' /\ pending' \subseteq Signals
    BY <1>1, <1>3, HandleRing DEF IInv, TypeOK
  <1> QED
    BY <1>2, <1>4, <1>5 DEF IInv, Heard

\* A step after which nobody else is unserved, and which leaves the signals
\* alone.
LEMMA HeardKept ==
  ASSUME Heard, UNCHANGED <<lastI, nSig, sigs, taken, pending>>,
         \A u \in Tasks : Unserved(u)' => Unserved(u)
  PROVE  Heard'
  BY SameRing DEF Heard

LEMMA ExecuteKeeps ==
  ASSUME IInv, NEW t \in Tasks, Execute(t)
  PROVE  IInv'
  <1>1. /\ phase = "tasks" /\ running = None /\ running' = t
        /\ child' = [child EXCEPT ![t] = "runs"] /\ pc' = [pc EXCEPT ![t] = "forked"]
        /\ unheard' = unheard \ {t}
        /\ UNCHANGED <<lastI, nSig, sigs, taken, pending, phase>>
    BY DEF Execute, CanRun
  <1>2. /\ child'[t] = "runs" /\ pc'[t] = "forked"
        /\ \A u \in Tasks : u # t => child'[u] = child[u] /\ pc'[u] = pc[u]
    BY <1>1 DEF IInv, TypeOK
  <1>3. TypeOK' /\ pending' \subseteq Signals
    BY <1>1 DEF IInv, TypeOK
  <1>4. RunsInTasks'
    BY <1>1, <1>2 DEF IInv, RunsInTasks
  <1>5. Heard'
    <2>1. \A u \in Tasks : Unserved(u)' => Unserved(u)
      BY <1>1, <1>2 DEF Unserved
    <2> QED
      BY <1>1, <2>1, HeardKept DEF IInv
  <1> QED
    BY <1>1, <1>3, <1>4, <1>5, SameRing DEF IInv

LEMMA InstallKeeps ==
  ASSUME IInv, NEW t \in Tasks, Install(t)
  PROVE  IInv'
  <1>1. /\ running = t /\ pc[t] = "forked" /\ pc' = [pc EXCEPT ![t] = "armed"]
        /\ UNCHANGED <<lastI, nSig, sigs, taken, unheard, pending, phase, running, child>>
    BY DEF Install, buffer
  <1>2. pc'[t] = "armed" /\ \A u \in Tasks : u # t => pc'[u] = pc[u]
    BY <1>1 DEF IInv, TypeOK
  <1>3. TypeOK' /\ pending' \subseteq Signals
    BY <1>1 DEF IInv, TypeOK
  <1>4. RunsInTasks'
    BY <1>1, <1>2 DEF IInv, RunsInTasks
  <1>5. Heard'
    <2>1. \A u \in Tasks : Unserved(u)' => Unserved(u)
      BY <1>1, <1>2 DEF Unserved
    <2> QED
      BY <1>1, <2>1, HeardKept DEF IInv
  <1> QED
    BY <1>1, <1>3, <1>4, <1>5, SameRing DEF IInv

LEMMA WaitKeeps ==
  ASSUME IInv, NEW t \in Tasks, Wait(t)
  PROVE  IInv'
  <1>1. /\ running = t /\ running' = None /\ pc[t] = "armed"
        /\ pc' = [pc EXCEPT ![t] = "waiting"]
        /\ UNCHANGED <<lastI, nSig, sigs, taken, unheard, pending, phase, child>>
    BY DEF Wait, buffer
  <1>2. pc'[t] = "waiting" /\ \A u \in Tasks : u # t => pc'[u] = pc[u]
    BY <1>1 DEF IInv, TypeOK
  <1>3. TypeOK' /\ pending' \subseteq Signals
    BY <1>1 DEF IInv, TypeOK
  <1>4. RunsInTasks'
    BY <1>1, <1>2 DEF IInv, RunsInTasks
  <1>5. Heard'
    <2>1. \A u \in Tasks : Unserved(u)' => Unserved(u)
      BY <1>1, <1>2 DEF Unserved
    <2> QED
      BY <1>1, <2>1, HeardKept DEF IInv
  <1> QED
    BY <1>1, <1>3, <1>4, <1>5, SameRing DEF IInv

LEMMA PollKeeps ==
  ASSUME IInv, NEW t \in Tasks, Poll(t)
  PROVE  IInv'
  <1>1. /\ pc[t] = "ready"
        /\ \/ child' = [child EXCEPT ![t] = "none"] /\ pc' = [pc EXCEPT ![t] = "idle"]
           \/ child' = child /\ pc' = [pc EXCEPT ![t] = "asleep"]
        /\ UNCHANGED <<lastI, nSig, sigs, taken, unheard, pending, phase, running>>
    BY DEF Poll, buffer
  <1>2. /\ pc'[t] \in {"idle", "asleep"}
        /\ \A u \in Tasks : u # t => pc'[u] = pc[u] /\ child'[u] = child[u]
    BY <1>1 DEF IInv, TypeOK
  <1>3. TypeOK' /\ pending' \subseteq Signals
    BY <1>1, Zenon DEF IInv, TypeOK
  <1>4. RunsInTasks'
    BY <1>1, <1>2 DEF IInv, RunsInTasks
  <1>5. Heard'
    <2>1. \A u \in Tasks : Unserved(u)' => Unserved(u)
      BY <1>1, <1>2 DEF Unserved
    <2> QED
      BY <1>1, <2>1, HeardKept DEF IInv
  <1> QED
    BY <1>1, <1>3, <1>4, <1>5, SameRing DEF IInv

LEMMA TimerStepKeeps ==
  ASSUME IInv, NEW S \in SUBSET Asleep, TimerStep(S)
  PROVE  IInv'
  <1>1. /\ phase = "timers" /\ phase' = "tasks"
        /\ pc' = [t \in Tasks |-> IF t \in S THEN "ready" ELSE pc[t]]
        /\ UNCHANGED <<lastI, nSig, sigs, taken, unheard, pending, running, child>>
    BY DEF TimerStep, CanRun, buffer
  <1>2. \A u \in Tasks : pc'[u] \in {"forked", "armed", "waiting"} => pc'[u] = pc[u]
    BY <1>1
  <1>3. TypeOK' /\ pending' \subseteq Signals
    BY <1>1 DEF IInv, TypeOK
  <1>4. RunsInTasks'
    BY <1>1, <1>2 DEF IInv, RunsInTasks
  <1>5. Heard'
    <2>1. \A u \in Tasks : Unserved(u)' => Unserved(u)
      BY <1>1, <1>2 DEF Unserved
    <2> QED
      BY <1>1, <2>1, HeardKept DEF IInv
  <1> QED
    BY <1>1, <1>3, <1>4, <1>5, SameRing DEF IInv

\* Block, Sleep, Return and OtherEvent only move the loop on.
LEMMA PhaseKeeps ==
  ASSUME IInv, Block \/ Sleep \/ Return \/ OtherEvent
  PROVE  IInv'
  <1>1. /\ phase' \in {"timers", "blocked", "pselect"} /\ running = None
        /\ UNCHANGED <<lastI, nSig, sigs, taken, unheard, pending, running, pc, child>>
    BY DEF Block, Sleep, Return, OtherEvent, CanRun, buffer, IInv, RunsInTasks
  <1>2. TypeOK' /\ pending' \subseteq Signals /\ RunsInTasks'
    BY <1>1 DEF IInv, TypeOK, RunsInTasks
  <1>3. Heard'
    <2>1. \A u \in Tasks : Unserved(u)' => Unserved(u)
      BY <1>1 DEF Unserved
    <2> QED
      BY <1>1, <2>1, HeardKept DEF IInv
  <1> QED
    BY <1>1, <1>2, <1>3, SameRing DEF IInv

\* What a task waits for is in the ring, or still pending, when it is drained.
LEMMA DrainKeeps ==
  ASSUME IInv, Drain
  PROVE  IInv'
  <1>1. /\ phase = "blocked" /\ phase' = "timers" /\ nSig' = 0 /\ taken' = << >>
        /\ pc' = [t \in Tasks |->
                    IF pc[t] = "waiting" /\ \E k \in 1 .. nSig : Queued[k] = "SIGCHLD"
                    THEN "ready" ELSE pc[t]]
        /\ UNCHANGED <<lastI, sigs, unheard, pending, running, child>>
    BY DEF Drain
  <1>2. running = None /\ \A u \in Tasks : pc[u] \notin {"forked", "armed"}
    BY <1>1 DEF IInv, RunsInTasks
  <1>3. TypeOK' /\ pending' \subseteq Signals
    BY <1>1 DEF IInv, TypeOK
  <1>4. RingHolds'
    BY <1>1 DEF RingHolds
  <1>5. RunsInTasks'
    BY <1>1, <1>2 DEF RunsInTasks
  <1>6. InRing("SIGCHLD") => \E k \in 1 .. nSig : Queued[k] = "SIGCHLD"
    BY InRingIsQueued DEF IInv
  <1>7. ASSUME NEW u \in Tasks, Unserved(u)' PROVE "SIGCHLD" \in pending'
    <2>1. pc'[u] = "waiting" /\ pc[u] = "waiting" /\ Unserved(u)
      BY <1>1, <1>2, <1>7 DEF Unserved
    <2>2. ~ \E k \in 1 .. nSig : Queued[k] = "SIGCHLD"
      BY <1>1, <2>1
    <2> QED
      BY <1>1, <1>6, <2>1, <2>2 DEF IInv, Heard
  <1> QED
    BY <1>3, <1>4, <1>5, <1>7 DEF IInv, Heard

-----------------------------------------------------------------------------
LEMMA InitIInv ==
  ASSUME Init PROVE IInv
  <1>1. TypeOK /\ pending \subseteq Signals
    BY DEF Init, TypeOK
  <1>2. RingHolds
    BY DEF Init, RingHolds
  <1>3. RunsInTasks /\ Heard
    BY DEF Init, RunsInTasks, Heard, Unserved
  <1> QED
    BY <1>1, <1>2, <1>3 DEF IInv

LEMMA NextIInv ==
  ASSUME IInv, [Next]_vars PROVE IInv'
  <1>1. ASSUME NEW t \in Tasks, ChildDies(t) \/ Execute(t) \/ Install(t) \/ Wait(t) \/ Poll(t)
        PROVE  IInv'
    BY <1>1, ChildDiesKeeps, ExecuteKeeps, InstallKeeps, WaitKeeps, PollKeeps
  <1>2. ASSUME NEW s \in Others, OtherSignal(s) PROVE IInv'
    BY <1>2, OtherSignalKeeps
  <1>3. ASSUME NEW s \in pending, Unblocked(s) PROVE IInv'
    BY <1>3, UnblockedKeeps
  <1>4. CASE Loop
    BY <1>4, TimerStepKeeps, PhaseKeeps, DrainKeeps DEF Loop
  <1>5. CASE OtherEvent
    BY <1>5, PhaseKeeps
  <1>6. CASE UNCHANGED vars
    <2>1. UNCHANGED <<lastI, nSig, sigs, taken, unheard, pending, phase, running, pc, child>>
      BY <1>6 DEF vars
    <2>2. TypeOK' /\ pending' \subseteq Signals /\ RunsInTasks'
      BY <2>1 DEF IInv, TypeOK, RunsInTasks
    <2>3. \A u \in Tasks : Unserved(u)' => Unserved(u)
      BY <2>1 DEF Unserved
    <2> QED
      BY <2>1, <2>2, <2>3, HeardKept, SameRing DEF IInv
  <1> QED
    BY <1>1, <1>2, <1>3, <1>4, <1>5, <1>6 DEF Next

LEMMA IInvGives ==
  ASSUME IInv PROVE SignalsAreKept
  <1>1. RingIsQueue
    BY QueuedIsTaken, Zenon DEF IInv, RingHolds, RingIsQueue
  <1>2. InRing("SIGCHLD") => \E k \in 1 .. nSig : Queued[k] = "SIGCHLD"
    BY InRingIsQueued DEF IInv
  <1>3. ZombieIsHeard
    BY <1>2 DEF IInv, Heard, Unserved, ZombieIsHeard
  <1> QED
    BY <1>1, <1>3 DEF SignalsAreKept

\* What step() of lposixsignal.c reads from the ring is what signal_handler()
\* wrote since the last time, in order, and only the oldest are lost when it
\* overflows.  The wakeup of os.execute is not lost between the handler, the
\* buffer, the mask and the sleep of the main loop: a task that waits, or is
\* about to wait, for a process that has ended has a SIGCHLD pending or in the
\* buffer, unless the process ended before exec.lua installed the handler, or
\* its SIGCHLD was overwritten in a full buffer.
THEOREM SignalsAreKeptThm == Spec => []SignalsAreKept
  <1>1. Init => IInv
    BY InitIInv
  <1>2. IInv /\ [Next]_vars => IInv'
    BY NextIInv
  <1>3. IInv => SignalsAreKept
    BY IInvGives
  <1> QED
    BY <1>1, <1>2, <1>3, PTL DEF Spec
=============================================================================
