------------------------------ MODULE FdProofs ------------------------------
(***************************************************************************)
(* Proofs about the watch lists of luafwk/sched/fd.lua, for any tasks, any *)
(* directions and any finite number of descriptors.                        *)
(***************************************************************************)
EXTENDS Fd, TLAPS

\* Watch lists: a list of descriptors, the place of each in it and whether a
\* function is registered.
WatchLists ==
  [list : [Dirs -> Seq(Fds)], index : [Dirs -> [Fds -> Nat]], func : [Dirs -> [Fds -> BOOLEAN]]]

\* The hash part is the inverse of the list part.
Indexed(w) ==
  \A rw \in Dirs :
    /\ \A i \in 1 .. Len(w.list[rw]) : w.index[rw][w.list[rw][i]] = i
    /\ \A fd \in Fds : w.index[rw][fd] # 0 =>
         w.index[rw][fd] \in 1 .. Len(w.list[rw]) /\ w.list[rw][w.index[rw][fd]] = fd

Waits == [st : {"waiting", "woken"}, rw : Dirs, fd : Fds]

Loops ==
  {Running} \cup [at : {"notify"}, left : SUBSET (Dirs \X Fds)]
            \cup [at : {"call"}, left : SUBSET (Dirs \X Fds), rw : Dirs, fd : Fds]

Typed ==
  /\ Lists \in WatchLists
  /\ task \in [Tasks -> {Idle} \cup Waits]
  /\ open \subseteq Fds /\ loop \in Loops /\ orphans \subseteq Dirs \X Fds /\ count \in 0 .. MaxWatch

\* What a task in state x waits for, as WaitsFor does.
Wait(x, rw, fd) == x.st # "idle" /\ x.rw = rw /\ x.fd = fd

\* A descriptor that is open has one user in a direction: the task that waits
\* for it, or has just been woken, or a function.
OneUser ==
  /\ \A t \in Tasks, rw \in Dirs, fd \in open : Wait(task[t], rw, fd) => index[rw][fd] # 0 /\ ~ func[rw][fd]
  /\ \A t, u \in Tasks, rw \in Dirs, fd \in open : Wait(task[t], rw, fd) /\ Wait(task[u], rw, fd) => t = u
  /\ \A rw \in Dirs, fd \in Fds : func[rw][fd] => index[rw][fd] # 0
  /\ loop.at = "call" => \A t \in Tasks : Wait(task[t], loop.rw, loop.fd) => loop.fd \notin open

IInv == Typed /\ Indexed(Lists) /\ OneUser /\ WatchedIffWaited

-----------------------------------------------------------------------------
\* The indices of a list one longer are those of the list, and the new last.
LEMMA LastOrBefore == \A n \in Nat : \A i \in 1 .. n + 1 : i \in 1 .. n \/ i = n + 1
  OBVIOUS

\* What add_watch does to the watch lists.
LEMMA AddedSound ==
  ASSUME NEW w \in WatchLists, Indexed(w), NEW rw \in Dirs, NEW fd \in Fds, NEW f \in BOOLEAN,
         w.index[rw][fd] = 0
  PROVE  LET v == Added(w, rw, fd, f) IN
         /\ v \in WatchLists /\ Indexed(v)
         /\ v.index[rw][fd] # 0 /\ v.func[rw][fd] = f
         /\ \A r \in Dirs, x \in Fds : <<r, x>> # <<rw, fd>> =>
              v.index[r][x] = w.index[r][x] /\ v.func[r][x] = w.func[r][x]
  <1> DEFINE v == Added(w, rw, fd, f)
             l == w.list[rw]
  <1>1. /\ w.list \in [Dirs -> Seq(Fds)] /\ w.index \in [Dirs -> [Fds -> Nat]]
        /\ w.func \in [Dirs -> [Fds -> BOOLEAN]] /\ l \in Seq(Fds) /\ Len(l) \in Nat
    BY DEF WatchLists
  <1>2. /\ v.list = [w.list EXCEPT ![rw] = Append(l, fd)]
        /\ v.index = [w.index EXCEPT ![rw] = [w.index[rw] EXCEPT ![fd] = Len(l) + 1]]
        /\ v.func = [w.func EXCEPT ![rw] = [w.func[rw] EXCEPT ![fd] = f]]
        /\ v = [list |-> v.list, index |-> v.index, func |-> v.func]
    BY <1>1 DEF Added
  <1>3. v \in WatchLists
    <2> HIDE DEF v, l
    <2>1. Append(l, fd) \in Seq(Fds)
      BY <1>1
    <2>2. v.list \in [Dirs -> Seq(Fds)]
      BY <1>1, <1>2, <2>1
    <2>3. [w.index[rw] EXCEPT ![fd] = Len(l) + 1] \in [Fds -> Nat]
      BY <1>1
    <2>4. v.index \in [Dirs -> [Fds -> Nat]]
      BY <1>1, <1>2, <2>3
    <2>5. v.func \in [Dirs -> [Fds -> BOOLEAN]]
      BY <1>1, <1>2
    <2> QED
      BY <1>2, <2>2, <2>4, <2>5, Zenon DEF WatchLists
  <1>4. Indexed(v)
    <2> SUFFICES ASSUME NEW r \in Dirs
                 PROVE  /\ \A i \in 1 .. Len(v.list[r]) : v.index[r][v.list[r][i]] = i
                        /\ \A x \in Fds : v.index[r][x] # 0 =>
                             v.index[r][x] \in 1 .. Len(v.list[r]) /\ v.list[r][v.index[r][x]] = x
      BY Zenon DEF Indexed
    <2>1. CASE r # rw
      <3> HIDE DEF v, l
      <3>1. v.list[r] = w.list[r] /\ v.index[r] = w.index[r]
        BY <1>1, <1>2, <2>1, Zenon
      <3> QED
        BY <3>1 DEF Indexed
    <2>2. CASE r = rw
      <3>1. /\ v.list[r] = Append(l, fd) /\ Len(v.list[r]) = Len(l) + 1 /\ v.list[r][Len(l) + 1] = fd
            /\ \A i \in 1 .. Len(l) : v.list[r][i] = l[i] /\ l[i] \in Fds
        BY <1>1, <1>2, <2>2
      <3>2. \A x \in Fds : v.index[r][x] = IF x = fd THEN Len(l) + 1 ELSE w.index[rw][x]
        BY <1>1, <1>2, <2>2
      <3>3. \A i \in 1 .. Len(l) : l[i] # fd /\ w.index[rw][l[i]] = i
        BY DEF Indexed
      <3>4. \A x \in Fds : x # fd /\ w.index[rw][x] # 0 =>
              w.index[rw][x] \in 1 .. Len(l) /\ l[w.index[rw][x]] = x
        BY DEF Indexed
      <3> HIDE DEF v, l
      <3>5. \A i \in 1 .. Len(l) : v.index[r][v.list[r][i]] = i
        BY <3>1, <3>2, <3>3
      <3>6. v.index[r][v.list[r][Len(l) + 1]] = Len(l) + 1
        BY <3>1, <3>2, Zenon
      <3>7. ASSUME NEW x \in Fds, v.index[r][x] # 0
            PROVE  v.index[r][x] \in 1 .. Len(l) + 1 /\ v.list[r][v.index[r][x]] = x
        <4>1. CASE x = fd
          BY <1>1, <3>1, <3>2, <4>1
        <4>2. CASE x # fd
          <5>1. v.index[r][x] = w.index[rw][x] /\ w.index[rw][x] \in 1 .. Len(l) /\ l[w.index[rw][x]] = x
            BY <3>2, <3>4, <3>7, <4>2
          <5> QED
            BY <1>1, <3>1, <5>1
        <4> QED
          BY <4>1, <4>2
      <3>8. \A i \in 1 .. Len(l) + 1 : i \in 1 .. Len(l) \/ i = Len(l) + 1
        BY <1>1, LastOrBefore, Zenon
      <3> QED
        BY <3>1, <3>5, <3>6, <3>7, <3>8, Zenon
    <2> QED
      BY <2>1, <2>2, Zenon
  <1>5. /\ v.index[rw][fd] # 0 /\ v.func[rw][fd] = f
        /\ \A r \in Dirs, x \in Fds : <<r, x>> # <<rw, fd>> =>
             v.index[r][x] = w.index[r][x] /\ v.func[r][x] = w.func[r][x]
    BY <1>1, <1>2
  <1> QED
    BY <1>3, <1>4, <1>5

\* What remove_watch does to them: the last descriptor of the list, which may be
\* the removed one, is moved.
LEMMA UnwatchedSound ==
  ASSUME NEW w \in WatchLists, Indexed(w), NEW rw \in Dirs, NEW fd \in Fds
  PROVE  LET v == Unwatched(w, rw, fd) IN
         /\ v \in WatchLists /\ Indexed(v)
         /\ v.index[rw][fd] = 0
         /\ v.func[rw][fd] => w.index[rw][fd] = 0 /\ w.func[rw][fd]
         /\ \A r \in Dirs, x \in Fds : <<r, x>> # <<rw, fd>> =>
              (v.index[r][x] = 0 <=> w.index[r][x] = 0) /\ v.func[r][x] = w.func[r][x]
  <1> DEFINE v == Unwatched(w, rw, fd)
             l == w.list[rw]
             n == Len(l)
             i == w.index[rw][fd]
  <1>1. /\ w.list \in [Dirs -> Seq(Fds)] /\ w.index \in [Dirs -> [Fds -> Nat]]
        /\ w.func \in [Dirs -> [Fds -> BOOLEAN]] /\ l \in Seq(Fds) /\ n \in Nat
        /\ w.index[rw] \in [Fds -> Nat] /\ w.func[rw] \in [Fds -> BOOLEAN]
    BY DEF WatchLists
  <1>2. CASE i = 0
    <2>1. v = w
      BY <1>2 DEF Unwatched
    <2> QED
      BY <1>2, <2>1
  <1>3. CASE i # 0
    <2> DEFINE m == [k \in 1 .. n - 1 |-> IF k = i THEN l[n] ELSE l[k]]
    <2>1. /\ v.list = [w.list EXCEPT ![rw] = m]
          /\ v.index = [w.index EXCEPT ![rw] = [w.index[rw] EXCEPT ![l[n]] = i, ![fd] = 0]]
          /\ v.func = [w.func EXCEPT ![rw] = [w.func[rw] EXCEPT ![fd] = FALSE]]
          /\ v = [list |-> v.list, index |-> v.index, func |-> v.func]
      BY <1>1, <1>3, Zenon DEF Unwatched
    <2>2. /\ i \in 1 .. n /\ l[i] = fd /\ n \in 1 .. n /\ l[n] \in Fds
          /\ \A k \in 1 .. n : l[k] \in Fds /\ w.index[rw][l[k]] = k
      BY <1>1, <1>3 DEF Indexed
    <2>3. m \in Seq(Fds) /\ Len(m) = n - 1 /\ \A k \in 1 .. n - 1 : m[k] = IF k = i THEN l[n] ELSE l[k]
      <3>1. n - 1 \in Nat
        BY <1>1, <2>2
      <3>2. m \in [1 .. n - 1 -> Fds]
        BY <1>1, <2>2
      <3> QED
        BY <3>1, <3>2
    <2>4. v \in WatchLists
      <3> HIDE DEF m, v, l, n, i
      <3>1. v.list \in [Dirs -> Seq(Fds)]
        BY <1>1, <2>1, <2>3
      <3>2. v.index \in [Dirs -> [Fds -> Nat]]
        <4>1. i \in Nat /\ 0 \in Nat
          BY <1>1, <2>2
        <4>2. [w.index[rw] EXCEPT ![l[n]] = i, ![fd] = 0] \in [Fds -> Nat]
          BY <1>1, <2>2, <4>1, Zenon
        <4> QED
          BY <1>1, <2>1, <4>2, ZenonT(40)
      <3>3. v.func \in [Dirs -> [Fds -> BOOLEAN]]
        BY <1>1, <2>1
      <3> QED
        BY <2>1, <3>1, <3>2, <3>3, Zenon DEF WatchLists
    <2>5. \A x \in Fds : v.index[rw][x] = IF x = fd THEN 0 ELSE IF x = l[n] THEN i ELSE w.index[rw][x]
      <3> HIDE DEF m, v, l, n, i
      <3> QED
        BY <1>1, <2>1, <2>2
    <2>6. \A x \in Fds : w.index[rw][x] # 0 => w.index[rw][x] \in 1 .. n /\ l[w.index[rw][x]] = x
      BY DEF Indexed
    <2>7. /\ \A k \in 1 .. n - 1 : v.index[rw][m[k]] = k
          /\ \A x \in Fds : v.index[rw][x] # 0 => v.index[rw][x] \in 1 .. n - 1 /\ m[v.index[rw][x]] = x
      <3> HIDE DEF m, v, l, n, i
      <3>1. ASSUME NEW k \in 1 .. n - 1 PROVE v.index[rw][m[k]] = k
        <4>1. CASE k = i
          <5>1. l[n] # fd
            BY <1>1, <2>2, <3>1, <4>1
          <5> QED
            BY <2>2, <2>3, <2>5, <3>1, <4>1, <5>1, Zenon
        <4>2. CASE k # i
          <5>1. k \in 1 .. n /\ k # n
            BY <1>1, <3>1
          <5>2. l[k] # fd /\ l[k] # l[n] /\ l[k] \in Fds /\ w.index[rw][l[k]] = k
            BY <2>2, <4>2, <5>1
          <5> QED
            BY <2>3, <2>5, <3>1, <4>2, <5>2
        <4> QED
          BY <4>1, <4>2
      <3>2. ASSUME NEW x \in Fds, v.index[rw][x] # 0
            PROVE  v.index[rw][x] \in 1 .. n - 1 /\ m[v.index[rw][x]] = x
        <4>1. x # fd
          BY <2>5, <3>2
        <4>2. CASE x = l[n]
          <5>1. v.index[rw][x] = i /\ i # n
            BY <2>2, <2>5, <4>1, <4>2
          <5>2. i \in 1 .. n - 1
            BY <1>1, <2>2, <5>1
          <5> QED
            BY <2>3, <4>2, <5>1, <5>2
        <4>3. CASE x # l[n]
          <5>1. v.index[rw][x] = w.index[rw][x] /\ w.index[rw][x] # 0
            BY <2>5, <3>2, <4>1, <4>3, Zenon
          <5>2. w.index[rw][x] \in 1 .. n /\ l[w.index[rw][x]] = x
            BY <2>6, <5>1
          <5>3. w.index[rw][x] # n /\ w.index[rw][x] # i
            BY <2>2, <4>1, <4>3, <5>2, Zenon
          <5>4. w.index[rw][x] \in 1 .. n - 1
            BY <1>1, <5>2, <5>3
          <5> QED
            BY <2>3, <5>1, <5>2, <5>3, <5>4, Zenon
        <4> QED
          BY <4>2, <4>3
      <3> QED
        BY <3>1, <3>2
    <2>8. Indexed(v)
      <3> SUFFICES ASSUME NEW r \in Dirs
                   PROVE  /\ \A k \in 1 .. Len(v.list[r]) : v.index[r][v.list[r][k]] = k
                          /\ \A x \in Fds : v.index[r][x] # 0 =>
                               v.index[r][x] \in 1 .. Len(v.list[r]) /\ v.list[r][v.index[r][x]] = x
        BY Zenon DEF Indexed
      <3> HIDE DEF m, v, l, n, i
      <3>1. CASE r # rw
        <4>1. v.list[r] = w.list[r] /\ v.index[r] = w.index[r]
          BY <1>1, <2>1, <3>1, Zenon
        <4> QED
          BY <4>1 DEF Indexed
      <3>2. CASE r = rw
        <4>1. v.list[r] = m
          BY <1>1, <2>1, <3>2
        <4> QED
          BY <2>3, <2>7, <3>2, <4>1, Zenon
      <3> QED
        BY <3>1, <3>2, Zenon
    <2>9. /\ v.index[rw][fd] = 0 /\ ~ v.func[rw][fd]
          /\ \A r \in Dirs, x \in Fds : <<r, x>> # <<rw, fd>> =>
               (v.index[r][x] = 0 <=> w.index[r][x] = 0) /\ v.func[r][x] = w.func[r][x]
      <3> HIDE DEF m, v, l, n, i
      <3>1. \A x \in Fds : x # fd => (v.index[rw][x] = 0 <=> w.index[rw][x] = 0)
        BY <1>1, <1>3, <2>2, <2>5, SMTT(30)
      <3>2. \A r \in Dirs : r # rw => v.index[r] = w.index[r] /\ v.func[r] = w.func[r]
        BY <1>1, <2>1, Zenon
      <3>3. v.func[rw] = [w.func[rw] EXCEPT ![fd] = FALSE]
        BY <1>1, <2>1
      <3>4. ~ v.func[rw][fd] /\ \A x \in Fds : x # fd => v.func[rw][x] = w.func[rw][x]
        BY <1>1, <3>3, Zenon
      <3> QED
        BY <2>5, <3>1, <3>2, <3>4, ZenonT(40)
    <2> QED
      BY <2>4, <2>8, <2>9
  <1> QED
    BY <1>2, <1>3

-----------------------------------------------------------------------------
\* The lists lose what is in D and nothing else.
Lose(D) ==
  /\ Lists' \in WatchLists /\ Indexed(Lists')
  /\ \A rw \in Dirs, fd \in Fds :
       /\ <<rw, fd>> \in D => index'[rw][fd] = 0 /\ ~ func'[rw][fd]
       /\ <<rw, fd>> \notin D => (index'[rw][fd] = 0 <=> index[rw][fd] = 0) /\ (func'[rw][fd] <=> func[rw][fd])

\* No task starts to wait, none that goes on waiting for an open descriptor
\* waits for what the lists lose, and one that stops has it removed or is an orphan's.
Leave(D) ==
  /\ open' \subseteq open /\ orphans \subseteq orphans'
  /\ \A t \in Tasks, rw \in Dirs, fd \in Fds :
       /\ Wait(task'[t], rw, fd) => Wait(task[t], rw, fd) /\ (fd \in open' => <<rw, fd>> \notin D)
       /\ Wait(task[t], rw, fd) /\ <<rw, fd>> \notin D \cup orphans' => Wait(task'[t], rw, fd)
  /\ \A t \in Tasks : task'[t].st = "waiting" => task'[t] = task[t] /\ task[t].fd \in open'
  /\ loop'.at = "call" => loop' = loop \/ func[loop'.rw][loop'.fd]

\* A step that only takes away keeps the invariant.
LEMMA ShrinkStep ==
  ASSUME IInv, Typed', NEW D, Lose(D), Leave(D)
  PROVE  IInv'
  <1>1. OneUser'
    <2> USE DEF IInv, OneUser, Lose, Leave
    <2>0. \A fd \in open' : fd \in Fds /\ fd \in open
      BY DEF Typed
    <2>1. /\ \A t \in Tasks, rw \in Dirs, fd \in open' :
               Wait(task'[t], rw, fd) => index'[rw][fd] # 0 /\ ~ func'[rw][fd]
          /\ \A t, u \in Tasks, rw \in Dirs, fd \in open' :
               Wait(task'[t], rw, fd) /\ Wait(task'[u], rw, fd) => t = u
      BY <2>0, Zenon
    <2>2. \A rw \in Dirs, fd \in Fds : func'[rw][fd] => index'[rw][fd] # 0
      BY Zenon DEF IInv, OneUser, Lose
    <2>3. ASSUME loop'.at = "call", NEW t \in Tasks, Wait(task'[t], loop'.rw, loop'.fd)
          PROVE  loop'.fd \notin open'
      <3>1. loop'.rw \in Dirs /\ loop'.fd \in Fds
        BY <2>3 DEF Typed, Loops, Running
      <3>2. Wait(task[t], loop'.rw, loop'.fd)
        BY <2>3, <3>1, Zenon DEF Leave
      <3> QED
        BY <2>3, <3>1, <3>2, Zenon DEF IInv, OneUser, Leave
    <2> QED
      BY <2>1, <2>2, <2>3 DEF OneUser
  <1>2. WatchedIffWaited'
    <2>1. ASSUME NEW t \in Tasks, task'[t].st = "waiting"
          PROVE  index'[task'[t].rw][task'[t].fd] # 0 /\ task'[t].fd \in open'
      <3>1. task'[t].rw \in Dirs /\ task'[t].fd \in Fds /\ task'[t].st # "idle"
        BY <2>1 DEF Typed, Waits, Idle
      <3>2. Wait(task'[t], task'[t].rw, task'[t].fd)
        BY <3>1 DEF Wait
      <3>3. task'[t] = task[t] /\ task[t].fd \in open'
        BY <2>1 DEF Leave
      <3>4. index[task'[t].rw][task'[t].fd] # 0
        BY <2>1, <3>3 DEF IInv, WatchedIffWaited
      <3>5. <<task'[t].rw, task'[t].fd>> \notin D
        BY <3>1, <3>2, <3>3 DEF Leave
      <3> QED
        BY <3>1, <3>3, <3>4, <3>5 DEF Lose
    <2>2. ASSUME NEW rw \in Dirs, NEW fd \in Fds, index'[rw][fd] # 0, <<rw, fd>> \notin orphans'
          PROVE  func'[rw][fd] \/ \E t \in Tasks : Wait(task'[t], rw, fd)
      <3>1. <<rw, fd>> \notin D /\ index[rw][fd] # 0 /\ <<rw, fd>> \notin orphans
        BY <2>2, Zenon DEF Lose, Leave
      <3>2. func[rw][fd] \/ \E t \in Tasks : Wait(task[t], rw, fd)
        BY <3>1 DEF IInv, WatchedIffWaited, WaitsFor, Wait
      <3>3. CASE func[rw][fd]
        BY <3>1, <3>3, Zenon DEF Lose
      <3>4. CASE \E t \in Tasks : Wait(task[t], rw, fd)
        BY <2>2, <3>1, <3>4, Zenon DEF Leave
      <3> QED
        BY <3>2, <3>3, <3>4
    <2> QED
      BY <2>1, <2>2 DEF WatchedIffWaited, WaitsFor, Wait
  <1> QED
    BY <1>1, <1>2 DEF IInv, Lose

\* The assignment of new watch lists.
LEMMA BecomeIs ==
  ASSUME NEW w \in WatchLists, Become(w)
  PROVE  Lists' = w
  BY DEF WatchLists, Become, Lists

LEMMA ListsTyped ==
  ASSUME IInv
  PROVE  Lists \in WatchLists /\ Indexed(Lists) /\ Lists.list = list /\ Lists.index = index /\ Lists.func = func
  BY DEF IInv, Typed, Lists

LEMMA LoseNothing ==
  ASSUME IInv, UNCHANGED <<list, index, func>>
  PROVE  Lose({})
  <1>1. Lists' = Lists
    BY DEF Lists
  <1> QED
    BY <1>1, ListsTyped DEF Lose

\* Watch lists v are w without what is in D; a registered function is watched.
Less(v, w, D) ==
  /\ v \in WatchLists /\ Indexed(v)
  /\ \A rw \in Dirs, fd \in Fds :
       /\ v.func[rw][fd] => v.index[rw][fd] # 0
       /\ <<rw, fd>> \in D => v.index[rw][fd] = 0 /\ ~ v.func[rw][fd]
       /\ <<rw, fd>> \notin D =>
            (v.index[rw][fd] = 0 <=> w.index[rw][fd] = 0) /\ (v.func[rw][fd] <=> w.func[rw][fd])

LEMMA LessNothing ==
  ASSUME IInv
  PROVE  Less(Lists, Lists, {})
  <1>1. \A rw \in Dirs, fd \in Fds : Lists.func[rw][fd] => Lists.index[rw][fd] # 0
    BY ListsTyped DEF IInv, OneUser
  <1> QED
    BY <1>1, ListsTyped DEF Less

LEMMA LessOne ==
  ASSUME NEW w, NEW v, NEW D, Less(v, w, D), NEW rw \in Dirs, NEW fd \in Fds
  PROVE  Less(Unwatched(v, rw, fd), w, D \cup {<<rw, fd>>})
  <1> DEFINE u == Unwatched(v, rw, fd)
  <1>1. /\ v \in WatchLists /\ Indexed(v)
        /\ \A r \in Dirs, x \in Fds : v.func[r][x] => v.index[r][x] # 0
    BY Zenon DEF Less
  <1>2. /\ u \in WatchLists /\ Indexed(u)
        /\ u.index[rw][fd] = 0
        /\ u.func[rw][fd] => v.index[rw][fd] = 0 /\ v.func[rw][fd]
        /\ \A r \in Dirs, x \in Fds : <<r, x>> # <<rw, fd>> =>
             (u.index[r][x] = 0 <=> v.index[r][x] = 0) /\ u.func[r][x] = v.func[r][x]
    BY <1>1, UnwatchedSound
  <1> HIDE DEF u
  <1>3. ~ u.func[rw][fd]
    BY <1>1, <1>2, Zenon
  <1>4. ASSUME NEW r \in Dirs, NEW x \in Fds
        PROVE  /\ u.func[r][x] => u.index[r][x] # 0
               /\ <<r, x>> \in D \cup {<<rw, fd>>} => u.index[r][x] = 0 /\ ~ u.func[r][x]
               /\ <<r, x>> \notin D \cup {<<rw, fd>>} =>
                    (u.index[r][x] = 0 <=> w.index[r][x] = 0) /\ (u.func[r][x] <=> w.func[r][x])
    <2>1. CASE <<r, x>> = <<rw, fd>>
      BY <1>2, <1>3, <2>1
    <2>2. CASE <<r, x>> # <<rw, fd>>
      <3>1. (u.index[r][x] = 0 <=> v.index[r][x] = 0) /\ u.func[r][x] = v.func[r][x]
        BY <1>2, <2>2, Zenon
      <3>2. <<r, x>> \in D \cup {<<rw, fd>>} <=> <<r, x>> \in D
        BY <2>2, Zenon
      <3> QED
        BY <3>1, <3>2, Zenon DEF Less
    <2> QED
      BY <2>1, <2>2, Zenon
  <1> QED
    BY <1>2, <1>4, Zenon DEF Less, u

LEMMA LoseLess ==
  ASSUME IInv, NEW v, NEW D, Less(v, Lists, D), Become(v)
  PROVE  Lose(D)
  <1>1. v \in WatchLists
    BY Zenon DEF Less
  <1>2. Lists' = v /\ index' = v.index /\ func' = v.func
    BY <1>1, BecomeIs DEF Become
  <1>3. Lists.index = index /\ Lists.func = func
    BY ListsTyped
  <1> QED
    BY <1>2, <1>3, Zenon DEF Lose, Less

LEMMA LoseOne ==
  ASSUME IInv, NEW rw \in Dirs, NEW fd \in Fds, Become(Unwatched(Lists, rw, fd))
  PROVE  Lose({<<rw, fd>>})
  <1>1. Less(Unwatched(Lists, rw, fd), Lists, {} \cup {<<rw, fd>>})
    BY LessNothing, LessOne, Zenon
  <1>2. {} \cup {<<rw, fd>>} = {<<rw, fd>>}
    BY Zenon
  <1> QED
    BY <1>1, <1>2, LoseLess, Zenon

-----------------------------------------------------------------------------
TaskTyped == task \in [Tasks -> {Idle} \cup Waits]

\* A signal does not change what a task waits for.
LEMMA WokenSound ==
  ASSUME TaskTyped, NEW rws \in SUBSET Dirs, NEW fd \in Fds
  PROVE  /\ Woken(rws, fd) \in [Tasks -> {Idle} \cup Waits]
         /\ \A t \in Tasks :
              /\ Woken(rws, fd)[t].st = "waiting" =>
                   Woken(rws, fd)[t] = task[t] /\ (task[t].fd = fd => task[t].rw \notin rws)
              /\ \A r \in Dirs, x \in Fds : Wait(Woken(rws, fd)[t], r, x) <=> Wait(task[t], r, x)
  <1> SUFFICES ASSUME NEW t \in Tasks
               PROVE  /\ Woken(rws, fd)[t] \in {Idle} \cup Waits
                      /\ Woken(rws, fd)[t].st = "waiting" =>
                           Woken(rws, fd)[t] = task[t] /\ (task[t].fd = fd => task[t].rw \notin rws)
                      /\ \A r \in Dirs, x \in Fds : Wait(Woken(rws, fd)[t], r, x) <=> Wait(task[t], r, x)
    BY DEF Woken
  <1>1. task[t] \in {Idle} \cup Waits
    BY DEF TaskTyped
  <1>2. CASE task[t].st = "waiting" /\ task[t].fd = fd /\ task[t].rw \in rws
    <2>1. Woken(rws, fd)[t] = [st |-> "woken", rw |-> task[t].rw, fd |-> fd]
      BY <1>2 DEF Woken, Blocked
    <2> QED
      BY <1>1, <1>2, <2>1 DEF Waits, Wait
  <1>3. CASE ~ (task[t].st = "waiting" /\ task[t].fd = fd /\ task[t].rw \in rws)
    <2>1. Woken(rws, fd)[t] = task[t]
      BY <1>3 DEF Woken
    <2> QED
      BY <1>1, <1>3, <2>1, Zenon
  <1> QED
    BY <1>2, <1>3, Zenon

\* Signal, at the end of notify_fd.
LEMMA SignalSound ==
  ASSUME IInv, NEW left \in SUBSET (Dirs \X Fds), NEW rw \in Dirs, NEW fd \in Fds, Signal(left, rw, fd)
  PROVE  /\ TaskTyped' /\ loop' \in Loops /\ loop'.at # "call"
         /\ \A t \in Tasks :
              /\ task'[t].st = "waiting" => task'[t] = task[t]
              /\ \A r \in Dirs, x \in Fds : Wait(task'[t], r, x) <=> Wait(task[t], r, x)
  <1>1. TaskTyped /\ task' = Woken({rw}, fd) /\ {rw} \in SUBSET Dirs
    BY DEF IInv, Typed, TaskTyped, Signal
  <1>2. loop' \in Loops /\ loop'.at # "call"
    BY DEF Signal, Loops, Running, Notifying
  <1>3. /\ Woken({rw}, fd) \in [Tasks -> {Idle} \cup Waits]
        /\ \A t \in Tasks :
             /\ Woken({rw}, fd)[t].st = "waiting" =>
                  Woken({rw}, fd)[t] = task[t] /\ (task[t].fd = fd => task[t].rw \notin {rw})
             /\ \A r \in Dirs, x \in Fds : Wait(Woken({rw}, fd)[t], r, x) <=> Wait(task[t], r, x)
    BY <1>1, WokenSound, Zenon
  <1> QED
    BY <1>1, <1>2, <1>3, Zenon DEF TaskTyped

\* What a task that waits for something waits for.
LEMMA WaitsTyped ==
  ASSUME IInv, NEW t \in Tasks
  PROVE  /\ task[t].st # "idle" =>
              task[t] = [st |-> task[t].st, rw |-> task[t].rw, fd |-> task[t].fd]
              /\ task[t].rw \in Dirs /\ task[t].fd \in Fds /\ task[t].st \in {"waiting", "woken"}
         /\ task[t].st = "idle" <=> task[t] = Idle
  <1>1. task[t] \in {Idle} \cup Waits
    BY DEF IInv, Typed
  <1> QED
    BY <1>1 DEF Idle, Waits

LEMMA WaitingOpen ==
  ASSUME IInv
  PROVE  \A t \in Tasks : task[t].st = "waiting" => task[t].fd \in open
  BY Zenon DEF IInv, WatchedIffWaited

\* A step that leaves the lists, or all but a descriptor's place, alone.
LEMMA TypedStep ==
  ASSUME IInv, Lists' \in WatchLists, TaskTyped', open' \subseteq open, loop' \in Loops,
         orphans' \subseteq Dirs \X Fds, UNCHANGED count
  PROVE  Typed'
  BY DEF IInv, Typed, TaskTyped

LEMMA ResumeKeeps ==
  ASSUME IInv, NEW t \in Tasks, Resume(t)
  PROVE  IInv'
  <1> DEFINE rw == task[t].rw
             fd == task[t].fd
             D == {<<rw, fd>>}
  <1>1. rw \in Dirs /\ fd \in Fds /\ Wait(task[t], rw, fd)
    BY WaitsTyped, Zenon DEF Resume, Wait
  <1>2. task \in [Tasks -> {Idle} \cup Waits] /\ task' = [task EXCEPT ![t] = Idle]
    BY DEF Resume, IInv, Typed
  <1>3. Lose(D)
    BY <1>1, LoseOne, Zenon DEF Resume
  <1>4. Typed'
    <2>1. TaskTyped'
      BY <1>2, Zenon DEF TaskTyped
    <2> QED
      BY <1>3, <2>1, TypedStep DEF Lose, Resume, IInv, Typed
  <1> HIDE DEF rw, fd
  <1>5. Leave(D)
    <2>1. \A u \in Tasks : task'[u] = IF u = t THEN Idle ELSE task[u]
      BY <1>2
    <2>2. \A r \in Dirs, x \in Fds : ~ Wait(Idle, r, x)
      BY DEF Wait, Idle
    <2>3. \A u \in Tasks, r \in Dirs, x \in Fds :
            /\ Wait(task'[u], r, x) => Wait(task[u], r, x) /\ u # t
            /\ Wait(task[u], r, x) /\ u # t => Wait(task'[u], r, x)
      BY <2>1, <2>2, Zenon
    <2>4. \A r \in Dirs, x \in Fds : Wait(task[t], r, x) => <<r, x>> \in D
      BY <1>1 DEF Wait
    <2>5. \A u \in Tasks, x \in open : Wait(task[u], rw, x) /\ u # t => x # fd
      BY <1>1, Zenon DEF IInv, OneUser
    <2>6. \A u \in Tasks : task'[u].st = "waiting" => task'[u] = task[u] /\ task[u].fd \in open'
      BY <2>1, WaitingOpen DEF Resume, Idle
    <2>7. \A u \in Tasks, r \in Dirs, x \in Fds :
            Wait(task[u], r, x) /\ u # t /\ x \in open => <<r, x>> \notin D
      BY <2>5
    <2> QED
      BY <2>3, <2>4, <2>6, <2>7, Zenon DEF Leave, Resume
  <1> QED
    BY <1>3, <1>4, <1>5, ShrinkStep

LEMMA TimeOutKeeps ==
  ASSUME IInv, NEW t \in Tasks, TimeOut(t)
  PROVE  IInv'
  <1>1. task \in [Tasks -> {Idle} \cup Waits]
        /\ task' = [task EXCEPT ![t] = [st |-> "woken", rw |-> task[t].rw, fd |-> task[t].fd]]
    BY DEF TimeOut, Blocked, IInv, Typed
  <1>2. /\ task[t].rw \in Dirs /\ task[t].fd \in Fds /\ task[t].st # "idle"
        /\ \A u \in Tasks : u # t => task'[u] = task[u]
        /\ task'[t] = [st |-> "woken", rw |-> task[t].rw, fd |-> task[t].fd]
    BY <1>1, WaitsTyped DEF TimeOut
  <1>3. Lose({})
    BY LoseNothing, Zenon DEF TimeOut
  <1>4. Typed'
    <2>1. TaskTyped'
      BY <1>1, <1>2, Zenon DEF TaskTyped, Waits
    <2> QED
      BY <1>3, <2>1, TypedStep, Zenon DEF Lose, TimeOut, IInv, Typed
  <1>5. Leave({})
    <2>1. \A u \in Tasks, r \in Dirs, x \in Fds : Wait(task'[u], r, x) <=> Wait(task[u], r, x)
      BY <1>2 DEF Wait
    <2>2. \A u \in Tasks : task'[u].st = "waiting" => task'[u] = task[u] /\ task[u].fd \in open'
      BY <1>2, WaitingOpen DEF TimeOut
    <2> QED
      BY <2>1, <2>2, Zenon DEF Leave, TimeOut
  <1> QED
    BY <1>3, <1>4, <1>5, ShrinkStep, Zenon

LEMMA KillKeeps ==
  ASSUME IInv, NEW t \in Tasks, Kill(t)
  PROVE  IInv'
  <1>1. task \in [Tasks -> {Idle} \cup Waits] /\ task' = [task EXCEPT ![t] = Idle]
    BY DEF Kill, IInv, Typed
  <1>2. /\ task[t].rw \in Dirs /\ task[t].fd \in Fds
        /\ \A u \in Tasks : task'[u] = IF u = t THEN Idle ELSE task[u]
    BY <1>1, WaitsTyped DEF Kill
  <1>3. Lose({})
    BY LoseNothing, Zenon DEF Kill
  <1>4. Typed'
    <2>1. TaskTyped'
      BY <1>1 DEF TaskTyped
    <2> QED
      BY <1>2, <1>3, <2>1, TypedStep DEF Lose, Kill, IInv, Typed
  <1>5. Leave({})
    <2>1. \A u \in Tasks, r \in Dirs, x \in Fds :
            /\ Wait(task'[u], r, x) => Wait(task[u], r, x)
            /\ Wait(task[u], r, x) => Wait(task'[u], r, x) \/ <<r, x>> = <<task[t].rw, task[t].fd>>
      BY <1>2 DEF Wait, Idle
    <2>2. \A u \in Tasks : task'[u].st = "waiting" => task'[u] = task[u] /\ task[u].fd \in open'
      BY <1>2, WaitingOpen DEF Kill, Idle
    <2> QED
      BY <2>1, <2>2, Zenon DEF Leave, Kill
  <1> QED
    BY <1>3, <1>4, <1>5, ShrinkStep

LEMMA WhenFdNilKeeps ==
  ASSUME IInv, NEW rw \in Dirs, NEW fd \in Fds, WhenFdNil(rw, fd)
  PROVE  IInv'
  <1>1. Lose({<<rw, fd>>})
    BY LoseOne, Zenon DEF WhenFdNil
  <1>2. Typed'
    BY <1>1, TypedStep, Zenon DEF Lose, WhenFdNil, IInv, Typed, TaskTyped
  <1>3. Leave({<<rw, fd>>})
    <2>1. \A t \in Tasks, x \in open : Wait(task[t], rw, x) => x # fd
      BY Zenon DEF IInv, OneUser, WhenFdNil
    <2> QED
      BY <2>1, WaitingOpen DEF Leave, WhenFdNil
  <1> QED
    BY <1>1, <1>2, <1>3, ShrinkStep, Zenon

LEMMA CloseKeeps ==
  ASSUME IInv, NEW fd \in Fds, Close(fd)
  PROVE  IInv'
  <1> DEFINE w1 == IF "read" \in Dirs THEN Unwatched(Lists, "read", fd) ELSE Lists
             w2 == IF "write" \in Dirs THEN Unwatched(w1, "write", fd) ELSE w1
             w3 == IF "except" \in Dirs THEN Unwatched(w2, "except", fd) ELSE w2
             Of(D) == \A x \in D : x[2] = fd
  <1>1. PICK D1 : Less(w1, Lists, D1) /\ Of(D1)
    <2>1. Less(Lists, Lists, {}) /\ Of({})
      BY LessNothing
    <2>2. CASE "read" \in Dirs
      <3>1. Less(w1, Lists, {} \cup {<<"read", fd>>})
        BY <2>1, <2>2, LessOne
      <3> QED
        BY <3>1
    <2> QED
      BY <2>1, <2>2
  <1> HIDE DEF w1
  <1>2. PICK D2 : Less(w2, Lists, D2) /\ Of(D2)
    <2>1. CASE "write" \in Dirs
      <3>1. Less(w2, Lists, D1 \cup {<<"write", fd>>})
        BY <1>1, <2>1, LessOne
      <3> QED
        BY <1>1, <3>1
    <2> QED
      BY <1>1, <2>1
  <1> HIDE DEF w2
  <1>3. PICK D : Less(w3, Lists, D) /\ Of(D)
    <2>1. CASE "except" \in Dirs
      <3>1. Less(w3, Lists, D2 \cup {<<"except", fd>>})
        BY <1>2, <2>1, LessOne
      <3> QED
        BY <1>2, <3>1
    <2> QED
      BY <1>2, <2>1
  <1>4. Become(w3)
    BY Zenon DEF Close, w1, w2
  <1> HIDE DEF w3
  <1>5. Lose(D)
    BY <1>3, <1>4, LoseLess
  <1>6. /\ Woken(Dirs, fd) \in [Tasks -> {Idle} \cup Waits]
        /\ \A t \in Tasks :
             /\ Woken(Dirs, fd)[t].st = "waiting" =>
                  Woken(Dirs, fd)[t] = task[t] /\ (task[t].fd = fd => task[t].rw \notin Dirs)
             /\ \A r \in Dirs, x \in Fds : Wait(Woken(Dirs, fd)[t], r, x) <=> Wait(task[t], r, x)
    <2>1. TaskTyped /\ Dirs \in SUBSET Dirs
      BY DEF IInv, Typed, TaskTyped
    <2> QED
      BY <2>1, WokenSound, Zenon
  <1>7. task' = Woken(Dirs, fd) /\ open' = open \ {fd} /\ UNCHANGED <<loop, orphans, count>>
    BY Zenon DEF Close
  <1>8. Typed'
    <2>1. TaskTyped'
      BY <1>6, <1>7, Zenon DEF TaskTyped
    <2> QED
      BY <1>5, <1>7, <2>1, TypedStep, Zenon DEF Lose, IInv, Typed
  <1>9. Leave(D)
    <2>1. \A t \in Tasks, r \in Dirs, x \in Fds : Wait(task'[t], r, x) <=> Wait(task[t], r, x)
      BY <1>6, <1>7, Zenon
    <2>2. \A r \in Dirs, x \in Fds : x \in open' => <<r, x>> \notin D
      BY <1>3, <1>7
    <2>3. ASSUME NEW t \in Tasks, task'[t].st = "waiting"
          PROVE  task'[t] = task[t] /\ task[t].fd \in open'
      <3>1. task'[t] = task[t] /\ (task[t].fd = fd => task[t].rw \notin Dirs)
        BY <1>6, <1>7, <2>3, Zenon
      <3>2. task[t].fd \in open /\ task[t].rw \in Dirs
        BY <2>3, <3>1, WaitsTyped, WaitingOpen, Zenon
      <3> QED
        BY <1>7, <3>1, <3>2, Zenon
    <2> QED
      BY <1>7, <2>1, <2>2, <2>3, Zenon DEF Leave
  <1> QED
    BY <1>5, <1>8, <1>9, ShrinkStep, Zenon

LEMMA SelectKeeps ==
  ASSUME IInv, Select
  PROVE  IInv'
  <1>1. Lose({})
    BY LoseNothing DEF Select
  <1>2. loop' \in Loops /\ loop'.at = "notify"
    BY DEF Select, Loops, Notifying
  <1>3. Typed'
    BY <1>1, <1>2, TypedStep DEF Lose, Select, IInv, Typed, TaskTyped
  <1>4. Leave({})
    BY <1>2, WaitingOpen DEF Leave, Select
  <1> QED
    BY <1>1, <1>3, <1>4, ShrinkStep

LEMMA NotifyKeeps ==
  ASSUME IInv, NEW rw \in Dirs, NEW fd \in Fds, Notify(rw, fd)
  PROVE  IInv'
  <1>1. Lose({})
    BY LoseNothing, Zenon DEF Notify
  <1>2. loop.left \ {<<rw, fd>>} \in SUBSET (Dirs \X Fds)
    BY DEF Notify, IInv, Typed, Loops, Running
  <1>3. /\ TaskTyped' /\ loop' \in Loops /\ loop'.at # "call"
        /\ \A t \in Tasks :
             /\ task'[t].st = "waiting" => task'[t] = task[t]
             /\ \A r \in Dirs, x \in Fds : Wait(task'[t], r, x) <=> Wait(task[t], r, x)
    BY <1>2, SignalSound, Zenon DEF Notify
  <1>4. Typed'
    BY <1>1, <1>3, TypedStep, Zenon DEF Lose, Notify, IInv, Typed
  <1>5. Leave({})
    BY <1>3, WaitingOpen, Zenon DEF Leave, Notify
  <1> QED
    BY <1>1, <1>4, <1>5, ShrinkStep, Zenon

LEMMA CallKeeps ==
  ASSUME IInv, NEW rw \in Dirs, NEW fd \in Fds, Call(rw, fd)
  PROVE  IInv'
  <1>1. Lose({})
    BY LoseNothing, Zenon DEF Call
  <1>2. loop' \in Loops /\ loop'.rw = rw /\ loop'.fd = fd
    BY DEF Call, IInv, Typed, Loops, Running
  <1>3. Typed'
    BY <1>1, <1>2, TypedStep, Zenon DEF Lose, Call, IInv, Typed, TaskTyped
  <1>4. Leave({})
    BY <1>2, WaitingOpen, Zenon DEF Leave, Call
  <1> QED
    BY <1>1, <1>3, <1>4, ShrinkStep

LEMMA ReturnKeeps ==
  ASSUME IInv, NEW again \in BOOLEAN, Return(again)
  PROVE  IInv'
  <1> DEFINE rw == loop.rw
             fd == loop.fd
             D == IF again THEN {} ELSE {<<rw, fd>>}
  <1>1. rw \in Dirs /\ fd \in Fds /\ loop.left \in SUBSET (Dirs \X Fds)
    BY DEF Return, IInv, Typed, Loops, Running
  <1>2. Lose(D)
    <2>1. CASE again
      <3>1. Become(Lists)
        BY <2>1 DEF Return
      <3>2. UNCHANGED <<list, index, func>>
        BY <3>1, ListsTyped, Zenon DEF Become
      <3> QED
        BY <2>1, <3>2, LoseNothing, Zenon
    <2>2. CASE ~ again
      BY <1>1, <2>2, LoseOne, Zenon DEF Return
    <2> QED
      BY <2>1, <2>2, Zenon
  <1>3. /\ TaskTyped' /\ loop' \in Loops /\ loop'.at # "call"
        /\ \A t \in Tasks :
             /\ task'[t].st = "waiting" => task'[t] = task[t]
             /\ \A r \in Dirs, x \in Fds : Wait(task'[t], r, x) <=> Wait(task[t], r, x)
    BY <1>1, SignalSound, Zenon DEF Return
  <1>4. Typed'
    BY <1>2, <1>3, TypedStep, Zenon DEF Lose, Return, IInv, Typed
  <1>5. Leave(D)
    <2>1. \A t \in Tasks : Wait(task[t], rw, fd) => fd \notin open
      BY DEF IInv, OneUser, Return
    <2>2. \A t \in Tasks, r \in Dirs, x \in Fds : Wait(task[t], r, x) /\ x \in open => <<r, x>> \notin D
      BY <2>1, Zenon
    <2> HIDE DEF D, rw, fd
    <2> QED
      BY <1>3, <2>2, WaitingOpen, Zenon DEF Leave, Return
  <1> QED
    BY <1>2, <1>4, <1>5, ShrinkStep, Zenon

-----------------------------------------------------------------------------
\* What is watched anew, by a task or with a function.
LEMMA GrowStep ==
  ASSUME IInv, NEW rw \in Dirs, NEW fd \in open, NEW f \in BOOLEAN,
         index[rw][fd] = 0, Become(Added(Lists, rw, fd, f))
  PROVE  /\ Lists' \in WatchLists /\ Indexed(Lists') /\ fd \in Fds
         /\ index'[rw][fd] # 0 /\ func'[rw][fd] = f
         /\ \A r \in Dirs, x \in Fds : <<r, x>> # <<rw, fd>> =>
              index'[r][x] = index[r][x] /\ func'[r][x] = func[r][x]
         /\ \A t \in Tasks : ~ Wait(task[t], rw, fd)
  <1> DEFINE v == Added(Lists, rw, fd, f)
  <1>1. fd \in Fds
    BY Zenon DEF IInv, Typed
  <1>2. /\ v \in WatchLists /\ Indexed(v)
        /\ v.index[rw][fd] # 0 /\ v.func[rw][fd] = f
        /\ \A r \in Dirs, x \in Fds : <<r, x>> # <<rw, fd>> =>
             v.index[r][x] = Lists.index[r][x] /\ v.func[r][x] = Lists.func[r][x]
    BY <1>1, ListsTyped, AddedSound
  <1> HIDE DEF v
  <1>3. Lists' = v /\ index' = v.index /\ func' = v.func
    BY <1>2, BecomeIs, Zenon DEF v, Become
  <1>4. Lists.index = index /\ Lists.func = func
    BY ListsTyped
  <1>5. \A t \in Tasks : ~ Wait(task[t], rw, fd)
    BY Zenon DEF IInv, OneUser
  <1> QED
    BY <1>1, <1>2, <1>3, <1>4, <1>5, Zenon

LEMMA WhenFdKeeps ==
  ASSUME IInv, NEW rw \in Dirs, NEW fd \in Fds, WhenFd(rw, fd), MaxWatch \in Nat
  PROVE  IInv'
  <1>1. fd \in open /\ index[rw][fd] = 0 /\ Become(Added(Lists, rw, fd, TRUE)) /\ count < MaxWatch
        /\ count' = count + 1 /\ UNCHANGED <<task, open, loop, orphans>>
    BY Zenon DEF WhenFd
  <1>2. /\ Lists' \in WatchLists /\ Indexed(Lists')
        /\ index'[rw][fd] # 0 /\ func'[rw][fd]
        /\ \A r \in Dirs, x \in Fds : <<r, x>> # <<rw, fd>> =>
             index'[r][x] = index[r][x] /\ func'[r][x] = func[r][x]
        /\ \A t \in Tasks : ~ Wait(task[t], rw, fd)
    BY <1>1, GrowStep, Zenon
  <1>3. Typed'
    BY <1>1, <1>2 DEF IInv, Typed
  <1>4. OneUser'
    <2>1. \A t \in Tasks, r \in Dirs, x \in open : Wait(task[t], r, x) =>
            x \in Fds /\ <<r, x>> # <<rw, fd>> /\ index[r][x] # 0 /\ ~ func[r][x]
      BY <1>2 DEF IInv, Typed, OneUser
    <2>2. \A t \in Tasks, r \in Dirs, x \in open : Wait(task[t], r, x) => index'[r][x] # 0 /\ ~ func'[r][x]
      BY <1>2, <2>1
    <2>3. \A r \in Dirs, x \in Fds : func'[r][x] => index'[r][x] # 0
      <3>1. ASSUME NEW r \in Dirs, NEW x \in Fds, func'[r][x] PROVE index'[r][x] # 0
        <4>1. CASE <<r, x>> = <<rw, fd>>
          BY <1>2, <4>1
        <4>2. CASE <<r, x>> # <<rw, fd>>
          BY <1>2, <3>1, <4>2, Zenon DEF IInv, OneUser
        <4> QED
          BY <4>1, <4>2, Zenon
      <3> QED
        BY <3>1, Zenon
    <2> QED
      BY <1>1, <2>2, <2>3, Zenon DEF IInv, OneUser
  <1>5. WatchedIffWaited'
    <2>1. ASSUME NEW t \in Tasks, task[t].st = "waiting"
          PROVE  index'[task[t].rw][task[t].fd] # 0 /\ task[t].fd \in open
      <3>1. task[t].rw \in Dirs /\ task[t].fd \in Fds
        BY <2>1, WaitsTyped, Zenon
      <3>2. index[task[t].rw][task[t].fd] # 0 /\ task[t].fd \in open
        BY <2>1, Zenon DEF IInv, WatchedIffWaited
      <3> QED
        BY <1>2, <3>1, <3>2, Zenon
    <2>2. ASSUME NEW r \in Dirs, NEW x \in Fds, index'[r][x] # 0, <<r, x>> \notin orphans
          PROVE  func'[r][x] \/ \E t \in Tasks : WaitsFor(t, r, x)
      <3>1. CASE <<r, x>> = <<rw, fd>>
        BY <1>2, <3>1
      <3>2. CASE <<r, x>> # <<rw, fd>>
        BY <1>2, <2>2, <3>2, Zenon DEF IInv, WatchedIffWaited
      <3> QED
        BY <3>1, <3>2, Zenon
    <2> QED
      BY <1>1, <2>1, <2>2 DEF WatchedIffWaited, WaitsFor
  <1> QED
    BY <1>2, <1>3, <1>4, <1>5, Zenon DEF IInv

LEMMA WaitFdKeeps ==
  ASSUME IInv, NEW s \in Tasks, NEW rw \in Dirs, NEW fd \in Fds, WaitFd(s, rw, fd), MaxWatch \in Nat
  PROVE  IInv'
  <1>1. fd \in open /\ index[rw][fd] = 0 /\ Become(Added(Lists, rw, fd, FALSE)) /\ count < MaxWatch
        /\ count' = count + 1 /\ UNCHANGED <<open, loop, orphans>> /\ loop.at = "tasks" /\ task[s] = Idle
        /\ task' = [task EXCEPT ![s] = [st |-> "waiting", rw |-> rw, fd |-> fd]]
    BY Zenon DEF WaitFd, Blocked
  <1>2. /\ Lists' \in WatchLists /\ Indexed(Lists')
        /\ index'[rw][fd] # 0 /\ func'[rw][fd] = FALSE
        /\ \A r \in Dirs, x \in Fds : <<r, x>> # <<rw, fd>> =>
             index'[r][x] = index[r][x] /\ func'[r][x] = func[r][x]
        /\ \A t \in Tasks : ~ Wait(task[t], rw, fd)
    BY <1>1, GrowStep, Zenon
  <1>3. /\ task \in [Tasks -> {Idle} \cup Waits]
        /\ task'[s] = [st |-> "waiting", rw |-> rw, fd |-> fd]
        /\ \A t \in Tasks : t # s => task'[t] = task[t]
    BY <1>1, Zenon DEF IInv, Typed
  <1>4. Typed'
    <2>1. task' \in [Tasks -> {Idle} \cup Waits]
      BY <1>1, <1>3, Zenon DEF Waits
    <2> QED
      BY <1>1, <1>2, <2>1 DEF IInv, Typed
  <1>5. /\ \A r \in Dirs, x \in Fds : Wait(task'[s], r, x) <=> <<r, x>> = <<rw, fd>>
        /\ \A r \in Dirs, x \in Fds : ~ Wait(task[s], r, x)
    BY <1>1, <1>3 DEF Wait, Idle
  <1>6. OneUser'
    <2>1. \A t \in Tasks, r \in Dirs, x \in open : Wait(task[t], r, x) =>
            x \in Fds /\ <<r, x>> # <<rw, fd>> /\ index[r][x] # 0 /\ ~ func[r][x]
      BY <1>2, SMTT(30) DEF IInv, Typed, OneUser
    <2>2. ASSUME NEW t \in Tasks, NEW r \in Dirs, NEW x \in open, Wait(task'[t], r, x)
          PROVE  /\ index'[r][x] # 0 /\ ~ func'[r][x]
                 /\ \A u \in Tasks : Wait(task'[u], r, x) => t = u
      <3>1. x \in Fds
        BY DEF IInv, Typed
      <3>2. CASE t = s
        <4>1. r = rw /\ x = fd
          BY <1>5, <2>2, <3>1, <3>2, Zenon
        <4> QED
          BY <1>2, <1>3, <3>2, <4>1, Zenon
      <3>3. CASE t # s
        <4>1. Wait(task[t], r, x)
          BY <1>3, <2>2, <3>3, Zenon
        <4>2. <<r, x>> # <<rw, fd>> /\ index[r][x] # 0 /\ ~ func[r][x]
          BY <2>1, <4>1, Zenon
        <4>3. ASSUME NEW u \in Tasks, Wait(task'[u], r, x) PROVE t = u
          <5>1. u # s
            BY <1>5, <3>1, <4>2, <4>3, Zenon
          <5>2. Wait(task[u], r, x)
            BY <1>3, <4>3, <5>1, Zenon
          <5> QED
            BY <4>1, <5>2, Zenon DEF IInv, OneUser
        <4> QED
          BY <1>2, <3>1, <4>2, <4>3, Zenon
      <3> QED
        BY <3>2, <3>3
    <2>3. ASSUME NEW r \in Dirs, NEW x \in Fds, func'[r][x]
          PROVE  index'[r][x] # 0
      <3>1. CASE <<r, x>> = <<rw, fd>>
        BY <1>2, <3>1
      <3>2. CASE <<r, x>> # <<rw, fd>>
        BY <1>2, <2>3, <3>2, Zenon DEF IInv, OneUser
      <3> QED
        BY <3>1, <3>2, Zenon
    <2> QED
      BY <1>1, <2>2, <2>3 DEF OneUser
  <1>7. WatchedIffWaited'
    <2>1. ASSUME NEW t \in Tasks, task'[t].st = "waiting"
          PROVE  index'[task'[t].rw][task'[t].fd] # 0 /\ task'[t].fd \in open
      <3>1. CASE t = s
        BY <1>1, <1>2, <1>3, <3>1, Zenon
      <3>2. CASE t # s
        <4>1. task'[t] = task[t]
          BY <1>3, <3>2, Zenon
        <4>2. task[t].rw \in Dirs /\ task[t].fd \in Fds
          BY <2>1, <4>1, WaitsTyped, Zenon
        <4>3. index[task[t].rw][task[t].fd] # 0 /\ task[t].fd \in open
          BY <2>1, <4>1, Zenon DEF IInv, WatchedIffWaited
        <4> QED
          BY <1>2, <4>1, <4>2, <4>3
      <3> QED
        BY <3>1, <3>2, Zenon
    <2>2. ASSUME NEW r \in Dirs, NEW x \in Fds, index'[r][x] # 0, <<r, x>> \notin orphans
          PROVE  func'[r][x] \/ \E t \in Tasks : Wait(task'[t], r, x)
      <3>1. CASE <<r, x>> = <<rw, fd>>
        BY <1>5, <3>1
      <3>2. CASE <<r, x>> # <<rw, fd>>
        <4>1. func[r][x] \/ \E t \in Tasks : Wait(task[t], r, x)
          BY <1>2, <2>2, <3>2 DEF IInv, WatchedIffWaited, WaitsFor, Wait
        <4>2. \A t \in Tasks : Wait(task[t], r, x) => Wait(task'[t], r, x)
          BY <1>3, <1>5, Zenon
        <4> QED
          BY <1>2, <3>2, <4>1, <4>2, Zenon
      <3> QED
        BY <3>1, <3>2, Zenon
    <2> QED
      BY <1>1, <2>1, <2>2 DEF WatchedIffWaited, WaitsFor, Wait
  <1> QED
    BY <1>2, <1>4, <1>6, <1>7, Zenon DEF IInv

-----------------------------------------------------------------------------
LEMMA IInvInit ==
  ASSUME Init, MaxWatch \in Nat
  PROVE  IInv
  <1>1. /\ list \in [Dirs -> Seq(Fds)] /\ \A rw \in Dirs : list[rw] = << >>
        /\ index \in [Dirs -> [Fds -> Nat]] /\ \A rw \in Dirs, fd \in Fds : index[rw][fd] = 0
        /\ func \in [Dirs -> [Fds -> BOOLEAN]] /\ \A rw \in Dirs, fd \in Fds : ~ func[rw][fd]
        /\ task \in [Tasks -> {Idle}] /\ \A t \in Tasks : task[t] = Idle
    BY DEF Init
  <1>2. Lists \in WatchLists /\ Lists.list = list /\ Lists.index = index
    BY <1>1, Zenon DEF Lists, WatchLists
  <1>3. Typed
    BY <1>1, <1>2 DEF Init, Typed, Loops
  <1>4. Indexed(Lists)
    BY <1>1, <1>2 DEF Indexed
  <1>5. OneUser
    BY <1>1, Zenon DEF Init, OneUser, Wait, Idle, Running
  <1>6. WatchedIffWaited
    BY <1>1 DEF WatchedIffWaited, Idle
  <1> QED
    BY <1>3, <1>4, <1>5, <1>6, Zenon DEF IInv

LEMMA IInvNext ==
  ASSUME IInv, [Next]_vars, MaxWatch \in Nat
  PROVE  IInv'
  <1>1. ASSUME NEW t \in Tasks, NEW rw \in Dirs, NEW fd \in Fds, WaitFd(t, rw, fd) PROVE IInv'
    BY <1>1, WaitFdKeeps, Zenon
  <1>2. ASSUME NEW t \in Tasks, Resume(t) \/ TimeOut(t) \/ Kill(t) PROVE IInv'
    BY <1>2, ResumeKeeps, TimeOutKeeps, KillKeeps, Zenon
  <1>3. ASSUME NEW rw \in Dirs, NEW fd \in Fds,
               WhenFd(rw, fd) \/ WhenFdNil(rw, fd) \/ Notify(rw, fd) \/ Call(rw, fd)
        PROVE  IInv'
    BY <1>3, WhenFdKeeps, WhenFdNilKeeps, NotifyKeeps, CallKeeps, Zenon
  <1>4. ASSUME NEW fd \in Fds, Close(fd) PROVE IInv'
    BY <1>4, CloseKeeps, Zenon
  <1>5. CASE Select
    BY <1>5, SelectKeeps, Zenon
  <1>6. ASSUME NEW again \in BOOLEAN, Return(again) PROVE IInv'
    BY <1>6, ReturnKeeps, Zenon
  <1>7. CASE UNCHANGED vars
    <2>1. UNCHANGED <<list, index, func>> /\ UNCHANGED <<task, open, loop, orphans, count>>
      BY <1>7 DEF vars
    <2>2. Lose({})
      BY <2>1, LoseNothing
    <2>3. Typed'
      BY <2>1, <2>2 DEF Lose, IInv, Typed
    <2>4. Leave({})
      BY <2>1, WaitingOpen DEF Leave
    <2> QED
      BY <2>2, <2>3, <2>4, ShrinkStep
  <1> QED
    BY <1>1, <1>2, <1>3, <1>4, <1>5, <1>6, <1>7, Zenon DEF Next

INSTANCE FiniteSetTheorems

\* A list holds a descriptor once at most.
LEMMA ListBound ==
  ASSUME NEW w \in WatchLists, Indexed(w), NEW rw \in Dirs, IsFiniteSet(Fds)
  PROVE  Len(w.list[rw]) <= Cardinality(Fds)
  <1> DEFINE l == w.list[rw]
  <1>1. l \in Seq(Fds) /\ Len(l) \in Nat /\ l \in [1 .. Len(l) -> Fds]
    BY DEF WatchLists
  <1>2. l \in Injection(1 .. Len(l), Fds)
    <2>1. \A i, j \in 1 .. Len(l) : l[i] = l[j] => i = j
      BY DEF Indexed
    <2> QED
      BY <1>1, <2>1 DEF Injection, IsInjective
  <1>3. Cardinality(1 .. Len(l)) <= Cardinality(Fds)
    BY <1>2, FS_Injection
  <1>4. Cardinality(1 .. Len(l)) = Len(l)
    BY <1>1, FS_Interval
  <1> QED
    BY <1>3, <1>4

LEMMA IInvWatched ==
  ASSUME IInv, IsFiniteSet(Fds)
  PROVE  WatchedIsWaited
  <1> DEFINE N == Cardinality(Fds)
  <1>1. /\ list \in [Dirs -> Seq(Fds)] /\ index \in [Dirs -> [Fds -> Nat]] /\ func \in [Dirs -> [Fds -> BOOLEAN]]
        /\ Lists.list = list /\ Lists.index = index
    BY ListsTyped DEF WatchLists
  <1>2. N \in Nat
    BY FS_CardinalityType
  <1>3. \A rw \in Dirs : Len(list[rw]) \in Nat /\ Len(list[rw]) <= N
    BY <1>1, ListsTyped, ListBound
  <1>4. \A rw \in Dirs, fd \in Fds : index[rw][fd] # 0 =>
          index[rw][fd] \in 1 .. Len(list[rw]) /\ list[rw][index[rw][fd]] = fd
    BY <1>1, ListsTyped DEF Indexed
  <1>5. \A rw \in Dirs : \A i \in 1 .. Len(list[rw]) : index[rw][list[rw][i]] = i
    BY <1>1, ListsTyped DEF Indexed
  <1>6. \A rw \in Dirs, fd \in Fds : index[rw][fd] \in 0 .. N
    BY <1>1, <1>2, <1>3, <1>4
  <1>7. TypeOK
    <2>1. index \in [Dirs -> [Fds -> 0 .. N]]
      BY <1>1, <1>6, Zenon
    <2>2. \A t \in Tasks : task[t] = Idle \/ task[t] \in [st : {"waiting", "woken"}, rw : Dirs, fd : Fds]
      BY DEF IInv, Typed, Waits
    <2> QED
      BY <1>1, <2>1, <2>2, Zenon DEF IInv, Typed, TypeOK
  <1>8. ASSUME NEW rw \in Dirs, NEW fd \in Fds, NEW i \in 1 .. N
        PROVE  (index[rw][fd] = i) <=> (i <= Len(list[rw]) /\ list[rw][i] = fd)
    <2>1. index[rw][fd] = i => i <= Len(list[rw]) /\ list[rw][i] = fd
      BY <1>2, <1>3, <1>4
    <2>2. ASSUME i <= Len(list[rw]), list[rw][i] = fd PROVE index[rw][fd] = i
      <3>1. i \in 1 .. Len(list[rw])
        BY <1>2, <1>3, <2>2
      <3> QED
        BY <1>5, <2>2, <3>1, Zenon
    <2> QED
      BY <2>1, <2>2, Zenon
  <1> QED
    BY <1>7, <1>8 DEF WatchedIsWaited, ListIsIndexed, IInv

\* With any tasks, directions and registrations, and finitely many descriptors,
\* the two halves of every watch list agree, a task blocked in wait_fd is in the
\* list that select() is given, for a descriptor still open, and nothing stays in
\* a list for nobody unless a task was killed in wait_fd.
THEOREM WatchedIsWaitedThm ==
  ASSUME IsFiniteSet(Fds), MaxWatch \in Nat
  PROVE  Spec => []WatchedIsWaited
  <1>1. Init => IInv
    BY IInvInit
  <1>2. IInv /\ [Next]_vars => IInv'
    BY IInvNext
  <1>3. IInv => WatchedIsWaited
    BY IInvWatched
  <1> QED
    BY <1>1, <1>2, <1>3, PTL DEF Spec
=============================================================================
