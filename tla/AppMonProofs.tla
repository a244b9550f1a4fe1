---------------------------- MODULE AppMonProofs ----------------------------
(***************************************************************************)
(* What the daemon of AppMon believes agrees with the processes, for any   *)
(* applications and pids, as long as the system does not give a remembered *)
(* pid again and no SIGCHLD comes in the last second of stop_app().        *)
(***************************************************************************)
EXTENDS AppMon, TLAPS

Listed == Range(apps)

\* A process with a pid the daemon remembers for an application runs that
\* application: find_by_pid() finds the right one.
OwnPid ==
  \A a \in Listed, p \in Pids : pid[a] = p /\ proc[p] # NoProc => proc[p].of = a

\* An application that is STARTED has its process.
StartedRuns ==
  \A a \in Listed \ missed : status[a] = "STARTED" => pid[a] \in Pids /\ proc[pid[a]] # NoProc

\* A process of a listed application is the one that was started last, and the
\* application is STARTED or being killed.
RunsStarted ==
  \A p \in Pids :
    proc[p] # NoProc /\ proc[p].of \in Listed
      => p = child \/ (status[proc[p].of] \in {"STARTED", "TO_BE_KILLED"} /\ p = pid[proc[p].of])

\* Until the autostarted application is recorded there is no other.
Booting ==
  /\ pc \in {"boot", "forked"} =>
       /\ Listed = Privileged
       /\ \A a \in Apps : status[a] = "KILLED" /\ pid[a] = NoPid
       /\ \A p \in Pids \ {child} : proc[p] = NoProc
  /\ pc = "forked" =>
       /\ cur \in Privileged /\ child \in Pids
       /\ IF proc[child] = NoProc THEN cur \in missed ELSE proc[child].of = cur
  /\ pc # "forked" => child = NoPid

\* stop_app() works on a listed application.
StopsListed ==
  pc \in {"stop", "timeleft", "waitpid"} => cur \in Listed /\ status[cur] \in {"TO_BE_KILLED", "KILLED"}

\* Handlers run where signals are delivered, and loops start at 1.
InHandler ==
  /\ sig = "none" \/ pc \in {"forked", "accept", "crippled"} \/ (pc = "timeleft" /\ sig = "chld")
  /\ sig = "alrm" => i > 0
  /\ pc = "clean" => k > 0

IInv == TypeOK /\ OwnPid /\ StartedRuns /\ RunsStarted /\ Booting /\ StopsListed /\ InHandler

-----------------------------------------------------------------------------
\* The list of applications.

\* Range() of a sequence has the values at its indices.
LEMMA RangeFacts ==
  ASSUME NEW S, NEW s \in Seq(S)
  PROVE  /\ Range(s) \subseteq S
         /\ \A x : x \in Range(s) <=> \E n \in 1..Len(s) : s[n] = x
         /\ \A n \in 1..Len(s) : s[n] \in Range(s)
BY DEF Range

\* PointerList_Append() of an application that is not in the list.
LEMMA AppendFacts ==
  ASSUME NEW S, NEW s \in Seq(S), IsInjective(s), NEW x \in S, x \notin Range(s)
  PROVE  /\ Append(s, x) \in Seq(S) /\ IsInjective(Append(s, x))
         /\ Range(Append(s, x)) = Range(s) \cup {x}
<1> DEFINE t == Append(s, x)
<1>1. t \in Seq(S) /\ Len(t) = Len(s) + 1 /\ Len(s) \in Nat
  OBVIOUS
<1>2. \A n \in 1..Len(t) : t[n] = IF n = Len(s) + 1 THEN x ELSE s[n]
  OBVIOUS
<1>3. \A n \in 1..Len(s) : s[n] # x
  BY RangeFacts
<1>4. DOMAIN s = 1..Len(s) /\ DOMAIN t = 1..Len(t)
  BY <1>1
<1>5. IsInjective(t)
  BY <1>1, <1>2, <1>3, <1>4 DEF IsInjective
<1>6. Range(t) = Range(s) \cup {x}
  BY <1>1, <1>2, <1>4 DEF Range
<1> QED
  BY <1>1, <1>5, <1>6

\* Two sequences, one after the other.
LEMMA ConcatFacts ==
  ASSUME NEW S, NEW u \in Seq(S), NEW v \in Seq(S)
  PROVE  /\ u \o v \in Seq(S) /\ Len(u \o v) = Len(u) + Len(v)
         /\ \A m \in 1..Len(u) : (u \o v)[m] = u[m]
         /\ \A m \in 1..Len(v) : (u \o v)[Len(u) + m] = v[m]
OBVIOUS

\* PointerList_Remove() takes out the one application at the index.
LEMMA RemoveFacts ==
  ASSUME NEW S, NEW s \in Seq(S), IsInjective(s), NEW n \in 1..Len(s)
  PROVE  LET t == SubSeq(s, 1, n - 1) \o SubSeq(s, n + 1, Len(s))
         IN  t \in Seq(S) /\ IsInjective(t) /\ Range(t) = Range(s) \ {s[n]}
<1> DEFINE u == SubSeq(s, 1, n - 1)
           v == SubSeq(s, n + 1, Len(s))
           t == u \o v
<1>1. Len(s) \in Nat /\ n \in Nat /\ n >= 1 /\ n <= Len(s)
  OBVIOUS
<1>2. u \in Seq(S) /\ Len(u) = n - 1 /\ \A m \in 1..(n - 1) : u[m] = s[m]
  BY <1>1
<1>3. v \in Seq(S) /\ Len(v) = Len(s) - n /\ \A m \in 1..(Len(s) - n) : v[m] = s[n + m]
  BY <1>1
<1> HIDE DEF u, v
<1>t. /\ t \in Seq(S) /\ Len(t) = Len(u) + Len(v)
      /\ \A m \in 1..Len(u) : t[m] = u[m]
      /\ \A m \in 1..Len(v) : t[Len(u) + m] = v[m]
  <2>1. u \in Seq(S) /\ v \in Seq(S)
    BY <1>2, <1>3
  <2> QED
    BY <2>1, ConcatFacts
<1> HIDE DEF t
<1>4. t \in Seq(S) /\ Len(t) = Len(s) - 1
  BY <1>1, <1>2, <1>3, <1>t
<1>5. \A m \in 1..Len(t) : t[m] = IF m < n THEN s[m] ELSE s[m + 1]
  <2> SUFFICES ASSUME NEW m \in 1..Len(t) PROVE t[m] = IF m < n THEN s[m] ELSE s[m + 1]
    OBVIOUS
  <2>1. CASE m < n
    BY <2>1, <1>1, <1>2, <1>t
  <2>2. CASE m >= n
    <3> DEFINE q == m - (n - 1)
    <3>1. q \in 1..(Len(s) - n) /\ n + q = m + 1 /\ Len(u) + q = m
      BY <2>2, <1>1, <1>2, <1>4
    <3> HIDE DEF q
    <3>2. t[m] = v[q] /\ v[q] = s[m + 1]
      BY <3>1, <1>3, <1>t, Zenon
    <3> QED
      BY <3>2, <2>2, <1>1
  <2> QED
    BY <2>1, <2>2, <1>1
<1>6. DOMAIN s = 1..Len(s) /\ DOMAIN t = 1..Len(t)
  BY <1>4
<1>7. IsInjective(t)
  <2> SUFFICES ASSUME NEW m \in 1..Len(t), NEW q \in 1..Len(t), t[m] = t[q] PROVE m = q
    BY <1>6 DEF IsInjective
  <2> DEFINE at(z) == IF z < n THEN z ELSE z + 1
  <2>1. at(m) \in 1..Len(s) /\ at(q) \in 1..Len(s) /\ (at(m) = at(q) => m = q)
    BY <1>1, <1>4
  <2>2. s[at(m)] = s[at(q)]
    BY <1>5
  <2> QED
    BY <2>1, <2>2, <1>6 DEF IsInjective
<1>8. Range(t) \subseteq Range(s) \ {s[n]}
  <2> SUFFICES ASSUME NEW m \in 1..Len(t) PROVE t[m] \in Range(s) /\ t[m] # s[n]
    BY <1>6, Zenon DEF Range
  <2> DEFINE at == IF m < n THEN m ELSE m + 1
  <2>1. at \in 1..Len(s) /\ at # n /\ n \in 1..Len(s)
    BY <1>1, <1>4
  <2>2. t[m] = s[at]
    BY <1>5
  <2> HIDE DEF at
  <2> QED
    BY <2>1, <2>2, <1>6, Zenon DEF IsInjective, Range
<1>9. Range(s) \ {s[n]} \subseteq Range(t)
  <2> SUFFICES ASSUME NEW m \in 1..Len(s), s[m] # s[n] PROVE s[m] \in Range(t)
    BY <1>6 DEF Range
  <2>1. CASE m < n
    BY <2>1, <1>1, <1>4, <1>5, <1>6 DEF Range
  <2>2. CASE m > n
    <3>1. m - 1 \in 1..Len(t) /\ ~(m - 1 < n) /\ (m - 1) + 1 = m
      BY <2>2, <1>1, <1>4
    <3>2. t[m - 1] = s[m]
      BY <3>1, <1>5
    <3> QED
      BY <3>1, <3>2, <1>6 DEF Range
  <2> QED
    BY <2>1, <2>2, <1>1
<1> QED
  BY <1>4, <1>7, <1>8, <1>9, Zenon DEF t, u, v

\* Min() of a set with one member.
LEMMA MinSingle ==
  ASSUME NEW n \in Nat
  PROVE  Min({n}) = n
BY DEF Min

-----------------------------------------------------------------------------
\* The processes.

\* A pid is free, or its process runs an application.
LEMMA ProcFacts ==
  ASSUME proc \in [Pids -> ProcType], NEW p \in Pids
  PROVE  /\ proc[p].st = "none" <=> proc[p] = NoProc
         /\ proc[p].st \in {"run", "zombie"} => proc[p] # NoProc
         /\ proc[p] # NoProc => proc[p].of \in Apps
BY DEF ProcType, NoProc

\* A step in which no process appears or is reaped.
Alike ==
  /\ proc' \in [Pids -> ProcType]
  /\ \A p \in Pids : proc'[p] = NoProc <=> proc[p] = NoProc
  /\ \A p \in Pids : proc[p] # NoProc => proc'[p].of = proc[p].of

\* A process changes its own record.
LEMMA OneAlike ==
  ASSUME proc \in [Pids -> ProcType], NEW p \in Pids, proc[p] # NoProc,
         NEW r \in ProcType, r # NoProc, r.of = proc[p].of,
         proc' = [proc EXCEPT ![p] = r]
  PROVE  Alike
BY DEF Alike

\* setpgrp() and killpg() keep what a process runs.
LEMMA RunRecord ==
  ASSUME proc \in [Pids -> ProcType], NEW p \in Pids, proc[p].st = "run"
  PROVE  /\ proc[p].sent \in SUBSET {"SIGTERM", "SIGKILL"}
         /\ \A s \in {"SIGTERM", "SIGKILL"} :
              LET r == [proc[p] EXCEPT !.sent = @ \cup {s}]
              IN  r \in ProcType /\ r # NoProc /\ r.of = proc[p].of
         /\ LET r == [proc[p] EXCEPT !.grp = TRUE]
            IN  r \in ProcType /\ r # NoProc /\ r.of = proc[p].of
<1>1. proc[p] \in [st : {"run"}, of : Apps, grp : BOOLEAN, sent : SUBSET {"SIGTERM", "SIGKILL"}]
  BY DEF ProcType, NoProc
<1>2. proc[p].sent \in SUBSET {"SIGTERM", "SIGKILL"}
  BY <1>1
<1>3. ASSUME NEW s \in {"SIGTERM", "SIGKILL"}
      PROVE  LET r == [proc[p] EXCEPT !.sent = @ \cup {s}]
             IN  r \in ProcType /\ r # NoProc /\ r.of = proc[p].of
  BY <1>1 DEF ProcType, NoProc
<1>4. LET r == [proc[p] EXCEPT !.grp = TRUE]
      IN  r \in ProcType /\ r # NoProc /\ r.of = proc[p].of
  BY <1>1, Zenon DEF ProcType, NoProc
<1> QED
  BY <1>2, <1>3, <1>4

\* killpg() only sends.
LEMMA KillPgAlike ==
  ASSUME proc \in [Pids -> ProcType], NEW p, NEW s \in {"SIGTERM", "SIGKILL"}, KillPg(p, s)
  PROVE  Alike
<1>1. CASE p \in Pids /\ proc[p].st = "run" /\ proc[p].grp
  <2> DEFINE r == [proc[p] EXCEPT !.sent = @ \cup {s}]
  <2>1. r \in ProcType /\ r # NoProc /\ r.of = proc[p].of
    BY <1>1, RunRecord, Zenon
  <2>2. proc' = [proc EXCEPT ![p] = r]
    BY <1>1 DEF KillPg
  <2>3. proc[p] # NoProc
    BY <1>1, ProcFacts
  <2> HIDE DEF r
  <2> QED
    BY <1>1, <2>1, <2>2, <2>3, OneAlike, Zenon
<1>2. CASE ~(p \in Pids /\ proc[p].st = "run" /\ proc[p].grp)
  BY <1>2 DEF KillPg, Alike
<1> QED
  BY <1>1, <1>2

LEMMA SetPgrpAlike ==
  ASSUME proc \in [Pids -> ProcType], NEW p \in Pids, SetPgrp(p)
  PROVE  Alike
<1> DEFINE r == [proc[p] EXCEPT !.grp = TRUE]
<1>1. proc[p].st = "run" /\ proc' = [proc EXCEPT ![p] = r]
  BY DEF SetPgrp
<1>2. r \in ProcType /\ r # NoProc /\ r.of = proc[p].of
  BY <1>1, RunRecord, Zenon
<1>3. proc[p] # NoProc
  BY <1>1, ProcFacts
<1> HIDE DEF r
<1> QED
  BY <1>1, <1>2, <1>3, OneAlike, Zenon

LEMMA ExitAlike ==
  ASSUME proc \in [Pids -> ProcType], NEW p \in Pids, NEW end \in Endings, Exit(p, end)
  PROVE  Alike
<1> DEFINE r == [st |-> "zombie", of |-> proc[p].of, end |-> end]
<1>1. proc[p].st = "run" /\ proc' = [proc EXCEPT ![p] = r]
  BY DEF Exit
<1>2. proc[p] # NoProc /\ proc[p].of \in Apps
  BY <1>1, ProcFacts
<1>3. r \in ProcType /\ r # NoProc /\ r.of = proc[p].of
  BY <1>2 DEF ProcType, NoProc
<1> HIDE DEF r
<1> QED
  BY <1>1, <1>2, <1>3, OneAlike, Zenon

-----------------------------------------------------------------------------
\* Every action preserves IInv.

\* The kernel: no process appears or is reaped.
LEMMA KernelStep ==
  ASSUME IInv, Kernel
  PROVE  IInv'
<1>1. proc \in [Pids -> ProcType]
  BY DEF IInv, TypeOK
<1>2. Alike
  <2>1. CASE AlarmRings
    BY <2>1, <1>1 DEF AlarmRings, Alike
  <2>2. ASSUME NEW p \in Pids, SetPgrp(p) PROVE Alike
    BY <2>2, <1>1, SetPgrpAlike
  <2>3. ASSUME NEW p \in Pids, NEW end \in Endings, Exit(p, end) PROVE Alike
    BY <2>3, <1>1, ExitAlike
  <2> QED
    BY <2>1, <2>2, <2>3 DEF Kernel
<1>3. /\ UNCHANGED <<apps, pid, status, missed, sig, i, size, k, pc, cur, killing, after, child>>
      /\ chld' \in BOOLEAN /\ alarmed' \in BOOLEAN /\ alrm' \in BOOLEAN
  BY Zenon DEF IInv, TypeOK, Kernel, AlarmRings, SetPgrp, Exit, clocks, loops, stopping
<1>4. TypeOK'
  BY <1>2, <1>3 DEF IInv, TypeOK, Alike
<1>5. (OwnPid /\ StartedRuns /\ RunsStarted)'
  BY <1>2, <1>3 DEF IInv, TypeOK, OwnPid, StartedRuns, RunsStarted, Listed, Alike
<1>6. (Booting /\ StopsListed /\ InHandler)'
  BY <1>2, <1>3 DEF IInv, TypeOK, Booting, StopsListed, InHandler, Listed, Alike
<1> QED
  BY <1>4, <1>5, <1>6 DEF IInv

\* find_by_pid(p), for a process that is not reaped: the application it runs, if
\* the daemon remembers p for it.
LEMMA FindFacts ==
  ASSUME IInv, NEW p \in Pids, proc[p] # NoProc
  PROVE  \/ FindByPid(p) = 0 /\ \A a \in Listed : pid[a] # p
         \/ /\ FindByPid(p) \in 1..Len(apps)
            /\ apps[FindByPid(p)] = proc[p].of
            /\ proc[p].of \in Listed /\ pid[proc[p].of] = p
<1> DEFINE I == {m \in DOMAIN apps : pid[apps[m]] = p}
<1>1. apps \in Seq(Apps) /\ IsInjective(apps)
  BY DEF IInv, TypeOK
<1>2. FindByPid(p) = IF I # {} THEN Min(I) ELSE 0
  BY DEF FindByPid
<1>3. Len(apps) \in Nat /\ DOMAIN apps = 1..Len(apps)
  BY <1>1
<1>4. \A m \in 1..Len(apps) : apps[m] \in Listed
  BY <1>1, RangeFacts DEF Listed
<1>5. CASE I = {}
  <2>1. \A a \in Listed : pid[a] # p
    BY <1>5 DEF Listed, Range
  <2> QED
    BY <2>1, <1>2, <1>5
<1>6. CASE I # {}
  <2>1. PICK n \in 1..Len(apps) : pid[apps[n]] = p
    BY <1>3, <1>6
  <2>2. \A m \in I : apps[m] = proc[p].of
    BY <1>3, <1>4 DEF IInv, OwnPid
  <2>3. I = {n}
    BY <2>1, <2>2, <1>1, <1>3 DEF IsInjective
  <2>4. FindByPid(p) = n
    BY <2>3, <1>2, <1>3, MinSingle
  <2> QED
    BY <2>1, <2>2, <2>4, <1>4
<1> QED
  BY <1>5, <1>6

\* SIGCHLD_handler reaps p: only the application it ran changes.
LEMMA ReapFacts ==
  ASSUME IInv, NEW p \in Pids, Reap(p)
  PROVE  LET a == proc[p].of
         IN  /\ proc[p] # NoProc /\ a \in Apps
             /\ proc' = [proc EXCEPT ![p] = NoProc]
             /\ \/ UNCHANGED status /\ \A b \in Listed : pid[b] # p
                \/ /\ a \in Listed /\ pid[a] = p
                   /\ \E st \in Statuses :
                        /\ status' = [status EXCEPT ![a] = st]
                        /\ st # "STARTED"
                        /\ status[a] = "TO_BE_KILLED" => st = "KILLED"
             /\ missed' = IF p = child THEN missed \cup {cur} ELSE missed
             /\ alarmed' \in BOOLEAN
             /\ UNCHANGED <<apps, pid, chld, alrm, sig, i, size, k, pc, cur, killing, after, child>>
<1> DEFINE a == proc[p].of
           n == FindByPid(p)
<1>1. proc[p].st = "zombie" /\ proc' = [proc EXCEPT ![p] = NoProc]
  BY DEF Reap
<1>2. proc[p] # NoProc /\ a \in Apps
  BY <1>1, ProcFacts DEF IInv, TypeOK
<1>3. /\ missed' = IF p = child THEN missed \cup {cur} ELSE missed
      /\ UNCHANGED <<apps, pid, chld, alrm, sig, i, size, k, pc, cur, killing, after, child>>
  BY DEF Reap, loops, stopping
<1>4. \/ n = 0 /\ \A b \in Listed : pid[b] # p
      \/ n \in 1..Len(apps) /\ apps[n] = a /\ a \in Listed /\ pid[a] = p
  BY <1>2, FindFacts, Zenon
<1>5. CASE n = 0 /\ \A b \in Listed : pid[b] # p
  BY <1>1, <1>2, <1>3, <1>5, Zenon DEF Reap, IInv, TypeOK
<1>6. CASE n \in 1..Len(apps) /\ apps[n] = a /\ a \in Listed /\ pid[a] = p
  <2> DEFINE end == proc[p].end
             stopped == status[a] = "TO_BE_KILLED" \/ (status[a] = "STARTED" /\ end = "ok")
             restart == ~stopped /\ end # "ok"
             st == IF stopped THEN "KILLED" ELSE IF restart THEN "TO_BE_RESTARTED" ELSE status[a]
  <2>1. n # 0
    BY <1>6
  <2>2. status' = [status EXCEPT ![a] = st] /\ alarmed' = (alarmed \/ restart)
    BY <1>6, <2>1 DEF Reap
  <2>3. st \in Statuses /\ st # "STARTED" /\ (status[a] = "TO_BE_KILLED" => st = "KILLED")
    BY <1>2 DEF IInv, TypeOK, Statuses
  <2>4. alarmed' \in BOOLEAN
    BY <2>2
  <2> HIDE DEF st
  <2> QED
    BY <1>1, <1>2, <1>3, <1>6, <2>2, <2>3, <2>4, Zenon
<1> QED
  BY <1>4, <1>5, <1>6

LEMMA ReapStep ==
  ASSUME IInv, NEW p \in Pids, Reap(p)
  PROVE  IInv'
<1> DEFINE a == proc[p].of
<1>1. proc[p] # NoProc /\ a \in Apps /\ proc' = [proc EXCEPT ![p] = NoProc]
  BY ReapFacts
<1>2. \/ UNCHANGED status /\ \A b \in Listed : pid[b] # p
      \/ /\ a \in Listed /\ pid[a] = p
         /\ \E st \in Statuses :
              /\ status' = [status EXCEPT ![a] = st]
              /\ st # "STARTED"
              /\ status[a] = "TO_BE_KILLED" => st = "KILLED"
  BY ReapFacts, Zenon
<1>3. /\ missed' = IF p = child THEN missed \cup {cur} ELSE missed
      /\ alarmed' \in BOOLEAN
      /\ UNCHANGED <<apps, pid, chld, alrm, sig, i, size, k, pc, cur, killing, after, child>>
  BY ReapFacts
<1>4. sig = "chld"
  BY DEF Reap
<1>5. pc # "boot" /\ (pc # "forked" => child = NoPid)
  BY <1>4, Zenon DEF IInv, InHandler, Booting
<1>6. /\ proc'[p] = NoProc
      /\ \A q \in Pids \ {p} : proc'[q] = proc[q]
      /\ proc' \in [Pids -> ProcType]
  BY <1>1, Zenon DEF IInv, TypeOK, ProcType
<1>7. TypeOK'
  BY <1>2, <1>3, <1>6, ZenonT(40) DEF IInv, TypeOK
<1>8. OwnPid'
  BY <1>3, <1>6 DEF IInv, OwnPid, Listed
<1>9. StartedRuns'
  <2> SUFFICES ASSUME NEW b \in Listed', b \notin missed', status'[b] = "STARTED"
               PROVE  pid'[b] \in Pids /\ proc'[pid'[b]] # NoProc
    BY Zenon DEF StartedRuns
  <2>1. b \in Listed /\ b \in Apps /\ b \notin missed
    BY <1>3, RangeFacts, Zenon DEF Listed, IInv, TypeOK
  <2>2. status[b] = "STARTED" /\ (pid[b] = p => FALSE)
    <3>1. pid[b] = p => b = a
      BY <2>1, <1>1, Zenon DEF IInv, OwnPid
    <3> QED
      BY <3>1, <2>1, <1>1, <1>2 DEF IInv, TypeOK
  <2> QED
    BY <2>1, <2>2, <1>3, <1>6 DEF IInv, StartedRuns
<1>10. RunsStarted'
  <2> SUFFICES ASSUME NEW q \in Pids, proc'[q] # NoProc, proc'[q].of \in Listed'
               PROVE  \/ q = child'
                      \/ status'[proc'[q].of] \in {"STARTED", "TO_BE_KILLED"} /\ q = pid'[proc'[q].of]
    BY DEF RunsStarted
  <2>1. q # p /\ proc'[q] = proc[q] /\ proc[q].of \in Listed
    BY <1>3, <1>6, Zenon DEF Listed
  <2>2. CASE q = child
    BY <2>2, <1>3, Zenon
  <2>3. CASE status[proc[q].of] \in {"STARTED", "TO_BE_KILLED"} /\ q = pid[proc[q].of]
    <3>1. proc[q].of \in Apps /\ (pid[a] = p => proc[q].of # a)
      BY <2>1, <2>3, RangeFacts DEF IInv, TypeOK, Listed
    <3>2. status'[proc[q].of] = status[proc[q].of]
      BY <3>1, <1>2 DEF IInv, TypeOK
    <3> QED
      BY <2>1, <2>3, <3>2, <1>3, Zenon
  <2> QED
    BY <2>1, <2>2, <2>3, Zenon DEF IInv, RunsStarted
<1>11. Booting'
  <2>1. CASE pc = "forked"
    <3>1. /\ Listed = Privileged
          /\ \A b \in Apps : status[b] = "KILLED" /\ pid[b] = NoPid
          /\ \A q \in Pids \ {child} : proc[q] = NoProc
          /\ cur \in Privileged /\ child \in Pids
      BY <2>1 DEF IInv, Booting
    <3>2. p = child
      BY <3>1, <1>1, Zenon
    <3>3. UNCHANGED status
      BY <3>1, <1>1, <1>2, AppMonAssumption, Zenon
    <3> QED
      BY <2>1, <3>1, <3>2, <3>3, <1>3, <1>6, Zenon DEF Booting, Listed
  <2>2. CASE pc # "forked"
    BY <2>2, <1>3, <1>5, Zenon DEF Booting
  <2> QED
    BY <2>1, <2>2, Zenon
<1>12. StopsListed'
  <2> SUFFICES ASSUME pc \in {"stop", "timeleft", "waitpid"}
               PROVE  cur \in Listed /\ status'[cur] \in {"TO_BE_KILLED", "KILLED"}
    BY <1>3, Zenon DEF StopsListed, Listed
  <2>1. cur \in Listed /\ cur \in Apps /\ status[cur] \in {"TO_BE_KILLED", "KILLED"} /\ child = NoPid
    BY <1>5, Zenon DEF IInv, StopsListed, TypeOK
  <2>2. a = cur => status[cur] = "TO_BE_KILLED"
    BY <2>1, <1>1, AppMonAssumption DEF IInv, RunsStarted
  <2> QED
    BY <2>1, <2>2, <1>1, <1>2 DEF IInv, TypeOK
<1>13. InHandler'
  BY <1>3 DEF IInv, InHandler
<1> QED
  BY <1>7, <1>8, <1>9, <1>10, <1>11, <1>12, <1>13, Zenon DEF IInv

\* Steps that only move the control between the handlers and the main program.
LEMMA ControlStep ==
  ASSUME IInv, ChldHandler \/ ChldReturn \/ AlrmHandler \/ AlrmReturn \/ StopGetsChld
               \/ Cripple \/ Destroy
  PROVE  IInv'
<1> USE DEF clocks, loops, stopping
<1>1. UNCHANGED <<apps, pid, status, missed, proc, cur, child>>
  BY Zenon DEF ChldHandler, ChldReturn, AlrmHandler, AlrmReturn, StopGetsChld, Cripple, Destroy
<1>2. Len(apps) \in Nat
  BY DEF IInv, TypeOK
<1>3. TypeOK'
  <2>1. UNCHANGED <<killing, after>>
    BY Zenon DEF ChldHandler, ChldReturn, AlrmHandler, AlrmReturn, StopGetsChld, Cripple, Destroy
  <2>2. chld' \in BOOLEAN /\ alarmed' \in BOOLEAN /\ alrm' \in BOOLEAN /\ sig' \in {"none", "chld", "alrm"}
    BY Zenon DEF IInv, TypeOK, ChldHandler, ChldReturn, AlrmHandler, AlrmReturn, StopGetsChld, Cripple, Destroy
  <2>3. i' \in Nat /\ size' \in Nat /\ k' \in Nat
    BY <1>2 DEF IInv, TypeOK, ChldHandler, ChldReturn, AlrmHandler, AlrmReturn, StopGetsChld, Cripple, Destroy
  <2>4. pc' \in {"forked", "accept", "crippled", "timeleft", "clean"} \/ pc' = pc
    BY DEF ChldHandler, ChldReturn, AlrmHandler, AlrmReturn, StopGetsChld, Cripple, Destroy
  <2> QED
    BY <1>1, <2>1, <2>2, <2>3, <2>4, ZenonT(40) DEF IInv, TypeOK
<1>4. (OwnPid /\ StartedRuns /\ RunsStarted)'
  BY <1>1, Zenon DEF IInv, OwnPid, StartedRuns, RunsStarted, Listed
<1>5. (Booting /\ StopsListed /\ InHandler)'
  BY <1>1 DEF IInv, TypeOK, Booting, StopsListed, InHandler, Listed, Unblocked,
              ChldHandler, ChldReturn, AlrmHandler, AlrmReturn, StopGetsChld, Cripple, Destroy
<1> QED
  BY <1>3, <1>4, <1>5, Zenon DEF IInv

\* start_app() of a listed application that has no process, when the system gives
\* no remembered pid again: the process is its only one.
LEMMA StartedBeliefs ==
  ASSUME IInv, ~PidReuse, NEW a \in Listed, NEW p \in Pids, Started(a, p),
         status[a] \notin {"STARTED", "TO_BE_KILLED"}, pc # "forked",
         UNCHANGED <<apps, cur, child>>
  PROVE  /\ pid' \in [Apps -> Pids \cup {NoPid}] /\ status' \in [Apps -> Statuses]
         /\ missed' \in SUBSET Apps /\ proc' \in [Pids -> ProcType]
         /\ (OwnPid /\ StartedRuns /\ RunsStarted)'
<1> DEFINE r == [st |-> "run", of |-> a, grp |-> FALSE, sent |-> {}]
<1>1. a \in Apps
  BY RangeFacts, Zenon DEF Listed, IInv, TypeOK
<1>2. r \in ProcType /\ r # NoProc /\ r.of = a
  BY <1>1, Zenon DEF ProcType, NoProc
<1>3. /\ proc' = [proc EXCEPT ![p] = r]
      /\ status' = [status EXCEPT ![a] = "STARTED"]
      /\ pid' = [pid EXCEPT ![a] = p]
      /\ missed' = missed \ {a}
      /\ \A b \in Listed \ {a} : pid[b] # p
  BY Zenon DEF Started, Fork, Listed
<1> HIDE DEF r
<1>4. /\ pid' \in [Apps -> Pids \cup {NoPid}] /\ status' \in [Apps -> Statuses]
      /\ missed' \in SUBSET Apps /\ proc' \in [Pids -> ProcType]
  BY <1>1, <1>2, <1>3, Zenon DEF IInv, TypeOK, Statuses
<1>5. /\ pid'[a] = p /\ status'[a] = "STARTED" /\ proc'[p] = r
      /\ \A b \in Apps \ {a} : pid'[b] = pid[b] /\ status'[b] = status[b]
      /\ \A q \in Pids \ {p} : proc'[q] = proc[q]
  BY <1>1, <1>3, Zenon DEF IInv, TypeOK
<1>6. Listed' = Listed /\ Listed \subseteq Apps
  BY RangeFacts, Zenon DEF Listed, IInv, TypeOK
<1>7. child = NoPid /\ NoPid \notin Pids
  BY AppMonAssumption, Zenon DEF IInv, Booting
<1>8. \A q \in Pids : proc[q] # NoProc => proc[q].of # a
  BY <1>7, Zenon DEF IInv, RunsStarted
<1>9. OwnPid'
  BY <1>2, <1>3, <1>5, <1>6 DEF IInv, OwnPid
<1>10. StartedRuns'
  BY <1>2, <1>3, <1>5, <1>6, SMTT(30) DEF IInv, StartedRuns
<1>11. RunsStarted'
  BY <1>2, <1>5, <1>6, <1>7, <1>8 DEF IInv, RunsStarted
<1> QED
  BY <1>4, <1>9, <1>10, <1>11, Zenon

\* The rest of IInv, when only the beliefs on applications change.
LEMMA RestKept ==
  ASSUME IInv, pc \notin {"boot", "forked", "stop", "timeleft", "waitpid"},
         UNCHANGED <<sig, pc, k, child>>, sig = "alrm" => i' > 0
  PROVE  (Booting /\ StopsListed /\ InHandler)'
BY Zenon DEF IInv, Booting, StopsListed, InHandler

\* One turn of the loop of SIGALRM_handler.
LEMMA RestartStep ==
  ASSUME IInv, ~PidReuse, Restart
  PROVE  IInv'
<1>1. /\ sig = "alrm" /\ i' = i + 1 /\ i \in Nat /\ i > 0
      /\ UNCHANGED <<chld, alarmed, alrm, sig, size, pc, cur, killing, after, child, k>>
  BY DEF Restart, clocks, stopping, IInv, TypeOK, InHandler
<1>2. pc \in {"forked", "accept", "crippled"}
  BY <1>1, Zenon DEF IInv, InHandler
<1>3. apps \in Seq(Apps) /\ IsInjective(apps) /\ Len(apps) \in Nat
  BY DEF IInv, TypeOK
<1>4. CASE UNCHANGED <<apps, pid, status, proc, missed>>
  <2>1. TypeOK'
    BY <1>1, <1>4 DEF IInv, TypeOK
  <2>2. (OwnPid /\ StartedRuns /\ RunsStarted)'
    BY <1>1, <1>4, Zenon DEF IInv, OwnPid, StartedRuns, RunsStarted, Listed
  <2>3. (Booting /\ StopsListed /\ InHandler)'
    BY <1>1, <1>4 DEF IInv, Booting, StopsListed, InHandler, Listed
  <2> QED
    BY <2>1, <2>2, <2>3, Zenon DEF IInv
<1>5. ASSUME i <= Len(apps), status[apps[i]] = "TO_BE_RESTARTED"
      PROVE  /\ apps[i] \in Listed /\ apps[i] \in Apps /\ i \in 1..Len(apps)
             /\ pc \notin {"boot", "forked", "stop", "timeleft", "waitpid"}
  <2>1. i \in 1..Len(apps)
    BY <1>1, <1>3, <1>5
  <2>2. apps[i] \in Listed /\ apps[i] \in Apps
    BY <2>1, <1>3, RangeFacts, Zenon DEF Listed
  <2>3. pc # "forked"
    BY <2>2, <1>5, Zenon DEF IInv, Booting
  <2> QED
    BY <2>1, <2>2, <2>3, <1>2, Zenon
<1>6. ASSUME NEW p \in Pids, i <= Len(apps), status[apps[i]] = "TO_BE_RESTARTED",
             Started(apps[i], p), UNCHANGED apps
      PROVE  IInv'
  <2>1. /\ pid' \in [Apps -> Pids \cup {NoPid}] /\ status' \in [Apps -> Statuses]
        /\ missed' \in SUBSET Apps /\ proc' \in [Pids -> ProcType]
        /\ (OwnPid /\ StartedRuns /\ RunsStarted)'
    BY <1>1, <1>5, <1>6, StartedBeliefs, Zenon
  <2>2. TypeOK'
    BY <1>1, <1>6, <2>1 DEF IInv, TypeOK
  <2>3. (Booting /\ StopsListed /\ InHandler)'
    BY <1>1, <1>5, <1>6, RestKept
  <2> QED
    BY <2>1, <2>2, <2>3, Zenon DEF IInv
<1>7. ASSUME i <= Len(apps), status[apps[i]] = "TO_BE_RESTARTED",
             apps' = PointerListRemove(i),
             missed' = IF i < Len(apps) THEN missed \cup {apps[i + 1]} ELSE missed,
             UNCHANGED <<pid, status, proc>>
      PROVE  IInv'
  <2>1. apps' \in Seq(Apps) /\ IsInjective(apps') /\ Listed' = Listed \ {apps[i]}
    BY <1>3, <1>5, <1>7, RemoveFacts, Zenon DEF Listed, PointerListRemove
  <2>2. i < Len(apps) => apps[i + 1] \in Apps
    BY <1>1, <1>3
  <2>3. missed' \in SUBSET Apps /\ missed \subseteq missed'
    BY <2>2, <1>7 DEF IInv, TypeOK
  <2>4. TypeOK'
    BY <1>1, <1>7, <2>1, <2>3 DEF IInv, TypeOK
  <2>5. (OwnPid /\ StartedRuns /\ RunsStarted)'
    BY <1>1, <1>7, <2>1, <2>3, Zenon DEF IInv, OwnPid, StartedRuns, RunsStarted
  <2>6. (Booting /\ StopsListed /\ InHandler)'
    BY <1>1, <1>5, <1>7, RestKept
  <2> QED
    BY <2>4, <2>5, <2>6 DEF IInv
<1> QED
  BY <1>4, <1>6, <1>7, Zenon DEF Restart

\* Commands on applications that do not wait: setup, start, and the stop and the
\* removal of an application that does not run.
LEMMA SetupStep ==
  ASSUME IInv, NEW a \in Apps, Setup(a)
  PROVE  IInv'
<1>1. /\ pc = "accept" /\ a \notin Listed
      /\ \A p \in Pids : proc[p] # NoProc => proc[p].of # a
      /\ apps' = Append(apps, a)
      /\ pid' = [pid EXCEPT ![a] = NoPid]
      /\ status' = [status EXCEPT ![a] = "KILLED"]
      /\ missed' = missed \ {a}
      /\ UNCHANGED <<proc, chld, alarmed, alrm, sig, i, size, k, pc, cur, killing, after, child>>
  BY Zenon DEF Setup, Listed, clocks, loops, stopping
<1>2. apps \in Seq(Apps) /\ IsInjective(apps) /\ Listed \subseteq Apps
  BY RangeFacts, Zenon DEF IInv, TypeOK, Listed
<1>3. apps' \in Seq(Apps) /\ IsInjective(apps') /\ Listed' = Listed \cup {a}
  BY <1>1, <1>2, AppendFacts DEF Listed
<1>4. /\ pid'[a] = NoPid /\ status'[a] = "KILLED"
      /\ \A b \in Apps \ {a} : pid'[b] = pid[b] /\ status'[b] = status[b]
  BY <1>1, Zenon DEF IInv, TypeOK
<1>5. TypeOK'
  BY <1>1, <1>3, Zenon DEF IInv, TypeOK, Statuses
<1>6. (OwnPid /\ StartedRuns /\ RunsStarted)'
  BY <1>1, <1>2, <1>3, <1>4, AppMonAssumption DEF IInv, OwnPid, StartedRuns, RunsStarted
<1>7. (Booting /\ StopsListed /\ InHandler)'
  BY <1>1, RestKept, Zenon DEF IInv, InHandler
<1> QED
  BY <1>5, <1>6, <1>7, Zenon DEF IInv

LEMMA StartStep ==
  ASSUME IInv, ~PidReuse, NEW a \in Apps, Start(a)
  PROVE  IInv'
<1>1. /\ pc = "accept" /\ a \in Listed /\ status[a] = "KILLED"
      /\ UNCHANGED <<apps, chld, alarmed, alrm, sig, i, size, k, pc, cur, killing, after, child>>
  BY DEF Start, Command, Listed, clocks, loops, stopping
<1>2. PICK p \in Pids : Started(a, p)
  BY Zenon DEF Start
<1>3. /\ pid' \in [Apps -> Pids \cup {NoPid}] /\ status' \in [Apps -> Statuses]
      /\ missed' \in SUBSET Apps /\ proc' \in [Pids -> ProcType]
      /\ (OwnPid /\ StartedRuns /\ RunsStarted)'
  BY <1>1, <1>2, StartedBeliefs, Zenon
<1>4. TypeOK'
  BY <1>1, <1>3, Zenon DEF IInv, TypeOK
<1>5. (Booting /\ StopsListed /\ InHandler)'
  BY <1>1, RestKept, Zenon DEF IInv, InHandler
<1> QED
  BY <1>3, <1>4, <1>5, Zenon DEF IInv

\* free(app): what is believed of the other applications stays true.
LEMMA FreedBeliefs ==
  ASSUME IInv, NEW a \in Listed, Freed(a), UNCHANGED <<proc, child>>
  PROVE  /\ apps' \in Seq(Apps) /\ IsInjective(apps')
         /\ pid' \in [Apps -> Pids \cup {NoPid}] /\ status' \in [Apps -> Statuses]
         /\ missed' \in SUBSET Apps
         /\ (OwnPid /\ StartedRuns /\ RunsStarted)'
<1>1. /\ \E n \in DOMAIN apps : apps[n] = a /\ apps' = PointerListRemove(n)
      /\ pid' = [pid EXCEPT ![a] = NoPid]
      /\ status' = [status EXCEPT ![a] = "KILLED"]
      /\ missed' = missed \ {a}
  BY Zenon DEF Freed
<1>2. apps \in Seq(Apps) /\ IsInjective(apps) /\ Listed \subseteq Apps
  BY RangeFacts, Zenon DEF IInv, TypeOK, Listed
<1>3. apps' \in Seq(Apps) /\ IsInjective(apps') /\ Listed' = Listed \ {a}
  <2>1. PICK n \in 1..Len(apps) : apps[n] = a /\ apps' = PointerListRemove(n)
    BY <1>1, <1>2
  <2> QED
    BY <2>1, <1>2, RemoveFacts, Zenon DEF Listed, PointerListRemove
<1>4. \A b \in Apps \ {a} : pid'[b] = pid[b] /\ status'[b] = status[b]
  BY <1>1, Zenon DEF IInv, TypeOK
<1>5. /\ pid' \in [Apps -> Pids \cup {NoPid}] /\ status' \in [Apps -> Statuses]
      /\ missed' \in SUBSET Apps
  BY <1>1, Zenon DEF IInv, TypeOK, Statuses
<1>6. (OwnPid /\ StartedRuns /\ RunsStarted)'
  BY <1>1, <1>2, <1>3, <1>4 DEF IInv, OwnPid, StartedRuns, RunsStarted
<1> QED
  BY <1>3, <1>5, <1>6

\* stop_app() of a listed application, called by a command or by clean_all().
LEMMA StopAppStep ==
  ASSUME IInv, NEW a \in Listed, NEW caller \in {"stop", "remove", "clean"},
         StopApp(a, caller), pc \in {"accept", "clean"}, sig = "none"
  PROVE  IInv'
<1>1. /\ status[a] \in {"STARTED", "TO_BE_KILLED"}
      /\ status' = [status EXCEPT ![a] = "TO_BE_KILLED"]
      /\ KillPg(pid[a], "SIGTERM")
      /\ cur' = a /\ after' = caller /\ killing' = FALSE /\ pc' = "stop"
      /\ UNCHANGED <<apps, pid, missed, chld, alarmed, alrm, sig, i, size, k, child>>
  BY Zenon DEF StopApp, clocks, loops
<1>2. Alike
  BY <1>1, KillPgAlike, Zenon DEF IInv, TypeOK
<1>3. Listed' = Listed /\ Listed \subseteq Apps
  BY <1>1, RangeFacts, Zenon DEF IInv, TypeOK, Listed
<1>4. status'[a] = "TO_BE_KILLED" /\ \A b \in Apps \ {a} : status'[b] = status[b]
  BY <1>1, <1>3, Zenon DEF IInv, TypeOK
<1>5. TypeOK'
  BY <1>1, <1>2, <1>3, Zenon DEF IInv, TypeOK, Alike, Statuses
<1>6. (OwnPid /\ StartedRuns /\ RunsStarted)'
  BY <1>1, <1>2, <1>3, <1>4 DEF IInv, TypeOK, OwnPid, StartedRuns, RunsStarted, Alike
<1>7. (Booting /\ StopsListed /\ InHandler)'
  BY <1>1, <1>3, <1>4, Zenon DEF IInv, Booting, StopsListed, InHandler
<1> QED
  BY <1>5, <1>6, <1>7, Zenon DEF IInv

LEMMA StopStep ==
  ASSUME IInv, NEW a \in Apps, Stop(a)
  PROVE  IInv'
<1>1. pc = "accept" /\ sig = "none" /\ a \in Listed
  BY Zenon DEF Stop, Command, Listed
<1>2. CASE StopApp(a, "stop")
  BY <1>1, <1>2, StopAppStep, Zenon
<1>3. ASSUME status[a] \notin {"STARTED", "TO_BE_KILLED"},
             status' = [status EXCEPT ![a] = "KILLED"],
             UNCHANGED <<apps, pid, missed, proc, chld, clocks, sig, loops, pc, stopping>>
      PROVE  IInv'
  <2>1. UNCHANGED <<alarmed, alrm, i, size, k, cur, killing, after, child>>
    BY <1>3, Zenon DEF clocks, loops, stopping
  <2>2. status'[a] = "KILLED" /\ \A b \in Apps \ {a} : status'[b] = status[b]
    BY <1>3, Zenon DEF IInv, TypeOK
  <2>3. TypeOK'
    BY <1>3, <2>1, Zenon DEF IInv, TypeOK, Statuses
  <2>4. Listed \subseteq Apps
    BY RangeFacts DEF IInv, TypeOK, Listed
  <2>5. (OwnPid /\ StartedRuns /\ RunsStarted)'
    <3>1. Listed' = Listed
      BY <1>3, Zenon DEF Listed
    <3>2. OwnPid'
      BY <1>3, <3>1, Zenon DEF IInv, OwnPid
    <3>3. StartedRuns'
      BY <1>3, <2>2, <2>4, <3>1, Zenon DEF IInv, StartedRuns
    <3>4. RunsStarted'
      <4> SUFFICES ASSUME NEW p \in Pids, proc[p] # NoProc, proc[p].of \in Listed
                   PROVE  \/ p = child
                          \/ /\ status'[proc[p].of] \in {"STARTED", "TO_BE_KILLED"}
                             /\ p = pid[proc[p].of]
        BY <1>3, <2>1, <3>1, Zenon DEF RunsStarted
      <4>1. \/ p = child
            \/ status[proc[p].of] \in {"STARTED", "TO_BE_KILLED"} /\ p = pid[proc[p].of]
        BY Zenon DEF IInv, RunsStarted
      <4>2. status[proc[p].of] \in {"STARTED", "TO_BE_KILLED"} => proc[p].of \in Apps \ {a}
        BY <1>3, <2>4
      <4> QED
        BY <4>1, <4>2, <2>2, Zenon
    <3> QED
      BY <3>2, <3>3, <3>4
  <2>6. (Booting /\ StopsListed /\ InHandler)'
    BY <1>1, <1>3, <2>1, RestKept DEF IInv, InHandler
  <2> QED
    BY <2>3, <2>5, <2>6 DEF IInv
<1> QED
  BY <1>2, <1>3, Zenon DEF Stop

LEMMA RemoveStep ==
  ASSUME IInv, NEW a \in Apps, RemoveApp(a)
  PROVE  IInv'
<1>1. pc = "accept" /\ sig = "none" /\ a \in Listed
  BY DEF RemoveApp, Command, Listed
<1>2. CASE StopApp(a, "remove")
  BY <1>1, <1>2, StopAppStep
<1>3. ASSUME Freed(a), UNCHANGED <<proc, chld, clocks, sig, loops, pc, stopping>>
      PROVE  IInv'
  <2>1. UNCHANGED <<alarmed, alrm, i, size, k, cur, killing, after, child>>
    BY <1>3 DEF clocks, loops, stopping
  <2>2. /\ apps' \in Seq(Apps) /\ IsInjective(apps')
        /\ pid' \in [Apps -> Pids \cup {NoPid}] /\ status' \in [Apps -> Statuses]
        /\ missed' \in SUBSET Apps
        /\ (OwnPid /\ StartedRuns /\ RunsStarted)'
    BY <1>1, <1>3, <2>1, FreedBeliefs, Zenon
  <2>3. TypeOK'
    BY <1>3, <2>1, <2>2 DEF IInv, TypeOK
  <2>4. (Booting /\ StopsListed /\ InHandler)'
    BY <1>1, <1>3, <2>1, RestKept DEF IInv, InHandler
  <2> QED
    BY <2>2, <2>3, <2>4 DEF IInv
<1> QED
  BY <1>2, <1>3 DEF RemoveApp

\* stop_app() returns to its caller.
LEMMA StopReturnStep ==
  ASSUME IInv, pc \in {"stop", "timeleft"}, sig = "none", StopReturn, UNCHANGED proc
  PROVE  IInv'
<1>1. /\ pc' = (IF after = "clean" THEN "waitpid" ELSE "accept")
      /\ UNCHANGED <<chld, alarmed, alrm, sig, i, size, k, cur, killing, after, child>>
  BY Zenon DEF StopReturn, clocks, loops, stopping
<1>2. cur \in Listed /\ status[cur] \in {"TO_BE_KILLED", "KILLED"} /\ child = NoPid
  BY Zenon DEF IInv, StopsListed, Booting
<1>3. /\ apps' \in Seq(Apps) /\ IsInjective(apps')
      /\ pid' \in [Apps -> Pids \cup {NoPid}] /\ status' \in [Apps -> Statuses]
      /\ missed' \in SUBSET Apps
      /\ (OwnPid /\ StartedRuns /\ RunsStarted)'
  <2>1. CASE after = "remove"
    BY <2>1, <1>1, <1>2, FreedBeliefs, Zenon DEF StopReturn
  <2>2. CASE after # "remove"
    <3>1. UNCHANGED <<apps, pid, status, missed>>
      BY <2>2, Zenon DEF StopReturn
    <3> QED
      BY <3>1, <1>1, Zenon DEF IInv, TypeOK, OwnPid, StartedRuns, RunsStarted, Listed
  <2> QED
    BY <2>1, <2>2, Zenon
<1>4. TypeOK'
  BY <1>1, <1>3, Zenon DEF IInv, TypeOK
<1>5. StopsListed'
  <2>1. CASE after = "clean"
    <3>1. UNCHANGED <<apps, status>>
      BY <2>1 DEF StopReturn
    <3> QED
      BY <3>1, <1>1, <1>2, Zenon DEF StopsListed, Listed
  <2>2. CASE after # "clean"
    BY <2>2, <1>1, Zenon DEF StopsListed
  <2> QED
    BY <2>1, <2>2, Zenon
<1>6. (Booting /\ InHandler)'
  BY <1>1, <1>2, Zenon DEF IInv, Booting, InHandler
<1> QED
  BY <1>3, <1>4, <1>5, <1>6, Zenon DEF IInv

\* The loop of stop_app().
LEMMA StopLoopsStep ==
  ASSUME IInv, StopLoops
  PROVE  IInv'
<1>1. pc = "timeleft" /\ sig = "none"
  BY DEF StopLoops
<1>2. CASE StopReturn /\ UNCHANGED proc
  BY <1>1, <1>2, StopReturnStep, Zenon
<1>3. ASSUME pc' = "stop",
             UNCHANGED <<apps, pid, status, missed, proc, chld, clocks, sig, loops, stopping>>
      PROVE  IInv'
  <2>1. UNCHANGED <<alarmed, alrm, i, size, k, cur, killing, after, child>>
    BY <1>3, Zenon DEF clocks, loops, stopping
  <2>2. TypeOK'
    BY <1>3, <2>1, Zenon DEF IInv, TypeOK
  <2>3. (OwnPid /\ StartedRuns /\ RunsStarted)'
    BY <1>3, <2>1, Zenon DEF IInv, OwnPid, StartedRuns, RunsStarted, Listed
  <2>4. (Booting /\ StopsListed /\ InHandler)'
    BY <1>1, <1>3, <2>1, Zenon DEF IInv, Booting, StopsListed, InHandler, Listed
  <2> QED
    BY <2>2, <2>3, <2>4 DEF IInv
<1> QED
  BY <1>2, <1>3, Zenon DEF StopLoops

\* sigtimedwait() times out.
LEMMA StopTimesOutStep ==
  ASSUME IInv, StopTimesOut
  PROVE  IInv'
<1>1. pc = "stop" /\ sig = "none"
  BY DEF StopTimesOut, IInv, InHandler, TypeOK
<1>2. CASE StopReturn /\ UNCHANGED proc
  BY <1>1, <1>2, StopReturnStep
<1>3. ASSUME killing' = TRUE, KillPg(pid[cur], "SIGKILL"),
             UNCHANGED <<apps, pid, status, missed, chld, clocks, sig, loops, pc, cur, after, child>>
      PROVE  IInv'
  <2>1. UNCHANGED <<alarmed, alrm, i, size, k>>
    BY <1>3 DEF clocks, loops
  <2>2. Alike
    BY <1>3, KillPgAlike DEF IInv, TypeOK
  <2>3. TypeOK'
    BY <1>3, <2>1, <2>2, Zenon DEF IInv, TypeOK, Alike
  <2>4. (OwnPid /\ StartedRuns /\ RunsStarted)'
    BY <1>3, <2>2, Zenon DEF IInv, TypeOK, OwnPid, StartedRuns, RunsStarted, Listed, Alike
  <2>5. (Booting /\ StopsListed /\ InHandler)'
    BY <1>1, <1>3, <2>1, Zenon DEF IInv, Booting, StopsListed, InHandler, Listed
  <2> QED
    BY <2>3, <2>4, <2>5 DEF IInv
<1> QED
  BY <1>2, <1>3, Zenon DEF StopTimesOut

\* The autostarted application: fork() before the daemon has any other.
LEMMA AutostartStep ==
  ASSUME IInv, Autostart
  PROVE  IInv'
<1>1. /\ pc = "boot"
      /\ UNCHANGED <<apps, pid, status, missed, chld, alarmed, alrm, sig, i, size, k, killing, after>>
  BY Zenon DEF Autostart, clocks, loops
<1>2. /\ Listed = Privileged /\ child = NoPid /\ NoPid \notin Pids
      /\ \A a \in Apps : status[a] = "KILLED" /\ pid[a] = NoPid
      /\ \A p \in Pids : proc[p] = NoProc
      /\ sig = "none" /\ Privileged \subseteq Apps
  BY <1>1, AppMonAssumption, Zenon DEF IInv, Booting, InHandler
<1>3. Listed' = Listed
  BY <1>1, Zenon DEF Listed
<1>4. ASSUME NEW a \in Privileged, NEW p \in Pids, Fork(a, p), cur' = a, child' = p, pc' = "forked"
      PROVE  IInv'
  <2> DEFINE r == [st |-> "run", of |-> a, grp |-> FALSE, sent |-> {}]
  <2>1. proc' = [proc EXCEPT ![p] = r]
    BY <1>4, Zenon DEF Fork
  <2>2. a \in Apps /\ r \in ProcType /\ r # NoProc /\ r.of = a
    BY <1>2, Zenon DEF ProcType, NoProc
  <2> HIDE DEF r
  <2>3. proc' \in [Pids -> ProcType] /\ proc'[p] = r /\ \A q \in Pids \ {p} : proc'[q] = NoProc
    BY <2>1, <2>2, <1>2, Zenon DEF IInv, TypeOK
  <2>4. TypeOK'
    BY <1>1, <1>4, <2>2, <2>3, Zenon DEF IInv, TypeOK
  <2>5. (OwnPid /\ StartedRuns /\ RunsStarted)'
    BY <1>1, <1>2, <1>3, <1>4, <2>3, Zenon DEF OwnPid, StartedRuns, RunsStarted
  <2>6. (Booting /\ StopsListed /\ InHandler)'
    BY <1>1, <1>2, <1>3, <1>4, <2>2, <2>3, Zenon DEF Booting, StopsListed, InHandler
  <2> QED
    BY <2>4, <2>5, <2>6, Zenon DEF IInv
<1>5. ASSUME pc' = "accept", UNCHANGED <<proc, cur, child>>
      PROVE  IInv'
  <2>1. TypeOK'
    BY <1>1, <1>5, Zenon DEF IInv, TypeOK
  <2>2. (OwnPid /\ StartedRuns /\ RunsStarted)'
    BY <1>1, <1>5, Zenon DEF IInv, OwnPid, StartedRuns, RunsStarted, Listed
  <2>3. (Booting /\ StopsListed /\ InHandler)'
    BY <1>1, <1>2, <1>5, Zenon DEF Booting, StopsListed, InHandler
  <2> QED
    BY <2>1, <2>2, <2>3 DEF IInv
<1> QED
  BY <1>4, <1>5, Zenon DEF Autostart

LEMMA RecordChildStep ==
  ASSUME IInv, RecordChild
  PROVE  IInv'
<1>1. /\ pc = "forked" /\ sig = "none" /\ pc' = "accept" /\ child' = NoPid
      /\ status' = [status EXCEPT ![cur] = "STARTED"]
      /\ pid' = [pid EXCEPT ![cur] = child]
      /\ UNCHANGED <<apps, missed, proc, chld, alarmed, alrm, sig, i, size, k, cur, killing, after>>
  BY Zenon DEF RecordChild, clocks, loops
<1>2. /\ Listed = Privileged /\ cur \in Privileged /\ cur \in Apps /\ child \in Pids
      /\ \A a \in Apps : status[a] = "KILLED" /\ pid[a] = NoPid
      /\ \A p \in Pids \ {child} : proc[p] = NoProc
      /\ IF proc[child] = NoProc THEN cur \in missed ELSE proc[child].of = cur
      /\ Privileged \subseteq Apps /\ NoPid \notin Pids
  BY <1>1, AppMonAssumption, Zenon DEF IInv, Booting, TypeOK
<1>3. /\ status'[cur] = "STARTED" /\ pid'[cur] = child /\ Listed' = Listed
      /\ \A a \in Apps \ {cur} : status'[a] = "KILLED" /\ pid'[a] = NoPid
  BY <1>1, <1>2, Zenon DEF IInv, TypeOK, Listed
<1>4. TypeOK'
  BY <1>1, <1>2, Zenon DEF IInv, TypeOK, Statuses
<1>5. (OwnPid /\ StartedRuns /\ RunsStarted)'
  BY <1>1, <1>2, <1>3 DEF OwnPid, StartedRuns, RunsStarted
<1>6. (Booting /\ StopsListed /\ InHandler)'
  BY <1>1, Zenon DEF IInv, Booting, StopsListed, InHandler
<1> QED
  BY <1>4, <1>5, <1>6 DEF IInv

\* clean_all(): stop the application at k, or pass to the next.
LEMMA CleanStep ==
  ASSUME IInv, Clean
  PROVE  IInv'
<1>1. pc = "clean" /\ sig = "none" /\ k \in Nat /\ k > 0
  BY DEF Clean, IInv, InHandler, TypeOK
<1>2. ASSUME k <= Len(apps), StopApp(apps[k], "clean")
      PROVE  IInv'
  <2>1. apps \in Seq(Apps) /\ k \in 1..Len(apps)
    BY <1>1, <1>2 DEF IInv, TypeOK
  <2>2. apps[k] \in Listed
    BY <2>1, RangeFacts, Zenon DEF Listed
  <2> QED
    BY <1>1, <1>2, <2>2, StopAppStep, Zenon
<1>3. ASSUME k' = k + 1, pc' = (IF k < Len(apps) THEN "clean" ELSE "exit"),
             UNCHANGED <<apps, pid, status, missed, proc, chld, clocks, sig, i, size, stopping>>
      PROVE  IInv'
  <2>1. UNCHANGED <<alarmed, alrm, cur, killing, after, child>>
    BY <1>3, Zenon DEF clocks, stopping
  <2>2. pc' \in {"clean", "exit"} /\ k' \in Nat /\ k' > 0
    BY <1>1, <1>3
  <2>3. TypeOK'
    BY <1>3, <2>1, <2>2, Zenon DEF IInv, TypeOK
  <2>4. (OwnPid /\ StartedRuns /\ RunsStarted)'
    BY <1>3, <2>1, Zenon DEF IInv, OwnPid, StartedRuns, RunsStarted, Listed
  <2>5. (Booting /\ StopsListed /\ InHandler)'
    BY <1>1, <1>3, <2>1, <2>2, Zenon DEF IInv, Booting, StopsListed, InHandler
  <2> QED
    BY <2>3, <2>4, <2>5 DEF IInv
<1> QED
  BY <1>2, <1>3, Zenon DEF Clean

\* clean_all() waits for the application it stopped.
LEMMA WaitPidStep ==
  ASSUME IInv, WaitPid
  PROVE  IInv'
<1> DEFINE p == pid[cur]
<1>1. /\ pc = "waitpid" /\ proc' = [proc EXCEPT ![p] = NoProc]
      /\ k' = k + 1 /\ pc' = (IF k < Len(apps) THEN "clean" ELSE "exit")
      /\ UNCHANGED <<apps, pid, status, missed, chld, alarmed, alrm, sig, i, size, cur, killing, after, child>>
  BY Zenon DEF WaitPid, clocks, stopping
<1>2. /\ cur \in Listed /\ status[cur] \in {"TO_BE_KILLED", "KILLED"} /\ child = NoPid
      /\ sig = "none" /\ k \in Nat
  BY <1>1, Zenon DEF IInv, StopsListed, Booting, InHandler, TypeOK
<1>3. pc' \in {"clean", "exit"} /\ k' \in Nat /\ k' > 0
  BY <1>1, <1>2
<1>4. /\ proc' \in [Pids -> ProcType]
      /\ \A q \in Pids : proc'[q] = IF q = p THEN NoProc ELSE proc[q]
  BY <1>1, Zenon DEF IInv, TypeOK, ProcType
<1>5. TypeOK'
  BY <1>1, <1>3, <1>4 DEF IInv, TypeOK
<1>6. OwnPid'
  BY <1>1, <1>4, Zenon DEF IInv, OwnPid, Listed
<1>7. StartedRuns'
  <2> SUFFICES ASSUME NEW b \in Listed, b \notin missed, status[b] = "STARTED"
               PROVE  pid[b] \in Pids /\ proc'[pid[b]] # NoProc
    BY <1>1, Zenon DEF StartedRuns, Listed
  <2>1. pid[b] \in Pids /\ proc[pid[b]] # NoProc
    BY Zenon DEF IInv, StartedRuns
  <2>2. pid[b] # p
    BY <2>1, <1>2, Zenon DEF IInv, OwnPid
  <2> QED
    BY <2>1, <2>2, <1>4, Zenon
<1>8. RunsStarted'
  BY <1>1, <1>4, Zenon DEF IInv, RunsStarted, Listed
<1>9. (Booting /\ StopsListed /\ InHandler)'
  BY <1>1, <1>2, <1>3, Zenon DEF IInv, Booting, StopsListed, InHandler
<1> QED
  BY <1>5, <1>6, <1>7, <1>8, <1>9, Zenon DEF IInv

-----------------------------------------------------------------------------
\* IInv is inductive.

INSTANCE FiniteSetTheorems

\* The list of the applications to autostart, of which there is at most one.
LEMMA AutostartedList ==
  ASSUME NEW S, \A a, b \in S : a = b, NEW s \in Bijection(1..Cardinality(S), S)
  PROVE  s \in Seq(S) /\ IsInjective(s) /\ Range(s) = S
<1>1. Cardinality(S) \in Nat
  <2>1. CASE S = {}
    BY <2>1, FS_EmptySet
  <2>2. CASE S # {}
    <3>1. PICK a \in S : S = {a}
      BY <2>2, Zenon
    <3>2. Cardinality({a}) = 1
      BY FS_Singleton, Zenon
    <3> QED
      BY <3>1, <3>2
  <2> QED
    BY <2>1, <2>2, Zenon
<1>2. s \in [1..Cardinality(S) -> S] /\ IsInjective(s)
  BY DEF Bijection, Injection
<1>3. s \in Seq(S)
  BY <1>1, <1>2
<1>4. Range(s) = S
  BY <1>2 DEF Bijection, Surjection, Range
<1> QED
  BY <1>2, <1>3, <1>4, Zenon

LEMMA InitIInv ==
  ASSUME Init
  PROVE  IInv
<1>1. /\ Apps # {} /\ Privileged \subseteq Apps /\ NoPid \notin Pids
      /\ \A a, b \in Privileged : a = b
  BY AppMonAssumption
<1>2. apps \in Seq(Privileged) /\ IsInjective(apps) /\ Listed = Privileged
  BY <1>1, AutostartedList DEF Init, Listed
<1>3. apps \in Seq(Apps)
  BY <1>1, <1>2
<1>4. cur \in Apps
  BY <1>1, Zenon DEF Init
<1>5. /\ pid = [a \in Apps |-> NoPid] /\ status = [a \in Apps |-> "KILLED"] /\ missed = {}
      /\ proc = [p \in Pids |-> NoProc] /\ child = NoPid
      /\ chld = FALSE /\ alarmed = FALSE /\ alrm = FALSE /\ killing = FALSE /\ after = "stop"
      /\ sig = "none" /\ i = 0 /\ size = 0 /\ k = 0
      /\ pc = IF Privileged = {} THEN "accept" ELSE "boot"
  BY Zenon DEF Init
<1>6. proc \in [Pids -> ProcType]
  BY <1>5, Zenon DEF ProcType
<1>7. TypeOK
  BY <1>2, <1>3, <1>4, <1>5, <1>6, Zenon DEF TypeOK, Statuses
<1>8. OwnPid /\ StartedRuns /\ RunsStarted
  BY <1>1, <1>2, <1>5 DEF OwnPid, StartedRuns, RunsStarted
<1>9. Booting /\ StopsListed /\ InHandler
  BY <1>1, <1>2, <1>5 DEF Booting, StopsListed, InHandler
<1> QED
  BY <1>7, <1>8, <1>9 DEF IInv

LEMMA NextIInv ==
  ASSUME ~PidReuse, IInv, [Next]_vars
  PROVE  IInv'
<1>1. CASE Kernel
  BY <1>1, KernelStep, Zenon
<1>2. CASE Handlers
  BY <1>2, ControlStep, ReapStep, RestartStep, Zenon DEF Handlers
<1>3. CASE Commands
  BY <1>3, SetupStep, StartStep, StopStep, RemoveStep, Zenon DEF Commands
<1>4. CASE Stopping
  BY <1>4, ControlStep, StopLoopsStep, StopTimesOutStep, Zenon DEF Stopping
<1>5. CASE Main
  BY <1>5, ControlStep, AutostartStep, RecordChildStep, CleanStep, WaitPidStep, Zenon DEF Main
<1>6. CASE UNCHANGED vars
  <2>1. UNCHANGED <<apps, pid, status, missed, proc, chld, alarmed, alrm, sig, i, size, pc, cur,
                    killing, after, k, child>>
    BY <1>6, Zenon DEF vars
  <2>2. TypeOK'
    BY <2>1, Zenon DEF IInv, TypeOK
  <2>3. (OwnPid /\ StartedRuns /\ RunsStarted)'
    BY <2>1, Zenon DEF IInv, OwnPid, StartedRuns, RunsStarted, Listed
  <2>4. (Booting /\ StopsListed /\ InHandler)'
    BY <2>1, Zenon DEF IInv, Booting, StopsListed, InHandler, Listed
  <2> QED
    BY <2>2, <2>3, <2>4, Zenon DEF IInv
<1> QED
  BY <1>1, <1>2, <1>3, <1>4, <1>5, <1>6, Zenon DEF Next

-----------------------------------------------------------------------------
\* What the steps may not do.

LEMMA IInvMatch ==
  ASSUME IInv
  PROVE  ProcessesMatch
<1>1. ASSUME NEW a \in Range(apps) \ missed, status[a] = "STARTED"
      PROVE  pid[a] \in Pids /\ Has(a, pid[a])
  <2>1. a \in Listed /\ pid[a] \in Pids /\ proc[pid[a]] # NoProc
    BY <1>1, Zenon DEF IInv, StartedRuns, Listed
  <2> QED
    BY <2>1, Zenon DEF IInv, OwnPid, Has
<1>2. ASSUME NEW a \in Range(apps), NEW p \in Pids, Has(a, p)
      PROVE  p = child \/ (status[a] \in {"STARTED", "TO_BE_KILLED"} /\ p = pid[a])
  BY <1>2, Zenon DEF IInv, RunsStarted, Listed, Has
<1> QED
  BY <1>1, <1>2, Zenon DEF ProcessesMatch, IInv

LEMMA StoppedStaysStopped ==
  ASSUME IInv, Next
  PROVE  StoppedNotRestarted
<1> SUFFICES ASSUME NEW a \in Apps, status[a] = "KILLED", sig # "none"
             PROVE  status'[a] = "KILLED"
  BY Zenon DEF StoppedNotRestarted
<1>0. pc \in {"forked", "accept", "crippled"} \/ (pc = "timeleft" /\ sig = "chld")
  BY DEF IInv, InHandler
<1>1. CASE Kernel
  BY <1>1, Zenon DEF Kernel, AlarmRings, SetPgrp, Exit
<1>2. ASSUME NEW p \in Pids, Reap(p) PROVE status'[a] = "KILLED"
  <2> DEFINE b == proc[p].of
  <2>1. proc[p] # NoProc /\ b \in Apps
    BY <1>2, ReapFacts, Zenon
  <2>2. \/ UNCHANGED status
        \/ /\ b \in Listed /\ pid[b] = p
           /\ \E st \in Statuses : status' = [status EXCEPT ![b] = st]
    BY <1>2, ReapFacts, Zenon
  <2>3. b \in Listed /\ pid[b] = p => b # a
    <3> SUFFICES ASSUME b \in Listed, pid[b] = p, b = a PROVE FALSE
      BY Zenon
    <3>1. p = child
      BY <2>1, Zenon DEF IInv, RunsStarted
    <3>2. pc = "forked"
      BY <3>1, AppMonAssumption, Zenon DEF IInv, Booting
    <3> QED
      BY <3>2, AppMonAssumption DEF IInv, Booting
  <2> QED
    BY <2>1, <2>2, <2>3, Zenon DEF IInv, TypeOK
<1>3. CASE Restart
  <2>1. i \in Nat /\ i > 0
    BY <1>3, Zenon DEF Restart, IInv, InHandler, TypeOK
  <2>2. CASE UNCHANGED status
    BY <2>2, Zenon
  <2>3. ASSUME NEW p \in Pids, Started(apps[i], p), i <= Len(apps),
               status[apps[i]] = "TO_BE_RESTARTED"
        PROVE  status'[a] = "KILLED"
    BY <2>3, Zenon DEF Started, IInv, TypeOK
  <2> QED
    BY <1>3, <2>2, <2>3, Zenon DEF Restart
<1>4. CASE ChldHandler \/ ChldReturn \/ AlrmHandler \/ AlrmReturn
  BY <1>4, Zenon DEF ChldHandler, ChldReturn, AlrmHandler, AlrmReturn
<1>5. CASE Commands
  BY <1>5, Zenon DEF Commands, Setup, Start, Stop, RemoveApp, Command
<1>6. CASE Stopping
  BY <1>0, <1>6, Zenon DEF Stopping, StopGetsChld, StopLoops, StopTimesOut
<1>7. CASE Main
  BY <1>0, <1>7, Zenon DEF Main, Autostart, RecordChild, Cripple, Destroy, Clean, WaitPid
<1> QED
  BY <1>1, <1>2, <1>3, <1>4, <1>5, <1>6, <1>7, Zenon DEF Next, Handlers

LEMMA OkMeansStopped ==
  ASSUME ~LastSecond, IInv, Next
  PROVE  StopOkMeansStopped
<1> SUFFICES ASSUME pc = "timeleft", pc' \notin {"timeleft", "stop"}
             PROVE  status[cur] = "KILLED"
  BY DEF StopOkMeansStopped
<1>1. ~Kernel
  BY Zenon DEF Kernel, AlarmRings, SetPgrp, Exit
<1>2. ~Handlers
  BY Zenon DEF Handlers, ChldHandler, Reap, ChldReturn, AlrmHandler, Restart, AlrmReturn
<1>3. ~Commands /\ ~Main
  BY Zenon DEF Commands, Setup, Start, Stop, RemoveApp, Command,
         Main, Autostart, RecordChild, Cripple, Destroy, Clean, WaitPid
<1>4. StopLoops
  BY <1>1, <1>2, <1>3, Zenon DEF Next, Stopping, StopGetsChld, StopTimesOut
<1> QED
  BY <1>4, Zenon DEF StopLoops

\* After every step what the daemon believes agrees with the processes, the
\* applications it stopped are not revived by a signal handler, and "ok" is
\* answered to "stop" for a stopped application only (SIGCHLD_handler,
\* SIGALRM_handler, stop_app), for any applications and pids, as long as no
\* remembered pid is given again and no SIGCHLD comes in the last second of
\* stop_app().
THEOREM BeliefsAreTrueThm ==
  ASSUME ~PidReuse, ~LastSecond
  PROVE  Spec => BeliefsAreTrue
<1>1. Init => IInv
  BY InitIInv, Zenon
<1>2. IInv /\ [Next]_vars => IInv'
  BY NextIInv, Zenon
<1>3. IInv /\ IInv' /\ [Next]_vars
        => [ProcessesMatch' /\ StoppedNotRestarted /\ StopOkMeansStopped]_vars
  <2> SUFFICES ASSUME IInv, IInv', Next
               PROVE  ProcessesMatch' /\ StoppedNotRestarted /\ StopOkMeansStopped
    OBVIOUS
  <2>1. (IInv => ProcessesMatch)'
    BY IInvMatch, PTL
  <2> QED
    BY <2>1, StoppedStaysStopped, OkMeansStopped, Zenon
<1> QED
  BY <1>1, <1>2, <1>3, PTL DEF Spec, BeliefsAreTrue

=============================================================================
