------------------------------- MODULE AppMon -------------------------------
(***************************************************************************)
(* The application monitoring daemon (tools/appmon_daemon/appmon_daemon.c) *)
(* with the processes it starts and the signals it handles.                *)
(*                                                                         *)
(* Commands run with SIGCHLD and SIGALRM blocked, so each is one step, but *)
(* for stop_app(), which waits for SIGCHLD; handlers block each other.     *)
(* Time is abstract: a timeout may elapse whenever its clock runs.         *)
(***************************************************************************)
EXTENDS Naturals, Sequences, FiniteSetsExt, Functions

CONSTANTS Apps,        \* application slots
          Pids,        \* process identifiers
          Privileged,  \* the autostarted application, a set of at most one
          PidReuse,    \* may the system give again a pid the daemon remembers
                       \* for another application?
          LastSecond,  \* may SIGCHLD come in the last second of stop_app()?
          Stubborn,    \* applications that survive SIGTERM
          OwnEndings,  \* how applications end when the daemon sends no signal
          NoPid        \* the pid of an application never started, -1

ASSUME AppMonAssumption ==
  /\ Apps # {}
  /\ Privileged \subseteq Apps /\ \A a, b \in Privileged : a = b
  /\ {PidReuse, LastSecond} \subseteq BOOLEAN
  /\ Stubborn \subseteq Apps /\ OwnEndings \subseteq {"ok", "error"}
  /\ NoPid \notin Pids

VARIABLES apps,   \* the PointerList of applications, in order
          pid, status,        \* fields of app_t
          proc,   \* the processes: what the kernel knows
          chld,   \* is SIGCHLD pending?
          alarmed, alrm,      \* does the alarm clock run? is SIGALRM pending?
          sig,    \* the handler that runs: "none", "chld" or "alrm"
          i, size,            \* loop variables of SIGALRM_handler
          pc,     \* where the main program is
          cur,    \* the application stop_app() is stopping
          killing,            \* has stop_app() sent SIGKILL?
          after,  \* what called stop_app(): "stop", "remove", "clean"
          k,      \* loop variable of clean_all()
          child,  \* child_pid in the start_app() of the autostarted application
          missed  \* history: applications whose death or restart the daemon missed,
                  \* until they are started again

vars == <<apps, pid, status, missed, proc, chld, alarmed, alrm, sig, i, size, pc,
          cur, killing, after, k, child>>
clocks == <<alarmed, alrm>>
loops == <<i, size, k>>
stopping == <<cur, killing, after, child>>

Statuses == {"STARTED", "TO_BE_KILLED", "TO_BE_RESTARTED", "KILLED"}

\* How a process ends: exit(0), with an error or a signal of its own, or by
\* one of the daemon's signals.
Endings == OwnEndings \cup {"SIGTERM", "SIGKILL"}

\* of: the application it runs; grp: did it call setpgrp()?; sent: the signals
\* it got from the daemon; end: how it ended, for a zombie.
NoProc == [st |-> "none"]
ProcType ==
  {NoProc} \cup [st : {"run"}, of : Apps, grp : BOOLEAN, sent : SUBSET {"SIGTERM", "SIGKILL"}]
           \cup [st : {"zombie"}, of : Apps, end : Endings]

TypeOK ==
  /\ apps \in Seq(Apps) /\ IsInjective(apps)
  /\ pid \in [Apps -> Pids \cup {NoPid}]
  /\ status \in [Apps -> Statuses]
  /\ missed \in SUBSET Apps
  /\ proc \in [Pids -> ProcType]
  /\ {chld, alarmed, alrm, killing} \subseteq BOOLEAN
  /\ sig \in {"none", "chld", "alrm"}
  /\ i \in Nat /\ size \in Nat /\ k \in Nat
  /\ pc \in {"boot", "forked", "accept", "crippled", "stop", "timeleft", "waitpid",
             "clean", "exit"}
  /\ cur \in Apps
  /\ after \in {"stop", "remove", "clean"}
  /\ child \in Pids \cup {NoPid}

Init ==
  /\ apps \in Bijection(1..Cardinality(Privileged), Privileged)
  /\ pid = [a \in Apps |-> NoPid]
  /\ status = [a \in Apps |-> "KILLED"]
  /\ missed = {}
  /\ proc = [p \in Pids |-> NoProc]
  /\ chld = FALSE /\ alarmed = FALSE /\ alrm = FALSE
  /\ sig = "none"
  /\ i = 0 /\ size = 0 /\ k = 0
  /\ pc = IF Privileged = {} THEN "accept" ELSE "boot"
  /\ cur = CHOOSE a \in Apps : TRUE
  /\ killing = FALSE
  /\ after = "stop"
  /\ child = NoPid

\* PointerList_Remove(): the elements after index n move up.  Nothing is polled
\* from this list, so that its buffer never wraps.
PointerListRemove(n) == SubSeq(apps, 1, n - 1) \o SubSeq(apps, n + 1, Len(apps))

-----------------------------------------------------------------------------
\* The processes and the kernel.

\* Signals are delivered when the main program is outside its critical
\* sections and no handler runs.
Unblocked == pc \in {"forked", "accept", "crippled"} /\ sig = "none"

\* killpg(p, s): only a process that is already its group's leader gets it.
KillPg(p, s) ==
  proc' = IF p \in Pids /\ proc[p].st = "run" /\ proc[p].grp
          THEN [proc EXCEPT ![p].sent = @ \cup {s}] ELSE proc

\* fork(), seen from the kernel.
Fork(a, p) ==
  /\ proc[p].st = "none"
  /\ PidReuse \/ \A b \in Range(apps) \ {a} : pid[b] # p
  /\ proc' = [proc EXCEPT ![p] = [st |-> "run", of |-> a, grp |-> FALSE, sent |-> {}]]

\* The child calls setpgrp(), then runs the application.
SetPgrp(p) ==
  /\ proc[p].st = "run" /\ ~proc[p].grp
  /\ proc' = [proc EXCEPT ![p].grp = TRUE]
  /\ UNCHANGED <<apps, pid, status, missed, chld, clocks, sig, loops, pc, stopping>>

\* A process ends by itself, by a failure before execvp(), or by a signal.
Exit(p, end) ==
  /\ proc[p].st = "run"
  /\ end \in {"SIGTERM", "SIGKILL"} => end \in proc[p].sent
  /\ end = "SIGTERM" => proc[p].of \notin Stubborn
  /\ proc' = [proc EXCEPT ![p] = [st |-> "zombie", of |-> proc[p].of, end |-> end]]
  /\ chld' = TRUE
  /\ UNCHANGED <<apps, pid, status, missed, clocks, sig, loops, pc, stopping>>

\* The alarm clock elapses.
AlarmRings ==
  /\ alarmed
  /\ alarmed' = FALSE
  /\ alrm' = TRUE
  /\ UNCHANGED <<apps, pid, status, missed, proc, chld, sig, loops, pc, stopping>>

-----------------------------------------------------------------------------
\* SIGCHLD_handler.

\* Mutant of FindByPid: finds applications that are not running only.
FindStopped(p) ==
  LET found == {n \in DOMAIN apps : pid[apps[n]] = p /\ status[apps[n]] # "STARTED"}
  IN  IF found = {} THEN 0 ELSE Min(found)

\* find_by_pid(): the index of the first application with that pid, 0 if none.
FindByPid(p) ==
  LET found == {n \in DOMAIN apps : pid[apps[n]] = p}
  IN  IF found = {} THEN 0 ELSE Min(found)

ChldHandler ==
  /\ Unblocked /\ chld
  /\ chld' = FALSE
  /\ sig' = "chld"
  /\ UNCHANGED <<apps, pid, status, missed, proc, clocks, loops, pc, stopping>>

\* waitpid(WAIT_ANY) returns p: the application is stopped for good, or is to
\* be restarted when the alarm rings.
Reap(p) ==
  LET n   == FindByPid(p)
      a   == apps[n]
      end == proc[p].end
      stopped == status[a] = "TO_BE_KILLED" \/ (status[a] = "STARTED" /\ end = "ok")
      restart == ~stopped /\ end # "ok"
  IN /\ sig = "chld" /\ proc[p].st = "zombie"
     /\ proc' = [proc EXCEPT ![p] = NoProc]
     /\ IF n = 0 THEN UNCHANGED <<status, alarmed>>
        ELSE /\ status' = [status EXCEPT ![a] = IF stopped THEN "KILLED"
                                                ELSE IF restart THEN "TO_BE_RESTARTED" ELSE @]
             /\ alarmed' = (alarmed \/ restart)
     /\ missed' = IF p = child THEN missed \cup {cur} ELSE missed
     /\ UNCHANGED <<apps, pid, chld, alrm, sig, loops, pc, stopping>>

\* No zombie is left.
ChldReturn ==
  /\ sig = "chld"
  /\ \A p \in Pids : proc[p].st # "zombie"
  /\ sig' = "none"
  /\ UNCHANGED <<apps, pid, status, missed, proc, chld, clocks, loops, pc, stopping>>

-----------------------------------------------------------------------------
\* start_app(), once check_params() and fork() succeeded.
Started(a, p) ==
  /\ Fork(a, p)
  /\ status' = [status EXCEPT ![a] = "STARTED"]
  /\ pid' = [pid EXCEPT ![a] = p]
  /\ missed' = missed \ {a}

\* Mutant of AlrmHandler: the loop starts after the first application.
AlrmSkipsFirst ==
  /\ Unblocked /\ alrm
  /\ alrm' = FALSE
  /\ sig' = "alrm"
  /\ i' = 2 /\ size' = Len(apps)
  /\ UNCHANGED <<apps, pid, status, missed, proc, chld, alarmed, pc, stopping, k>>

\* SIGALRM_handler: the loop on the list, whose size is read at the start.
AlrmHandler ==
  /\ Unblocked /\ alrm
  /\ alrm' = FALSE
  /\ sig' = "alrm"
  /\ i' = 1 /\ size' = Len(apps)
  /\ UNCHANGED <<apps, pid, status, missed, proc, chld, alarmed, pc, stopping, k>>

\* One turn of the loop: an application that cannot be restarted is removed
\* from the list, and the index moves on.
Restart ==
  /\ sig = "alrm" /\ i <= size
  /\ i' = i + 1
  /\ IF i <= Len(apps) /\ status[apps[i]] = "TO_BE_RESTARTED"
     THEN \/ /\ \E p \in Pids : Started(apps[i], p)
             /\ UNCHANGED apps
          \/ /\ apps' = PointerListRemove(i)
             /\ missed' = IF i < Len(apps) THEN missed \cup {apps[i + 1]} ELSE missed
             /\ UNCHANGED <<pid, status, proc>>
     ELSE UNCHANGED <<apps, pid, status, proc, missed>>
  /\ UNCHANGED <<chld, clocks, sig, size, pc, stopping, k>>

AlrmReturn ==
  /\ sig = "alrm" /\ i > size
  /\ sig' = "none"
  /\ i' = 0 /\ size' = 0
  /\ UNCHANGED <<apps, pid, status, missed, proc, chld, clocks, pc, stopping, k>>

-----------------------------------------------------------------------------
\* The main program.  Autostart runs with signals enabled: fork() and the
\* record of the child in app_t are two steps.
Autostart ==
  /\ pc = "boot"
  /\ \/ \E a \in Privileged, p \in Pids :
          /\ Fork(a, p)
          /\ cur' = a /\ child' = p
          /\ pc' = "forked"
     \/ /\ pc' = "accept"
        /\ UNCHANGED <<proc, cur, child>>
  /\ UNCHANGED <<apps, pid, status, missed, chld, clocks, sig, loops, killing, after>>

RecordChild ==
  /\ pc = "forked" /\ sig = "none"
  /\ status' = [status EXCEPT ![cur] = "STARTED"]
  /\ pid' = [pid EXCEPT ![cur] = child]
  /\ child' = NoPid
  /\ pc' = "accept"
  /\ UNCHANGED <<apps, missed, proc, chld, clocks, sig, loops, cur, killing, after>>

\* accept() fails: no more commands, but the applications are still managed.
Cripple ==
  /\ pc = "accept" /\ sig = "none"
  /\ pc' = "crippled"
  /\ UNCHANGED <<apps, pid, status, missed, proc, chld, clocks, sig, loops, stopping>>

\* The client's command is about application a.
Command(a) ==
  /\ pc = "accept" /\ sig = "none"
  /\ a \in Range(apps) \ Privileged

\* "setup": add_app() in a slot no process remembers.
Setup(a) ==
  /\ pc = "accept" /\ sig = "none"
  /\ a \notin Range(apps) \cup Privileged
  /\ \A p \in Pids : proc[p] # NoProc => proc[p].of # a
  /\ apps' = Append(apps, a)
  /\ pid' = [pid EXCEPT ![a] = NoPid]
  /\ status' = [status EXCEPT ![a] = "KILLED"]
  /\ missed' = missed \ {a}
  /\ UNCHANGED <<proc, chld, clocks, sig, loops, pc, stopping>>

\* "start"; a failure of start_app() changes nothing.
Start(a) ==
  /\ Command(a)
  /\ status[a] = "KILLED"
  /\ \E p \in Pids : Started(a, p)
  /\ UNCHANGED <<apps, chld, clocks, sig, loops, pc, stopping>>

\* stop_app(), up to its first sigtimedwait().
StopApp(a, caller) ==
  /\ status[a] \in {"STARTED", "TO_BE_KILLED"}
  /\ status' = [status EXCEPT ![a] = "TO_BE_KILLED"]
  /\ KillPg(pid[a], "SIGTERM")
  /\ cur' = a /\ after' = caller /\ killing' = FALSE
  /\ pc' = "stop"
  /\ UNCHANGED <<apps, pid, missed, chld, clocks, sig, loops, child>>

\* "remove" looks for the application in the list, takes it out and frees it.
Freed(a) ==
  /\ \E n \in DOMAIN apps : apps[n] = a /\ apps' = PointerListRemove(n)
  /\ pid' = [pid EXCEPT ![a] = NoPid]
  /\ status' = [status EXCEPT ![a] = "KILLED"]
  /\ missed' = missed \ {a}

\* "stop"
Stop(a) ==
  /\ Command(a)
  /\ \/ StopApp(a, "stop")
     \/ /\ status[a] \notin {"STARTED", "TO_BE_KILLED"}
        /\ status' = [status EXCEPT ![a] = "KILLED"]
        /\ UNCHANGED <<apps, pid, missed, proc, chld, clocks, sig, loops, pc, stopping>>

\* "remove"
RemoveApp(a) ==
  /\ Command(a)
  /\ \/ StopApp(a, "remove")
     \/ /\ status[a] \notin {"STARTED", "TO_BE_KILLED"}
        /\ Freed(a)
        /\ UNCHANGED <<proc, chld, clocks, sig, loops, pc, stopping>>

\* stop_app() returns to its caller; "remove" frees the application even if
\* it could not be stopped.
StopReturn ==
  /\ pc' = (IF after = "clean" THEN "waitpid" ELSE "accept")
  /\ IF after = "remove" THEN Freed(cur) ELSE UNCHANGED <<apps, pid, status, missed>>
  /\ UNCHANGED <<chld, clocks, sig, loops, stopping>>

\* sigtimedwait() takes a pending SIGCHLD and the handler is called.
StopGetsChld ==
  /\ pc = "stop" /\ chld
  /\ chld' = FALSE
  /\ sig' = "chld"
  /\ pc' = "timeleft"
  /\ UNCHANGED <<apps, pid, status, missed, proc, clocks, loops, stopping>>

\* The loop's condition: the time left is computed in whole seconds, and is 0
\* during the last one.
StopLoops ==
  /\ pc = "timeleft" /\ sig = "none"
  /\ \/ /\ status[cur] = "KILLED" \/ LastSecond
        /\ StopReturn
        /\ UNCHANGED proc
     \/ /\ status[cur] # "KILLED"
        /\ pc' = "stop"
        /\ UNCHANGED <<apps, pid, status, missed, proc, chld, clocks, sig, loops, stopping>>

\* sigtimedwait() times out: SIGKILL the first time, give up the second.  Five
\* seconds are enough for a child to reach setpgrp().
StopTimesOut ==
  /\ pc = "stop" /\ ~chld
  /\ proc[pid[cur]].st = "run" => proc[pid[cur]].grp
  /\ \/ /\ ~killing
        /\ killing' = TRUE
        /\ KillPg(pid[cur], "SIGKILL")
        /\ UNCHANGED <<apps, pid, status, missed, chld, clocks, sig, loops, pc, cur, after, child>>
     \/ /\ killing
        /\ StopReturn
        /\ UNCHANGED proc

\* "destroy": clean_all() with the signals blocked.
Destroy ==
  /\ pc = "accept" /\ sig = "none"
  /\ pc' = "clean"
  /\ k' = 1
  /\ UNCHANGED <<apps, pid, status, missed, proc, chld, clocks, sig, i, size, stopping>>

Clean ==
  /\ pc = "clean"
  /\ \/ /\ k <= Len(apps)
        /\ StopApp(apps[k], "clean")
     \/ /\ k <= Len(apps) => status[apps[k]] \notin {"STARTED", "TO_BE_KILLED"}
        /\ k' = k + 1
        /\ pc' = (IF k < Len(apps) THEN "clean" ELSE "exit")
        /\ UNCHANGED <<apps, pid, status, missed, proc, chld, clocks, sig, i, size, stopping>>

\* waitpid(pid, NULL, 0) blocks while the process runs.
WaitPid ==
  LET p == pid[cur] IN
  /\ pc = "waitpid"
  /\ proc[p].st # "run"
  /\ proc' = [proc EXCEPT ![p] = NoProc]
  /\ k' = k + 1
  /\ pc' = (IF k < Len(apps) THEN "clean" ELSE "exit")
  /\ UNCHANGED <<apps, pid, status, missed, chld, clocks, sig, i, size, stopping>>

Kernel == AlarmRings \/ \E p \in Pids : SetPgrp(p) \/ \E end \in Endings : Exit(p, end)
Handlers == ChldHandler \/ (\E p \in Pids : Reap(p)) \/ ChldReturn
            \/ AlrmHandler \/ Restart \/ AlrmReturn
Commands == \E a \in Apps : Setup(a) \/ Start(a) \/ Stop(a) \/ RemoveApp(a)
Stopping == StopGetsChld \/ StopLoops \/ StopTimesOut
Main == Autostart \/ RecordChild \/ Cripple \/ Destroy \/ Clean \/ WaitPid

Next == Kernel \/ Handlers \/ Commands \/ Stopping \/ Main

Spec == Init /\ [][Next]_vars

\* The kernel delivers a pending signal as soon as it is unblocked, before the
\* next command is read; the daemon's code keeps running; SIGKILL kills; the
\* alarm clock elapses.  Applications and clients may do nothing.
Fairness ==
  /\ SF_vars(ChldHandler) /\ SF_vars(AlrmHandler)
  /\ WF_vars(ChldReturn \/ Restart \/ AlrmReturn \/ \E p \in Pids : Reap(p))
  /\ WF_vars(RecordChild \/ Clean)
  /\ WF_vars(StopGetsChld \/ StopLoops) /\ WF_vars(StopTimesOut)
  /\ WF_vars(WaitPid)
  /\ WF_vars(AlarmRings)
  /\ \A p \in Pids : WF_vars(SetPgrp(p)) /\ WF_vars(Exit(p, "SIGKILL"))

FairSpec == Spec /\ Fairness

-----------------------------------------------------------------------------
\* Properties.

Has(a, p) == proc[p] # NoProc /\ proc[p].of = a

\* What the daemon believes agrees with the processes.  Every application that it
\* says is STARTED has its process, alive or waiting to be reaped: no death goes
\* unnoticed, in whatever order the signals and the commands come (start_app,
\* SIGCHLD_handler), except that of the autostarted application before
\* start_app() has recorded its pid.  Conversely, an application that is
\* stopped, or waits to be restarted, has no process left, so starting or
\* restarting it never makes a second instance.
ProcessesMatch ==
  /\ TypeOK
  /\ \A a \in Range(apps) \ missed :
       status[a] = "STARTED" => pid[a] \in Pids /\ Has(a, pid[a])
  /\ \A a \in Range(apps), p \in Pids :
       Has(a, p) => p = child \/ (status[a] \in {"STARTED", "TO_BE_KILLED"} /\ p = pid[a])

\* An application the user has stopped is not revived by a signal handler:
\* only a start command does (SIGCHLD_handler, SIGALRM_handler).
StoppedNotRestarted ==
  \A a \in Apps : status[a] = "KILLED" /\ sig # "none" => status'[a] = "KILLED"

\* When stop_app() leaves its loop because the condition is false, which is
\* answered "ok", the application is stopped.
StopOkMeansStopped ==
  pc = "timeleft" /\ pc' \notin {"timeleft", "stop"} => status[cur] = "KILLED"

\* After every step what the daemon believes agrees with the processes, and no
\* step makes its answers false: the applications it stopped stay stopped, and
\* "ok" means stopped.
BeliefsAreTrue == [][ProcessesMatch' /\ StoppedNotRestarted /\ StopOkMeansStopped]_vars

\* An application that ended with an error is restarted, or stopped by a
\* command, or taken out of the list because it cannot be started any more,
\* unless the daemon is stopped, or SIGALRM_handler passed over it because it
\* had just taken the application before it out of the list.
RestartHappens ==
  \A a \in Apps :
    a \in Range(apps) /\ status[a] = "TO_BE_RESTARTED"
      ~> \/ a \notin Range(apps) \/ status[a] # "TO_BE_RESTARTED"
         \/ a \in missed
         \/ pc \in {"clean", "exit"}

\* "destroy" stops the daemon, whatever the applications do (clean_all).
DestroyTerminates == pc = "clean" ~> pc = "exit"

\* The daemon does what it has begun: crashed applications are restarted, and
\* it ends when it is told to.
DaemonProceeds == RestartHappens /\ DestroyTerminates

=============================================================================
