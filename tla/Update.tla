------------------------------- MODULE Update -------------------------------
(***************************************************************************)
(* The software update process of the agent (agent/agent/update): a state  *)
(* machine of five steps, saved in flash so that a reboot resumes it, which *)
(* sends each component of a package to the asset that installs it.        *)
(*                                                                         *)
(* Tasks of the Lua scheduler run one at a time: what a task does between  *)
(* two blocking calls is one step here.  A blocking call is a notification *)
(* to a listener, a SoftwareUpdate command to an asset, the download, or   *)
(* the acknowledgement of the server's command.                            *)
(*                                                                         *)
(* hit remembers the disturbances that happened, so that what holds        *)
(* without them can be told from what they break:                          *)
(*   "late"      a result is taken although its update is over, or its     *)
(*               response timer has expired or not been started            *)
(*   "slow"      the response timer (40 s) expires, or the update ends,    *)
(*               while a SoftwareUpdate command (60 s) is not answered     *)
(*   "notifier"  the download ends while its periodic notification is not  *)
(*               answered                                                  *)
(*   "torn"      the agent stops between two saves of one task step        *)
(*   "stale"     the RAM copy of the state is dropped under blocked tasks  *)
(***************************************************************************)
EXTENDS Naturals, Sequences, FiniteSets, Bags

CONSTANTS N,            \* number of components of a package
          MaxRetries,   \* config.update.retries
          Protos,       \* protocols updates come from: "m3da", "localupdate"
          MayFail,      \* what may fail: "download", "check", "asset", "ack"
          Commands,     \* requests users make: "pause", "resume", "abort"
          MaxUpdates,   \* bound: updates
          MaxEvents     \* bound: requests of users, reboots of the agent, departures
                        \* of the asset and losses of the RAM copy, together

ASSUME UpdateAssumption ==
  /\ {N, MaxRetries, MaxUpdates, MaxEvents} \subseteq Nat
  /\ N > 0
  /\ Protos \subseteq {"m3da", "localupdate"}
  /\ MayFail \subseteq {"download", "check", "asset", "ack"}
  /\ Commands \subseteq {"pause", "resume", "abort"}

Cmps == 1 .. N
LastStep == 5

VARIABLES s,         \* the agent, see Init
          swlist,    \* data.swlist: the update each installed component is of
          last,      \* data.swlist.lastupdate
          registered,\* the asset is registered with the agent
          reported,  \* the successes the asset really had, as [id, c]
          acks,      \* acknowledgements sent for each update since boot
          hit,       \* the disturbances that happened
          started, requests, crashes, leaves, unloads   \* counters of the bounded events

counters == <<started, requests, crashes, leaves, unloads>>
vars == <<s, swlist, last, registered, reported, acks, hit, counters>>

\* A component of the manifest, and data.currentupdate.
Fresh == [retries |-> 0, result |-> "none"]
NoUpdate == [id |-> 0, proto |-> "none", step |-> 0, status |-> "none",
             request |-> "none", result |-> "none", index |-> 0,
             manifest |-> FALSE, comps |-> [c \in Cmps |-> Fresh]]

\* A task: what it does next (k), for which step or component (n), and what
\* it holds in local variables: the update its component belongs to (id; live
\* as long as that table is the RAM copy), and indextmp.
Task(k, n) == [k |-> k, n |-> n, id |-> 0, live |-> TRUE, idx |-> 0]
NoHook == Task("none", 0)
BootTask == Task("resume", 1)

-----------------------------------------------------------------------------
(* What a task does to the agent between two blocking calls.               *)

Run(a, t) == [a EXCEPT !.ready = Append(@, t)]          \* sched.run
Block(a, t) == [a EXCEPT !.blocked = @ (+) SetToBag({t})]
Raise(a) == [a EXCEPT !.raised = TRUE]                  \* a Lua error
Save(a) == [a EXCEPT !.disk = a.cur]                    \* savecurrentupdate
StopHooks(a) == [a EXCEPT !.timer = "off", !.hook = NoHook]

\* components[index] is not nil; without a manifest looking it up is an error.
Current(u) == u.manifest /\ u.index \in Cmps

\* Sends the start event, then blocks; the last step has none.
StepStart(a) ==
  CASE a.cur.step \in 1 .. LastStep - 1 -> Block(a, Task("started", 0))
    [] a.cur.step = LastStep -> Run(a, Task("step", LastStep))
    [] OTHER -> Raise(a)

StepFinished(a, result) ==
  IF a.cur.step \notin 1 .. LastStep THEN Raise(a)
  ELSE StepStart(Save(IF result = "success"
                      THEN [a EXCEPT !.cur.step = @ + 1]
                      ELSE [a EXCEPT !.cur.result = result, !.cur.step = LastStep]))

AbortUpdate(a) ==
  Save([a EXCEPT !.cur.status = "in_progress", !.cur.result = "aborted",
                 !.cur.step = LastStep, !.cur.request = "none"])

PauseUpdate(a) == Save([a EXCEPT !.cur.status = "paused", !.cur.request = "none"])

\* stepstart once the start event is sent: the request, then the step.
ApplyAtStart(a) ==
  LET go(b) == IF b.cur.step \in 1 .. LastStep
               THEN Run(b, Task("step", b.cur.step)) ELSE Raise(b)
  IN  CASE a.cur = NoUpdate -> Raise(a)
        [] a.cur.request = "abort" -> go(AbortUpdate(a))
        [] a.cur.request = "pause" -> PauseUpdate(a)
        [] a.cur.request = "resume" -> go(Save([a EXCEPT !.cur.request = "none"]))
        [] OTHER -> go(a)

\* stepprogress once the progress event is sent: the task is killed by a
\* request, otherwise it goes on as b.
ApplyInProgress(a, b) ==
  CASE a.cur = NoUpdate -> Raise(a)
    [] a.cur.request = "abort" -> Run(AbortUpdate(a), Task("stepstart", 0))
    [] a.cur.request = "pause" -> PauseUpdate(a)
    [] OTHER -> b

\* sendmsgasset once asscon.sendcmd has returned.
AfterSend(a, t, res) ==
  CASE a.cur = NoUpdate -> a
    [] a.cur # NoUpdate /\ (~ a.cur.manifest \/ t.idx \notin Cmps) -> Raise(a)
    [] a.cur.manifest /\ t.idx \in Cmps /\ a.cur.comps[t.idx].result # "none" -> a
    [] OTHER ->
        CASE res = "unknown assetid" /\ a.hook = NoHook -> Save([a EXCEPT !.hook = t])
          [] res = "ok" -> Save(a)
          [] OTHER -> StepFinished(StopHooks(a), "failed")

\* Mutant: no timer is started.
SendMsgUntimed(a, t) ==
  LET counted == IF t.live /\ a.cur.id = t.id
                 THEN [a EXCEPT !.cur.comps[t.n].retries = @ + 1] ELSE a
      call == [t EXCEPT !.k = "sent", !.idx = a.cur.index]
  IN  CASE a.cur = NoUpdate -> Raise(a)
        [] a.cur # NoUpdate /\ registered ->
             Block([counted EXCEPT !.jobs = @ \cup {[id |-> a.cur.id, c |-> t.n]},
                                   !.delivered[t.n] = @ + 1], call)
        [] OTHER -> AfterSend(counted, call, "unknown assetid")

\* sendmsgasset for the component of t, up to asscon.sendcmd, which does not
\* block when the asset is unknown.
SendMsgAsset(a, t) ==
  LET counted == IF t.live /\ a.cur.id = t.id
                 THEN [a EXCEPT !.cur.comps[t.n].retries = @ + 1] ELSE a
      armed == [counted EXCEPT !.timer = IF @ = "off" THEN "armed" ELSE @]
      call == [t EXCEPT !.k = "sent", !.idx = a.cur.index]
  IN  CASE a.cur = NoUpdate -> Raise(a)
        [] a.cur # NoUpdate /\ registered ->
             Block([armed EXCEPT !.jobs = @ \cup {[id |-> a.cur.id, c |-> t.n]},
                                 !.delivered[t.n] = @ + 1], call)
        [] OTHER -> AfterSend(armed, call, "unknown assetid")

\* alertcomponent: the progress event of the step, if it has one, blocks.
AlertComponent(a) ==
  LET t == [Task("alerted", a.cur.index) EXCEPT !.id = a.cur.id]
  IN  CASE ~ Current(a.cur) -> Raise(a)
        [] Current(a.cur) /\ a.cur.comps[a.cur.index].retries >= MaxRetries ->
             StepFinished(a, "failed")
        [] OTHER -> IF a.cur.step = 4 THEN Block(a, t) ELSE SendMsgAsset(a, t)

NextDispatchStep(a) ==
  LET next == Save([a EXCEPT !.cur.index = @ + 1])
      u == a.cur
  IN  CASE ~ u.manifest \/ u.index \notin 0 .. N -> Raise(a)
        [] u.manifest /\ (u.index = 0 \/ (u.index \in Cmps /\ u.comps[u.index].result = "ok")) ->
             IF u.index = N THEN StepFinished(next, "success") ELSE AlertComponent(next)
        [] OTHER -> IF u.comps[u.index].result = "none" THEN AlertComponent(a)
                    ELSE StepFinished(a, "failed")

-----------------------------------------------------------------------------
Init ==
  /\ s = [cur |-> NoUpdate,        \* data.currentupdate, the RAM copy
          disk |-> NoUpdate,       \* the same in flash
          ready |-> <<Task("localupdate", 0)>>,  \* tasks started with sched.run
          blocked |-> EmptyBag,    \* tasks in a blocking call
          timer |-> "off",         \* timercell
          hook |-> NoHook,         \* assetcxhook
          raised |-> FALSE,        \* a task ended with a Lua error
          jobs |-> {},             \* components the asset works on, as [id, c]
          delivered |-> [c \in Cmps |-> 0]]  \* SoftwareUpdate commands it got
  /\ swlist = [c \in Cmps |-> 0]
  /\ last = [id |-> 0, result |-> "none"]
  /\ registered = TRUE
  /\ reported = {}
  /\ acks = [i \in 1 .. MaxUpdates |-> 0]
  /\ hit = {}
  /\ started = 0 /\ requests = 0 /\ crashes = 0 /\ leaves = 0 /\ unloads = 0

\* The first ready task, of kind k, is run; a blocked task of kind k goes on.
Next1(k) == s.ready # << >> /\ Head(s.ready).k = k
Popped == [s EXCEPT !.ready = Tail(@)]
Waiting(k) == {t \in BagToSet(s.blocked) : t.k = k}
Unblocked(t) == [s EXCEPT !.blocked = @ (-) SetToBag({t})]

MayHappen == requests + crashes + leaves + unloads < MaxEvents

Hits(disturbed, name) == hit' = IF disturbed THEN hit \cup {name} ELSE hit

others == <<swlist, last, registered, reported, acks, counters>>
env == <<others, hit>>

(* Steps of the state machine.                                             *)

\* notifynewupdate; a refused update changes nothing.
NewUpdate(a, p) ==
  LET u == [NoUpdate EXCEPT !.id = started + 1, !.proto = p, !.step = 1,
                            !.status = "in_progress"]
  IN  /\ a.cur = NoUpdate /\ started < MaxUpdates
      /\ s' = StepStart(Save([a EXCEPT !.cur = u, !.delivered = [c \in Cmps |-> 0]]))
      /\ started' = started + 1
      /\ UNCHANGED <<swlist, last, registered, reported, acks, hit, requests, crashes, leaves, unloads>>

M3daUpdate == "m3da" \in Protos /\ NewUpdate(s, "m3da")

\* localupdate: there may be a package in the drop folder.
LocalUpdate ==
  /\ Next1("localupdate")
  /\ \/ "localupdate" \in Protos /\ NewUpdate(Popped, "localupdate")
     \/ s' = Popped /\ UNCHANGED env

ResumeUpdate ==
  /\ Next1("resume")
  /\ s' = IF s.cur.status = "paused" THEN Popped ELSE StepStart(Popped)
  /\ UNCHANGED env

StepStartTask == Next1("stepstart") /\ s' = StepStart(Popped) /\ UNCHANGED env

Started ==
  \E t \in Waiting("started") : s' = ApplyAtStart(Unblocked(t)) /\ UNCHANGED env

RunsStep(n) == Next1("step") /\ Head(s.ready).n = n

StartUpdate == RunsStep(1) /\ s' = StepFinished(Popped, "success") /\ UNCHANGED env

StartDownload ==
  /\ RunsStep(2)
  /\ s' = IF s.cur.proto = "m3da"
          THEN Block(Popped, [Task("download", 0) EXCEPT !.id = s.cur.id])
          ELSE StepFinished(Popped, "success")
  /\ UNCHANGED env

CheckPackage ==
  /\ RunsStep(3)
  /\ \/ s' = IF s.cur = NoUpdate THEN Raise(Popped)
             ELSE StepFinished([Popped EXCEPT !.cur.manifest = TRUE,
                                              !.cur.comps = [c \in Cmps |-> Fresh]], "success")
     \/ "check" \in MayFail /\ s' = StepFinished(Popped, "failed")
  /\ UNCHANGED env

StartDispatch ==
  /\ RunsStep(4)
  /\ s' = IF s.cur.manifest THEN NextDispatchStep(Popped) ELSE StepFinished(Popped, "failed")
  /\ UNCHANGED env

(* The download of step 2, which notifies its progress either from the     *)
(* download task, between two chunks, or from a periodic timer.            *)

FilterNotifies ==
  \E t \in Waiting("download") :
    /\ s.cur.step = 2 /\ Waiting("periodic") = {}
    /\ s' = Block(Unblocked(t), [t EXCEPT !.k = "filter"])
    /\ UNCHANGED env

FilterNotified ==
  \E t \in Waiting("filter") :
    /\ s' = ApplyInProgress(Unblocked(t), Block(Unblocked(t), [t EXCEPT !.k = "download"]))
    /\ UNCHANGED env

PeriodicNotifies ==
  \E t \in Waiting("download") :
    /\ s.cur.step = 2 /\ Waiting("periodic") = {}
    /\ s' = Block(s, [t EXCEPT !.k = "periodic"])
    /\ UNCHANGED env

\* A request stops the download (downloadfinalizer) unless it is over.
PeriodicNotified ==
  \E t \in Waiting("periodic") :
    LET d == [t EXCEPT !.k = "download"]
        a == Unblocked(t)
        stopped == [a EXCEPT !.blocked = @ (-) SetToBag({d})]
    IN  /\ s' = IF s.cur # NoUpdate /\ s.cur.request \in {"abort", "pause"}
                THEN ApplyInProgress(stopped, stopped) ELSE ApplyInProgress(a, a)
        /\ UNCHANGED env

DownloadEnds ==
  \E t \in Waiting("download") :
    /\ \/ s' = StepFinished(Unblocked(t), "success")
       \/ "download" \in MayFail /\ s' = StepFinished(Unblocked(t), "failed")
    /\ Hits(Waiting("periodic") # {}, "notifier")
    /\ UNCHANGED others

(* Step 4: the components, one after the other.                            *)

\* alertcomponent once the progress event is sent.
Alerted ==
  \E t \in Waiting("alerted") :
    /\ s' = ApplyInProgress(Unblocked(t), SendMsgAsset(Unblocked(t), t))
    /\ UNCHANGED env

SendMsgTask ==
  /\ Next1("sendmsg")
  /\ s' = SendMsgAsset(Popped, Head(s.ready))
  /\ UNCHANGED env

\* asscon.sendcmd returns what the asset answered, or an error.
Answered ==
  \E t \in Waiting("sent") :
    /\ \/ s' = AfterSend(Unblocked(t), t, "ok")
       \/ ("asset" \in MayFail \/ ~ registered) /\ s' = AfterSend(Unblocked(t), t, "refused")
    /\ UNCHANGED env

NextDispatchTask ==
  Next1("nextdispatch") /\ s' = NextDispatchStep(Popped) /\ UNCHANGED env

FailureTask ==
  Next1("failure") /\ s' = StepFinished(Popped, "failed") /\ UNCHANGED env

\* The timer runs assetresponsetimeout in a task of its own.
TimerFires ==
  /\ s.timer = "armed"
  /\ s' = Run([s EXCEPT !.timer = "fired"], Task("timeout", 0))
  /\ Hits(Waiting("sent") # {}, "slow")
  /\ UNCHANGED others

\* Mutant: the check of timercell is dropped.
TimeoutUnchecked ==
  /\ Next1("timeout")
  /\ s' = AlertComponent(StopHooks(Popped))
  /\ UNCHANGED env

AssetResponseTimeout ==
  /\ Next1("timeout")
  /\ s' = IF s.timer = "off" \/ s.cur = NoUpdate THEN Popped
          ELSE AlertComponent(StopHooks(Popped))
  /\ UNCHANGED env

\* EMPSoftwareUpdateResult: the result the asset reports for its job j.
Accepts(j) == s.cur.manifest /\ s.cur.index = j.c /\ s.cur.comps[j.c].result = "none"

OnTime(j) == s.timer # "off" /\ s.cur.id = j.id

Recorded(j, res) ==
  Save([s EXCEPT !.jobs = @ \ {j}, !.cur.comps[j.c].result = res])

\* Mutant: the version is stored whatever the result.
ResultStoresAll(j, res) ==
  /\ Accepts(j)
  /\ reported' = IF res = "ok" THEN reported \cup {j} ELSE reported
  /\ s' = Run(StopHooks(Recorded(j, res)),
              Task(IF res = "ok" THEN "nextdispatch" ELSE "failure", 0))
  /\ swlist' = [swlist EXCEPT ![j.c] = s.cur.id]
  /\ Hits(~ OnTime(j), "late")
  /\ UNCHANGED <<last, registered, acks, counters>>

SoftwareUpdateResult(j, res) ==
  LET a == [s EXCEPT !.jobs = @ \ {j}]
      nomanifest == s.cur # NoUpdate /\ ~ s.cur.manifest
  IN  /\ reported' = IF res = "ok" THEN reported \cup {j} ELSE reported
      /\ CASE nomanifest -> s' = Raise(a) /\ UNCHANGED swlist
           [] Accepts(j) ->
                /\ s' = Run(StopHooks(Recorded(j, res)),
                            Task(IF res = "ok" THEN "nextdispatch" ELSE "failure", 0))
                /\ swlist' = IF res = "ok" THEN [swlist EXCEPT ![j.c] = s.cur.id] ELSE swlist
           [] OTHER -> s' = a /\ UNCHANGED swlist
      /\ Hits(nomanifest \/ (Accepts(j) /\ ~ OnTime(j)), "late")
      /\ UNCHANGED <<last, registered, acks, counters>>

(* Step 5.                                                                 *)

\* savestate, then the final event; it concerns whatever update is current.
Ended(a) == Block(Save([a EXCEPT !.cur = NoUpdate]), Task("final", 0))

FinishUpdate ==
  LET a == Save([Popped EXCEPT !.cur.result = IF @ = "none" THEN "ok" ELSE @])
  IN  /\ RunsStep(5) /\ Hits(Waiting("sent") # {}, "slow")
      /\ CASE s.cur = NoUpdate -> s' = Raise(Popped) /\ UNCHANGED <<acks, last>>
           [] s.cur.proto = "m3da" ->
                /\ s' = Block(a, Task("ack", 0))
                /\ acks' = [acks EXCEPT ![s.cur.id] = @ + 1]
                /\ UNCHANGED last
           [] OTHER -> s' = Ended(a) /\ last' = [id |-> s.cur.id, result |-> a.cur.result]
                       /\ UNCHANGED acks
      /\ UNCHANGED <<swlist, registered, reported, counters>>

\* When racon.acknowledge fails the update stays, until the next boot.
Acknowledged ==
  \E t \in Waiting("ack") :
    /\ \/ /\ s' = IF s.cur = NoUpdate THEN Raise(Unblocked(t)) ELSE Ended(Unblocked(t))
          /\ last' = IF s.cur = NoUpdate THEN last
                     ELSE [id |-> s.cur.id, result |-> s.cur.result]
       \/ "ack" \in MayFail /\ s' = Unblocked(t) /\ UNCHANGED last
    /\ UNCHANGED <<swlist, registered, reported, acks, hit, counters>>

FinalNotified ==
  \E t \in Waiting("final") :
    s' = Run(Unblocked(t), Task("localupdate", 0)) /\ UNCHANGED env

(* Users, the asset, reboots and the cache.                                *)

\* EMPSoftwareUpdateRequest; no user is connected before the boot task has run.
SoftwareUpdateRequest(r) ==
  /\ MayHappen /\ requests' = requests + 1
  /\ s.cur # NoUpdate
  /\ s.ready # << >> => Head(s.ready) # BootTask
  /\ s' = CASE s.cur.status = "paused" /\ r = "resume" ->
                 Run(Save([s EXCEPT !.cur.status = "in_progress"]), Task("resume", 0))
            [] s.cur.status = "paused" /\ r = "abort" ->
                 Run(AbortUpdate(s), Task("stepstart", 0))
            [] s.cur.status = "paused" /\ r = "pause" -> s
            [] OTHER -> Save([s EXCEPT !.cur.request = r])
  /\ UNCHANGED <<swlist, last, registered, reported, acks, hit, started, crashes, leaves, unloads>>

AssetLeaves ==
  /\ registered /\ MayHappen
  /\ registered' = FALSE /\ leaves' = leaves + 1
  /\ UNCHANGED <<s, swlist, last, reported, acks, hit, started, requests, crashes, unloads>>

\* The hook on AssetRegistration sends the component again.
AssetRegisters ==
  /\ ~ registered /\ registered' = TRUE
  /\ s' = IF s.hook = NoHook THEN s
          ELSE Run(StopHooks(s), [s.hook EXCEPT !.k = "sendmsg"])
  /\ UNCHANGED <<swlist, last, reported, acks, hit, counters>>

\* The agent restarts from what is in flash (init).
Rebooted(a) ==
  [a EXCEPT !.cur = a.disk, !.blocked = EmptyBag, !.timer = "off", !.hook = NoHook,
            !.ready = <<IF a.disk = NoUpdate THEN Task("localupdate", 0) ELSE BootTask>>]

Boots(a) ==
  /\ MayHappen /\ crashes' = crashes + 1
  /\ s' = Rebooted(a) /\ registered' = FALSE
  /\ acks' = [i \in 1 .. MaxUpdates |-> 0]
  /\ UNCHANGED <<swlist, last, started, requests, leaves, unloads>>

Crash == Boots(s) /\ UNCHANGED <<reported, hit>>

\* After the first of the two saves of EMPSoftwareUpdateResult, and of the end
\* of the dispatch.
CrashInResult(j) ==
  /\ Accepts(j) /\ OnTime(j)
  /\ Boots(Recorded(j, "ok")) /\ reported' = reported \cup {j}
  /\ Hits(TRUE, "torn")

CrashInDispatch ==
  /\ Next1("nextdispatch")
  /\ s.cur.manifest /\ s.cur.index = N /\ s.cur.comps[N].result = "ok"
  /\ Boots(Save([s EXCEPT !.cur.index = @ + 1])) /\ UNCHANGED reported
  /\ Hits(TRUE, "torn")

\* unloadsubtable: the state is read again from flash, the tables that tasks
\* hold are no longer the ones that are saved.
Unload ==
  LET stale(t) == [t EXCEPT !.live = @ /\ t.id = 0]
      a == [s EXCEPT !.cur = s.disk, !.blocked = BagOfAll(stale, @), !.hook = stale(@),
                     !.ready = [i \in DOMAIN @ |-> stale(@[i])]]
  IN  /\ s.blocked # EmptyBag /\ s' = a
      /\ MayHappen /\ unloads' = unloads + 1
      /\ Hits(TRUE, "stale")
      /\ UNCHANGED <<swlist, last, registered, reported, acks, started, requests, crashes, leaves>>

Task1 ==
  \/ LocalUpdate \/ ResumeUpdate \/ StepStartTask \/ StartUpdate \/ StartDownload
  \/ CheckPackage \/ StartDispatch \/ SendMsgTask \/ NextDispatchTask \/ FailureTask
  \/ AssetResponseTimeout \/ FinishUpdate

Return ==
  \/ Started \/ FilterNotified \/ PeriodicNotified \/ DownloadEnds \/ Alerted
  \/ Answered \/ Acknowledged \/ FinalNotified

Next ==
  \/ Task1 \/ Return \/ TimerFires \/ M3daUpdate
  \/ FilterNotifies \/ PeriodicNotifies
  \/ \E j \in s.jobs : CrashInResult(j) \/ \E res \in {"ok", "failed"} : SoftwareUpdateResult(j, res)
  \/ \E r \in Commands : SoftwareUpdateRequest(r)
  \/ AssetLeaves \/ AssetRegisters \/ Crash \/ CrashInDispatch \/ Unload

Spec == Init /\ [][Next]_vars

\* The scheduler runs ready tasks, every blocking call returns (EMP commands
\* after 60 s at most, the download by its own time-out), and timers fire.
Fairness ==
  /\ WF_vars(Task1) /\ WF_vars(TimerFires)
  /\ WF_vars(Started) /\ WF_vars(FilterNotified) /\ WF_vars(PeriodicNotified)
  /\ SF_vars(DownloadEnds) /\ WF_vars(Alerted) /\ WF_vars(Answered)
  /\ WF_vars(Acknowledged) /\ WF_vars(FinalNotified)

FairSpec == Spec /\ Fairness

-----------------------------------------------------------------------------
(* Properties.                                                             *)

TaskType ==
  [k : {"none", "started", "step", "stepstart", "resume", "localupdate", "download", "filter",
        "periodic", "alerted", "sent", "sendmsg", "nextdispatch", "failure", "timeout",
        "ack", "final"},
   n : 0 .. LastStep + N, id : 0 .. MaxUpdates, live : BOOLEAN, idx : 0 .. N + 1]

UpdateType ==
  [id : 0 .. MaxUpdates, proto : Protos \cup {"none"}, step : 0 .. LastStep,
   status : {"none", "in_progress", "paused"}, request : {"none"} \cup Commands,
   result : {"none", "ok", "failed", "aborted"}, index : 0 .. N + 1, manifest : BOOLEAN,
   comps : [Cmps -> [retries : Nat, result : {"none", "ok", "failed"}]]]

\* Every variable keeps its type.
TypeOK ==
  /\ s.cur \in UpdateType /\ s.disk \in UpdateType
  /\ \A i \in DOMAIN s.ready : s.ready[i] \in TaskType
  /\ BagToSet(s.blocked) \subseteq TaskType /\ s.hook \in TaskType
  /\ s.timer \in {"off", "armed", "fired"} /\ s.raised \in BOOLEAN
  /\ swlist \in [Cmps -> 0 .. MaxUpdates] /\ registered \in BOOLEAN
  /\ hit \subseteq {"late", "slow", "notifier", "torn", "stale"}

\* Results, answers and the notifier came when the update waited for them.
InTime(h) == h \cap {"late", "slow", "notifier"} = {}

\* The asset gets the SoftwareUpdate command of a component at most
\* config.update.retries times in one update, and once more for each reboot and
\* each loss of the RAM copy, which may forget one attempt (sendmsgasset).
RetriesBounded ==
  InTime(hit) => \A c \in Cmps : s.delivered[c] <= MaxRetries + crashes + unloads

\* The retries are counted over reboots: the asset gets the command of a
\* component at most config.update.retries times (sendmsgasset).
RetriesKept == hit = {} => \A c \in Cmps : s.delivered[c] <= MaxRetries

\* No task of the update module indexes currentupdate, its manifest or a step
\* that is nil, unless a disturbance has happened.
NoLuaError == TypeOK /\ (hit = {} => ~ s.raised)

\* A component is in swlist with the version of an update only if the asset
\* reported the success of that component in that update; a result that comes
\* late may store the version of another update, but never a component that no
\* asset has installed.  Conversely, an update that ends as successful has every
\* component in swlist, unless the agent stopped between the save of a result
\* and the save of swlist.
SwlistIsTrue ==
  /\ \A c \in Cmps : swlist[c] # 0 => \E j \in reported : j.c = c
  /\ InTime(hit) =>
       /\ \A c \in Cmps : swlist[c] # 0 => [id |-> swlist[c], c |-> c] \in reported
       /\ last.result = "ok" /\ "torn" \notin hit => \A c \in Cmps : swlist[c] >= last.id

\* Between two boots, finish_update acknowledges the server's command once.
AckedOnce == InTime(hit) => \A i \in 1 .. MaxUpdates : acks[i] <= 1

\* What the server and the assets are told is bounded and true, and no handler
\* finds the state of the update gone, whatever stops, fails or comes again.
ToldIsTrue == RetriesBounded /\ NoLuaError /\ SwlistIsTrue /\ AckedOnce

\* Once a component has reported its result, it is not sent its update again.
NotResent ==
  \A c \in Cmps : s.cur.comps[c].result # "none" /\ s'.cur.id = s.cur.id
                 => s'.delivered[c] = s.delivered[c]

\* A paused update sends nothing to the asset and does not change step until a
\* request.
StillPaused ==
  s.cur.status = "paused"
    => \/ requests' > requests
       \/ /\ s'.delivered = s.delivered
          /\ s'.cur.step = s.cur.step /\ s'.cur.status = "paused"

\* An update that has reached its last step sends no more components, and the
\* result it has got is the one that is reported.
LastStepIsLast ==
  s.cur.step = LastStep /\ s'.cur.id = s.cur.id
    => /\ s'.delivered = s.delivered
       /\ s.cur.result # "none" => s'.cur.result = s.cur.result

\* No step undoes what a step before it has settled, reboots included: the
\* result of a component (SoftwareUpdateResult), a pause (the requests), the last
\* step and its result (finish_update).
SettledIsKept == [][InTime(hit') => NotResent /\ StillPaused /\ LastStepIsLast]_vars

\* An update that is started ends, or waits for the user who paused it, or for
\* the next boot when its acknowledgement has failed; unless the agent stopped
\* between two saves of one step.
UpdateEnds ==
  \A i \in 1 .. MaxUpdates :
    s.cur.id = i ~> \/ s.cur.id # i \/ s.cur.status = "paused"
                    \/ acks[i] > 0 /\ Waiting("ack") = {}
                    \/ ~ InTime(hit) \/ "torn" \in hit
=============================================================================
