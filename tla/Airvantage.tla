----------------------------- MODULE Airvantage -----------------------------
(***************************************************************************)
(* The AirVantage client library (cfwk/airvantage/swi_airvantage.c): the   *)
(* assets an application starts and destroys, the data sets that list them *)
(* (cfwk/racon/swi_dset.c), the threads that deliver the agent's messages, *)
(* the registration of every asset again after the agent restarted, and    *)
(* the rows of a table.                                                    *)
(*                                                                         *)
(* A client program uses either assets or the pushing functions, which     *)
(* share no state; "use" says which.  The mutex assets_lock is held by     *)
(* nobody ("free"), by a thread, or by a handler that returned without     *)
(* unlocking it ("lost"): CHECK_RETURN between lock and unlock.            *)
(***************************************************************************)
EXTENDS Integers, Sequences, FiniteSets, SequencesExt

CONSTANTS Threads,      \* threads of the application
          Handlers,     \* threads emp.c creates for the agent's messages
          Assets,       \* asset ids; an id names one object
          Columns,      \* columns of the table
          Values,       \* 64-bit integers: [hi, lo], two 32-bit halves
          Paths,        \* data paths: sequences of segments, "" an empty one
          MaxMsgs,      \* messages the agent sends
          MaxRestarts,  \* restarts of the agent
          MaxFaults,    \* requests that fail and allocations refused
          MaxCells      \* cells pushed in the table

VARIABLES lib,   \* [use, lock, list, idx, cur]
          obj,   \* what asset_Create allocated, per asset
          thr,   \* the threads: [pc, on, kind]
          ra,    \* the agent: [reg, msgs, restarts, faults]
          tab,   \* the table and the last data pushed
          hist   \* the windows met and the invalid calls made

vars == <<lib, obj, thr, ra, tab, hist>>

Rereg == "empReregisterServices"
None == "none"
Everyone == Threads \cup Handlers \cup {Rereg}
Idle == [pc |-> "idle", on |-> None, kind |-> None]

Init ==
  /\ \E use \in {"assets", "push"} :
       lib = [use |-> use, lock |-> "free", list |-> <<>>, idx |-> 0, cur |-> None]
  /\ obj = [a \in Assets |-> [mem |-> "none", started |-> FALSE, cb |-> None]]
  /\ thr = [t \in Everyone |-> Idle]
  /\ ra = [reg |-> {}, msgs |-> 0, restarts |-> 0, faults |-> 0]
  /\ tab = [open |-> FALSE, row |-> <<>>, stored |-> <<>>, cells |-> 0, last |-> <<>>]
  /\ hist = [late |-> {}, held |-> {}, crossed |-> {}, missed |-> {}, bad |-> {}]

Goes(t, pc, on) == thr' = [thr EXCEPT ![t].pc = pc, ![t].on = on]
Ends(t) == thr' = [thr EXCEPT ![t] = Idle]
Holds(t) == lib.lock = t
Fault(n) == ra.faults + n <= MaxFaults

(* ---------------------------------------------------------------------- *)
(* swi_dset: the list of assets.  idx is currentIndex + 1 (0 before the    *)
(* first element), cur the asset of currentElt.                            *)
(* ---------------------------------------------------------------------- *)
dset_PushData(l, a) == [l EXCEPT !.list = Append(@, a)]

findByName(l, a) == SelectInSeq(l.list, LAMBDA e : e = a)

swi_dset_RemoveByName(l, a) ==
  IF findByName(l, a) = 0 THEN l
  ELSE [l EXCEPT !.list = RemoveAt(@, findByName(l, a)), !.idx = 0, !.cur = None]

swi_dset_Next(l) ==
  IF l.idx + 1 > Len(l.list) THEN l
  ELSE [l EXCEPT !.idx = @ + 1, !.cur = l.list[l.idx + 1]]

swi_dset_Rewind(l) == [l EXCEPT !.idx = 0]

(* ---------------------------------------------------------------------- *)
(* Assets                                                                  *)
(* ---------------------------------------------------------------------- *)
\* malloc leaves the callbacks as they were in memory: null or anything.
swi_av_asset_Create(a) ==
  /\ lib.use = "assets" /\ obj[a].mem = "none"
  /\ \E junk \in {None, "junk"} :
       obj' = [obj EXCEPT ![a] = [mem |-> "live", started |-> FALSE, cb |-> junk]]
  /\ UNCHANGED <<lib, thr, ra, tab, hist>>

\* RegisterDataWrite and RegisterUpdateNotification: a callback, or null.
swi_av_RegisterDataWrite(a, cb) ==
  /\ obj[a].mem = "live" /\ obj[a].cb # cb
  /\ obj' = [obj EXCEPT ![a].cb = cb]
  /\ UNCHANGED <<lib, thr, ra, tab, hist>>

\* The agent's side of a request: done or refused, its answer lost or not.
\* An answer that is not RC_OK is counted as a fault unless the agent refused.
Answer(accepted, done, ok) ==
  /\ ok => done
  /\ done => accepted
  /\ \/ ok
     \/ ~done /\ ~accepted
     \/ Fault(1)

Used(accepted, done, ok) == IF ~ok /\ (done \/ accepted) THEN 1 ELSE 0

\* swi_av_asset_Start up to the registration it sends.
swi_av_asset_Start(t, a) ==
  /\ thr[t].pc = "idle" /\ obj[a].mem = "live" /\ ~obj[a].started
  /\ \A u \in Threads : thr[u].on # a
  /\ Goes(t, "registering", a)
  /\ UNCHANGED <<lib, obj, ra, tab, hist>>

\* The agent refuses the name of an asset it already has.
send_asset_registration(t) ==
  LET a == thr[t].on IN
  /\ thr[t].pc = "registering"
  /\ \E done, ok \in BOOLEAN :
       /\ Answer(a \notin ra.reg, done, ok)
       /\ ra' = [ra EXCEPT !.reg = IF done THEN @ \cup {a} ELSE @,
                           !.faults = @ + Used(a \notin ra.reg, done, ok)]
       /\ IF ok THEN /\ obj' = [obj EXCEPT ![a].started = TRUE]
                     /\ Goes(t, "pushing", a)
                ELSE UNCHANGED obj /\ Ends(t)
  /\ UNCHANGED <<lib, tab, hist>>

\* The asset joins the list under the lock, or the list cannot grow.
StartPush(t) ==
  LET a == thr[t].on IN
  /\ thr[t].pc = "pushing" /\ lib.lock = "free"
  /\ \/ /\ lib' = dset_PushData(lib, a)
        /\ UNCHANGED <<ra, hist>>
     \/ /\ Fault(1)
        /\ ra' = [ra EXCEPT !.faults = @ + 1]
        /\ hist' = [hist EXCEPT !.missed = @ \cup {a}]
        /\ UNCHANGED lib
  /\ Ends(t)
  /\ UNCHANGED <<obj, tab>>

\* An asset that was not started is left alone, and stays allocated.
swi_av_asset_Destroy(t, a) ==
  /\ thr[t].pc = "idle" /\ obj[a].mem = "live" /\ obj[a].started
  /\ \A u \in Threads : thr[u].on # a
  /\ Goes(t, "unregistering", a)
  /\ UNCHANGED <<lib, obj, ra, tab, hist>>

DestroyAnswer(t) ==
  LET a == thr[t].on IN
  /\ thr[t].pc = "unregistering"
  /\ \E done, ok \in BOOLEAN :
       /\ Answer(a \in ra.reg, done, ok)
       /\ ra' = [ra EXCEPT !.reg = IF done THEN @ \ {a} ELSE @,
                           !.faults = @ + Used(a \in ra.reg, done, ok)]
       /\ hist' = [hist EXCEPT !.missed = IF done /\ ~ok THEN @ \cup {a} ELSE @]
       /\ IF ok THEN Goes(t, "removing", a) ELSE Ends(t)
  /\ UNCHANGED <<lib, obj, tab>>

\* Mutant of DestroyRemove: the asset is freed, and only then removed.
FreeThenRemove(t) ==
  /\ thr[t].pc = "removing"
  /\ obj' = [obj EXCEPT ![thr[t].on].mem = "freed"]
  /\ Goes(t, "freeing", thr[t].on)
  /\ UNCHANGED <<lib, ra, tab, hist>>

DestroyRemove(t) ==
  /\ thr[t].pc = "removing" /\ lib.lock = "free"
  /\ lib' = swi_dset_RemoveByName(lib, thr[t].on)
  /\ Goes(t, "freeing", thr[t].on)
  /\ UNCHANGED <<obj, ra, tab, hist>>

Holders(a) == {h \in Handlers \cup {Rereg} : thr[h].on = a}

DestroyFree(t) ==
  LET a == thr[t].on IN
  /\ thr[t].pc = "freeing"
  /\ obj' = [obj EXCEPT ![a].mem = "freed"]
  /\ hist' = [hist EXCEPT !.held = @ \cup Holders(a)]
  /\ Ends(t)
  /\ UNCHANGED <<lib, ra, tab>>

(* ---------------------------------------------------------------------- *)
(* Messages of the agent, each in a thread of its own.                     *)
(* ---------------------------------------------------------------------- *)
\* readMessage: what parsing makes of a data message.  "bad" is refused
\* before the lookup of the asset, a body of an unknown class after it.
readMessage == {"bad", "write", "command", "response", "unknown class"}

\* The body classes whose processing is followed by the callback; processCommand
\* may have refused the arguments, the callback is called all the same.
processed == readMessage \ {"bad", "unknown class"}

\* A handler's thread, up to its lookup; called says whether it may get as far
\* as the callback.
Received(h, a, refused, called) ==
  /\ thr[h].pc = "idle" /\ a \in ra.reg /\ ra.msgs < MaxMsgs
  /\ thr' = [thr EXCEPT ![h] = IF refused THEN Idle
                                ELSE [pc |-> "lookup", on |-> None, kind |-> <<a, called>>]]
  /\ ra' = [ra EXCEPT !.msgs = @ + 1]
  /\ UNCHANGED <<lib, obj, tab, hist>>

empSendDataHdlr(h, a, msg) == Received(h, a, msg = "bad", msg \in processed)

\* An update notification is an array of three strings and its parameters.
empUpdateNotifHdlr(h, a, msg) == Received(h, a, msg = "bad", TRUE)

Lookup(h) ==
  LET a == thr[h].kind[1] IN
  /\ thr[h].pc = "lookup" /\ lib.lock = "free"
  /\ IF findByName(lib, a) = 0
     THEN /\ lib' = [lib EXCEPT !.lock = "lost"]
          /\ hist' = [hist EXCEPT !.late = @ \cup {a}]
          /\ Ends(h)
     ELSE /\ thr' = [thr EXCEPT ![h].pc = "check", ![h].on = a]
          /\ UNCHANGED <<lib, hist>>
  /\ UNCHANGED <<obj, ra, tab>>

\* Reads of the asset: what goes wrong is recorded, with the thread it hit.
Reads(h, what) == hist' = [hist EXCEPT !.bad = @ \cup {<<what, h>>}]

\* if (asset->dwCb), then the body is turned into a data set.
Check(h) ==
  LET a == thr[h].on IN
  /\ thr[h].pc = "check"
  /\ IF obj[a].mem = "freed" THEN Reads(h, "freed") /\ Ends(h)
     ELSE /\ IF obj[a].cb = None \/ ~thr[h].kind[2] THEN Ends(h)
             ELSE Goes(h, "call", a)
          /\ UNCHANGED hist
  /\ UNCHANGED <<lib, obj, ra, tab>>

\* asset->dwCb(...), read again.
Call(h) ==
  LET a == thr[h].on IN
  /\ thr[h].pc = "call"
  /\ IF obj[a].mem = "freed" THEN Reads(h, "freed")
     ELSE IF obj[a].cb = None THEN Reads(h, "null")
     ELSE IF obj[a].cb = "junk" THEN Reads(h, "junk")
     ELSE UNCHANGED hist
  /\ Ends(h)
  /\ UNCHANGED <<lib, obj, ra, tab>>

(* ---------------------------------------------------------------------- *)
(* Restart of the agent, and the registrations sent again.                 *)
(* ---------------------------------------------------------------------- *)
Starting == {thr[t].on : t \in {u \in Threads : thr[u].pc = "pushing"}}

AgentRestart ==
  /\ lib.use = "assets" /\ ra.restarts < MaxRestarts /\ thr[Rereg].pc = "idle"
  /\ ra' = [ra EXCEPT !.reg = {}, !.restarts = @ + 1]
  /\ hist' = [hist EXCEPT !.crossed = @ \cup Starting]
  /\ Goes(Rereg, "next", None)
  /\ UNCHANGED <<lib, obj, tab>>

ReregNext ==
  /\ thr[Rereg].pc = "next"
  /\ IF swi_dset_Next(lib) = lib
     THEN lib' = swi_dset_Rewind(lib) /\ Ends(Rereg)
     ELSE lib' = swi_dset_Next(lib) /\ Goes(Rereg, "read", None)
  /\ UNCHANGED <<obj, ra, tab, hist>>

\* swi_dset_ToInteger: null once another thread has removed an asset.
ReregRead ==
  /\ thr[Rereg].pc = "read"
  /\ IF lib.cur = None THEN Reads(Rereg, "null") /\ Ends(Rereg)
     ELSE Goes(Rereg, "deref", lib.cur) /\ UNCHANGED hist
  /\ UNCHANGED <<lib, obj, ra, tab>>

\* send_asset_registration reads the asset's id, then waits for the answer.
ReregSend ==
  LET a == thr[Rereg].on IN
  /\ thr[Rereg].pc = "deref"
  /\ IF obj[a].mem = "freed"
     THEN Reads(Rereg, "freed") /\ Ends(Rereg) /\ UNCHANGED ra
     ELSE \E done, ok \in BOOLEAN :
            /\ Answer(a \notin ra.reg, done, ok)
            /\ ra' = [ra EXCEPT !.reg = IF done THEN @ \cup {a} ELSE @,
                                !.faults = @ + Used(a \notin ra.reg, done, ok)]
            /\ hist' = [hist EXCEPT !.missed = IF done \/ a \in ra.reg THEN @ ELSE @ \cup {a}]
            /\ Goes(Rereg, "next", None)
  /\ UNCHANGED <<lib, obj, tab>>

(* ---------------------------------------------------------------------- *)
(* Pushing data: swi_av_asset_Push* and the table.                         *)
(* ---------------------------------------------------------------------- *)
\* get_path_element(0, ...): parent and last segment, or RC_BAD_PARAMETER
\* for a dot at an end and for two dots in a row.
get_path_element(path) ==
  IF \E i \in DOMAIN path : path[i] = "" THEN <<>>
  ELSE <<Front(path), Last(path)>>

\* *(int *)valuePtr: the low half of the int64_t, sign extended.
AsInt(v) == [hi |-> IF v.lo < 0 THEN -1 ELSE 0, lo |-> v.lo]

swi_av_asset_Push(path, v) ==
  LET split == get_path_element(path) IN
  /\ lib.use = "push"
  /\ tab' = [tab EXCEPT !.last =
       [path |-> path, value |-> v,
        sent |-> IF split = <<>> THEN <<>> ELSE <<split[1], split[2], AsInt(v)>>]]
  /\ UNCHANGED <<lib, obj, thr, ra, hist>>

swi_av_table_Create ==
  /\ lib.use = "push" /\ ~tab.open /\ tab.cells = 0
  /\ \E done, ok \in BOOLEAN :
       /\ Answer(TRUE, done, ok)
       /\ ra' = [ra EXCEPT !.faults = @ + Used(TRUE, done, ok)]
       /\ tab' = [tab EXCEPT !.open = ok]
  /\ UNCHANGED <<lib, obj, thr, hist>>

\* PushInteger, PushFloat and PushString: one cell, numbered.
swi_av_table_PushInteger ==
  /\ tab.open /\ tab.cells < MaxCells /\ Len(tab.row) < Columns
  /\ tab' = [tab EXCEPT !.row = Append(@, tab.cells + 1), !.cells = @ + 1]
  /\ UNCHANGED <<lib, obj, thr, ra, hist>>

\* The row is forgotten only when the agent answered RC_OK.
swi_av_table_PushRow ==
  /\ tab.open
  /\ tab.row # <<>>
  /\ \E done, ok \in BOOLEAN :
       /\ Answer(TRUE, done, ok)
       /\ ra' = [ra EXCEPT !.faults = @ + Used(TRUE, done, ok)]
       /\ tab' = [tab EXCEPT !.stored = IF done THEN Append(@, [row |-> tab.row, ok |-> ok]) ELSE @,
                             !.row = IF ok THEN <<>> ELSE @]
  /\ UNCHANGED <<lib, obj, thr, hist>>

\* The agent resets its table; the client's is freed once that is answered.
swi_av_table_Destroy ==
  /\ tab.open
  /\ \E done, ok \in BOOLEAN :
       /\ Answer(TRUE, done, ok)
       /\ ra' = [ra EXCEPT !.faults = @ + Used(TRUE, done, ok)]
       /\ tab' = [tab EXCEPT !.open = ~ok, !.row = IF ok THEN <<>> ELSE @]
  /\ UNCHANGED <<lib, obj, thr, hist>>

Next ==
  \/ \E a \in Assets :
       \/ swi_av_asset_Create(a)
       \/ \E cb \in {None, "set"} : swi_av_RegisterDataWrite(a, cb)
       \/ \E t \in Threads : swi_av_asset_Start(t, a) \/ swi_av_asset_Destroy(t, a)
       \/ \E h \in Handlers, msg \in readMessage : empSendDataHdlr(h, a, msg)
       \/ \E h \in Handlers, msg \in {"bad", "update"} : empUpdateNotifHdlr(h, a, msg)
  \/ \E t \in Threads :
       \/ send_asset_registration(t) \/ StartPush(t)
       \/ DestroyAnswer(t) \/ DestroyRemove(t) \/ DestroyFree(t)
  \/ \E h \in Handlers : Lookup(h) \/ Check(h) \/ Call(h)
  \/ AgentRestart \/ ReregNext \/ ReregRead \/ ReregSend
  \/ \E path \in Paths, v \in Values : swi_av_asset_Push(path, v)
  \/ swi_av_table_Create \/ swi_av_table_PushInteger
  \/ swi_av_table_PushRow \/ swi_av_table_Destroy

Spec == Init /\ [][Next]_vars

(* ---------------------------------------------------------------------- *)
(* Properties                                                              *)
(* ---------------------------------------------------------------------- *)
\* What the list of assets holds can be used: its assets are allocated and
\* started, and listed once; an asset that was started stays listed until its
\* destruction, unless the list could not grow.  So a handler, or the thread
\* that registers again, reads a freed asset only when the asset was destroyed
\* after the lookup or the iteration had returned its address.
AssetsListed ==
  /\ IsInjective(lib.list)
  /\ \A a \in ToSet(lib.list) : obj[a].mem = "live" /\ obj[a].started
  /\ \A a \in Assets :
       obj[a].mem = "live" /\ obj[a].started /\ a \notin hist.missed
         => \/ a \in ToSet(lib.list)
            \/ \E t \in Threads : thr[t].on = a
  /\ \A b \in hist.bad : b[1] = "freed" => b[2] \in hist.held

\* Once the registrations have been sent again after a restart, the agent
\* knows every listed asset, except those whose own registration was
\* answered by the agent that stopped, those it failed to register, and those
\* it unregistered without the library being told.
RegisteredAgain ==
  thr[Rereg].pc = "idle" /\ <<"null", Rereg>> \notin hist.bad /\ <<"freed", Rereg>> \notin hist.bad
    => \A a \in ToSet(lib.list) :
         \/ a \in ra.reg \cup hist.crossed \cup hist.missed
         \/ \E t \in Threads : thr[t].on = a

\* The rows the agent acknowledged hold the cells that were pushed, each
\* once, in the order they were pushed; a row whose answer was lost is sent
\* again with all its cells.  A value pushed on a path is sent under that path,
\* and as it was pushed when it fits in an int.
PushedArrives ==
  LET acked == SelectSeq(tab.stored, LAMBDA r : r.ok)
      cells == FlattenSeq([i \in DOMAIN acked |-> acked[i].row])
  IN /\ \A i \in DOMAIN cells : cells[i] = i
     /\ tab.open => cells \o tab.row = [i \in 1..tab.cells |-> i]
     /\ tab.last # <<>> /\ tab.last.sent # <<>> =>
          /\ Append(tab.last.sent[1], tab.last.sent[2]) = tab.last.path
          /\ tab.last.value.hi = (IF tab.last.value.lo < 0 THEN -1 ELSE 0)
               => tab.last.sent[3] = tab.last.value

=============================================================================
